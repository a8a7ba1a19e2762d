------------------------------- MODULE SaveData -----------------------------
(***************************************************************************)
(* What mods keep in the savegame: PersistentVars, and the user and mod    *)
(* variables with the persistent timers (the extras).  A save's read puts  *)
(* each kind into a cache (src/src/savegame.cpp: g_saved, g_extras) that   *)
(* is handed to the server's Lua state once, after the mods' bootstraps; a *)
(* save's write asks the state, and falls back on the cache for what the   *)
(* state cannot answer.  Sessions and Ext.Debug.Reset replace the state in *)
(* between, the cache stays.                                               *)
(*                                                                         *)
(* The save is read before its story is worked, by any thread (external).  *)
(* The LSF nodes, the value types and a JSON text that does not parse are  *)
(* left out; all of a mod's variables of a kind are one value.             *)
(***************************************************************************)
EXTENDS Naturals, FiniteSets

CONSTANTS Mods,        (* mods that saves may have data of                   *)
          Installed,   (* those that load                                    *)
          Supported,   (* of these, those that ask for version 4 or later    *)
          Starting,    (* and those whose bootstrap sets PersistentVars = {} *)
          Slots,       (* where saves are kept                               *)
          None,        (* nil                                                *)
          MaxGames,    (* bound: games begun                                 *)
          MaxLoads,    (* bound: saves loaded                                *)
          MaxSets,     (* bound: values set by mods                          *)
          MaxResets    (* bound: resets a script asks for                    *)

Kinds == {"LuaVariables", "Extras"}

(* A value tells the game it was set in; 0 is a game of somebody else's.    *)
Value(game, nth) == [game |-> game, nth |-> nth]
Empty  == Value(0, 0)
Values == [game : 0..MaxGames, nth : 0..MaxSets]
Data   == [Mods -> Values \cup {None}]
Nothing == [m \in Mods |-> None]

ASSUME ConstantsAssumption ==
    /\ Installed \subseteq Mods /\ Supported \subseteq Installed /\ Starting \subseteq Installed
    /\ None \notin Values
    /\ MaxGames \in Nat /\ MaxLoads \in Nat /\ MaxSets \in Nat \ {0} /\ MaxResets \in Nat

VARIABLES
    phase,     (* the engine: the menu, a save being read, a session         *)
    game,      (* the engine: the game being played                          *)
    file,      (* the saves, and which kinds this extender reads from each   *)
    reading,   (* the save this game was loaded from, if any                 *)
    loaded,    (* mods_loaded, of the server's state                         *)
    held,      (* that state's values                                        *)
    cache,     (* g_saved, g_extras                                          *)
    pending,   (* g_restore_pending, g_extras_pending                        *)
    games, loads, sets, resets,  (* how much of the bounds is used           *)
    base,      (* history: what the save this game was loaded from held      *)
    due,       (* history: that, and what mods have set since                *)
    spoiled,   (* history: something got between the save and the mods       *)
    answered   (* history: what the state answered for the last save         *)

luaVars    == <<loaded, held>>
cacheVars  == <<cache, pending>>
boundVars  == <<games, loads, sets, resets>>
historyVars == <<base, due, spoiled, answered>>
vars == <<phase, game, file, reading, luaVars, cacheVars, boundVars, historyVars>>

(* Saves that are there at launch: none; one made without the extender or   *)
(* by a later version, which is not read; one from before version 9.        *)
Foreign == {[game |-> 0, has |-> has,
             data |-> [k \in Kinds |-> [m \in Mods |-> IF k \in has THEN Value(0, 1) ELSE None]]]
               : has \in {{}, {"LuaVariables"}, Kinds}}

Init ==
    /\ phase = "menu" /\ game = 0
    /\ file \in [Slots -> Foreign]
    /\ reading = None
    /\ loaded = FALSE /\ held = [k \in Kinds |-> Nothing]
    /\ cache = [k \in Kinds |-> Nothing] /\ pending = [k \in Kinds |-> FALSE]
    /\ games = 0 /\ loads = 0 /\ sets = 0 /\ resets = 0
    /\ base = [k \in Kinds |-> Nothing] /\ due = [k \in Kinds |-> Nothing]
    /\ spoiled = FALSE /\ answered = [kinds |-> {}, mods |-> {}]

-----------------------------------------------------------------------------
(* RestorePersistentVars gives each loaded mod what the save had for it;    *)
(* RestoreSaveExtras clears the variables and puts all of the save's there. *)
Restored(k, values, saved) ==
    [m \in Mods |-> IF k = "Extras" \/ (m \in Installed /\ saved[m] # None)
                    THEN saved[m] ELSE values[m]]

NewState == [k \in Kinds |-> Nothing]

(* What the bootstraps leave in a state: variables stay when registered.    *)
Bootstrapped(values) ==
    [k \in Kinds |-> [m \in Mods |->
        IF k = "LuaVariables" /\ m \in Starting THEN Empty ELSE values[k][m]]]

(* Something of the game before is in the server's state.                   *)
Leftover == loaded \/ held # NewState

(* The engine starts a game or reads a save: nothing of bg3le's yet.        *)
NewGame ==
    /\ phase = "menu" /\ games < MaxGames
    /\ phase' = "loading"
    /\ games' = games + 1 /\ game' = games + 1
    /\ base' = [k \in Kinds |-> Nothing] /\ due' = Bootstrapped(NewState)
    /\ spoiled' = (Leftover \/ \E k \in Kinds : pending[k])
    /\ reading' = None
    /\ UNCHANGED <<file, luaVars, cacheVars, loads, sets, resets, answered>>

LoadGame(s) ==
    /\ phase = "menu" /\ loads < MaxLoads
    /\ phase' = "LuaVariables"
    /\ loads' = loads + 1
    /\ game' = file[s].game /\ reading' = file[s]
    /\ base' = [k \in Kinds |-> IF k \in file[s].has THEN file[s].data[k] ELSE Nothing]
    /\ due' = [k \in Kinds |-> [m \in Mods |->
                   IF base'[k][m] # None THEN base'[k][m] ELSE Bootstrapped(NewState)[k][m]]]
    /\ spoiled' = (Leftover \/ \E k \in Kinds \ file[s].has : pending[k])
    /\ UNCHANGED <<file, luaVars, cacheVars, games, sets, resets, answered>>

(* savegame_visit of one kind: read_persistent_variables, visit_extras.     *)
(* On the story's thread it is handed over at once, PersistentVars only if  *)
(* the mods are loaded.                                                     *)
MayTake(k) == k = "Extras" \/ loaded
Then(k) == IF k = "LuaVariables" THEN "Extras" ELSE "loading"

Read(k) ==
    /\ phase = k
    /\ phase' = Then(k)
    /\ IF k \in reading.has
       THEN /\ cache' = [cache EXCEPT ![k] = reading.data[k]]
            /\ \E onStory \in BOOLEAN :
                  /\ held' = IF onStory /\ MayTake(k)
                             THEN [held EXCEPT ![k] = Restored(k, @, reading.data[k])] ELSE held
                  /\ pending' = [pending EXCEPT ![k] = ~(onStory /\ MayTake(k))]
       ELSE UNCHANGED <<cache, held, pending>>
    /\ UNCHANGED <<game, file, reading, loaded, boundVars, historyVars>>

-----------------------------------------------------------------------------
(* lua_load_mods: the bootstraps, once per state, then what a save left.    *)
HandedOver(values) ==
    [k \in Kinds |-> IF pending[k] THEN Restored(k, values[k], cache[k]) ELSE values[k]]

\* Mutant: hands the values over before the bootstraps run.
RestoredFirst(values) == IF loaded THEN HandedOver(values) ELSE Bootstrapped(values)
LoadMods(values) == HandedOver(IF loaded THEN values ELSE Bootstrapped(values))

Taken == [k \in Kinds |-> FALSE]

(* dump_once, when the story comes up.                                      *)
Work ==
    /\ phase = "loading"
    /\ phase' = "session"
    /\ held' = LoadMods(held) /\ loaded' = TRUE
    /\ pending' = Taken
    /\ UNCHANGED <<game, file, reading, cache, boundVars, historyVars>>

(* Ext.Debug.Reset on the server's tick: lua_reset(true).                   *)
ResetInSession ==
    /\ phase \in {"loading", "session"} /\ resets < MaxResets
    /\ resets' = resets + 1
    /\ held' = HandedOver(Bootstrapped(NewState)) /\ loaded' = TRUE
    /\ pending' = Taken
    /\ spoiled' = (spoiled \/ Leftover)
    /\ UNCHANGED <<phase, game, file, reading, cache, games, loads, sets, base, due, answered>>

(* And on the client's, where no story is ready: lua_reset(false).          *)
Dropped == loaded' = FALSE /\ held' = NewState

ResetOutside ==
    /\ phase # "session" /\ resets < MaxResets
    /\ resets' = resets + 1
    /\ Dropped
    /\ spoiled' = (spoiled \/ Leftover)
    /\ UNCHANGED <<phase, game, file, reading, cacheVars, games, loads, sets, base, due, answered>>

(* note_session_ended: both states are rebuilt if the story was worked.     *)
EndSession ==
    /\ phase \in {"loading", "session"}
    /\ phase' = "menu"
    /\ IF phase = "session" THEN Dropped ELSE UNCHANGED luaVars
    /\ UNCHANGED <<game, file, reading, cacheVars, boundVars, historyVars>>

(* A mod sets its PersistentVars or a variable, or clears it.               *)
Set(k, m, value) ==
    /\ phase = "session" /\ loaded /\ m \in Installed /\ sets < MaxSets
    /\ sets' = sets + 1
    /\ held' = [held EXCEPT ![k][m] = value]
    /\ due' = [due EXCEPT ![k][m] = value]
    /\ UNCHANGED <<phase, game, file, reading, loaded, cacheVars, games, loads, resets, base,
                   spoiled, answered>>

-----------------------------------------------------------------------------
(* CollectPersistentVars: each mod's own value, or the cached one of a mod  *)
(* that has none or cannot be asked.  CollectSaveExtras: the variables that *)
(* are registered.                                                          *)
OwnOnly(failing, m) == IF m \in Installed \ failing THEN held["LuaVariables"][m] ELSE None
OwnOrCached(failing, m) ==
    IF OwnOnly(failing, m) # None /\ (m \in Supported \/ cache["LuaVariables"][m] # None)
    THEN OwnOnly(failing, m) ELSE cache["LuaVariables"][m]

Collected(k, failing) ==
    [m \in Mods |-> IF k = "LuaVariables" THEN OwnOrCached(failing, m)
                    ELSE IF m \in Installed THEN held[k][m] ELSE None]

(* write_persistent_variables: the cache for what the state was not asked.  *)
Written(k, asked, failing) == IF k \in asked THEN Collected(k, failing) ELSE cache[k]

(* savegame_visit as the game saves; asked lists the kinds the Lua state    *)
(* could be asked for, none off the story's thread.                         *)
Save(s, asked, failing) ==
    /\ phase = "session"
    /\ file' = [file EXCEPT ![s] = [game |-> game, has |-> Kinds,
                                    data |-> [k \in Kinds |-> Written(k, asked, failing)]]]
    /\ answered' = [kinds |-> asked, mods |-> Installed \ failing]
    /\ UNCHANGED <<phase, game, reading, luaVars, cacheVars, boundVars, base, due, spoiled>>

Next ==
    \/ NewGame \/ Work \/ ResetInSession \/ ResetOutside \/ EndSession
    \/ \E k \in Kinds : \/ Read(k)
                       \/ \E m \in Mods, value \in {Value(game, sets + 1), None} : Set(k, m, value)
    \/ \E s \in Slots : \/ LoadGame(s)
                        \/ \E asked \in SUBSET Kinds, failing \in SUBSET Installed :
                              Save(s, asked, failing)

Spec == Init /\ [][Next]_vars
-----------------------------------------------------------------------------
(* Types of the variables.                                                  *)
Saves == [game : 0..MaxGames, has : SUBSET Kinds, data : [Kinds -> Data]]
TypeOK ==
    /\ phase \in {"menu", "loading", "session"} \cup Kinds /\ game \in 0..MaxGames
    /\ file \in [Slots -> Saves] /\ reading \in Saves \cup {None}
    /\ phase \in Kinds => reading \in Saves
    /\ loaded \in BOOLEAN /\ held \in [Kinds -> Data]
    /\ cache \in [Kinds -> Data] /\ pending \in [Kinds -> BOOLEAN]
    /\ games \in 0..MaxGames /\ loads \in 0..MaxLoads
    /\ sets \in 0..MaxSets /\ resets \in 0..MaxResets
    /\ base \in [Kinds -> Data] /\ due \in [Kinds -> Data]
    /\ spoiled \in BOOLEAN /\ answered \in [kinds : SUBSET Kinds, mods : SUBSET Installed]

(* "A new save's PersistentVars, variables and timers reach the new states" *)
(* (src/reference/IMPLEMENTATION-NOTES.md:472): in a session whose state no *)
(* script has had reset, each loaded mod has what its save held or what it  *)
(* set since, and nothing of another game's or an earlier session's.        *)
SaveReachesMods ==
    phase = "session" /\ ~spoiled =>
        \A k \in Kinds, m \in Installed : held[k][m] = due[k][m]

(* A save loses nothing and takes nothing from elsewhere: what the state    *)
(* answers for is saved as it is, what it cannot answer for as the save     *)
(* this game came from had it -- as long as the cache is of that save.      *)
(* CollectPersistentVars, CollectSaveExtras, src/src/savegame.cpp:253.      *)
Stale == cache # base
Answers(k, m) == k \in answered'.kinds /\ m \in answered'.mods
Owed(k, m) ==
    IF k = "Extras" /\ k \in answered'.kinds
    THEN IF m \in Installed THEN due[k][m] ELSE None
    ELSE IF Answers(k, m) /\ due[k][m] # None /\ (m \in Supported \/ base[k][m] # None)
    THEN due[k][m] ELSE base[k][m]
SaveKeepsValues ==
    [][\A s \in Slots : file'[s] # file[s] /\ ~spoiled /\ ~Stale =>
           \A k \in Kinds, m \in Mods : file'[s].data[k][m] = Owed(k, m)]_vars

(* g_saved and g_extras are "What the last save read held"                  *)
(* (src/src/savegame.cpp:217) once it has been read.                        *)
CacheIsOfLastRead ==
    phase \in {"loading", "session"} /\ reading # None => cache = base
=============================================================================
