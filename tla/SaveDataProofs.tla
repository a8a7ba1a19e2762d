--------------------------- MODULE SaveDataProofs ---------------------------
(***************************************************************************)
(* Proofs about SaveData, for any mods, saves and bounds: what a save held *)
(* reaches the mods of its session, and what they hold reaches the next    *)
(* save.  And about Plugins: the settings and handlers of a start are of   *)
(* its plugins, and the settings file is what was set last.  And about     *)
(* PakFix: the archive the game reads is the mod's, corrected, and agrees  *)
(* with itself.  And about Searches: what the engine has built in time is  *)
(* found by the thread that warms the searches up, or is behind one that   *)
(* was not.  And about GameFiles: what a search for files lists can be     *)
(* loaded.                                                                 *)
(***************************************************************************)
EXTENDS SaveData, Plugins, PakFix, Searches, GameFiles,
        FiniteSetTheorems, TLAPS

(* What the mods of a game are to have before they set anything.            *)
DueOf(b) == [k \in Kinds |-> [m \in Mods |->
                IF b[k][m] # None THEN b[k][m] ELSE Bootstrapped(NewState)[k][m]]]

(* A kind of the save has not been read yet, and nothing of it is about.    *)
Unread(k) == /\ held[k] = Nothing
             /\ k \in reading.has => base[k] = reading.data[k]
             /\ k \notin reading.has => ~pending[k] /\ base[k] = Nothing

(* A kind has been read, and mods are not loaded: it waits in the cache,    *)
(* or was not in the save, or is in the state already (the extras).         *)
Waiting(k) == pending[k] /\ cache[k] = base[k] /\ held[k] = Nothing
InState(k) == /\ ~pending[k]
              /\ held[k] = IF k = "Extras" THEN base[k] ELSE Nothing
              /\ k = "LuaVariables" => base[k] = Nothing

(* The mods are loaded and have what they are to have.                      *)
Arrived == /\ loaded /\ \A k \in Kinds : ~pending[k]
           /\ \A k \in Kinds, m \in Installed : held[k][m] = due[k][m]

Reading == phase \in Kinds => ~loaded /\ due = DueOf(base) /\ Unread("Extras")
                              /\ (phase = "LuaVariables" => Unread("LuaVariables"))
                              /\ (phase = "Extras" => \/ Waiting("LuaVariables")
                                                      \/ InState("LuaVariables"))
Loading == phase = "loading" => /\ due = DueOf(base)
                                /\ \/ ~loaded /\ \A k \in Kinds : Waiting(k) \/ InState(k)
                                   \/ Arrived
Playing == phase = "session" => Arrived

ReachInv == ~spoiled => Reading /\ Loading /\ Playing
Inv == TypeOK /\ ReachInv
-----------------------------------------------------------------------------
(* The helpers keep to their types.                                         *)
LEMMA NothingType == Nothing \in Data
  BY DEF Nothing, Data

(* A state just built, lua_reset, holds nothing of either kind.             *)
LEMMA NewStateType == NewState \in [Kinds -> Data]
  BY NothingType DEF NewState

(* RestorePersistentVars, RestoreSaveExtras.                                *)
LEMMA RestoredType ==
  ASSUME NEW k \in Kinds, NEW v \in Data, NEW s \in Data
  PROVE  Restored(k, v, s) \in Data
  BY DEF Restored, Data

(* What the bootstraps leave.                                               *)
LEMMA BootstrappedType ==
  ASSUME NEW v \in [Kinds -> Data]
  PROVE  Bootstrapped(v) \in [Kinds -> Data]
  BY ConstantsAssumption DEF Bootstrapped, Data, Empty, Value, Values

(* What lua_load_mods leaves of a pending read.                             *)
LEMMA HandedOverType ==
  ASSUME NEW v \in [Kinds -> Data], cache \in [Kinds -> Data]
  PROVE  HandedOver(v) \in [Kinds -> Data]
  BY RestoredType DEF HandedOver

(* The whole of lua_load_mods.                                              *)
LEMMA LoadModsType ==
  ASSUME NEW v \in [Kinds -> Data], cache \in [Kinds -> Data]
  PROVE  LoadMods(v) \in [Kinds -> Data]
  BY BootstrappedType, HandedOverType DEF LoadMods

(* What a save writes of a kind.                                            *)
LEMMA WrittenType ==
  ASSUME TypeOK, NEW k \in Kinds, NEW asked \in SUBSET Kinds, NEW failing \in SUBSET Installed
  PROVE  Written(k, asked, failing) \in Data
  BY DEF TypeOK, Written, Collected, OwnOrCached, OwnOnly, Data, Kinds

(* Every state is well typed.                                               *)
LEMMA InitTyped == Init => TypeOK
<1> SUFFICES ASSUME Init PROVE TypeOK
  OBVIOUS
<1>1. Foreign \subseteq Saves
  <2>1. /\ Value(0, 1) \in Values
        /\ {} \in SUBSET Kinds /\ {"LuaVariables"} \in SUBSET Kinds /\ Kinds \in SUBSET Kinds
    BY ConstantsAssumption DEF Values, Value, Kinds
  <2>2. ASSUME NEW has \in SUBSET Kinds
        PROVE  [k \in Kinds |-> [m \in Mods |-> IF k \in has THEN Value(0, 1) ELSE None]]
                   \in [Kinds -> Data]
    BY <2>1 DEF Data
  <2>3. 0 \in 0..MaxGames
    BY ConstantsAssumption
  <2>4. ASSUME NEW f \in Foreign PROVE f \in Saves
    <3>1. PICK has \in {{}, {"LuaVariables"}, Kinds} :
              f = [game |-> 0, has |-> has,
                   data |-> [k \in Kinds |-> [m \in Mods |->
                                IF k \in has THEN Value(0, 1) ELSE None]]]
      BY DEF Foreign
    <3>2. has \in SUBSET Kinds
      BY <2>1
    <3> QED
      BY <2>2, <2>3, <3>1, <3>2 DEF Saves
  <2> QED
    BY <2>4
<1>2. [k \in Kinds |-> Nothing] \in [Kinds -> Data]
  BY NothingType
<1> QED
  <2>1. file \in [Slots -> Saves]
    BY <1>1 DEF Init
  <2>2. phase \in {"menu", "loading", "session"} /\ phase \notin Kinds
    BY DEF Init, Kinds
  <2>3. /\ game \in 0..MaxGames /\ games \in 0..MaxGames /\ loads \in 0..MaxLoads
        /\ sets \in 0..MaxSets /\ resets \in 0..MaxResets
    BY ConstantsAssumption DEF Init
  <2>4. answered \in [kinds : SUBSET Kinds, mods : SUBSET Installed]
    BY DEF Init
  <2> QED
    BY <1>2, <2>1, <2>2, <2>3, <2>4 DEF Init, TypeOK

(* Each step of the engine, the mods and a reset keeps the types.           *)
LEMMA StepTyped == TypeOK /\ [Next]_vars => TypeOK'
<1> SUFFICES ASSUME TypeOK, [Next]_vars PROVE TypeOK'
  OBVIOUS
<1> USE ConstantsAssumption
<1>1. CASE NewGame
  <2>1. spoiled' \in BOOLEAN
    BY <1>1 DEF NewGame, Leftover
  <2> QED
    BY <1>1, <2>1, NewStateType, BootstrappedType, NothingType
    DEF NewGame, TypeOK, luaVars, cacheVars, Kinds
<1>2. ASSUME NEW s \in Slots, LoadGame(s) PROVE TypeOK'
  <2>1. spoiled' \in BOOLEAN
    BY <1>2 DEF LoadGame, Leftover
  <2>2. file[s] \in Saves /\ file[s].game \in 0..MaxGames /\ file[s].data \in [Kinds -> Data]
    BY DEF TypeOK, Saves
  <2>3. base' \in [Kinds -> Data]
    BY <1>2, <2>2, NothingType DEF LoadGame
  <2>4. Bootstrapped(NewState) \in [Kinds -> Data]
    BY NewStateType, BootstrappedType
  <2>5. due' \in [Kinds -> Data]
    BY <1>2, <2>3, <2>4 DEF LoadGame, Data
  <2> QED
    BY <1>2, <2>1, <2>2, <2>3, <2>5 DEF LoadGame, TypeOK, luaVars, cacheVars, Kinds
<1>3. ASSUME NEW k \in Kinds, Read(k) PROVE TypeOK'
  <2>1. reading.data \in [Kinds -> Data]
    BY <1>3 DEF Read, TypeOK, Saves
  <2>2. /\ cache' \in [Kinds -> Data]
        /\ pending' \in [Kinds -> BOOLEAN]
        /\ held' \in [Kinds -> Data]
    <3>1. CASE k \in reading.has
      <4>1. PICK onStory \in BOOLEAN :
                /\ held' = IF onStory /\ MayTake(k)
                           THEN [held EXCEPT ![k] = Restored(k, @, reading.data[k])] ELSE held
                /\ pending' = [pending EXCEPT ![k] = ~(onStory /\ MayTake(k))]
        BY <1>3, <3>1 DEF Read
      <4>2. Restored(k, held[k], reading.data[k]) \in Data
        BY <2>1, RestoredType DEF TypeOK
      <4>3. held' \in [Kinds -> Data]
        BY <4>1, <4>2 DEF TypeOK
      <4>4. cache' \in [Kinds -> Data]
        BY <1>3, <2>1, <3>1 DEF Read, TypeOK
      <4>5. pending' \in [Kinds -> BOOLEAN]
        BY <4>1 DEF TypeOK
      <4> QED
        BY <4>3, <4>4, <4>5
    <3>2. CASE k \notin reading.has
      BY <1>3, <3>2 DEF Read, TypeOK
    <3> QED
      BY <3>1, <3>2
  <2>3. phase' \in {"menu", "loading", "session"} \cup Kinds
    BY <1>3 DEF Read, Then, Kinds
  <2> QED
    BY <1>3, <2>2, <2>3 DEF Read, TypeOK, boundVars, historyVars
<1>4. CASE Work
  BY <1>4, LoadModsType DEF Work, Taken, TypeOK, boundVars, historyVars, Kinds
<1>5. CASE ResetInSession
  <2>1. spoiled' \in BOOLEAN
    BY <1>5 DEF ResetInSession, Leftover
  <2> QED
    BY <1>5, <2>1, HandedOverType, BootstrappedType, NewStateType
    DEF ResetInSession, Taken, TypeOK
<1>6. CASE ResetOutside
  <2>1. spoiled' \in BOOLEAN
    BY <1>6 DEF ResetOutside, Leftover
  <2>2. resets' \in 0..MaxResets
    BY <1>6 DEF ResetOutside, TypeOK
  <2>3. loaded' \in BOOLEAN /\ held' \in [Kinds -> Data]
    BY <1>6, NewStateType DEF ResetOutside, Dropped
  <2> QED
    BY <1>6, <2>1, <2>2, <2>3 DEF ResetOutside, TypeOK, cacheVars
<1>7. CASE EndSession
  BY <1>7, NewStateType
  DEF EndSession, Dropped, TypeOK, luaVars, cacheVars, boundVars, historyVars, Kinds
<1>8. ASSUME NEW k \in Kinds, NEW m \in Mods, NEW value \in {Value(game, sets + 1), None},
             Set(k, m, value)
      PROVE  TypeOK'
  BY <1>8 DEF Set, TypeOK, cacheVars, Data, Value, Values
<1>9. ASSUME NEW s \in Slots, NEW asked \in SUBSET Kinds, NEW failing \in SUBSET Installed,
             Save(s, asked, failing)
      PROVE  TypeOK'
  BY <1>9, WrittenType DEF Save, TypeOK, Saves, luaVars, cacheVars, boundVars
<1>10. CASE UNCHANGED vars
  BY <1>10 DEF vars, luaVars, cacheVars, boundVars, historyVars, TypeOK
<1> QED
  BY <1>1, <1>2, <1>3, <1>4, <1>5, <1>6, <1>7, <1>8, <1>9, <1>10 DEF Next

(* For every mod, slot and bound, TypeOK always holds.                      *)
THEOREM TypeCorrect == Spec => []TypeOK
  BY InitTyped, StepTyped, PTL DEF Spec

-----------------------------------------------------------------------------
(* lua_load_mods gives each mod what it is to have, whether a kind waits in *)
(* the cache or is in the state already.                                    *)
LEMMA LoadModsDue ==
  ASSUME TypeOK, ~loaded, \A k \in Kinds : Waiting(k) \/ InState(k),
         NEW k \in Kinds, NEW m \in Installed
  PROVE  LoadMods(held)[k][m] = DueOf(base)[k][m]
<1> USE ConstantsAssumption
<1>1. m \in Mods
  OBVIOUS
<1>2. DueOf(base)[k][m] = IF base[k][m] # None THEN base[k][m]
                          ELSE IF k = "LuaVariables" /\ m \in Starting THEN Empty ELSE None
  BY <1>1 DEF DueOf, Bootstrapped, NewState, Nothing
<1>3. Bootstrapped(held)[k][m] = IF k = "LuaVariables" /\ m \in Starting THEN Empty ELSE held[k][m]
  BY <1>1 DEF Bootstrapped
<1>4. CASE Waiting(k)
  <2>1. LoadMods(held)[k] = Restored(k, Bootstrapped(held)[k], base[k]) /\ held[k][m] = None
    BY <1>1, <1>4 DEF LoadMods, HandedOver, Waiting, Nothing
  <2>2. LoadMods(held)[k][m] = IF k = "Extras" \/ base[k][m] # None
                               THEN base[k][m] ELSE Bootstrapped(held)[k][m]
    BY <1>1, <2>1 DEF Restored
  <2> QED
    BY <1>2, <1>3, <2>1, <2>2 DEF Kinds
<1>5. CASE InState(k)
  <2>1. LoadMods(held)[k][m] = Bootstrapped(held)[k][m]
    BY <1>5 DEF LoadMods, HandedOver, InState
  <2>2. CASE k = "Extras"
    BY <1>2, <1>3, <1>5, <2>1, <2>2 DEF InState
  <2>3. CASE k = "LuaVariables"
    BY <1>1, <1>2, <1>3, <1>5, <2>1, <2>3 DEF InState, Nothing
  <2> QED
    BY <2>2, <2>3 DEF Kinds
<1> QED
  BY <1>4, <1>5

(* A game starts with nothing of the one before, or is marked.              *)
LEMMA NewGameReaches == TypeOK /\ NewGame => ReachInv'
<1> SUFFICES ASSUME TypeOK, NewGame, ~spoiled' PROVE (Reading /\ Loading /\ Playing)'
  BY DEF ReachInv
<1>1. held' = NewState /\ loaded' = loaded /\ ~loaded /\ \A k \in Kinds : ~pending'[k]
  BY DEF NewGame, Leftover, luaVars, cacheVars
<1>2. base' = [k \in Kinds |-> Nothing] /\ due' = Bootstrapped(NewState) /\ phase' = "loading"
  BY DEF NewGame
<1>3. DueOf(base') = Bootstrapped(NewState)
  BY <1>2 DEF DueOf, Bootstrapped, NewState, Nothing
<1>4. \A k \in Kinds : InState(k)'
  BY <1>1, <1>2 DEF InState, NewState
<1>5. Loading'
  BY <1>1, <1>2, <1>3, <1>4 DEF Loading, DueOf
<1>6. Reading' /\ Playing'
  BY <1>2 DEF Reading, Playing, Kinds
<1> QED
  BY <1>5, <1>6

(* A save's read starts with an empty state, or the game is marked.         *)
LEMMA LoadGameReaches ==
  ASSUME TypeOK, NEW s \in Slots, LoadGame(s)
  PROVE  ReachInv'
<1> SUFFICES ASSUME ~spoiled' PROVE (Reading /\ Loading /\ Playing)'
  BY DEF ReachInv
<1>1. held' = NewState /\ loaded' = loaded /\ ~loaded
  BY DEF LoadGame, Leftover, luaVars
<1>2. \A k \in Kinds \ file[s].has : ~pending'[k]
  BY DEF LoadGame, cacheVars
<1>3. /\ phase' = "LuaVariables" /\ reading' = file[s]
      /\ base' = [k \in Kinds |-> IF k \in file[s].has THEN file[s].data[k] ELSE Nothing]
      /\ due' = DueOf(base')
  BY DEF LoadGame, DueOf
<1>4. \A k \in Kinds : Unread(k)'
  BY <1>1, <1>2, <1>3 DEF Unread, NewState
<1>5. Reading'
  BY <1>1, <1>3, <1>4 DEF Reading, DueOf, Kinds
<1>6. Loading' /\ Playing'
  BY <1>3 DEF Loading, Playing
<1> QED
  BY <1>5, <1>6

(* Reading a kind that the save has puts it into the cache, or the state.   *)
LEMMA ReadReaches ==
  ASSUME TypeOK, ReachInv, NEW k \in Kinds, Read(k)
  PROVE  ReachInv'
<1> SUFFICES ASSUME ~spoiled' PROVE (Reading /\ Loading /\ Playing)'
  BY DEF ReachInv
<1>1. /\ phase = k /\ phase' = Then(k) /\ ~spoiled
      /\ loaded' = loaded /\ base' = base /\ due' = due /\ reading' = reading
  BY DEF Read, historyVars
<1>2. Reading /\ ~loaded /\ due = DueOf(base) /\ Unread(k)
  BY <1>1 DEF ReachInv, Reading, Kinds
<1>3. \A j \in Kinds \ {k} : held'[j] = held[j] /\ cache'[j] = cache[j] /\ pending'[j] = pending[j]
  BY DEF Read, TypeOK
<1>4. Waiting(k)' \/ InState(k)'
  <2>1. CASE k \notin reading.has
    BY <1>1, <1>2, <2>1 DEF Read, Unread, InState, Nothing
  <2>2. CASE k \in reading.has
    <3>1. cache'[k] = base[k] /\ base[k] = reading.data[k]
      BY <1>2, <2>2 DEF Read, Unread, TypeOK
    <3>2. PICK onStory \in BOOLEAN :
              /\ held' = IF onStory /\ MayTake(k)
                         THEN [held EXCEPT ![k] = Restored(k, @, reading.data[k])] ELSE held
              /\ pending' = [pending EXCEPT ![k] = ~(onStory /\ MayTake(k))]
      BY <2>2 DEF Read
    <3>3. CASE onStory /\ MayTake(k)
      <4>1. k = "Extras" /\ ~pending'[k]
        BY <1>2, <3>2, <3>3 DEF MayTake, TypeOK
      <4>2. base[k] \in Data
        BY DEF TypeOK
      <4>3. held'[k] = Restored(k, held[k], base[k])
        BY <3>1, <3>2, <3>3 DEF TypeOK
      <4>4. Restored(k, held[k], base[k]) = base[k]
        BY <4>1, <4>2 DEF Restored, Data
      <4> QED
        BY <1>1, <4>1, <4>3, <4>4 DEF InState
    <3>4. CASE ~(onStory /\ MayTake(k))
      <4>1. pending'[k] /\ held' = held
        BY <3>2, <3>4 DEF TypeOK
      <4> QED
        BY <1>1, <1>2, <3>1, <4>1 DEF Waiting, Unread
    <3> QED
      BY <3>3, <3>4
  <2> QED
    BY <2>1, <2>2
<1>5. CASE k = "LuaVariables"
  <2>1. Unread("Extras")
    BY <1>1, <1>2, <1>5 DEF Reading
  <2>2. Unread("Extras")'
    BY <1>1, <1>3, <1>5, <2>1 DEF Unread, Kinds
  <2>3. phase' = "Extras"
    BY <1>1, <1>5 DEF Then
  <2>4. Reading'
    BY <1>1, <1>2, <1>4, <1>5, <2>2, <2>3 DEF Reading, DueOf
  <2> QED
    BY <2>3, <2>4 DEF Loading, Playing
<1>6. CASE k = "Extras"
  <2>1. Waiting("LuaVariables") \/ InState("LuaVariables")
    BY <1>1, <1>2, <1>6 DEF Reading
  <2>2. Waiting("LuaVariables")' \/ InState("LuaVariables")'
    BY <1>1, <1>3, <1>6, <2>1 DEF Waiting, InState, Kinds
  <2>3. phase' = "loading"
    BY <1>1, <1>6 DEF Then
  <2>4. \A j \in Kinds : (Waiting(j) \/ InState(j))'
    BY <1>4, <1>6, <2>2 DEF Kinds
  <2>5. Loading'
    BY <1>1, <1>2, <2>3, <2>4 DEF Loading, DueOf
  <2> QED
    BY <2>3, <2>5 DEF Reading, Playing, Kinds
<1> QED
  BY <1>5, <1>6 DEF Kinds

(* The story is worked: what waits is handed over, or was already.          *)
LEMMA WorkReaches == TypeOK /\ ReachInv /\ Work => ReachInv'
<1> SUFFICES ASSUME TypeOK, ReachInv, Work, ~spoiled' PROVE (Reading /\ Loading /\ Playing)'
  BY DEF ReachInv
<1>1. /\ phase = "loading" /\ phase' = "session" /\ ~spoiled /\ due' = due /\ loaded'
      /\ held' = LoadMods(held) /\ \A k \in Kinds : ~pending'[k]
  BY DEF Work, historyVars, Taken
<1>2. due = DueOf(base)
  BY <1>1 DEF ReachInv, Loading
<1>3. \A k \in Kinds, m \in Installed : held'[k][m] = due[k][m]
  <2>1. CASE Arrived
    BY <1>1, <2>1 DEF Arrived, LoadMods, HandedOver
  <2>2. CASE ~loaded /\ \A k \in Kinds : Waiting(k) \/ InState(k)
    BY <1>1, <1>2, <2>2, LoadModsDue
  <2> QED
    BY <1>1, <2>1, <2>2 DEF ReachInv, Loading
<1> QED
  BY <1>1, <1>3 DEF Reading, Loading, Playing, Arrived, Kinds

(* A reset before the story is worked: the mods load now, and get it now.   *)
LEMMA ResetInSessionReaches == TypeOK /\ ReachInv /\ ResetInSession => ReachInv'
<1> SUFFICES ASSUME TypeOK, ReachInv, ResetInSession, ~spoiled'
             PROVE  (Reading /\ Loading /\ Playing)'
  BY DEF ReachInv
<1>1. /\ ~spoiled /\ ~loaded /\ held = NewState
      /\ phase \in {"loading", "session"} /\ phase' = phase
      /\ due' = due /\ base' = base /\ loaded' /\ \A k \in Kinds : ~pending'[k]
      /\ held' = HandedOver(Bootstrapped(NewState))
  BY DEF ResetInSession, Leftover, Taken
<1>2. phase = "loading"
  BY <1>1 DEF ReachInv, Playing, Arrived
<1>3. due = DueOf(base) /\ \A k \in Kinds : Waiting(k) \/ InState(k)
  BY <1>1, <1>2 DEF ReachInv, Loading, Arrived
<1>4. held' = LoadMods(held)
  BY <1>1 DEF LoadMods
<1>5. \A k \in Kinds, m \in Installed : held'[k][m] = due[k][m]
  BY <1>1, <1>3, <1>4, LoadModsDue
<1> QED
  BY <1>1, <1>2, <1>3, <1>5 DEF Reading, Loading, Playing, Arrived, Kinds, DueOf

(* A reset outside a session replaces a state in which nothing was yet.     *)
LEMMA ResetOutsideReaches == TypeOK /\ ReachInv /\ ResetOutside => ReachInv'
<1> SUFFICES ASSUME TypeOK, ReachInv, ResetOutside, ~spoiled'
             PROVE  (Reading /\ Loading /\ Playing)'
  BY DEF ReachInv
<1>1. /\ ~spoiled /\ loaded' = loaded /\ held' = held
      /\ UNCHANGED <<phase, reading, cache, pending, base, due>>
  BY DEF ResetOutside, Dropped, Leftover, cacheVars, TypeOK
<1>2. Reading /\ Loading /\ Playing
  BY <1>1 DEF ReachInv
<1> QED
  BY <1>1, <1>2 DEF Reading, Loading, Playing, Arrived, Unread, Waiting, InState, DueOf

(* Each step keeps ReachInv.                                                *)
LEMMA StepReaches == TypeOK /\ ReachInv /\ [Next]_vars => ReachInv'
<1> SUFFICES ASSUME TypeOK, ReachInv, [Next]_vars PROVE ReachInv'
  OBVIOUS
<1>1. CASE EndSession
  BY <1>1 DEF EndSession, ReachInv, Reading, Loading, Playing, Kinds
<1>2. ASSUME NEW k \in Kinds, NEW m \in Mods, NEW value \in {Value(game, sets + 1), None},
             Set(k, m, value)
      PROVE  ReachInv'
  <2> SUFFICES ASSUME ~spoiled' PROVE (Reading /\ Loading /\ Playing)'
    BY DEF ReachInv
  <2>1. /\ phase = "session" /\ phase' = phase /\ ~spoiled /\ loaded' = loaded
        /\ pending' = pending
        /\ held' = [held EXCEPT ![k][m] = value] /\ due' = [due EXCEPT ![k][m] = value]
    BY <1>2 DEF Set, cacheVars
  <2>2. Arrived
    BY <2>1 DEF ReachInv, Playing
  <2>3. \A j \in Kinds, i \in Installed : held'[j][i] = due'[j][i]
    BY <2>1, <2>2, ConstantsAssumption DEF Arrived, TypeOK, Data
  <2>4. Arrived'
    BY <2>1, <2>2, <2>3 DEF Arrived
  <2> QED
    BY <2>1, <2>4 DEF Reading, Loading, Playing, Kinds
<1>3. CASE UNCHANGED <<phase, reading, loaded, held, cache, pending, base, due, spoiled>>
  BY <1>3 DEF ReachInv, Reading, Loading, Playing, Arrived, Unread, Waiting, InState, DueOf
<1>4. ASSUME NEW s \in Slots, NEW asked \in SUBSET Kinds, NEW failing \in SUBSET Installed,
             Save(s, asked, failing)
      PROVE  ReachInv'
  BY <1>3, <1>4 DEF Save, luaVars, cacheVars
<1>5. CASE UNCHANGED vars
  BY <1>3, <1>5 DEF vars, luaVars, cacheVars, historyVars
<1> QED
  BY <1>1, <1>2, <1>4, <1>5, NewGameReaches, LoadGameReaches, ReadReaches, WorkReaches,
     ResetInSessionReaches, ResetOutsideReaches
  DEF Next

(* At the menu nothing is due.                                              *)
LEMMA InitReaches == Init => ReachInv
  BY DEF Init, ReachInv, Reading, Loading, Playing, Kinds

(* TypeOK and ReachInv together are inductive.                              *)
LEMMA Inductive == Spec => []Inv
  BY InitTyped, StepTyped, InitReaches, StepReaches, PTL DEF Spec, Inv

(* In a session whose state no script has had reset, every loaded mod has   *)
(* what its save held or what it set since: the bootstraps do not overwrite *)
(* it, nothing of an earlier game is in its place.                          *)
THEOREM ReachesMods == Spec => []SaveReachesMods
<1>1. Inv => SaveReachesMods
  BY DEF Inv, ReachInv, Playing, Arrived, SaveReachesMods
<1> QED
  BY <1>1, Inductive, PTL
-----------------------------------------------------------------------------
(* What a save writes in a session nothing got in the way of, with a cache  *)
(* that is of its save.                                                     *)
LEMMA SaveOwed ==
  ASSUME Inv, ~spoiled, cache = base,
         NEW s \in Slots, NEW asked \in SUBSET Kinds, NEW failing \in SUBSET Installed,
         Save(s, asked, failing), NEW k \in Kinds, NEW m \in Mods
  PROVE  Written(k, asked, failing)[m] = Owed(k, m)
<1>1. answered'.kinds = asked /\ answered'.mods = Installed \ failing
  BY DEF Save
<1>2. \A j \in Kinds, i \in Installed : held[j][i] = due[j][i]
  BY DEF Save, Inv, ReachInv, Playing, Arrived
<1>3. CASE k \notin asked
  <2>1. Owed(k, m) = base[k][m]
    BY <1>1, <1>3 DEF Owed, Answers
  <2> QED
    BY <1>3, <2>1 DEF Written
<1>4. CASE k \in asked /\ k = "Extras"
  BY <1>1, <1>2, <1>4 DEF Written, Collected, Owed
<1>5. CASE k \in asked /\ k = "LuaVariables"
  <2>1. Written(k, asked, failing)[m] = OwnOrCached(failing, m)
    BY <1>5 DEF Written, Collected
  <2>2. CASE m \in Installed \ failing
    <3>1. OwnOnly(failing, m) = due[k][m]
      BY <1>2, <1>5, <2>2 DEF OwnOnly
    <3> QED
      BY <1>1, <1>5, <2>1, <2>2, <3>1 DEF OwnOrCached, Owed, Answers
  <2>3. CASE m \notin Installed \ failing
    BY <1>1, <1>5, <2>1, <2>3 DEF OwnOrCached, OwnOnly, Owed, Answers
  <2> QED
    BY <2>2, <2>3
<1> QED
  BY <1>3, <1>4, <1>5 DEF Kinds

(* A save of such a session loses no value and takes none from elsewhere:   *)
(* what the state answers for is written as it is, the rest as the save     *)
(* this game came from had it.                                              *)
THEOREM KeepsValues == Spec => SaveKeepsValues
<1>1. ASSUME Inv, [Next]_vars, NEW s \in Slots, file'[s] # file[s], ~spoiled, ~Stale,
             NEW k \in Kinds, NEW m \in Mods
      PROVE  file'[s].data[k][m] = Owed(k, m)
  <2>1. file' # file
    BY <1>1
  <2>2. \E r \in Slots, asked \in SUBSET Kinds, failing \in SUBSET Installed :
            Save(r, asked, failing)
    BY <1>1, <2>1 DEF Next, NewGame, LoadGame, Read, Work, ResetInSession, ResetOutside,
                      EndSession, Set, vars
  <2>3. PICK r \in Slots, asked \in SUBSET Kinds, failing \in SUBSET Installed :
            Save(r, asked, failing)
    BY <2>2
  <2>4. r = s
    BY <1>1, <2>3 DEF Save, Inv, TypeOK
  <2>5. file'[s].data[k] = Written(k, asked, failing)
    BY <1>1, <2>3, <2>4 DEF Save, Inv, TypeOK
  <2> QED
    BY <1>1, <2>3, <2>4, <2>5, SaveOwed DEF Stale
<1>2. Inv /\ [Next]_vars =>
        [\A s \in Slots : file'[s] # file[s] /\ ~spoiled /\ ~Stale =>
             \A k \in Kinds, m \in Mods : file'[s].data[k][m] = Owed(k, m)]_vars
  BY <1>1
<1> QED
  BY <1>2, Inductive, PTL DEF Spec, SaveKeepsValues

-----------------------------------------------------------------------------
(* Plugins: what is on disk is what was saved last, of values that come back *)
(* as they are, and only a plugin that runs or is starting has settings and  *)
(* handlers.                                                                 *)
Lines == UNION {[D -> Int] : D \in SUBSET SettingIds}
AsWritten(f) == \A id \in DOMAIN f : WriteSetting(id, f[id]) = f[id]
InStart == IF inInit THEN {This} ELSE {}

PluginsTypeOK ==
    /\ next \in 1..(Len(PluginFiles) + 1) /\ inInit \in BOOLEAN /\ framesReady \in BOOLEAN
    /\ registered \in [PluginSet -> Lines] /\ saved \in [PluginSet -> Lines]
    /\ settingsFile \in [PluginSet -> Lines] /\ keptLines \in [PluginSet -> Lines]

PluginsInv ==
    /\ PluginsTypeOK
    /\ settingsFile = keptLines
    /\ \A p \in PluginSet : AsWritten(settingsFile[p]) /\ AsWritten(registered[p])
    /\ inInit => next <= Len(PluginFiles) /\ saved[This] = settingsFile[This]
    /\ \A p \in loadedPlugins : \E i \in 1..(next - 1) : p = PluginFiles[i]
    /\ \A p \in PluginSet \ (loadedPlugins \cup InStart) : DOMAIN registered[p] = {}
    /\ inInit => \A id \in DOMAIN registered[This] :
                    registered[This][id] = SettingOf(keptLines[This], id, 0)
    /\ handlers \cup frameHandlers \subseteq loadedPlugins \cup InStart
    /\ framesReady => next > Len(PluginFiles)

(* A value that was written is written as it is.                             *)
LEMMA WrittenAsIs ==
  ASSUME NEW id \in SettingIds, NEW v \in Int
  PROVE  /\ WriteSetting(id, v) \in Int
         /\ WriteSetting(id, WriteSetting(id, v)) = WriteSetting(id, v)
         /\ WriteSetting(id, 0) = 0
  <1>. DEFINE s == SettingTypes[id]
  <1>1. /\ s.min \in Int /\ s.max \in Int
        /\ s.min < s.max => s.min <= 0 /\ 0 <= s.max
        /\ s.min < s.max /\ s.type = "bool" => s.min <= 1 /\ 1 <= s.max
    BY PluginsAssumption
  <1>. DEFINE lo == s.min
              hi == s.max
              flag == s.type = "bool"
              Clamp(x) == IF lo < hi THEN IF x < lo THEN lo ELSE IF x > hi THEN hi ELSE x ELSE x
              Write(x) == IF flag THEN IF Clamp(x) # 0 THEN 1 ELSE 0 ELSE Clamp(x)
  <1>2. \A x : WriteSetting(id, x) = Write(x) BY DEF WriteSetting
  <1>3. lo \in Int /\ hi \in Int /\ (lo < hi => lo <= 0 /\ 0 <= hi)
        /\ (lo < hi /\ flag => lo <= 1 /\ 1 <= hi) /\ flag \in BOOLEAN
    BY <1>1
  <1>. HIDE DEF s, lo, hi, flag
  <1>4. Write(v) \in Int /\ Write(Write(v)) = Write(v) /\ Write(0) = 0
    <2>1. CASE flag BY <1>3, <2>1
    <2>2. CASE ~flag BY <1>3, <2>2
    <2>. QED BY <2>1, <2>2
  <1>. HIDE DEF Write, Clamp
  <1>. QED BY <1>2, <1>4

(* The files are typed, each at one place.                                   *)
LEMMA FilesAre ==
  /\ Len(PluginFiles) \in Nat /\ DOMAIN PluginFiles = 1..Len(PluginFiles)
  /\ \A i \in 1..Len(PluginFiles) : PluginFiles[i] \in PluginSet
  /\ \A i, j \in 1..Len(PluginFiles) : PluginFiles[i] = PluginFiles[j] => i = j
  <1>1. /\ Len(PluginFiles) \in Nat /\ DOMAIN PluginFiles = 1..Len(PluginFiles)
        /\ \A i \in DOMAIN PluginFiles : PluginFiles[i] \in PluginSet
    BY PluginsAssumption DEF PluginSet, Range
  <1>2. \A i, j \in DOMAIN PluginFiles : PluginFiles[i] = PluginFiles[j] => i = j
    BY PluginsAssumption DEF IsInjective
  <1>. QED BY <1>1, <1>2

(* The plugin that starts has not been loaded.                               *)
LEMMA StartsOnce ==
  ASSUME PluginsInv, next <= Len(PluginFiles)
  PROVE  This \in PluginSet /\ This \notin loadedPlugins /\ next \in 1..Len(PluginFiles)
  <1>1. next \in 1..Len(PluginFiles) BY FilesAre DEF PluginsInv, PluginsTypeOK
  <1>2. \A i \in 1..(next - 1) : PluginFiles[i] # PluginFiles[next]
    <2>1. \A i \in 1..(next - 1) : i \in 1..Len(PluginFiles) /\ i # next BY <1>1, FilesAre
    <2>. QED BY <1>1, <2>1, FilesAre
  <1>. QED BY <1>1, <1>2, FilesAre DEF PluginsInv, This

(* A plugin without settings.                                                *)
LEMMA NoLines == /\ NoSettings \in Lines /\ DOMAIN NoSettings = {} /\ AsWritten(NoSettings)
                 /\ [p \in PluginSet |-> NoSettings] \in [PluginSet -> Lines]
                 /\ 1 \in 1..(Len(PluginFiles) + 1)
  <1>1. NoSettings \in [{} -> Int] BY DEF NoSettings
  <1>2. {} \in SUBSET SettingIds OBVIOUS
  <1>3. NoSettings \in Lines BY <1>1, <1>2 DEF Lines
  <1>4. DOMAIN NoSettings = {} /\ AsWritten(NoSettings) BY DEF NoSettings, AsWritten
  <1>5. 1 \in 1..(Len(PluginFiles) + 1) BY FilesAre
  <1>. QED BY <1>3, <1>4, <1>5

(* No file was saved, and no plugin is loaded.                              *)
LEMMA PluginsStart == ASSUME PluginsInit PROVE PluginsInv
  <1>1. PluginsTypeOK BY NoLines DEF PluginsInit, PluginsTypeOK
  <1>2. \A p \in PluginSet : settingsFile[p] = NoSettings /\ registered[p] = NoSettings
    BY DEF PluginsInit
  <1>. QED BY <1>1, <1>2, NoLines DEF PluginsInit, PluginsInv

(* A plugin's file is read before its init.                                  *)
LEMMA OpenHolds == ASSUME PluginsInv, NEW ok \in BOOLEAN, OpenPlugin(ok) PROVE PluginsInv'
  <1>1. PluginsTypeOK BY DEF PluginsInv
  <1>2. This \in PluginSet /\ This \notin loadedPlugins /\ next \in 1..Len(PluginFiles)
    BY StartsOnce DEF OpenPlugin
  <1>3. /\ saved' = [saved EXCEPT ![This] = settingsFile[This]] /\ ~inInit
        /\ \/ inInit' = TRUE /\ next' = next
           \/ inInit' = FALSE /\ next' = next + 1
        /\ UNCHANGED <<loadedPlugins, registered, settingsFile, handlers, frameHandlers,
                       framesReady, keptLines>>
    BY <1>1 DEF OpenPlugin, PluginsTypeOK
  <1>4. PluginsTypeOK'
    <2>1. next' \in 1..(Len(PluginFiles) + 1) BY <1>2, <1>3, FilesAre
    <2>2. saved' \in [PluginSet -> Lines] BY <1>1, <1>2, <1>3 DEF PluginsTypeOK
    <2>. QED BY <1>1, <1>3, <2>1, <2>2 DEF PluginsTypeOK
  <1>5. DOMAIN registered[This] = {} BY <1>2, <1>3 DEF PluginsInv, InStart
  <1>6. saved'[This] = settingsFile[This] BY <1>1, <1>2, <1>3 DEF PluginsTypeOK
  <1>7. \A i \in 1..(next - 1) : i \in 1..(next' - 1) BY <1>2, <1>3, FilesAre
  <1>8. \A p \in loadedPlugins' : \E i \in 1..(next' - 1) : p = PluginFiles[i]
    BY <1>3, <1>7 DEF PluginsInv
  <1>9. framesReady' => next' > Len(PluginFiles) BY <1>2, <1>3, FilesAre DEF PluginsInv
  <1>10. CASE inInit' = TRUE /\ next' = next
    <2>1. This' = This BY <1>10 DEF This
    <2>2. InStart' = {This} /\ InStart = {} BY <1>3, <1>10, <2>1 DEF InStart
    <2>. QED BY <1>2, <1>3, <1>4, <1>5, <1>6, <1>8, <1>9, <1>10, <2>1, <2>2, FilesAre
             DEF PluginsInv, AsWritten
  <1>11. CASE inInit' = FALSE /\ next' = next + 1
    <2>1. InStart' = {} /\ InStart = {} BY <1>3, <1>11 DEF InStart
    <2>. QED BY <1>3, <1>4, <1>8, <1>9, <1>11, <2>1 DEF PluginsInv, AsWritten
  <1>. QED BY <1>3, <1>10, <1>11

(* A setting that is added has the value of the file, if it has one.         *)
LEMMA AddSettingHolds ==
  ASSUME PluginsInv, NEW id \in SettingIds, HostAddSetting(id) PROVE PluginsInv'
  <1>. DEFINE old == registered[This]
              kept == settingsFile[This]
              value == IF id \in DOMAIN kept THEN WriteSetting(id, kept[id]) ELSE 0
              new == [i \in DOMAIN old \cup {id} |-> IF i = id THEN value ELSE old[i]]
  <1>1. PluginsTypeOK /\ inInit /\ next <= Len(PluginFiles) /\ saved[This] = settingsFile[This]
    BY DEF PluginsInv, HostAddSetting
  <1>2. This \in PluginSet /\ This \notin loadedPlugins BY <1>1, StartsOnce
  <1>3. registered' = [registered EXCEPT ![This] = new] BY <1>1 DEF HostAddSetting
  <1>4. UNCHANGED <<next, inInit, loadedPlugins, saved, settingsFile, handlers,
                    frameHandlers, framesReady, keptLines>>
    BY DEF HostAddSetting
  <1>5. /\ old \in Lines /\ kept \in Lines /\ AsWritten(old) /\ AsWritten(kept)
        /\ keptLines[This] = kept
        /\ \A i \in DOMAIN old : old[i] = SettingOf(kept, i, 0)
    BY <1>1, <1>2 DEF PluginsInv, PluginsTypeOK
  <1>. HIDE DEF old, kept
  <1>6. \A f \in Lines : /\ f \in [DOMAIN f -> Int] /\ DOMAIN f \in SUBSET SettingIds
    BY DEF Lines
  <1>7. value \in Int /\ WriteSetting(id, value) = value /\ value = SettingOf(kept, id, 0)
    <2>1. CASE id \in DOMAIN kept
      <3>1. kept[id] \in Int /\ WriteSetting(id, kept[id]) = kept[id]
        BY <1>5, <1>6, <2>1 DEF AsWritten
      <3>. QED BY <2>1, <3>1 DEF SettingOf
    <2>2. CASE id \notin DOMAIN kept
      <3>1. value = 0 BY <2>2
      <3>2. 0 \in Int OBVIOUS
      <3>. QED BY <2>2, <3>1, <3>2, WrittenAsIs DEF SettingOf
    <2>. QED BY <2>1, <2>2
  <1>. HIDE DEF value
  <1>8. /\ DOMAIN new = DOMAIN old \cup {id}
        /\ \A i \in DOMAIN new : new[i] = IF i = id THEN value ELSE old[i]
    OBVIOUS
  <1>9. new \in [DOMAIN old \cup {id} -> Int]
    <2>1. \A i \in DOMAIN old : old[i] \in Int BY <1>5, <1>6
    <2>2. \A i \in DOMAIN old \cup {id} : (IF i = id THEN value ELSE old[i]) \in Int
      BY <1>7, <2>1
    <2>. QED BY <2>2
  <1>10. new \in Lines
    <2>1. DOMAIN old \cup {id} \in SUBSET SettingIds BY <1>5, <1>6
    <2>. HIDE DEF new
    <2>. QED BY <1>9, <2>1 DEF Lines
  <1>. HIDE DEF new
  <1>11. AsWritten(new) BY <1>5, <1>7, <1>8 DEF AsWritten
  <1>12. \A i \in DOMAIN new : new[i] = SettingOf(kept, i, 0) BY <1>5, <1>7, <1>8
  <1>13. /\ registered'[This] = new
         /\ \A p \in PluginSet : p # This => registered'[p] = registered[p]
    BY <1>1, <1>2, <1>3 DEF PluginsTypeOK
  <1>14. PluginsTypeOK' BY <1>1, <1>3, <1>4, <1>10 DEF PluginsTypeOK
  <1>15. This' = This /\ InStart' = {This} /\ InStart = {This} BY <1>1, <1>4 DEF This, InStart
  <1>16. \A p \in PluginSet : AsWritten(settingsFile'[p]) /\ AsWritten(registered'[p])
    BY <1>4, <1>11, <1>13 DEF PluginsInv
  <1>17. \A p \in PluginSet \ (loadedPlugins' \cup InStart') : DOMAIN registered'[p] = {}
    BY <1>4, <1>13, <1>15 DEF PluginsInv
  <1>18. \A i \in DOMAIN registered'[This] :
            registered'[This][i] = SettingOf(keptLines'[This], i, 0)
    BY <1>4, <1>5, <1>12, <1>13
  <1>. QED BY <1>1, <1>4, <1>14, <1>15, <1>16, <1>17, <1>18 DEF PluginsInv, AsWritten

(* Only the plugin that starts registers handlers.                           *)
LEMMA AddHandlersHolds ==
  ASSUME PluginsInv, NEW event \in BOOLEAN, NEW frame \in BOOLEAN, HostAddHandlers(event, frame)
  PROVE  PluginsInv'
  <1>1. /\ UNCHANGED <<next, inInit, loadedPlugins, registered, saved, settingsFile,
                       framesReady, keptLines>>
        /\ inInit /\ handlers' \subseteq handlers \cup {This}
        /\ frameHandlers' \subseteq frameHandlers \cup {This}
    BY DEF HostAddHandlers
  <1>2. This' = This /\ InStart' = {This} /\ InStart = {This} BY <1>1 DEF This, InStart
  <1>3. handlers' \cup frameHandlers' \subseteq loadedPlugins' \cup InStart'
    BY <1>1, <1>2 DEF PluginsInv
  <1>. QED BY <1>1, <1>2, <1>3 DEF PluginsInv, PluginsTypeOK, AsWritten

(* A failed init leaves nothing, a good one what it registered.              *)
LEMMA InitReturnsHolds ==
  ASSUME PluginsInv, NEW rc \in {0, 1}, NEW wrote \in BOOLEAN, InitReturns(rc, wrote)
  PROVE  PluginsInv'
  <1>1. PluginsTypeOK /\ inInit /\ next <= Len(PluginFiles) BY DEF PluginsInv, InitReturns
  <1>2. This \in PluginSet /\ This \notin loadedPlugins /\ next \in 1..Len(PluginFiles)
    BY <1>1, StartsOnce
  <1>3. /\ inInit' = FALSE /\ next' = next + 1 /\ saved' = saved /\ framesReady' = framesReady
    BY DEF InitReturns
  <1>4. InStart' = {} /\ InStart = {This} BY <1>1, <1>3 DEF InStart
  <1>5. next' \in 1..(Len(PluginFiles) + 1) /\ (framesReady' => next' > Len(PluginFiles))
        /\ next \in 1..(next' - 1) /\ \A i \in 1..(next - 1) : i \in 1..(next' - 1)
    BY <1>2, <1>3, FilesAre DEF PluginsInv
  <1>6. \A p \in loadedPlugins \cup {This} : \E i \in 1..(next' - 1) : p = PluginFiles[i]
    BY <1>5 DEF PluginsInv, This
  <1>7. CASE rc = 0
    <2>1. /\ loadedPlugins' = loadedPlugins \cup {This}
          /\ UNCHANGED <<registered, handlers, frameHandlers>>
          /\ \/ UNCHANGED <<settingsFile, keptLines>>
             \/ /\ settingsFile' = [settingsFile EXCEPT ![This] = registered[This]]
                /\ keptLines' = [keptLines EXCEPT ![This] = registered[This]]
      BY <1>7 DEF InitReturns
    <2>2. /\ settingsFile' = keptLines' /\ settingsFile' \in [PluginSet -> Lines]
          /\ \A p \in PluginSet : settingsFile'[p] \in {settingsFile[p], registered[p]}
      BY <1>1, <1>2, <2>1 DEF PluginsInv, PluginsTypeOK
    <2>3. PluginsTypeOK' BY <1>1, <1>3, <1>5, <2>1, <2>2 DEF PluginsTypeOK
    <2>4. \A p \in PluginSet : AsWritten(settingsFile'[p]) /\ AsWritten(registered'[p])
      BY <2>1, <2>2 DEF PluginsInv
    <2>5. \A p \in PluginSet \ (loadedPlugins' \cup InStart') : DOMAIN registered'[p] = {}
      BY <1>4, <2>1 DEF PluginsInv
    <2>6. handlers' \cup frameHandlers' \subseteq loadedPlugins' \cup InStart'
      BY <1>4, <2>1 DEF PluginsInv
    <2>. QED BY <1>3, <1>5, <1>6, <2>1, <2>2, <2>3, <2>4, <2>5, <2>6 DEF PluginsInv, AsWritten
  <1>8. CASE rc # 0
    <2>1. /\ registered' = [registered EXCEPT ![This] = NoSettings]
          /\ handlers' = handlers \ {This} /\ frameHandlers' = frameHandlers \ {This}
          /\ UNCHANGED <<loadedPlugins, settingsFile, keptLines>>
      BY <1>8 DEF InitReturns
    <2>2. /\ registered'[This] = NoSettings
          /\ \A p \in PluginSet : p # This => registered'[p] = registered[p]
      BY <1>1, <1>2, <2>1 DEF PluginsTypeOK
    <2>3. PluginsTypeOK' BY <1>1, <1>3, <1>5, <2>1, NoLines DEF PluginsTypeOK
    <2>4. \A p \in PluginSet : AsWritten(settingsFile'[p]) /\ AsWritten(registered'[p])
      BY <2>1, <2>2, NoLines DEF PluginsInv
    <2>5. \A p \in PluginSet \ (loadedPlugins' \cup InStart') : DOMAIN registered'[p] = {}
      BY <1>4, <2>1, <2>2, NoLines DEF PluginsInv
    <2>6. handlers' \cup frameHandlers' \subseteq loadedPlugins' \cup InStart'
      BY <1>4, <2>1 DEF PluginsInv
    <2>7. settingsFile' = keptLines' BY <2>1 DEF PluginsInv
    <2>. QED BY <1>3, <1>5, <1>6, <2>1, <2>3, <2>4, <2>5, <2>6, <2>7 DEF PluginsInv, AsWritten
  <1>. QED BY <1>7, <1>8

(* A setting that is set is written, or the file is as it was.               *)
LEMMA SettingHolds ==
  ASSUME PluginsInv, NEW p \in PluginSet, NEW id \in SettingIds, NEW v \in SettingValues,
         NEW wrote \in BOOLEAN, PluginSetting(p, id, v, wrote)
  PROVE  PluginsInv'
  <1>. DEFINE new == [registered[p] EXCEPT ![id] = WriteSetting(id, v)]
  <1>1. PluginsTypeOK /\ p \in loadedPlugins /\ id \in DOMAIN registered[p]
    BY DEF PluginsInv, PluginSetting
  <1>2. /\ registered' = [registered EXCEPT ![p] = new]
        /\ UNCHANGED <<next, inInit, loadedPlugins, saved, handlers, frameHandlers, framesReady>>
    BY DEF PluginSetting
  <1>3. v \in Int BY PluginsAssumption
  <1>4. registered[p] \in Lines /\ AsWritten(registered[p]) BY <1>1 DEF PluginsInv, PluginsTypeOK
  <1>5. DOMAIN new = DOMAIN registered[p]
        /\ \A i \in DOMAIN new : new[i] = IF i = id THEN WriteSetting(id, v) ELSE registered[p][i]
    OBVIOUS
  <1>6. \A f \in Lines : f \in [DOMAIN f -> Int] /\ DOMAIN f \in SUBSET SettingIds BY DEF Lines
  <1>7. new \in [DOMAIN registered[p] -> Int] BY <1>3, <1>4, <1>6, WrittenAsIs
  <1>8. new \in Lines BY <1>4, <1>6, <1>7 DEF Lines
  <1>. HIDE DEF new
  <1>9. AsWritten(new) BY <1>3, <1>4, <1>5, WrittenAsIs DEF AsWritten
  <1>10. registered'[p] = new /\ \A q \in PluginSet : q # p => registered'[q] = registered[q]
    BY <1>1, <1>2 DEF PluginsTypeOK
  <1>11. /\ settingsFile' = keptLines' /\ settingsFile' \in [PluginSet -> Lines]
         /\ settingsFile'[p] \in {settingsFile[p], new}
         /\ \A q \in PluginSet : q # p => settingsFile'[q] = settingsFile[q]
    <2>1. \/ settingsFile' = settingsFile /\ keptLines' = keptLines
          \/ /\ settingsFile' = [settingsFile EXCEPT ![p] = new]
             /\ keptLines' = [keptLines EXCEPT ![p] = new]
      BY <1>10 DEF PluginSetting
    <2>. QED BY <1>1, <1>8, <2>1 DEF PluginsInv, PluginsTypeOK
  <1>12. PluginsTypeOK' BY <1>1, <1>2, <1>8, <1>11 DEF PluginsTypeOK
  <1>13. \A q \in PluginSet : AsWritten(settingsFile'[q]) /\ AsWritten(registered'[q])
    BY <1>9, <1>10, <1>11 DEF PluginsInv
  <1>14. This' = This /\ InStart' = InStart BY <1>2 DEF This, InStart
  <1>15. inInit => This \in PluginSet /\ This # p
    BY <1>1, StartsOnce DEF PluginsInv
  <1>16. inInit' => /\ next' <= Len(PluginFiles) /\ saved'[This'] = settingsFile'[This']
                    /\ \A i \in DOMAIN registered'[This'] :
                          registered'[This'][i] = SettingOf(keptLines'[This'], i, 0)
    BY <1>2, <1>10, <1>11, <1>14, <1>15 DEF PluginsInv
  <1>17. \A q \in PluginSet \ (loadedPlugins' \cup InStart') : DOMAIN registered'[q] = {}
    BY <1>1, <1>2, <1>10, <1>14 DEF PluginsInv
  <1>. QED BY <1>2, <1>11, <1>12, <1>13, <1>14, <1>16, <1>17 DEF PluginsInv, AsWritten

(* Every step keeps the invariant; the end of the game leaves the files.     *)
LEMMA PluginsHold == ASSUME PluginsInv, [PluginsNext]_pluginVars PROVE PluginsInv'
  <1>1. CASE UNCHANGED <<next, inInit, loadedPlugins, registered, saved, settingsFile, handlers,
                         frameHandlers, framesReady, keptLines>>
    <2>1. This' = This /\ InStart' = InStart BY <1>1 DEF This, InStart
    <2>. QED BY <1>1, <2>1 DEF PluginsInv, PluginsTypeOK, AsWritten
  <1>2. ASSUME LoadingEnds PROVE PluginsInv'
    <2>1. UNCHANGED <<next, inInit, loadedPlugins, registered, saved, settingsFile, handlers,
                      frameHandlers, keptLines>>
          /\ next > Len(PluginFiles) /\ framesReady' = TRUE
      BY <1>2 DEF LoadingEnds
    <2>2. This' = This /\ InStart' = InStart BY <2>1 DEF This, InStart
    <2>. QED BY <2>1, <2>2 DEF PluginsInv, PluginsTypeOK, AsWritten
  <1>3. ASSUME GameEnds PROVE PluginsInv'
    <2>1. /\ next' = 1 /\ inInit' = FALSE /\ loadedPlugins' = {}
          /\ registered' = [p \in PluginSet |-> NoSettings]
          /\ saved' = [p \in PluginSet |-> NoSettings]
          /\ handlers' = {} /\ frameHandlers' = {} /\ framesReady' = FALSE
          /\ UNCHANGED <<settingsFile, keptLines>>
      BY <1>3 DEF GameEnds
    <2>2. PluginsTypeOK' BY <2>1, NoLines DEF PluginsInv, PluginsTypeOK
    <2>3. \A p \in PluginSet : registered'[p] = NoSettings BY <2>1
    <2>4. \A p \in PluginSet : AsWritten(settingsFile'[p]) /\ AsWritten(registered'[p])
      BY <2>1, <2>3, NoLines DEF PluginsInv
    <2>. QED BY <2>1, <2>2, <2>3, <2>4, NoLines DEF PluginsInv, AsWritten
  <1>4. CASE UNCHANGED pluginVars BY <1>1, <1>4 DEF pluginVars
  <1>5. ASSUME StartLoading PROVE PluginsInv' BY <1>1, <1>5 DEF StartLoading
  <1>. QED BY <1>2, <1>3, <1>4, <1>5, OpenHolds, AddSettingHolds, AddHandlersHolds,
              InitReturnsHolds, SettingHolds
           DEF PluginsNext

(* A setting that is registered again has the value that was last saved for  *)
(* it, and only plugins that run are called once frames are (plugins_load,   *)
(* save_settings, bg3le_ext_plugin_set in plugins.cpp): for any plugins and  *)
(* settings, over any number of starts, failures and crashes.                *)
THEOREM PluginsStayKept == PluginsSpec => []PluginsKept
  <1>1. ASSUME PluginsInv PROVE PluginsKept
    <2>1. SettingsSurvive BY <1>1 DEF PluginsInv, SettingsSurvive
    <2>2. ASSUME framesReady PROVE frameHandlers \cup handlers \subseteq loadedPlugins
      <3>1. next > Len(PluginFiles) BY <1>1, <2>2 DEF PluginsInv
      <3>2. ~inInit BY <1>1, <3>1, FilesAre DEF PluginsInv, PluginsTypeOK
      <3>. QED BY <1>1, <3>2 DEF PluginsInv, InStart
    <2>. QED BY <2>1, <2>2 DEF PluginsKept, FramesOfRunning
  <1>. QED BY <1>1, PluginsStart, PluginsHold, PTL DEF PluginsSpec

-----------------------------------------------------------------------------
(* PakFix: a copy is the correction of the archive that has its key, and a   *)
(* mark says that there is nothing to correct, unless the archive was        *)
(* replaced while it was read.                                               *)
Installable == {0} \cup DOMAIN Releases
CopyRight(k, copy) == k \in wrongKeys \/ (CopyOf(k) # <<>> /\ copy = CopyOf(k)[1])

FixInv ==
    /\ release \in Installable /\ DOMAIN copies \subseteq Installable
    /\ step \in {"build", "rename", "link"} => key \in Installable
    /\ \A k \in DOMAIN copies : CopyRight(k, copies[k])
    /\ \A k \in cleans : k \in wrongKeys \/ CopyOf(k) = <<>>
    /\ step # "idle" => answer = "unasked"
    /\ step = "build" => key = release \/ key \in wrongKeys
    /\ step = "rename" => CopyRight(key, making)
    /\ step = "link" => key \in DOMAIN copies
    /\ step \in {"build", "rename", "link"} => key = release \/ behindRun
    /\ answer = "copy" /\ ~behindRun =>
          /\ release \in DOMAIN copies
          /\ release \in wrongKeys \/ (copies[release].split => partKnown)
    /\ answer \notin {"copy", "unasked"} /\ ~behindRun /\ ~failed =>
          release \in wrongKeys \/ CopyOf(release) = <<>>

(* Before the game first runs.                                              *)
LEMMA FixStarts == ASSUME FixInit PROVE FixInv
  BY DEF FixInit, FixInv, Installable

(* What a run asks first sweeps the cache of an archive that is gone.        *)
LEMMA AskHolds == ASSUME FixInv, Ask PROVE FixInv'
  <1>1. /\ DOMAIN copies' \subseteq DOMAIN copies /\ cleans' \subseteq cleans
        /\ \A k \in DOMAIN copies' : copies'[k] = copies[k]
    BY DEF Ask
  <1>2. /\ step' = "stat" /\ answer = "unasked"
        /\ UNCHANGED <<release, key, making, answer, partKnown, failed, behindRun, wrongKeys>>
    BY DEF Ask
  <1>. QED BY <1>1, <1>2 DEF FixInv, CopyRight

(* The archive is looked at.                                                *)
LEMMA StatHolds == ASSUME FixInv, Stat PROVE FixInv'
  <1>1. /\ step = "stat" /\ key' = release
        /\ UNCHANGED <<release, making, failed, behindRun, wrongKeys>>
    BY DEF Stat
  <1>2. CASE release = 0 \/ release \in cleans
    <2>1. CopyOf(release) = <<>> \/ release \in wrongKeys BY <1>2 DEF FixInv, CopyOf
    <2>. QED BY <1>1, <1>2, <2>1 DEF Stat, Answer, FixInv, CopyRight
  <1>3. CASE ~(release = 0 \/ release \in cleans) /\ release \in DOMAIN copies
    BY <1>1, <1>3 DEF Stat, Answer, FixInv, CopyRight
  <1>4. CASE ~(release = 0 \/ release \in cleans) /\ release \notin DOMAIN copies
    <2>1. /\ step' = "build" /\ cleans' \subseteq cleans /\ UNCHANGED <<answer, partKnown>>
          /\ copies' = [k \in OfKey(DOMAIN copies) |-> copies[k]]
      BY <1>4 DEF Stat, OfKey
    <2>2. /\ DOMAIN copies' \subseteq DOMAIN copies
          /\ \A k \in DOMAIN copies' : copies'[k] = copies[k]
      BY <2>1 DEF OfKey
    <2>. QED BY <1>1, <2>1, <2>2 DEF FixInv, CopyRight
  <1>. QED BY <1>2, <1>3, <1>4

(* A copy is built.                                                         *)
LEMMA BuildHolds == ASSUME FixInv, NEW ok \in BOOLEAN, Build(ok) PROVE FixInv'
  <1>1. /\ step = "build" /\ answer = "unasked"
        /\ UNCHANGED <<release, copies, links, key, behindRun, wrongKeys>>
    BY DEF Build, FixInv
  <1>2. CASE CopyOf(release) = <<>>
    <2>1. /\ cleans' = cleans \cup {key} /\ step' = "idle" /\ answer' = "original"
          /\ UNCHANGED <<making, failed>>
      BY <1>2 DEF Build, Answer
    <2>2. key \in wrongKeys \/ CopyOf(key) = <<>> BY <1>1, <1>2 DEF FixInv
    <2>. QED BY <1>1, <1>2, <2>1, <2>2 DEF FixInv, CopyRight
  <1>3. CASE CopyOf(release) # <<>> /\ ~ok
    BY <1>1, <1>3 DEF Build, Answer, FixInv, CopyRight
  <1>4. CASE CopyOf(release) # <<>> /\ ok
    <2>1. /\ making' = CopyOf(release)[1] /\ step' = "rename"
          /\ UNCHANGED <<answer, partKnown, failed, cleans>>
      BY <1>4 DEF Build
    <2>2. CopyRight(key, making)' BY <1>1, <1>4, <2>1 DEF FixInv, CopyRight
    <2>. QED BY <1>1, <2>1, <2>2 DEF FixInv, CopyRight
  <1>. QED BY <1>2, <1>3, <1>4

(* It is given its name.                                                    *)
LEMMA RenameHolds == ASSUME FixInv, RenameCopy PROVE FixInv'
  <1>1. /\ step = "rename" /\ copies' = KeepCopy(key, making) /\ answer = "unasked"
        /\ UNCHANGED <<release, cleans, key, failed, behindRun, wrongKeys>>
    BY DEF RenameCopy, FixInv
  <1>2. /\ DOMAIN copies' = DOMAIN copies \cup {key} /\ copies'[key] = making
        /\ \A k \in DOMAIN copies : k # key => copies'[k] = copies[k]
    BY <1>1 DEF KeepCopy
  <1>3. \A k \in DOMAIN copies' : CopyRight(k, copies[k])'
    BY <1>1, <1>2 DEF FixInv, CopyRight
  <1>4. CASE making.split
    <2>1. step' = "link" /\ UNCHANGED answer BY <1>4 DEF RenameCopy
    <2>. QED BY <1>1, <1>2, <1>3, <2>1 DEF FixInv
  <1>5. CASE ~making.split
    <2>1. step' = "idle" /\ answer' = "copy" BY <1>5 DEF RenameCopy, Answer
    <2>2. ~behindRun => release \in DOMAIN copies' /\ ~copies'[release].split
      BY <1>1, <1>2, <1>5 DEF FixInv
    <2>. QED BY <1>1, <1>2, <1>3, <2>1, <2>2 DEF FixInv
  <1>. QED BY <1>4, <1>5

(* A part of a split archive is linked.                                     *)
LEMMA LinkHolds == ASSUME FixInv, NEW ok \in BOOLEAN, LinkPart(ok) PROVE FixInv'
  BY DEF LinkPart, Answer, FixInv, CopyRight

(* The archive is replaced, or the game ends at any step.                   *)
LEMMA ReplaceHolds ==
  ASSUME FixInv, Crash \/ \E r \in Installable : ReplaceMod(r) PROVE FixInv'
  <1>1. ASSUME Crash PROVE FixInv' BY <1>1 DEF Crash, FixInv, CopyRight
  <1>2. ASSUME NEW r \in Installable, ReplaceMod(r) PROVE FixInv'
    <2>1. /\ release' = r /\ behindRun' = (behindRun \/ answer # "unasked" \/ step # "idle")
          /\ wrongKeys \subseteq wrongKeys' /\ (step = "build" => key \in wrongKeys')
          /\ UNCHANGED <<copies, cleans, links, step, key, making, answer, partKnown, failed>>
      BY <1>2 DEF ReplaceMod
    <2>2. /\ \A k, c : CopyRight(k, c) => CopyRight(k, c)'
      BY <2>1 DEF CopyRight
    <2>. QED BY <1>2, <2>1, <2>2 DEF FixInv, CopyRight
  <1>. QED BY <1>1, <1>2

(* Every step of the fix keeps the invariant.                               *)
LEMMA FixHolds == FixSpec => []FixInv
  <1>1. ASSUME FixInv, [FixNext]_fixVars PROVE FixInv'
    <2>1. CASE UNCHANGED fixVars BY <1>1, <2>1 DEF fixVars, FixInv, CopyRight
    <2>. QED BY <1>1, <2>1, AskHolds, StatHolds, BuildHolds, RenameHolds, LinkHolds, ReplaceHolds
             DEF FixNext, Installable
  <1>. QED BY <1>1, FixStarts, PTL DEF FixSpec

(* What the game reads of a right copy with its parts is the correction.     *)
LEMMA CopyServes ==
  ASSUME NEW r \in DOMAIN Releases, CopyOf(r) # <<>>, CopyOf(r)[1].split => partKnown
  PROVE  ReadFile(CopyOf(r)[1], Releases[r]) = Wanted(r)
  <1>. DEFINE own == IF r \in SplitReleases THEN Rewritten(r) ELSE DOMAIN Releases[r]
              copy == [names |-> [i \in DOMAIN Releases[r] |-> FixedRelease[r][i].name],
                       own |-> [i \in own |-> FixedRelease[r][i].refs],
                       split |-> r \in SplitReleases]
  <1>1. CopyOf(r)[1] = copy BY DEF CopyOf
  <1>2. /\ DOMAIN copy.names = DOMAIN Releases[r] /\ DOMAIN copy.own = own
        /\ copy.split = (r \in SplitReleases)
        /\ \A i \in DOMAIN Releases[r] : copy.names[i] = FixedRelease[r][i].name
        /\ \A i \in own : copy.own[i] = FixedRelease[r][i].refs
    OBVIOUS
  <1>3. \A i \in DOMAIN Releases[r] \ own :
            r \in SplitReleases /\ FixedRelease[r][i].refs = Releases[r][i].refs
    BY DEF Rewritten
  <1>. HIDE DEF copy, own
  <1>4. \A i \in DOMAIN Releases[r] :
            [name |-> copy.names[i],
             refs |-> IF i \in DOMAIN copy.own THEN copy.own[i]
                      ELSE IF copy.split /\ ~partKnown THEN <<>> ELSE Releases[r][i].refs]
              = [name |-> FixedRelease[r][i].name, refs |-> FixedRelease[r][i].refs]
    BY <1>1, <1>2, <1>3
  <1>. QED BY <1>1, <1>2, <1>4 DEF ReadFile, Wanted

(* A word spelled by a group keeps its letters.                              *)
LEMMA SpellKeeps ==
  ASSUME NEW files, NEW g, NEW was, Spelled(was)
  PROVE  /\ Spelled(Spell(files, g, was)) /\ Spell(files, g, was)[1] = was[1]
         /\ Choose(files, g) = {} => Spell(files, g, was) = was
         /\ Choose(files, g) # {} =>
               Spell(files, g, was) = <<was[1], CHOOSE c \in Choose(files, g) : TRUE>>
  <1>1. CASE Choose(files, g) = {} BY <1>1 DEF Spell
  <1>2. CASE Choose(files, g) # {}
    <2>. DEFINE c == CHOOSE x \in Choose(files, g) : TRUE
    <2>1. Spell(files, g, was) = <<was[1], c>> BY <1>2 DEF Spell
    <2>. HIDE DEF c
    <2>2. <<was[1], c>>[1] = was[1] /\ <<was[1], c>>[2] = c OBVIOUS
    <2>3. Spell(files, g, was)[1] = was[1] /\ Spell(files, g, was)[2] = c BY <2>1, <2>2
    <2>4. Spelled(Spell(files, g, was)) BY <2>1, <2>3 DEF Spelled
    <2>. QED BY <1>2, <2>1, <2>3, <2>4 DEF c
  <1>. QED BY <1>1, <1>2

(* The image of a finite set is finite.                                      *)
LEMMA FiniteImage ==
  ASSUME NEW S, IsFiniteSet(S), NEW f
  PROVE  IsFiniteSet({f[x] : x \in S})
  <1>. DEFINE h == [x \in S |-> f[x]]
              T == {f[x] : x \in S}
  <1>1. h \in Surjection(S, T) BY DEF Surjection
  <1>. HIDE DEF h, T
  <1>2. IsFiniteSet(T) BY <1>1, FS_Surjection
  <1>. QED BY <1>2 DEF T

(* Two different members make a set of two or more.                          *)
LEMMA TwoMembers ==
  ASSUME NEW S, IsFiniteSet(S), NEW a \in S, NEW b \in S, Cardinality(S) < 2
  PROVE  a = b
  <1>1. SUFFICES ASSUME a # b PROVE FALSE OBVIOUS
  <1>2. IsFiniteSet({a}) /\ Cardinality({a}) = 1 BY FS_Singleton
  <1>3. IsFiniteSet({a} \cup {b}) /\ Cardinality({a} \cup {b}) = 2 BY <1>1, <1>2, FS_AddElement
  <1>4. {a} \cup {b} \in SUBSET S OBVIOUS
  <1>5. Cardinality({a} \cup {b}) <= Cardinality(S) BY <1>4, FS_Subset
  <1>6. Cardinality(S) \in Nat BY FS_CardinalityType
  <1>. QED BY <1>3, <1>5, <1>6

(* An archive as the assumption has it.                                      *)
FilesOK(files) ==
    /\ IsFiniteSet(DOMAIN files)
    /\ \A i \in DOMAIN files :
          /\ \A part \in NameParts : Spelled(files[i].name[part])
          /\ IsFiniteSet(DOMAIN files[i].refs)
          /\ \A j \in DOMAIN files[i].refs :
                LET ref == files[i].refs[j]
                IN  IF ref.kind = "icon"
                    THEN ref = [kind |-> "icon", stem |-> ref.stem] /\ Spelled(ref.stem)
                    ELSE /\ ref.kind \in {"path", "tail", "gui"}
                         /\ ref = [kind |-> ref.kind, name |-> ref.name]
                         /\ \A part \in NameParts : Spelled(ref.name[part])

(* A corrected name has the same words, each spelled as its group is.       *)
LEMMA NewNameKeeps ==
  ASSUME NEW files, FilesOK(files), NEW i \in DOMAIN files
  PROVE  /\ Words(NewName(files, i)) = Words(files[i].name)
         /\ \A part \in NameParts :
               NewName(files, i)[part]
                  = Spell(files, GroupOfPart(files, i, part), files[i].name[part])
  <1>1. \A part \in NameParts :
               NewName(files, i)[part]
                  = Spell(files, GroupOfPart(files, i, part), files[i].name[part])
    BY DEF NewName, Respelled
  <1>2. \A part \in NameParts : NewName(files, i)[part][1] = files[i].name[part][1]
    BY <1>1, SpellKeeps DEF FilesOK
  <1>. QED BY <1>1, <1>2 DEF Words, NameParts

(* A reference of an archive is one of a file's.                             *)
LEMMA RefIsOf ==
  ASSUME NEW files, NEW o
  PROVE  /\ o \in RefsOf(files) => o[1] \in DOMAIN files /\ o[2] \in DOMAIN files[o[1]].refs
         /\ o \in RefsOf(files) => o = <<o[1], o[2]>>
         /\ \A i \in DOMAIN files : \A j \in DOMAIN files[i].refs : <<i, j>> \in RefsOf(files)
  BY DEF RefsOf

(* The references of an archive are finitely many.                          *)
LEMMA FiniteRefs == ASSUME NEW files, FilesOK(files) PROVE IsFiniteSet(RefsOf(files))
  <1>. DEFINE of == [i \in DOMAIN files |-> {i} \X (DOMAIN files[i].refs)]
  <1>1. IsFiniteSet(DOMAIN files) BY DEF FilesOK
  <1>2. \A i \in DOMAIN files : IsFiniteSet(of[i])
    <2>1. SUFFICES ASSUME NEW i \in DOMAIN files PROVE IsFiniteSet(of[i]) OBVIOUS
    <2>2. IsFiniteSet({i}) /\ IsFiniteSet(DOMAIN files[i].refs) BY FS_Singleton DEF FilesOK
    <2>3. IsFiniteSet({i} \X (DOMAIN files[i].refs)) BY <2>2, FS_Product
    <2>. QED BY <2>3
  <1>3. RefsOf(files) = UNION {of[i] : i \in DOMAIN files} BY DEF RefsOf
  <1>. HIDE DEF of
  <1>4. IsFiniteSet({of[i] : i \in DOMAIN files}) BY <1>1, FiniteImage
  <1>. QED BY <1>2, <1>3, <1>4, FS_UNION

(* What is referred to of an archive has finitely many spellings.            *)
Spellings(files, g) ==
    EntrySpellings(files, g) \cup PathSpellings(files, g) \cup IconSpellings(files, g)

(* So are the spellings of each group.                                      *)
LEMMA FiniteSpellings ==
  ASSUME NEW files, FilesOK(files), NEW g
  PROVE  IsFiniteSet(Spellings(files, g)) /\ IsFiniteSet(EntrySpellings(files, g))
  <1>. DEFINE E == (DOMAIN files) \X NameParts
              entry == [e \in E |-> files[e[1]].name[e[2]][2]]
              O == RefsOf(files)
              Q == O \X NameParts
              path == [q \in Q |-> RefAt(files, q[1]).name[q[2]][2]]
              icon == [o \in O |-> RefAt(files, o).stem[2]]
  <1>1. IsFiniteSet(DOMAIN files) BY DEF FilesOK
  <1>2. IsFiniteSet(NameParts)
    <2>1. IsFiniteSet({"dir"}) BY FS_Singleton
    <2>2. IsFiniteSet({"dir"} \cup {"stem"}) BY <2>1, FS_AddElement
    <2>3. IsFiniteSet({"dir"} \cup {"stem"} \cup {"ext"}) BY <2>2, FS_AddElement
    <2>4. NameParts = {"dir"} \cup {"stem"} \cup {"ext"} BY DEF NameParts
    <2>. QED BY <2>3, <2>4
  <1>4. IsFiniteSet(E) /\ IsFiniteSet(O) BY <1>1, <1>2, FS_Product, FiniteRefs
  <1>5. IsFiniteSet(Q) BY <1>2, <1>4, FS_Product
  <1>6. IsFiniteSet({entry[x] : x \in E})
    <2>. HIDE DEF entry, E
    <2>. QED BY <1>4, FiniteImage
  <1>7. IsFiniteSet({path[x] : x \in Q})
    <2>. HIDE DEF path, Q
    <2>. QED BY <1>5, FiniteImage
  <1>8. IsFiniteSet({icon[x] : x \in O})
    <2>. HIDE DEF icon, O
    <2>. QED BY <1>4, FiniteImage
  <1>9. EntrySpellings(files, g) \in SUBSET {entry[x] : x \in E} BY DEF EntrySpellings
  <1>10. PathSpellings(files, g) \in SUBSET {path[x] : x \in Q}
    <2>1. SUFFICES ASSUME NEW c \in PathSpellings(files, g) PROVE c \in {path[x] : x \in Q}
      OBVIOUS
    <2>2. PICK o \in RefsOf(files) :
               \E part \in LinkedParts(RefAt(files, o)) : c = RefAt(files, o).name[part][2]
      BY DEF PathSpellings
    <2>3. PICK part \in LinkedParts(RefAt(files, o)) : c = RefAt(files, o).name[part][2]
      BY <2>2
    <2>4. part \in NameParts BY DEF LinkedParts, NameParts
    <2>5. <<o, part>> \in Q /\ path[<<o, part>>] = c BY <2>3, <2>4
    <2>. QED BY <2>5
  <1>11. IconSpellings(files, g) \in SUBSET {icon[x] : x \in O} BY DEF IconSpellings
  <1>12. IsFiniteSet(EntrySpellings(files, g)) BY <1>6, <1>9, FS_Subset
  <1>13. IsFiniteSet(PathSpellings(files, g)) BY <1>7, <1>10, FS_Subset
  <1>14. IsFiniteSet(IconSpellings(files, g)) BY <1>8, <1>11, FS_Subset
  <1>. QED BY <1>12, <1>13, <1>14, FS_Union DEF Spellings

(* A group that gets no spelling is left alone, or has only one.             *)
LEMMA UnchosenAgree ==
  ASSUME NEW files, FilesOK(files), NEW g, Choose(files, g) = {}, ~LeftAlone(files, g),
         NEW a \in EntrySpellings(files, g), NEW b \in Spellings(files, g)
  PROVE  a = b
  <1>. DEFINE pins == Pins(files, g)
              archive == EntrySpellings(files, g)
  <1>1. ~(Cardinality(pins) > 1) BY DEF LeftAlone
  <1>2. Cardinality(pins) # 1
    <2>1. SUFFICES ASSUME Cardinality(pins) = 1 PROVE FALSE OBVIOUS
    <2>2. Choose(files, g) = pins BY <1>1, <2>1 DEF Choose
    <2>. QED BY <2>1, <2>2, FS_EmptySet
  <1>3. a \in Spellings(files, g) BY DEF Spellings
  <1>4. CASE Cardinality(Spellings(files, g)) < 2
    BY <1>3, <1>4, FiniteSpellings, TwoMembers
  <1>5. CASE ~(Cardinality(Spellings(files, g)) < 2)
    <2>1. Choose(files, g) = IF g[1] # "d" THEN {"lower"}
                             ELSE IF Cardinality(archive) = 1 THEN archive ELSE {}
      BY <1>1, <1>2, <1>5 DEF Choose, Spellings
    <2>2. g[1] = "d" BY <2>1
    <2>3. Cardinality(archive) # 1 BY <2>1, <2>2
    <2>4. IsFiniteSet(archive) /\ Cardinality(archive) \in Nat /\ Cardinality(archive) # 0
      BY FiniteSpellings, FS_CardinalityType, FS_EmptySet
    <2>5. Cardinality(archive) > 1 BY <2>3, <2>4
    <2>. QED BY <2>2, <2>5 DEF LeftAlone
  <1>. QED BY <1>4, <1>5

(* Two spellings of one word that a group gives, or finds equal.             *)
LEMMA SpelledAlike ==
  ASSUME NEW files, FilesOK(files), NEW g, NEW a, NEW b, Spelled(a), Spelled(b), a[1] = b[1],
         a[2] \in EntrySpellings(files, g), b[2] \in Spellings(files, g)
  PROVE  Spell(files, g, b) = Spell(files, g, a) \/ LeftAlone(files, g)
  <1>1. CASE Choose(files, g) # {}
    <2>. DEFINE c == CHOOSE x \in Choose(files, g) : TRUE
    <2>1. Spell(files, g, a) = <<a[1], c>> BY <1>1, SpellKeeps
    <2>2. Spell(files, g, b) = <<b[1], c>> BY <1>1, SpellKeeps
    <2>. HIDE DEF c
    <2>. QED BY <2>1, <2>2
  <1>2. CASE Choose(files, g) = {}
    <2>1. SUFFICES ASSUME ~LeftAlone(files, g) PROVE a = b
      BY <1>2, SpellKeeps
    <2>2. a[2] = b[2] BY <1>2, <2>1, UnchosenAgree
    <2>3. a = <<a[1], a[2]>> /\ b = <<b[1], b[2]>> BY DEF Spelled
    <2>. QED BY <2>2, <2>3
  <1>. QED BY <1>1, <1>2

(* A reference that names a file names one, and links words they share.      *)
LEMMA NamedOne ==
  ASSUME NEW files, FilesOK(files), NEW ref, NEW i \in Named(files, ref)
  PROVE  /\ Named(files, ref) = {i} /\ i \in DOMAIN files /\ ref.kind # "icon"
         /\ LinkedParts(ref) \subseteq NameParts
         /\ \A part \in LinkedParts(ref) : files[i].name[part][1] = ref.name[part][1]
  <1>. DEFINE hits == {x \in DOMAIN files :
                 \A part \in FoundBy(ref) : files[x].name[part][1] = ref.name[part][1]}
  <1>1. ref.kind # "icon" /\ Cardinality(hits) = 1 /\ Named(files, ref) = hits BY DEF Named
  <1>2. IsFiniteSet(hits)
    <2>1. hits \in SUBSET DOMAIN files /\ IsFiniteSet(DOMAIN files) BY DEF FilesOK
    <2>. QED BY <2>1, FS_Subset
  <1>3. PICK x : hits = {x} BY <1>1, <1>2, FS_Singleton
  <1>4. i \in hits BY <1>1
  <1>5. LinkedParts(ref) \subseteq FoundBy(ref) /\ LinkedParts(ref) \subseteq NameParts
    BY DEF LinkedParts, FoundBy, NameParts
  <1>. QED BY <1>1, <1>3, <1>4, <1>5

(* What a reference becomes is about the same words, spelled by the group    *)
(* of what it names.                                                         *)
RefKept(files, ref, new) ==
    /\ new.kind = ref.kind
    /\ ref.kind # "icon" => \A part \in NameParts : new.name[part][1] = ref.name[part][1]
    /\ ref.kind = "icon" => new.stem[1] = ref.stem[1]
    /\ \A i \in Named(files, ref), part \in LinkedParts(ref) :
          new.name[part] = Spell(files, GroupOfPart(files, i, part), ref.name[part])
    /\ ref.kind = "icon" /\ Icons(files, ref) # {} =>
          new.stem = Spell(files, <<"icon", ref.stem[1]>>, ref.stem)

(* A corrected reference names what it named.                               *)
LEMMA RefKeeps ==
  ASSUME NEW files, FilesOK(files), NEW o \in RefsOf(files), NEW ref, ref = RefAt(files, o)
  PROVE  RefKept(files, ref, NewRef(files, ref))
  <1>1. IF ref.kind = "icon"
        THEN ref = [kind |-> "icon", stem |-> ref.stem] /\ Spelled(ref.stem)
        ELSE /\ ref.kind \in {"path", "tail", "gui"}
             /\ ref = [kind |-> ref.kind, name |-> ref.name]
             /\ \A part \in NameParts : Spelled(ref.name[part])
    <2>1. o[1] \in DOMAIN files /\ o[2] \in DOMAIN files[o[1]].refs BY RefIsOf
    <2>. QED BY <2>1 DEF FilesOK, RefAt
  <1>2. CASE Named(files, ref) # {}
    <2>. DEFINE i == CHOOSE x \in Named(files, ref) : TRUE
                words == Respelled(files, i, LinkedParts(ref), ref.name)
    <2>1. NewRef(files, ref) = [ref EXCEPT !.name = words] BY <1>2 DEF NewRef
    <2>2. i \in Named(files, ref) BY <1>2
    <2>3. Named(files, ref) = {i} /\ ref.kind # "icon" /\ LinkedParts(ref) \subseteq NameParts
      BY <2>2, NamedOne
    <2>4. \A part \in NameParts : words[part][1] = ref.name[part][1]
      BY <1>1, <2>3, SpellKeeps DEF Respelled
    <2>5. \A x \in Named(files, ref), part \in LinkedParts(ref) :
               words[part] = Spell(files, GroupOfPart(files, x, part), ref.name[part])
      BY <2>3 DEF Respelled
    <2>. HIDE DEF words, i
    <2>6. NewRef(files, ref) = [kind |-> ref.kind, name |-> words]
      BY <1>1, <2>1, <2>3
    <2>. QED BY <2>3, <2>4, <2>5, <2>6 DEF RefKept
  <1>3. CASE Named(files, ref) = {} /\ Icons(files, ref) # {}
    <2>. DEFINE i == CHOOSE x \in Icons(files, ref) : TRUE
                stem == RespelledStem(files, i, ref.stem)
    <2>1. NewRef(files, ref) = [ref EXCEPT !.stem = stem] BY <1>3 DEF NewRef
    <2>2. i \in Icons(files, ref) /\ ref.kind = "icon" BY <1>3 DEF Icons
    <2>. HIDE DEF i
    <2>3. files[i].name.stem[1] = ref.stem[1] BY <2>2 DEF Icons
    <2>4. GroupOfPart(files, i, "stem") = <<"icon", ref.stem[1]>>
      BY <2>2, <2>3 DEF GroupOfPart
    <2>5. stem[1] = ref.stem[1] BY <1>1, <2>2, SpellKeeps DEF RespelledStem
    <2>. HIDE DEF stem
    <2>6. NewRef(files, ref) = [kind |-> "icon", stem |-> stem] BY <1>1, <2>1, <2>2
    <2>. QED BY <1>3, <2>2, <2>4, <2>5, <2>6 DEF stem, RespelledStem, RefKept
  <1>4. CASE Named(files, ref) = {} /\ Icons(files, ref) = {}
    <2>1. NewRef(files, ref) = ref BY <1>4 DEF NewRef
    <2>. QED BY <1>4, <2>1 DEF RefKept
  <1>. QED BY <1>2, <1>3, <1>4

(* What a corrected archive has, unless two entries would get one name.      *)
LEMMA CorrectedIs ==
  ASSUME NEW files, FilesOK(files), ~Collides(files)
  PROVE  LET fixed == Corrected(files) IN
         /\ DOMAIN fixed = DOMAIN files /\ RefsOf(fixed) = RefsOf(files)
         /\ \A i \in DOMAIN files :
               /\ Words(fixed[i].name) = Words(files[i].name)
               /\ \A part \in NameParts : fixed[i].name[part]
                     = Spell(files, GroupOfPart(files, i, part), files[i].name[part])
         /\ \A o \in RefsOf(files) : RefAt(fixed, o) = NewRef(files, RefAt(files, o))
  <1>. DEFINE fixed == Corrected(files)
  <1>1. fixed = [i \in DOMAIN files |->
                  [name |-> NewName(files, i), empty |-> FALSE,
                   refs |-> [j \in DOMAIN files[i].refs |-> NewRef(files, files[i].refs[j])]]]
    BY DEF Corrected
  <1>. HIDE DEF fixed
  <1>2. /\ DOMAIN fixed = DOMAIN files
        /\ \A i \in DOMAIN files :
              /\ fixed[i].name = NewName(files, i) /\ DOMAIN fixed[i].refs = DOMAIN files[i].refs
              /\ \A j \in DOMAIN files[i].refs : fixed[i].refs[j] = NewRef(files, files[i].refs[j])
    BY <1>1
  <1>3. RefsOf(fixed) = RefsOf(files) BY <1>2 DEF RefsOf
  <1>4. \A o \in RefsOf(files) : RefAt(fixed, o) = NewRef(files, RefAt(files, o))
    BY <1>2, RefIsOf DEF RefAt
  <1>5. \A i \in DOMAIN files :
               /\ Words(fixed[i].name) = Words(files[i].name)
               /\ \A part \in NameParts : fixed[i].name[part]
                     = Spell(files, GroupOfPart(files, i, part), files[i].name[part])
    BY <1>2, NewNameKeeps
  <1>. QED BY <1>2, <1>3, <1>4, <1>5 DEF fixed

(* A path and an icon are about the same entries of the corrected archive.   *)
LEMMA SameEntries ==
  ASSUME NEW files, FilesOK(files), ~Collides(files), NEW o \in RefsOf(files)
  PROVE  LET fixed == Corrected(files)
             ref == RefAt(files, o) IN
         /\ LinkedParts(RefAt(fixed, o)) = LinkedParts(ref)
         /\ Named(fixed, RefAt(fixed, o)) = Named(files, ref)
         /\ Icons(fixed, RefAt(fixed, o)) = Icons(files, ref)
  <1>. DEFINE fixed == Corrected(files)
              ref == RefAt(files, o)
              new == NewRef(files, ref)
  <1>1. /\ DOMAIN fixed = DOMAIN files /\ RefAt(fixed, o) = new
        /\ \A i \in DOMAIN files : Words(fixed[i].name) = Words(files[i].name)
    BY CorrectedIs
  <1>2. /\ new.kind = ref.kind
        /\ ref.kind # "icon" => \A part \in NameParts : new.name[part][1] = ref.name[part][1]
        /\ ref.kind = "icon" => new.stem[1] = ref.stem[1]
    <2>1. RefKept(files, ref, new) BY RefKeeps
    <2>. HIDE DEF ref, new
    <2>. QED BY <2>1 DEF RefKept
  <1>. HIDE DEF fixed, ref, new
  <1>3. \A i \in DOMAIN files, part \in NameParts :
           fixed[i].name[part][1] = files[i].name[part][1]
    BY <1>1 DEF Words, NameParts
  <1>4. Named(fixed, new) = Named(files, ref)
    <2>1. CASE ref.kind = "icon" BY <1>2, <2>1 DEF Named
    <2>2. CASE ref.kind # "icon"
      <3>1. FoundBy(new) = FoundBy(ref) /\ FoundBy(ref) \subseteq NameParts
        BY <1>2 DEF FoundBy, NameParts
      <3>2. {i \in DOMAIN fixed :
                 \A part \in FoundBy(new) : fixed[i].name[part][1] = new.name[part][1]}
               = {i \in DOMAIN files :
                    \A part \in FoundBy(ref) : files[i].name[part][1] = ref.name[part][1]}
        BY <1>1, <1>2, <1>3, <2>2, <3>1
      <3>. QED BY <1>2, <2>2, <3>2 DEF Named
    <2>. QED BY <2>1, <2>2
  <1>5. Icons(fixed, new) = Icons(files, ref)
    <2>1. CASE ref.kind # "icon" BY <1>2, <2>1 DEF Icons
    <2>2. CASE ref.kind = "icon" BY <1>1, <1>2, <1>3, <2>2 DEF Icons, NameParts
    <2>. QED BY <2>1, <2>2
  <1>6. LinkedParts(new) = LinkedParts(ref) BY <1>2 DEF LinkedParts
  <1>. QED BY <1>1, <1>4, <1>5, <1>6 DEF fixed, ref, new

(* The reference o of a corrected archive agrees with what it names.         *)
LEMMA PathAgrees ==
  ASSUME NEW files, FilesOK(files), ~Collides(files), NEW o \in RefsOf(files),
         NEW i \in Named(files, RefAt(files, o)), NEW part \in LinkedParts(RefAt(files, o))
  PROVE  \/ NewRef(files, RefAt(files, o)).name[part] = Corrected(files)[i].name[part]
         \/ LeftAlone(files, GroupOfPart(files, i, part))
  <1>. DEFINE ref == RefAt(files, o)
              g == GroupOfPart(files, i, part)
              a == files[i].name[part]
              b == ref.name[part]
  <1>1. i \in DOMAIN files /\ ref.kind # "icon" /\ part \in NameParts /\ a[1] = b[1]
    BY NamedOne
  <1>2. Spelled(a) BY <1>1 DEF FilesOK
  <1>3. Spelled(b)
    <2>1. o[1] \in DOMAIN files /\ o[2] \in DOMAIN files[o[1]].refs BY RefIsOf
    <2>. QED BY <1>1, <2>1 DEF FilesOK, RefAt
  <1>4. a[1] = b[1] BY <1>1
  <1>5. a[2] \in EntrySpellings(files, g)
    <2>1. <<i, part>> \in (DOMAIN files) \X NameParts BY <1>1
    <2>2. <<i, part>>[1] = i /\ <<i, part>>[2] = part OBVIOUS
    <2>. QED BY <2>1, <2>2 DEF EntrySpellings
  <1>6. b[2] \in PathSpellings(files, g) BY <1>1 DEF PathSpellings
  <1>7. NewRef(files, ref).name[part] = Spell(files, g, b)
    <2>1. RefKept(files, ref, NewRef(files, ref)) BY RefKeeps
    <2>. HIDE DEF ref
    <2>. QED BY <2>1 DEF RefKept, ref
  <1>8. Corrected(files)[i].name[part] = Spell(files, g, a) BY <1>1, CorrectedIs
  <1>9. b[2] \in Spellings(files, g) BY <1>6 DEF Spellings
  <1>. HIDE DEF ref, g, a, b
  <1>10. Spell(files, g, b) = Spell(files, g, a) \/ LeftAlone(files, g)
    BY <1>2, <1>3, <1>4, <1>5, <1>9, SpelledAlike
  <1>. QED BY <1>7, <1>8, <1>10 DEF ref, g

(* And an Icon with each texture named after it.                             *)
LEMMA IconAgrees ==
  ASSUME NEW files, FilesOK(files), ~Collides(files), NEW o \in RefsOf(files),
         NEW i \in Icons(files, RefAt(files, o))
  PROVE  \/ NewRef(files, RefAt(files, o)).stem = Corrected(files)[i].name.stem
         \/ LeftAlone(files, GroupOfPart(files, i, "stem"))
  <1>. DEFINE ref == RefAt(files, o)
              g == GroupOfPart(files, i, "stem")
              a == files[i].name.stem
              b == ref.stem
  <1>1. /\ i \in DOMAIN files /\ ref.kind = "icon" /\ a[1] = b[1] BY DEF Icons
  <1>2. g = <<"icon", b[1]>> BY <1>1 DEF GroupOfPart
  <1>3. Spelled(a) BY <1>1 DEF FilesOK, NameParts
  <1>4. Spelled(b)
    <2>1. o[1] \in DOMAIN files /\ o[2] \in DOMAIN files[o[1]].refs BY RefIsOf
    <2>. QED BY <1>1, <2>1 DEF FilesOK, RefAt
  <1>5. a[2] \in EntrySpellings(files, g)
    <2>1. <<i, "stem">> \in (DOMAIN files) \X NameParts BY <1>1 DEF NameParts
    <2>2. <<i, "stem">>[1] = i /\ <<i, "stem">>[2] = "stem" OBVIOUS
    <2>. QED BY <2>1, <2>2 DEF EntrySpellings
  <1>6. b[2] \in IconSpellings(files, g) BY DEF IconSpellings
  <1>7. NewRef(files, ref).stem = Spell(files, g, b)
    <2>1. RefKept(files, ref, NewRef(files, ref)) BY RefKeeps
    <2>. QED BY <1>1, <1>2, <2>1 DEF RefKept
  <1>8. Corrected(files)[i].name.stem = Spell(files, g, a)
    BY <1>1, CorrectedIs DEF NameParts
  <1>9. b[2] \in Spellings(files, g) BY <1>6 DEF Spellings
  <1>10. a[1] = b[1] BY <1>1
  <1>. HIDE DEF ref, g, a, b
  <1>11. Spell(files, g, b) = Spell(files, g, a) \/ LeftAlone(files, g)
    BY <1>3, <1>4, <1>5, <1>9, <1>10, SpelledAlike
  <1>. QED BY <1>7, <1>8, <1>11 DEF ref, g

(* Every archive the mod is installed as is corrected to agree.              *)
LEMMA CorrectedAgrees == ASSUME NEW r \in DOMAIN Releases PROVE Agreeing[r]
  <1>. DEFINE was == Releases[r]
              fixed == FixedRelease[r]
  <1>1. FilesOK(was) BY FixAssumption DEF FilesOK
  <1>2. fixed = Corrected(was) BY DEF FixedRelease
  <1>3. SUFFICES ASSUME NEW o \in RefsOf(fixed)
                 PROVE  /\ \A i \in Named(fixed, RefAt(fixed, o)),
                              part \in LinkedParts(RefAt(fixed, o)) :
                              \/ RefAt(fixed, o).name[part] = fixed[i].name[part]
                              \/ LeftAlone(was, GroupOfPart(was, i, part))
                        /\ \A i \in Icons(fixed, RefAt(fixed, o)) :
                              \/ RefAt(fixed, o).stem = fixed[i].name.stem
                              \/ LeftAlone(was, GroupOfPart(was, i, "stem"))
    BY DEF Agreeing
  <1>4. CASE Collides(was) BY <1>4 DEF LeftAlone
  <1>5. CASE ~Collides(was)
    <2>. HIDE DEF was, fixed
    <2>1. o \in RefsOf(was) BY <1>1, <1>2, <1>5, CorrectedIs
    <2>2. RefAt(fixed, o) = NewRef(was, RefAt(was, o)) BY <1>1, <1>2, <1>5, <2>1, CorrectedIs
    <2>3. /\ LinkedParts(RefAt(fixed, o)) = LinkedParts(RefAt(was, o))
          /\ Named(fixed, RefAt(fixed, o)) = Named(was, RefAt(was, o))
          /\ Icons(fixed, RefAt(fixed, o)) = Icons(was, RefAt(was, o))
      BY <1>1, <1>2, <1>5, <2>1, SameEntries
    <2>4. \A i \in Named(was, RefAt(was, o)), part \in LinkedParts(RefAt(was, o)) :
               \/ RefAt(fixed, o).name[part] = fixed[i].name[part]
               \/ LeftAlone(was, GroupOfPart(was, i, part))
      BY <1>1, <1>2, <1>5, <2>1, <2>2, PathAgrees
    <2>5. \A i \in Icons(was, RefAt(was, o)) :
               \/ RefAt(fixed, o).stem = fixed[i].name.stem
               \/ LeftAlone(was, GroupOfPart(was, i, "stem"))
      BY <1>1, <1>2, <1>5, <2>1, <2>2, IconAgrees
    <2>. QED BY <2>3, <2>4, <2>5
  <1>. QED BY <1>4, <1>5
(***************************************************************************)
(* What the game reads of an installed mod is its archive corrected, and   *)
(* the corrected archive agrees with itself (pak_fix.cpp, Fixer;           *)
(* pak_fix_hooks.cpp, redirect_locked and prepare), through a crash at any *)
(* step and whatever the user puts in the archive's place.                 *)
(***************************************************************************)
THEOREM CopiesServeTheCorrection == FixSpec => []CorrectedAndServed
  <1>1. ASSUME FixInv PROVE CorrectedAndServed
    <2>1. \A k \in Installable : CopyOf(k) # <<>> => k \in DOMAIN Releases
      BY DEF Installable, CopyOf
    <2>2. ReferencesAgree
      <3>1. SUFFICES ASSUME NEW k \in DOMAIN copies \ wrongKeys PROVE Agreeing[k]
        BY DEF ReferencesAgree
      <3>2. k \in DOMAIN Releases BY <1>1, <2>1 DEF FixInv, CopyRight
      <3>. QED BY <3>2, CorrectedAgrees
    <2>3. ServedIsCorrected
      <3>1. SUFFICES ASSUME answer # "unasked", release # 0,
                            ~behindRun, ~failed, release \notin wrongKeys
                     PROVE  IF answer = "copy"
                            THEN ReadFile(copies[release], Releases[release]) = Wanted(release)
                            ELSE FixedRelease[release] = Releases[release]
        BY DEF ServedIsCorrected
      <3>2. release \in DOMAIN Releases BY <1>1, <3>1 DEF FixInv, Installable
      <3>3. CASE answer = "copy"
        <4>1. /\ CopyOf(release) # <<>> /\ copies[release] = CopyOf(release)[1]
              /\ copies[release].split => partKnown
          BY <1>1, <3>1, <3>3 DEF FixInv, CopyRight
        <4>. QED BY <3>2, <3>3, <4>1, CopyServes
      <3>4. CASE answer # "copy"
        <4>1. CopyOf(release) = <<>> BY <1>1, <3>1, <3>4 DEF FixInv
        <4>. QED BY <3>1, <3>4, <4>1 DEF CopyOf
      <3>. QED BY <3>3, <3>4
    <2>. QED BY <2>2, <2>3 DEF CorrectedAndServed
  <1>. QED BY <1>1, FixHolds, PTL

-----------------------------------------------------------------------------
(* Searches: what the thread has found is the first of its searches, in      *)
(* their order, and while those up to k are all there in time it has a round *)
(* left for each it has not run.                                             *)
UpTo(k) == {WarmSearches[i] : i \in 1..k}
Keeps(m) ==
    /\ searched = UpTo(m) /\ (statsReady <=> m >= 1)
    /\ \A k \in (m + 1)..6 : UpTo(k) \subseteq exists \ late => attempt + k - m <= Rounds
SearchesInv ==
    /\ attempt \in 0..Rounds /\ exists \subseteq UpTo(6) /\ cached \subseteq exists
    /\ statsReady \in BOOLEAN
    /\ \E m \in 0..6 : Keeps(m)
    /\ warm = "gaveUp" => attempt = Rounds

(* The searches are six, each in one place.                                  *)
LEMMA SixSearches ==
  /\ Len(WarmSearches) = 6 /\ DOMAIN WarmSearches = 1..6 /\ ToSet(WarmSearches) = UpTo(6)
  /\ \A i, j \in 1..6 : WarmSearches[i] = WarmSearches[j] => i = j
  /\ \A i \in 1..6 : (WarmSearches[i] = "stats" <=> i = 1)
                      /\ (WarmSearches[i] \in NeedsStats <=> i = 6)
  <1>1. Len(WarmSearches) = 6 /\ DOMAIN WarmSearches = 1..6 BY DEF WarmSearches
  <1>2. \A i \in 1..6 : i = 1 \/ i = 2 \/ i = 3 \/ i = 4 \/ i = 5 \/ i = 6 OBVIOUS
  <1>3. /\ WarmSearches[1] = "stats" /\ WarmSearches[2] = "mods" /\ WarmSearches[3] = "origins"
        /\ WarmSearches[4] = "loca" /\ WarmSearches[5] = "templates"
        /\ WarmSearches[6] = "prototypes"
    BY DEF WarmSearches
  <1>4. \A i, j \in 1..6 : WarmSearches[i] = WarmSearches[j] => i = j BY <1>2, <1>3
  <1>5. \A i \in 1..6 : (WarmSearches[i] = "stats" <=> i = 1)
                        /\ (WarmSearches[i] \in NeedsStats <=> i = 6)
    BY <1>2, <1>3 DEF NeedsStats
  <1>6. ToSet(WarmSearches) = UpTo(6) BY <1>1 DEF ToSet, UpTo
  <1>. QED BY <1>1, <1>4, <1>5, <1>6

(* Before the first round.                                                   *)
LEMMA SearchesStart == ASSUME SearchInit PROVE SearchesInv
  <1>1. UpTo(0) = {} BY DEF UpTo
  <1>2. \A k \in 1..6 : WarmSearches[1] \in UpTo(k) BY DEF UpTo
  <1>3. Keeps(0) BY <1>1, <1>2 DEF SearchInit, Keeps
  <1>4. attempt \in 0..Rounds /\ exists \subseteq UpTo(6) /\ cached \subseteq exists
    BY SearchesAssumption DEF SearchInit
  <1>5. statsReady \in BOOLEAN /\ warm # "gaveUp" BY DEF SearchInit
  <1>6. 0 \in 0..6 OBVIOUS
  <1>. QED BY <1>3, <1>4, <1>5, <1>6 DEF SearchesInv

(* The engine builds a structure, with a round left for each search or late. *)
LEMMA BuiltHolds ==
  ASSUME SearchesInv, NEW s \in ToSet(WarmSearches), EngineBuilds(s) PROVE SearchesInv'
  <1>1. /\ s \notin exists /\ exists' = exists \cup {s}
        /\ late' = IF attempt + 6 > Rounds THEN late \cup {s} ELSE late
        /\ UNCHANGED <<cached, searched, statsReady, attempt, warm>>
    BY SixSearches DEF EngineBuilds
  <1>2. PICK m \in 0..6 : Keeps(m) BY DEF SearchesInv
  <1>3. attempt \in Nat /\ Rounds \in Nat BY SearchesAssumption DEF SearchesInv
  <1>4. ASSUME NEW k \in (m + 1)..6, UpTo(k) \subseteq exists' \ late'
        PROVE  attempt + k - m <= Rounds
    <2>1. CASE s \in UpTo(k) BY <1>1, <1>3, <1>4, <2>1
    <2>2. CASE s \notin UpTo(k)
      <3>1. UpTo(k) \subseteq exists \ late BY <1>1, <1>4, <2>2
      <3>. QED BY <1>2, <3>1 DEF Keeps
    <2>. QED BY <2>1, <2>2
  <1>5. Keeps(m)' BY <1>1, <1>2, <1>4 DEF Keeps, UpTo
  <1>6. exists' \subseteq UpTo(6) BY <1>1, SixSearches DEF SearchesInv
  <1>. QED BY <1>1, <1>5, <1>6 DEF SearchesInv, UpTo

(* A round goes to the first search that is not done.                        *)
LEMMA RoundIs ==
  ASSUME NEW m \in 0..6, Keeps(m) PROVE RoundOf = IF m = 6 THEN 0 ELSE m + 1
  <1>. DEFINE open == {i \in DOMAIN WarmSearches :
                          /\ WarmSearches[i] \notin searched
                          /\ WarmSearches[i] \in NeedsStats => statsReady}
  <1>1. \A i \in 1..6 : WarmSearches[i] \in searched <=> i <= m
    BY SixSearches DEF Keeps, UpTo
  <1>2. \A i \in 1..6 : i \in open <=> i > m /\ (i = 6 => statsReady)
    BY <1>1, SixSearches
  <1>3. open \subseteq 1..6 BY SixSearches
  <1>4. RoundOf = IF open = {} THEN 0 ELSE CHOOSE i \in open : \A j \in open : i <= j
    BY DEF RoundOf
  <1>. HIDE DEF open
  <1>5. CASE m = 6
    <2>1. open = {} BY <1>2, <1>3, <1>5
    <2>. QED BY <1>4, <1>5, <2>1
  <1>6. CASE m # 6
    <2>1. m + 1 \in open
      <3>1. m + 1 \in 1..6 /\ m + 1 > m BY <1>6
      <3>2. m + 1 = 6 => statsReady BY DEF Keeps
      <3>. QED BY <1>2, <3>1, <3>2
    <2>2. \A j \in open : m + 1 <= j BY <1>2, <1>3
    <2>3. \A i \in open : (\A j \in open : i <= j) => i = m + 1 BY <1>3, <2>1, <2>2
    <2>. QED BY <1>4, <1>6, <2>1, <2>2, <2>3
  <1>. QED BY <1>5, <1>6

(* And keeps its turn there when the engine has not built it.                *)
LEMMA RoundHolds == ASSUME SearchesInv, WarmRound PROVE SearchesInv'
  <1>1. PICK m \in 0..6 : Keeps(m) BY DEF SearchesInv
  <1>2. attempt \in Nat /\ Rounds \in Nat /\ attempt < Rounds /\ attempt' = attempt + 1
        /\ UNCHANGED <<exists, late>> /\ warm' # "gaveUp"
    BY SearchesAssumption DEF SearchesInv, WarmRound
  <1>3. CASE m = 6
    <2>1. RoundOf = 0 BY <1>1, <1>3, RoundIs
    <2>2. UNCHANGED <<searched, cached, statsReady>> BY <2>1 DEF WarmRound
    <2>3. Keeps(m)' BY <1>1, <1>3, <2>2 DEF Keeps, UpTo
    <2>. QED BY <1>2, <2>2, <2>3 DEF SearchesInv, UpTo
  <1>4. CASE m # 6
    <2>. DEFINE i == m + 1
                s == WarmSearches[i]
    <2>1. RoundOf = i /\ i \in 1..6 /\ i # 0 BY <1>1, <1>4, RoundIs
    <2>2. s = "stats" <=> i = 1 BY <2>1, SixSearches
    <2>3. CASE s \in exists
      <3>1. Ready(s) BY <2>3 DEF Ready
      <3>2. /\ searched' = searched \cup {s} /\ cached' = cached \cup {s}
            /\ statsReady' = IF s = "stats" THEN TRUE ELSE statsReady
        BY <2>1, <3>1 DEF WarmRound
      <3>3. UpTo(i) = UpTo(m) \cup {s} BY DEF UpTo
      <3>4. searched' = UpTo(i) BY <1>1, <3>2, <3>3 DEF Keeps
      <3>5. statsReady'
        <4>1. CASE i = 1 BY <2>2, <3>2, <4>1
        <4>2. CASE i # 1
          <5>1. statsReady' = statsReady BY <2>2, <3>2, <4>2
          <5>2. statsReady BY <1>1, <4>2 DEF Keeps
          <5>. QED BY <5>1, <5>2
        <4>. QED BY <4>1, <4>2
      <3>8. statsReady' \in BOOLEAN
        <4>1. statsReady \in BOOLEAN BY DEF SearchesInv
        <4>. QED BY <3>2, <4>1
      <3>6. \A k \in (i + 1)..6 : UpTo(k) \subseteq exists \ late => attempt + 1 + k - i <= Rounds
        BY <1>1, <1>2 DEF Keeps
      <3>7. Keeps(i)' BY <1>2, <2>1, <3>4, <3>5, <3>6 DEF Keeps, UpTo
      <3>9. (attempt \in 0..Rounds /\ exists \subseteq UpTo(6) /\ cached \subseteq exists)'
        BY <1>2, <2>3, <3>2 DEF SearchesInv, UpTo
      <3>10. \E k \in 0..6 : Keeps(k)'
        <4>1. i \in 0..6 BY <2>1
        <4>. QED BY <3>7, <4>1
      <3>. QED BY <1>2, <3>8, <3>9, <3>10 DEF SearchesInv
    <2>4. CASE s \notin exists
      <3>1. ~Ready(s) BY <2>4 DEF Ready, SearchesInv
      <3>2. /\ searched' = searched /\ cached' = cached
            /\ statsReady' = IF s = "stats" THEN FALSE ELSE statsReady
        BY <2>1, <3>1 DEF WarmRound
      <3>3. statsReady' = statsReady
        <4>1. CASE i = 1
          <5>1. ~statsReady /\ statsReady \in BOOLEAN BY <1>1, <4>1 DEF Keeps, SearchesInv
          <5>2. statsReady' = FALSE BY <2>2, <3>2, <4>1
          <5>. QED BY <5>1, <5>2
        <4>2. CASE i # 1 BY <2>2, <3>2, <4>2
        <4>. QED BY <4>1, <4>2
      <3>4. \A k \in (m + 1)..6 : s \in UpTo(k) BY DEF UpTo
      <3>5. \A k \in (m + 1)..6 : ~(UpTo(k) \subseteq exists \ late) BY <2>4, <3>4
      <3>6. searched' = UpTo(m) /\ (statsReady' <=> m >= 1)
        <4>1. searched = UpTo(m) /\ (statsReady <=> m >= 1) BY <1>1 DEF Keeps
        <4>2. searched' = UpTo(m) BY <3>2, <4>1
        <4>3. CASE statsReady
          <5>1. m >= 1 BY <4>1, <4>3
          <5>2. statsReady' BY <3>3, <4>3
          <5>. QED BY <4>2, <5>1, <5>2
        <4>4. CASE ~statsReady
          <5>1. ~(m >= 1) BY <4>1, <4>4
          <5>2. ~statsReady' BY <3>3, <4>4
          <5>. QED BY <4>2, <5>1, <5>2
        <4>. QED BY <4>3, <4>4
      <3>7. Keeps(m)' BY <1>2, <3>5, <3>6 DEF Keeps, UpTo
      <3>8. (attempt \in 0..Rounds /\ exists \subseteq UpTo(6) /\ cached \subseteq exists)'
        BY <1>2, <3>2 DEF SearchesInv, UpTo
      <3>9. statsReady' \in BOOLEAN BY <3>3 DEF SearchesInv
      <3>. QED BY <1>2, <3>7, <3>8, <3>9 DEF SearchesInv
    <2>. QED BY <2>3, <2>4
  <1>. QED BY <1>3, <1>4

(* Every step keeps that.                                                    *)
LEMMA SearchesHold == SearchSpec => []SearchesInv
  <1>1. ASSUME SearchesInv, [SearchNext]_searchVars PROVE SearchesInv'
    <2>1. ASSUME UNCHANGED searchVars \/ WarmGivesUp \/ SearchNow PROVE SearchesInv'
      <3>1. UNCHANGED <<exists, searched, statsReady, attempt, late>>
        BY <2>1 DEF searchVars, WarmGivesUp, SearchNow
      <3>2. cached' \subseteq exists
        BY <1>1, <2>1 DEF searchVars, WarmGivesUp, SearchNow, Ready, SearchesInv
      <3>3. warm' = "gaveUp" => attempt = Rounds
        BY <1>1, <2>1 DEF searchVars, WarmGivesUp, SearchNow, SearchesInv
      <3>. QED BY <1>1, <3>1, <3>2, <3>3 DEF SearchesInv, Keeps, UpTo
    <2>. QED BY <1>1, <2>1, BuiltHolds, RoundHolds DEF SearchNext
  <1>. QED BY <1>1, SearchesStart, PTL DEF SearchSpec

(***************************************************************************)
(* "Enough rounds for every search to get several turns": what the engine  *)
(* has built with a round to spare for each search is found before the     *)
(* thread gives up, unless what an earlier search waits for was late       *)
(* itself (preload.cpp, warm_stats_search).                                *)
(***************************************************************************)
THEOREM SearchesGetTheirTurn == SearchSpec => []FoundUnlessBehindMissing
  <1>1. ASSUME SearchesInv PROVE FoundUnlessBehindMissing
    <2>1. SUFFICES ASSUME warm = "gaveUp", NEW s \in exists \ (searched \cup late),
                          \A b \in Before(s) : b \in exists /\ b \notin late
                   PROVE  FALSE
      BY DEF FoundUnlessBehindMissing
    <2>2. PICK m \in 0..6 : Keeps(m) BY <1>1 DEF SearchesInv
    <2>3. PICK k \in 1..6 : s = WarmSearches[k] BY <1>1 DEF SearchesInv, UpTo
    <2>4. (CHOOSE i \in DOMAIN WarmSearches : WarmSearches[i] = s) = k BY <2>3, SixSearches
    <2>5. Before(s) = {WarmSearches[i] : i \in 1..(k - 1)} BY <2>4 DEF Before
    <2>6. UpTo(k) \subseteq exists \ late
      <3>1. \A i \in 1..k : i = k \/ i \in 1..(k - 1) OBVIOUS
      <3>. QED BY <2>1, <2>3, <2>5, <3>1 DEF UpTo
    <2>7. k \in (m + 1)..6
      <3>1. ~(k <= m) BY <2>2, <2>3 DEF Keeps, UpTo
      <3>. QED BY <3>1
    <2>8. attempt + k - m <= Rounds BY <2>2, <2>6, <2>7 DEF Keeps
    <2>. QED BY <1>1, <2>1, <2>7, <2>8, SearchesAssumption DEF SearchesInv
  <1>. QED BY <1>1, SearchesHold, PTL

-----------------------------------------------------------------------------
(* GameFiles: what a FindFiles gave and could be read is a path of the game  *)
(* that is loose, is read from an archive the scan had read by then, or from *)
(* one of the game's; and the scan only goes on.                             *)
Kept(p) == ReadsHere(p)
FilesInv == /\ scanned \in -1..Len(ModPaks)
            /\ loose \subseteq DataPaths
            /\ \A f \in foundNames : f.path \in DataPaths /\ (f.reads => Kept(f.path))

(* A path that an archive scanned by then lists is filed under one archive,  *)
(* and under the same one as the scan goes on: the first.                    *)
LEMMA ModFileStays ==
  ASSUME NEW n \in Int, NEW m \in Int, n <= m, NEW p, NEW i \in ModFile(n, p)
  PROVE  i \in ModFile(m, p)
  <1>. DEFINE holds(k) == {j \in 1..k : ModPaks[j].readable /\ p \in ModPaks[j].files}
  <1>1. p.dir # <<>> /\ p.dir[1] = "Mods" BY DEF ModFile
  <1>2. \A k : ModFile(k, p) = {x \in holds(k) : \A j \in holds(k) : x <= j}
    BY <1>1 DEF ModFile
  <1>3. i \in 1..n /\ i \in holds(n) /\ \A j \in holds(n) : i <= j BY <1>2
  <1>4. holds(m) \subseteq Int /\ \A j \in holds(m) : j <= n => j \in holds(n) OBVIOUS
  <1>5. i \in holds(m) BY <1>3
  <1>. HIDE DEF holds
  <1>6. ASSUME NEW j \in holds(m) PROVE i <= j
    <2>1. j <= n \/ i <= j BY <1>3, <1>4
    <2>. QED BY <1>3, <1>4, <2>1
  <1>. QED BY <1>2, <1>5, <1>6

(* What a mod's archive gave by then it gives as the scan goes on.           *)
LEMMA ReadsModStays ==
  ASSUME NEW n \in Int, NEW m \in Int, n <= m, NEW p, ReadsMod(n, p)
  PROVE  ReadsMod(m, p)
  <1>1. PICK i \in ModFile(n, p) : p \notin ModPaks[i].broken BY DEF ReadsMod
  <1>2. i \in ModFile(m, p) BY ModFileStays
  <1>. QED BY <1>1, <1>2 DEF ReadsMod

(* The name of a path below a directory, put after the directory again, is   *)
(* the path's.                                                               *)
LEMMA PutAfter ==
  ASSUME NEW dir \in Seq(STRING), NEW under \in Seq(STRING), IsPrefix(under, dir)
  PROVE  under \o SubSeq(dir, Len(under) + 1, Len(dir)) = dir
  <1>1. Len(under) <= Len(dir) /\ \A i \in 1..Len(under) : under[i] = dir[i]
    BY DEF IsPrefix
  <1>. QED BY <1>1

(* Before the scan.                                                          *)
LEMMA FilesStart == ASSUME FilesInit PROVE FilesInv
  <1>1. Len(ModPaks) \in Nat BY FilesAssumption
  <1>. QED BY <1>1 DEF FilesInit, FilesInv

(* While the paths found before are all kept, the step only has to say that  *)
(* the scan goes on and no loose file is lost.                               *)
LEMMA GoesOn ==
  ASSUME FilesInv, scanned' \in -1..Len(ModPaks), scanned <= scanned',
         loose \subseteq loose', loose' \subseteq DataPaths, foundNames' = foundNames
  PROVE  FilesInv'
  <1>1. scanned \in Int /\ scanned' \in Int BY FilesAssumption DEF FilesInv
  <1>2. ASSUME NEW f \in foundNames' PROVE f.path \in DataPaths /\ (f.reads => Kept(f.path)')
    <2>1. f.path \in DataPaths /\ (f.reads => Kept(f.path)) BY <1>2 DEF FilesInv
    <2>2. ReadsMod(scanned, f.path) => ReadsMod(scanned', f.path) BY <1>1, ReadsModStays
    <2>3. Kept(f.path) => Kept(f.path)' BY <2>2 DEF Kept, ReadsHere, ReadLoose
    <2>. QED BY <2>1, <2>3
  <1>. QED BY <1>2 DEF FilesInv

(* A search lists only paths of the game, by the path itself.                *)
LEMMA FindFilesHolds ==
  ASSUME FilesInv, NEW under \in Seq(STRING), NEW glob, NEW recursive \in BOOLEAN,
         NEW packed \in BOOLEAN, FindFiles(under, glob, recursive, packed)
  PROVE  FilesInv'
  <1>. DEFINE paths == loose \cup IF packed THEN {q \in DataPaths : ModFile(scanned, q) # {}}
                                               \cup DOMAIN Built ELSE {}
              found(p) == [path |-> [p EXCEPT !.dir = under \o Rest(under, p).dir],
                           reads |-> ReadsHere(p)]
  <1>1. \A p \in paths : p \in DataPaths
    <2>1. DOMAIN Built \subseteq DataPaths BY DEF Built
    <2>. QED BY <2>1 DEF FilesInv
  <1>2. /\ foundNames' = foundNames \cup {found(p) : p \in Matching(under, glob, recursive, paths)}
        /\ UNCHANGED <<scanned, loose>>
    BY DEF FindFiles
  <1>. HIDE DEF paths
  <1>3. ASSUME NEW p \in Matching(under, glob, recursive, paths)
        PROVE  p \in DataPaths /\ found(p).path = p /\ found(p).reads = Kept(p)
    <2>1. p \in paths /\ IsPrefix(under, p.dir) BY <1>3 DEF Matching, UnderBase
    <2>2. p \in DataPaths BY <1>1, <2>1
    <2>3. p \in [dir : Seq(STRING), leaf : STRING, fault : STRING] BY <2>2, FilesAssumption
    <2>4. under \o SubSeq(p.dir, Len(under) + 1, Len(p.dir)) = p.dir BY <2>1, <2>3, PutAfter
    <2>5. under \o Rest(under, p).dir = p.dir BY <2>4 DEF Rest
    <2>. QED BY <2>2, <2>3, <2>5 DEF Kept
  <1>. HIDE DEF found
  <1>4. \A f \in foundNames' : f.path \in DataPaths /\ (f.reads => Kept(f.path))
    BY <1>2, <1>3 DEF FilesInv
  <1>5. \A p : Kept(p)' = Kept(p) BY <1>2 DEF Kept, ReadsHere, ReadLoose
  <1>. QED BY <1>2, <1>4, <1>5 DEF FilesInv

(* Every step keeps that.                                                    *)
LEMMA FilesHold == FilesSpec => []FilesInv
  <1>1. ASSUME FilesInv, [FilesNext]_fileVars PROVE FilesInv'
    <2>. USE <1>1
    <2>1. Len(ModPaks) \in Nat /\ scanned \in -1..Len(ModPaks) /\ loose \subseteq DataPaths
      BY FilesAssumption DEF FilesInv
    <2>2. ASSUME UNCHANGED <<scanned, loose, foundNames>> PROVE FilesInv'
      BY <2>1, <2>2, GoesOn
    <2>3. ASSUME NEW t \in Scanners, EnterScan(t) PROVE FilesInv'
      <3>1. scanned' \in {scanned, 0} /\ (scanned' = scanned \/ scanned = -1)
        BY <2>3 DEF EnterScan
      <3>. QED BY <2>1, <2>3, <3>1, GoesOn DEF EnterScan
    <2>4. CASE ScanArchive BY <2>1, <2>4, GoesOn DEF ScanArchive
    <2>5. CASE UNCHANGED fileVars BY <2>2, <2>5 DEF fileVars
    <2>6. CASE LoadPackedMods \/ InstallPathOverrideHook \/ ClearPathOverrides
      BY <2>2, <2>6 DEF LoadPackedMods, InstallPathOverrideHook, ClearPathOverrides
    <2>7. ASSUME NEW p \in DataPaths, LoadFile(p) PROVE FilesInv' BY <2>2, <2>7 DEF LoadFile
    <2>8. ASSUME NEW p \in DataPaths, NEW append \in BOOLEAN, NEW ok \in BOOLEAN,
                 SaveFile(p, "text", append, ok)
          PROVE  FilesInv'
      BY <2>2, <2>8 DEF SaveFile
    <2>9. ASSUME NEW p \in DataPaths, NEW q \in DataPaths, AddPathOverride(p, q) PROVE FilesInv'
      BY <2>2, <2>9 DEF AddPathOverride
    <2>10. ASSUME NEW p \in DataPaths, WriteDataFile(p) PROVE FilesInv'
      BY <2>1, <2>10, GoesOn DEF WriteDataFile
    <2>11. ASSUME NEW p \in DataPaths, NEW g \in Globs, NEW k \in 1..Len(p.dir),
                  NEW recursive \in BOOLEAN, NEW packed \in BOOLEAN,
                  FindFiles(SubSeq(p.dir, 1, k), g, recursive, packed)
           PROVE  FilesInv'
      <3>1. p.dir \in Seq(STRING) BY FilesAssumption
      <3>2. SubSeq(p.dir, 1, k) \in Seq(STRING) BY <3>1
      <3>. QED BY <2>11, <3>2, FindFilesHolds
    <2>. QED BY <2>3, <2>4, <2>5, <2>6, <2>7, <2>8, <2>9, <2>10, <2>11 DEF FilesNext
  <1>. QED BY <1>1, FilesStart, PTL DEF FilesSpec

(***************************************************************************)
(* What Ext.IO.FindFiles lists of the game's data and could be read then,  *)
(* Ext.IO.LoadFile loads by that name from then on, while the scan of the  *)
(* mods' archives is at any point on any thread: the archive a file is     *)
(* filed under is the first that lists it, which no archive read later     *)
(* takes its place of, whether or not its own entry can be read, and the   *)
(* names are put together again as they were taken apart.                  *)
(***************************************************************************)
THEOREM ListedFilesLoad == FilesSpec => []FoundLoads
  <1>1. ASSUME FilesInv PROVE FoundLoads
    <2>1. ASSUME NEW f \in foundNames, f.reads, SafeRelative(f.path, FALSE, FALSE)
          PROVE  LoadsData(f.path)
      <3>1. Kept(f.path) BY <1>1, <2>1 DEF FilesInv
      <3>. QED BY <2>1, <3>1 DEF LoadsData, Kept
    <2>. QED BY <2>1 DEF FoundLoads
  <1>. QED BY <1>1, FilesHold, PTL
=============================================================================
