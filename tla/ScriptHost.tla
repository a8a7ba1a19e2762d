----------------------------- MODULE ScriptHost -----------------------------
(***************************************************************************)
(* The script host of bg3le: the server's and the client's Lua states, the *)
(* threads that enter them, the story work that makes them a session's,    *)
(* and the resets that replace them.                                       *)
(*                                                                         *)
(* Three threads of the game run handlers of bg3le to the end before they  *)
(* take the next: the story thread (server tick, COsiris::Event), the      *)
(* client thread (one handler a frame) and the worker that loads stats.    *)
(* Jobs are the scheduler's and the interface's threads, which enter a     *)
(* state for one call.  A handler is the list of the steps it still has to *)
(* take, todo[t]; a step is one action, so the steps of the threads        *)
(* interleave wherever the code lets them.                                 *)
(*                                                                         *)
(* Left out: what scripts do in a call except asking for a reset, the      *)
(* searches and the printing of the story work, a Lua state that cannot be *)
(* allocated.                                                              *)
(***************************************************************************)
EXTENDS Naturals, Sequences

CONSTANTS Jobs,           (* threads that run system-update and UI events    *)
          None,           (* nobody, or no side                              *)
          Names,          (* bound: addresses a Lua state can have           *)
          Null,           (* the null pointer                                *)
          MaxSessions,    (* bound: sessions the player starts               *)
          MaxRequests,    (* bound: calls of Ext.Debug.Reset                 *)
          MaxStatsLoads   (* bound: RPGStats::Load runs                      *)

Sides   == {"Server", "Client"}
Threads == {"story", "client", "worker"} \cup Jobs

ASSUME ConstantsAssumption ==
    /\ None \notin Threads \cup Sides /\ Null \notin Names
    /\ \E p, q \in Names : p # q
    /\ Jobs \cap {"story", "client", "worker"} = {}
    /\ MaxSessions \in Nat /\ MaxRequests \in Nat /\ MaxStatsLoads \in Nat

VARIABLES
    st,             (* g_server_lua, g_client_lua                            *)
    lock,           (* g_server_lock, g_client_lock: who holds each          *)
    ctx,            (* the InContext each thread is inside                   *)
    peek,           (* the pointer a caller tested before it took the lock   *)
    todo,           (* the rest of each thread's handler                     *)
    building,       (* how far the reset is that each thread is in           *)
    raw,            (* the state lua_bind_osi works on, without a lock       *)
    ready,          (* g_story_ready                                         *)
    done,           (* g_story_done                                          *)
    storyLock,      (* g_story_mutex                                         *)
    functions,      (* g_functions is not empty                              *)
    resetPending,   (* g_reset_pending                                       *)
    resetEvents,    (* g_reset_events_pending                                *)
    scriptsWaiting, (* g_client_scripts_waiting                              *)
    modsKnown,      (* the module list has been found                        *)
    clientState,    (* the engine: what the client's state machine shows     *)
    story,          (* the engine: a story is up, so Osiris calls and ticks  *)
    session,        (* the engine: how many sessions were started            *)
    requests, statsLoads,  (* how much of the bounds is used                 *)
    crossed         (* history: a rebuild of the client's met story work     *)

threadVars == <<lock, ctx, peek, todo, building, raw>>
storyVars  == <<ready, done, storyLock, functions>>
flagVars   == <<resetPending, resetEvents, scriptsWaiting, modsKnown>>
engineVars == <<clientState, story, session, requests, statsLoads>>
vars == <<st, threadVars, storyVars, flagVars, engineVars, crossed>>

-----------------------------------------------------------------------------
(* A Lua state: its address, whether the mods' bootstraps ran in it, whether   *)
(* Osi is bound, and the session whose SessionLoaded it last saw (0 for none). *)
NoState  == [id |-> Null, scripts |-> FALSE, osi |-> FALSE, session |-> 0]
Fresh(i) == [NoState EXCEPT !.id = i]

NoCtx   == [side |-> None, id |-> Null]
NotRead == [read |-> FALSE, id |-> Null]

(* A new state's address is none that is live or that anyone remembers, so  *)
(* a pointer to a closed state is never mistaken for a live one.            *)
Unused == Names \ ({st[s].id : s \in Sides} \cup {peek[t].id : t \in Threads}
                   \cup {ctx[t].id : t \in Threads} \cup {raw})
Pick(S) == CHOOSE n \in S : TRUE

Calls == {"LoadModsBegin", "LoadModsSession", "LoadModScripts", "LoadModuleBootstraps",
          "AfterReset", "RunTimers", "FireEvent"}
Plain == {"CheckReset", "ClearReset", "CheckState", "CheckEvents",
          "ResetLoad", "Reset", "ResetClient",
          "LockStory", "BindBegin", "BindEnd", "StoryReady", "StoryDone",
          "NoteSessionEnded", "Rearm", "CheckScripts", "CheckMenuReset",
          "LoadClientScripts", "ModuleLoadStarted", "ModuleBootstraps", "StatsLoaded"}

Call(fn, s) == [op |-> fn, side |-> s]
Do(op)      == [op |-> op, side |-> None]
Phases == {"no", "closed", "built"}
Steps == [op : Calls, side : Sides] \cup [op : Plain, side : {None}]

At(t, op)  == todo[t] # <<>> /\ Head(todo[t]) = Do(op)
InCall(t)  == todo[t] # <<>> /\ Head(todo[t]).op \in Calls
Fn(t)      == Head(todo[t]).op
Side(t)    == Head(todo[t]).side

(* The step at the head is taken; more may come before the rest.            *)
Continue(t, more) == todo' = [todo EXCEPT ![t] = more \o Tail(@)]
Start(t, steps)   == todo[t] = <<>> /\ todo' = [todo EXCEPT ![t] = steps]

(* lua_load_mods: each phase in the server's state, then in the client's.   *)
LoadMods == <<Call("LoadModsBegin", "Server"),   Call("LoadModsBegin", "Client"),
              Call("LoadModsSession", "Server"), Call("LoadModsSession", "Client")>>

ClientTick == <<Do("CheckScripts"), Do("CheckMenuReset"), Call("RunTimers", "Client")>>

(* Ext.Debug.Reset at the menu: the client's mods reload now, the server's    *)
(* with the next story.                                                     *)
\* Mutant: the wish to reload stays set at the menu.
MenuResetNotCleared  == <<Do("Reset"), Do("LoadClientScripts"), Call("AfterReset", "Client")>>
MenuReset == <<Do("ClearReset"), Do("Reset"), Do("LoadClientScripts"),
               Call("AfterReset", "Client")>>

Init ==
    /\ LET p == Pick(Names)
       IN  st = [s \in Sides |-> Fresh(IF s = "Server" THEN p ELSE Pick(Names \ {p}))]
    /\ lock = [s \in Sides |-> None]
    /\ ctx = [t \in Threads |-> NoCtx]
    /\ peek = [t \in Threads |-> NotRead]
    /\ todo = [t \in Threads |-> <<>>]
    /\ building = [t \in Threads |-> "no"]
    /\ raw = Null
    /\ ready = FALSE /\ done = FALSE /\ storyLock = None /\ functions = FALSE
    /\ resetPending = FALSE /\ resetEvents = FALSE
    /\ scriptsWaiting = FALSE /\ modsKnown = FALSE
    /\ clientState = "Unloaded" /\ story = FALSE /\ session = 0
    /\ requests = 0 /\ statsLoads = 0
    /\ crossed = FALSE

-----------------------------------------------------------------------------
(* InContext.  A caller that tests the pointer first gives up when it is    *)
(* null, which it is while a reset has it; then it waits for the lock.      *)
Prechecked(fn, s) ==
    \/ fn = "FireEvent"
    \/ s = "Client" /\ fn \in {"LoadModsBegin", "LoadModsSession", "AfterReset", "RunTimers"}

Peek(t) ==
    /\ InCall(t) /\ ctx[t] = NoCtx /\ ~peek[t].read /\ Prechecked(Fn(t), Side(t))
    /\ IF st[Side(t)].id = Null
       THEN Continue(t, <<>>) /\ UNCHANGED peek
       ELSE /\ peek' = [peek EXCEPT ![t] = [read |-> TRUE, id |-> st[Side(t)].id]]
            /\ UNCHANGED todo
    /\ UNCHANGED <<st, lock, ctx, building, raw, storyVars, flagVars, engineVars, crossed>>

(* Which incarnation the call runs in: the pointer read under the lock.     *)
\* Mutant: a call runs in the state it saw before it had the lock.
StaleState(t)   == IF peek[t].read THEN peek[t].id ELSE st[Side(t)].id
EnteredState(t) == st[Side(t)].id

Enter(t) ==
    /\ InCall(t) /\ ctx[t] = NoCtx
    /\ Prechecked(Fn(t), Side(t)) => peek[t].read
    /\ lock[Side(t)] = None
    /\ lock' = [lock EXCEPT ![Side(t)] = t]
    /\ ctx' = [ctx EXCEPT ![t] = [side |-> Side(t), id |-> EnteredState(t)]]
    /\ UNCHANGED <<st, peek, todo, building, raw, storyVars, flagVars, engineVars, crossed>>

(* What a call leaves behind in the state it ran in.                        *)
AfterCall(fn, state) ==
    CASE fn \in {"LoadModsBegin", "LoadModScripts"} -> [state EXCEPT !.scripts = TRUE]
      [] fn = "LoadModsSession" -> [state EXCEPT !.session = session]
      [] OTHER                  -> state

Leave(t) ==
    /\ InCall(t) /\ ctx[t] # NoCtx
    /\ st' = [st EXCEPT ![Side(t)] = IF @.id # Null THEN AfterCall(Fn(t), @) ELSE @]
    /\ lock' = [lock EXCEPT ![Side(t)] = None]
    /\ ctx' = [ctx EXCEPT ![t] = NoCtx]
    /\ peek' = [peek EXCEPT ![t] = NotRead]
    /\ Continue(t, <<>>)
    /\ UNCHANGED <<building, raw, storyVars, flagVars, engineVars, crossed>>

(* Ext.Debug.Reset, from any script that is running.                        *)
RequestReset(t) ==
    /\ ctx[t] # NoCtx \/ (building[t] = "built" /\ At(t, "ResetLoad"))
    /\ requests < MaxRequests
    /\ resetPending' = TRUE
    /\ requests' = requests + 1
    /\ UNCHANGED <<st, threadVars, storyVars, resetEvents, scriptsWaiting, modsKnown,
                   clientState, story, session, statsLoads, crossed>>

-----------------------------------------------------------------------------
(* lua_reset: both locks, both states closed, then built again; with        *)
(* load_mods the mods run in them before the locks go.                      *)
AtReset(t) == At(t, "Reset") \/ At(t, "ResetLoad")

BothHeld(t) == [s \in Sides |-> t]

ResetBegin(t) ==
    /\ AtReset(t) /\ building[t] = "no"
    /\ \A s \in Sides : lock[s] = None
    /\ lock' = BothHeld(t)
    /\ building' = [building EXCEPT ![t] = "closed"]
    /\ st' = [s \in Sides |-> NoState]
    /\ crossed' = (crossed \/ (t = "client" /\ (storyLock # None \/ done)))
    /\ UNCHANGED <<ctx, peek, todo, raw, storyVars, flagVars, engineVars>>

(* build_state publishes a state before it has filled it.                   *)
ResetBuild(t) ==
    /\ AtReset(t) /\ building[t] = "closed"
    /\ LET p == Pick(Unused)
           q == Pick(Unused \ {p})
       IN  /\ Unused # {} /\ Unused \ {p} # {}
           /\ st' = [s \in Sides |-> Fresh(IF s = "Server" THEN p ELSE q)]
    /\ building' = [building EXCEPT ![t] = "built"]
    /\ UNCHANGED <<lock, ctx, peek, todo, raw, storyVars, flagVars, engineVars, crossed>>

Rebuilt(state, server, load) ==
    [state EXCEPT !.scripts = load, !.osi = @ \/ (server /\ functions),
                  !.session = IF load THEN session ELSE 0]

ResetEnd(t) ==
    /\ AtReset(t) /\ building[t] = "built"
    /\ LET load == At(t, "ResetLoad")
       IN  /\ st' = [s \in Sides |-> Rebuilt(st[s], s = "Server", load)]
           /\ resetEvents' = (resetEvents \/ load)
    /\ lock' = [s \in Sides |-> None]
    /\ building' = [building EXCEPT ![t] = "no"]
    /\ Continue(t, <<>>)
    /\ UNCHANGED <<ctx, peek, raw, storyVars, resetPending, scriptsWaiting, modsKnown,
                   engineVars, crossed>>

(* lua_reset_client: the client's lock and state only.                      *)
ResetClientBegin(t) ==
    /\ At(t, "ResetClient") /\ building[t] = "no" /\ lock["Client"] = None
    /\ lock' = [lock EXCEPT !["Client"] = t]
    /\ building' = [building EXCEPT ![t] = "closed"]
    /\ st' = [st EXCEPT !["Client"] = NoState]
    /\ UNCHANGED <<ctx, peek, todo, raw, storyVars, flagVars, engineVars, crossed>>

ResetClientBuild(t) ==
    /\ At(t, "ResetClient") /\ building[t] = "closed"
    /\ Unused # {}
    /\ st' = [st EXCEPT !["Client"] = Fresh(Pick(Unused))]
    /\ building' = [building EXCEPT ![t] = "built"]
    /\ UNCHANGED <<lock, ctx, peek, todo, raw, storyVars, flagVars, engineVars, crossed>>

ResetClientEnd(t) ==
    /\ At(t, "ResetClient") /\ building[t] = "built"
    /\ lock' = [lock EXCEPT !["Client"] = None]
    /\ building' = [building EXCEPT ![t] = "no"]
    /\ Continue(t, <<>>)
    /\ UNCHANGED <<st, ctx, peek, raw, storyVars, flagVars, engineVars, crossed>>

ClearReset(t) ==
    /\ At(t, "ClearReset")
    /\ resetPending' = FALSE
    /\ Continue(t, <<>>)
    /\ UNCHANGED <<st, lock, ctx, peek, building, raw, storyVars, resetEvents, scriptsWaiting,
                   modsKnown, engineVars, crossed>>

-----------------------------------------------------------------------------
(* The story thread: lua_tick from the server's tick.                       *)
ServerTick ==
    /\ story
    /\ Start("story", <<Do("CheckReset"), Do("CheckState"), Do("CheckEvents"),
                        Call("RunTimers", "Server")>>)
    /\ UNCHANGED <<st, lock, ctx, peek, building, raw, storyVars, flagVars, engineVars, crossed>>

CheckReset ==
    /\ At("story", "CheckReset")
    /\ Continue("story", IF resetPending THEN <<Do("ClearReset"), Do("ResetLoad")>> ELSE <<>>)
    /\ UNCHANGED <<st, lock, ctx, peek, building, raw, storyVars, flagVars, engineVars, crossed>>

(* if (g_server_lua == nullptr) return; -- and the events stay owed.        *)
CheckState ==
    /\ At("story", "CheckState")
    /\ IF st["Server"].id = Null THEN todo' = [todo EXCEPT !["story"] = <<>>]
                              ELSE Continue("story", <<>>)
    /\ UNCHANGED <<st, lock, ctx, peek, building, raw, storyVars, flagVars, engineVars, crossed>>

CheckEvents ==
    /\ At("story", "CheckEvents")
    /\ resetEvents' = FALSE
    /\ Continue("story", IF resetEvents
                         THEN <<Call("AfterReset", "Server"), Call("AfterReset", "Client")>>
                         ELSE <<>>)
    /\ UNCHANGED <<st, lock, ctx, peek, building, raw, storyVars, resetPending, scriptsWaiting,
                   modsKnown, engineVars, crossed>>

(* COsiris::InitGame and every COsiris::Event: dump_once, once a session.   *)
StoryEvent ==
    /\ story /\ ~done
    /\ Start("story", <<Do("LockStory")>>)
    /\ UNCHANGED <<st, lock, ctx, peek, building, raw, storyVars, flagVars, engineVars, crossed>>

LockStory ==
    /\ At("story", "LockStory") /\ storyLock = None
    /\ storyLock' = IF done THEN None ELSE "story"
    /\ Continue("story", IF done THEN <<>>
                         ELSE <<Do("BindBegin")>> \o LoadMods
                              \o <<Do("StoryReady"), Do("StoryDone")>>)
    /\ crossed' = (crossed \/ (~done /\ (clientState # "Session" \/ lock["Server"] = "client")))
    /\ UNCHANGED <<st, lock, ctx, peek, building, raw, ready, done, functions, flagVars, engineVars>>

(* lua_bind_osi works on g_lua, the server's state, and takes no lock.      *)
BindBegin ==
    /\ At("story", "BindBegin")
    /\ raw' = st["Server"].id
    /\ Continue("story", IF st["Server"].id = Null THEN <<>> ELSE <<Do("BindEnd")>>)
    /\ UNCHANGED <<st, lock, ctx, peek, building, storyVars, flagVars, engineVars, crossed>>

BindEnd ==
    /\ At("story", "BindEnd")
    /\ functions' = TRUE
    /\ st' = [st EXCEPT !["Server"].osi = @ \/ st["Server"].id = raw]
    /\ raw' = Null
    /\ Continue("story", <<>>)
    /\ UNCHANGED <<lock, ctx, peek, building, ready, done, storyLock, flagVars, engineVars, crossed>>

StoryReady ==
    /\ At("story", "StoryReady")
    /\ ready' = TRUE
    /\ Continue("story", <<>>)
    /\ UNCHANGED <<st, lock, ctx, peek, building, raw, done, storyLock, functions, flagVars,
                   engineVars, crossed>>

StoryDone ==
    /\ At("story", "StoryDone")
    /\ done' = TRUE
    /\ storyLock' = None
    /\ Continue("story", <<>>)
    /\ UNCHANGED <<st, lock, ctx, peek, building, raw, ready, functions, flagVars, engineVars, crossed>>

StoryThread == \/ CheckReset \/ CheckState \/ CheckEvents
               \/ LockStory \/ BindBegin \/ BindEnd \/ StoryReady \/ StoryDone

-----------------------------------------------------------------------------
(* The client thread: machine_update_hook, once a frame, after the engine   *)
(* has moved the client's state machine.                                    *)
Frame ==
    /\ Start("client", ClientTick)
    /\ UNCHANGED <<st, lock, ctx, peek, building, raw, storyVars, flagVars, engineVars, crossed>>

FrameUnloadSession ==
    /\ clientState = "Session"
    /\ clientState' = "Unloaded"
    /\ Start("client", <<Do("NoteSessionEnded")>> \o ClientTick)
    /\ UNCHANGED <<st, lock, ctx, peek, building, raw, storyVars, flagVars, story, session,
                   requests, statsLoads, crossed>>

(* Leaving LoadMenu, or LoadModule the first time: once no stats load runs. *)
FrameLeaveLoadMenu ==
    /\ clientState = "Unloaded" /\ todo["worker"] = <<>>
    /\ clientState' = "Menu"
    /\ Start("client", <<Do("LoadClientScripts")>> \o ClientTick)
    /\ UNCHANGED <<st, lock, ctx, peek, building, raw, storyVars, flagVars, story, session,
                   requests, statsLoads, crossed>>

(* note_session_ended, up to the mutex: true only if a story was worked.    *)
\* Mutant: a session that ends stays ready.
StillReady == ready
ReadyAfterUnload == FALSE

NoteSessionEnded ==
    /\ At("client", "NoteSessionEnded")
    /\ ready' = ReadyAfterUnload
    /\ Continue("client", IF ready THEN <<Do("Rearm"), Do("Reset")>> ELSE <<>>)
    /\ crossed' = (crossed \/ (~ready /\ storyLock # None))
    /\ UNCHANGED <<st, lock, ctx, peek, building, raw, done, storyLock, functions, flagVars, engineVars>>

(* The rest of it: the next story is to be worked again.                    *)
Rearm ==
    /\ At("client", "Rearm") /\ storyLock = None
    /\ done' = FALSE
    /\ Continue("client", <<>>)
    /\ UNCHANGED <<st, lock, ctx, peek, building, raw, ready, storyLock, functions, flagVars,
                   engineVars, crossed>>

(* lua_client_tick: scripts that wait for the module list, then a reset     *)
(* asked for where there is no server tick to do it.                        *)
CheckScripts ==
    /\ At("client", "CheckScripts")
    /\ Continue("client", IF scriptsWaiting THEN <<Do("LoadClientScripts")>> ELSE <<>>)
    /\ UNCHANGED <<st, lock, ctx, peek, building, raw, storyVars, flagVars, engineVars, crossed>>

CheckMenuReset ==
    /\ At("client", "CheckMenuReset")
    /\ Continue("client", IF resetPending /\ ~ready
                          THEN MenuReset ELSE <<>>)
    /\ UNCHANGED <<st, lock, ctx, peek, building, raw, storyVars, flagVars, engineVars, crossed>>

ClientThread == NoteSessionEnded \/ Rearm \/ CheckScripts \/ CheckMenuReset

-----------------------------------------------------------------------------
(* lua_load_client_scripts, on the client thread or the stats worker: held  *)
(* back while the module list is not found, but not for more than 60 s.     *)
DeferClientScripts(t) ==
    /\ At(t, "LoadClientScripts")
    /\ \/ st["Client"].id = Null /\ UNCHANGED scriptsWaiting
       \/ st["Client"].id # Null /\ ~modsKnown /\ scriptsWaiting' = TRUE
    /\ Continue(t, <<>>)
    /\ UNCHANGED <<st, lock, ctx, peek, building, raw, storyVars, resetPending, resetEvents,
                   modsKnown, engineVars, crossed>>

\* Mutant: waits for the modules alone.
OnlyWithModules == modsKnown
MayLoadScripts  == modsKnown \/ scriptsWaiting

LoadClientScripts(t) ==
    /\ At(t, "LoadClientScripts")
    /\ st["Client"].id # Null /\ MayLoadScripts
    /\ scriptsWaiting' = FALSE
    /\ Continue(t, <<Call("LoadModScripts", "Client")>>)
    /\ UNCHANGED <<st, lock, ctx, peek, building, raw, storyVars, resetPending, resetEvents,
                   modsKnown, engineVars, crossed>>

(* The worker: RPGStats::Load, while the client loads the module.           *)
StatsLoad ==
    /\ clientState = "Unloaded" /\ ~story /\ statsLoads < MaxStatsLoads
    /\ statsLoads' = statsLoads + 1
    /\ Start("worker", <<Do("ModuleLoadStarted"), Do("StatsLoaded")>>)
    /\ UNCHANGED <<st, lock, ctx, peek, building, raw, storyVars, flagVars, clientState, story,
                   session, requests, crossed>>

ModuleLoadStarted ==
    /\ At("worker", "ModuleLoadStarted")
    /\ Continue("worker", IF st["Client"].id = Null THEN <<>>
                          ELSE <<Do("ResetClient"), Do("ModuleBootstraps")>>)
    /\ UNCHANGED <<st, lock, ctx, peek, building, raw, storyVars, flagVars, engineVars, crossed>>

ModuleBootstraps ==
    /\ At("worker", "ModuleBootstraps")
    /\ Continue("worker", IF modsKnown THEN <<Call("LoadModuleBootstraps", "Client"),
                                              Call("FireEvent", "Client")>>
                          ELSE <<>>)
    /\ UNCHANGED <<st, lock, ctx, peek, building, raw, storyVars, flagVars, engineVars, crossed>>

StatsLoaded ==
    /\ At("worker", "StatsLoaded")
    /\ Continue("worker", IF st["Client"].id = Null THEN <<>>
                          ELSE <<Do("ResetClient"), Do("LoadClientScripts"),
                                 Call("FireEvent", "Client")>>)
    /\ UNCHANGED <<st, lock, ctx, peek, building, raw, storyVars, flagVars, engineVars, crossed>>

WorkerThread == ModuleLoadStarted \/ ModuleBootstraps \/ StatsLoaded

(* A system of the engine updates, or the interface routes an event.        *)
JobEvent(j, s) ==
    /\ Start(j, <<Call("FireEvent", s)>>)
    /\ UNCHANGED <<st, lock, ctx, peek, building, raw, storyVars, flagVars, engineVars, crossed>>

-----------------------------------------------------------------------------
(* The engine.  A session starts when the client has left the last one and  *)
(* the last story is down; the story may go down before or after the        *)
(* client unloads.                                                          *)
StartSession ==
    /\ clientState # "Session" /\ ~story /\ session < MaxSessions
    /\ todo["client"] = <<>> /\ todo["worker"] = <<>>
    /\ clientState' = "Session" /\ story' = TRUE /\ session' = session + 1
    /\ UNCHANGED <<st, threadVars, storyVars, flagVars, requests, statsLoads, crossed>>

EndStory ==
    /\ story /\ todo["story"] = <<>>
    /\ story' = FALSE
    /\ UNCHANGED <<st, threadVars, storyVars, flagVars, clientState, session, requests,
                   statsLoads, crossed>>

FindModules ==
    /\ ~modsKnown
    /\ modsKnown' = TRUE
    /\ UNCHANGED <<st, threadVars, storyVars, resetPending, resetEvents, scriptsWaiting,
                   engineVars, crossed>>

(* A step of the handler the thread is in.                                  *)
Step(t) == \/ Peek(t) \/ Enter(t) \/ Leave(t)
           \/ ResetBegin(t) \/ ResetBuild(t) \/ ResetEnd(t)
           \/ ResetClientBegin(t) \/ ResetClientBuild(t) \/ ResetClientEnd(t)
           \/ ClearReset(t) \/ DeferClientScripts(t) \/ LoadClientScripts(t)

ClientFrame == Frame \/ FrameUnloadSession \/ FrameLeaveLoadMenu

StoryStep  == StoryThread  \/ Step("story")
ClientStep == ClientThread \/ Step("client")
WorkerStep == WorkerThread \/ Step("worker")

Next == \/ StoryStep \/ ClientStep \/ WorkerStep
        \/ \E j \in Jobs : Step(j)
        \/ \E t \in Threads : RequestReset(t)
        \/ ServerTick \/ StoryEvent \/ ClientFrame \/ StatsLoad
        \/ \E j \in Jobs, s \in Sides : JobEvent(j, s)
        \/ StartSession \/ EndStory \/ FindModules

(* Threads keep running and a mutex that is free again and again is had in  *)
(* the end; frames and, while a story is up, server ticks keep coming; a    *)
(* client whose story is gone unloads; 60 s pass.                           *)
Fairness ==
    /\ SF_vars(StoryStep) /\ SF_vars(ClientStep) /\ SF_vars(WorkerStep)
    /\ \A j \in Jobs : SF_vars(Step(j))
    /\ SF_vars(ServerTick) /\ WF_vars(ClientFrame)
    /\ SF_vars(FrameUnloadSession /\ ~story)
    /\ SF_vars(LoadClientScripts("client"))

Spec == Init /\ [][Next]_vars
FairSpec == Spec /\ Fairness
-----------------------------------------------------------------------------
(* Types of the variables.                                                  *)
Addresses == Names \cup {Null}
State == [id : Addresses, scripts : BOOLEAN, osi : BOOLEAN, session : Nat]

StateTypes  == st \in [Sides -> State] /\ raw \in Addresses
ThreadTypes == /\ lock \in [Sides -> Threads \cup {None}]
               /\ ctx \in [Threads -> [side : Sides \cup {None}, id : Addresses]]
               /\ peek \in [Threads -> [read : BOOLEAN, id : Addresses]]
               /\ building \in [Threads -> Phases]
TodoTypes   == todo \in [Threads -> Seq(Steps)]
StoryTypes  == /\ ready \in BOOLEAN /\ done \in BOOLEAN /\ functions \in BOOLEAN
               /\ storyLock \in {"story", None}
FlagTypes   == /\ resetPending \in BOOLEAN /\ resetEvents \in BOOLEAN
               /\ scriptsWaiting \in BOOLEAN /\ modsKnown \in BOOLEAN
               /\ story \in BOOLEAN /\ crossed \in BOOLEAN
EngineTypes == /\ clientState \in {"Unloaded", "Menu", "Session"}
               /\ session \in 0..MaxSessions
               /\ requests \in 0..MaxRequests /\ statsLoads \in 0..MaxStatsLoads

TypeOK == /\ StateTypes /\ ThreadTypes /\ TodoTypes
          /\ StoryTypes /\ FlagTypes /\ EngineTypes

(* A call that has entered a context runs in the state that is live there,  *)
(* never in one a reset closed while the call waited for the lock           *)
(* (InContext, src/src/lua_host.cpp:194).                                   *)
RunsInLiveState ==
    \A t \in Threads : ctx[t] # NoCtx =>
        /\ ctx[t].id # Null
        /\ ctx[t].id = st[ctx[t].side].id

(* While a state is missing or being rebuilt, some thread owns its lock     *)
(* for a reset: nobody meets a null pointer under the lock.                 *)
NullOnlyInReset ==
    \A s \in Sides : st[s].id = Null =>
        \E t \in Threads : lock[s] = t /\ building[t] = "closed"

(* story_ready(): "Whether a session's story has been worked (Osi bound,    *)
(* mods loaded)" (src/src/preload.cpp:887) -- in the state that is live.    *)
Worked == /\ st["Server"].scripts /\ st["Server"].osi
          /\ st["Server"].session = session

NoReset == \A t \in Threads : building[t] = "no"

StoryReadyIsWorked ==
    ready /\ clientState = "Session" /\ NoReset => Worked

(* The same, as long as no rebuild on the client thread met the story work: *)
(* the re-arming of dump_once (note_session_ended) and lua_reset together   *)
(* give every session its own worked state, resets in between included.     *)
StoryReadyIsWorkedUnlessCrossed == crossed \/ StoryReadyIsWorked

(* At the menu, once the frame that left LoadMenu is over, the client's     *)
(* mods are loaded in the live client state or are waiting for the module   *)
(* list, whatever resets and stats loads came between.                      *)
ClientModsAtMenu ==
    clientState = "Menu" /\ todo["client"] = <<>> /\ NoReset =>
        st["Client"].scripts \/ scriptsWaiting

(* Ext.Debug.Reset is honoured in the end: by the server's tick in a        *)
(* session, by the client's where there is none (lua_tick, lua_client_tick).*)
ResetServed == resetPending ~> (~resetPending \/ crossed)

(* Client scripts held back for the module list are not held back for good. *)
ScriptsNotHeldForever == scriptsWaiting ~> ~scriptsWaiting

(* The locks, the null pointers and the order of reset and read together    *)
(* implement the pin that the callers count on.                             *)
Pinned == INSTANCE ContextPin WITH
            current <- [s \in Sides |-> st[s].id],
            pinned  <- [t \in Threads |-> [s \in Sides |->
                            IF ctx[t].side = s THEN ctx[t].id ELSE Null]]
ImplementsPin == Pinned!Spec

\* Both: the side that has a session has its story worked, and the side at the
\* menu its mods, whatever reset, session or stats load came before.
SidesAreWorked ==
    StoryReadyIsWorkedUnlessCrossed /\ ClientModsAtMenu
=============================================================================
