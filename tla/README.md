# bg3le in TLA+

bg3le is a script extender for the native Linux build of Baldur's Gate 3. It is
preloaded into the game, hooks the engine's functions and runs mods' Lua in two
contexts, the server's and the client's, beside the engine's own threads. Its
own code is `src/src/` (about forty files of C++, the largest by far
`lua_host.cpp`, which holds a Lua prelude too), the engine bridges in
`src/src/vendor/` and the tools in `src/tools/`; `src/vendor/`, `src/external/`
and `src/reference/` are vendored code and documents.

This project models the parts of it whose correctness depends on the order of
things, and the pure parts where a conversion can lose what it is given: which
thread enters which Lua state when, what a reset does to calls, requests and
sessions in flight, what handlers may do to the lists they are called from, what
is kept on disk over crashes, and what crosses between Lua, the engine and other
machines. Each module is translated from the code; `PROJECT.json` maps every
definition to its lines.

## Inventory

| Component | State it keeps | Hard because | Modules |
|---|---|---|---|
| Script host (`lua_host.cpp`, `preload.cpp`, `game_state.cpp`) | the two Lua states and their locks, `g_story_ready`, `g_story_done`, `g_reset_pending`, `g_reset_events_pending`, `g_client_scripts_waiting` | three engine threads and any number of jobs enter two states that resets close and rebuild; sessions, stats loads and `Ext.Debug.Reset` come in any order | `ScriptHost`, `ContextPin` |
| Mod loading (prelude, `ext_libs.cpp`) | load order, loaded scripts, required files, `ModuleUUID` | files require one another in cycles, under several names, and fail | `ModLoading` |
| Debugger (`debug_server.cpp`) | `g_queue`, `g_pending`; `g_clients`, `g_status` | a counter kept outside the lock, a timeout racing the taking thread, nested pumps; a client attaches in the middle of a report, descriptors are used again | `DebugServer`, `EvalService`, `DebugOutput` |
| Extender protocol (`net.cpp`) | `g_peer_versions`, `g_host_extended`, `g_server`, what was extended | peers leave without notice, IDs and addresses are used again, lookups are used after the lock is gone, steps of extending fail | `ExtenderNet`, `NetPosts`, `NetWire` |
| Ext.Net in one process (prelude) | the two queues, `net_requests`, `net_next_request` | replies cross resets; the queues outlive the states | `NetChannels` |
| Savegame data (`savegame.cpp`) | `g_saved`, `g_extras` and their pending flags; nodes of values | a read's values reach mods once, the caches outlive states and games, a mod may fail to answer a save | `SaveData`, `SaveRegion` |
| Plugins (`plugins.cpp`) | plugins, settings and their files, handlers | failures in any start must not cost what an earlier one saved | `Plugins` |
| Lua events, timers, Ext.Vars (prelude) | subscriptions, timers, dirty sets, mod events, console commands | changes made by a handler while it is called | `LuaEvents`, `LuaTimers`, `UserVars` |
| Story interface (`osi.cpp`) | replaced slots, listeners, the signature store, database of functions, pooled strings | two locks taken in both orders, hooks put in one by one, a store written over line by line, arguments refused half way | `StoryListeners`, `StorySignatures`, `StoryCalls` |
| Entities (prelude, `entity_bridge.cpp`) | subscriptions, queued events; fields and containers in the engine's memory | handlers subscribe while `pairs()` goes on; containers change step by step under other views | `EntityEvents`, `Fields`, `Containers` |
| Pathfinding (prelude, `level.cpp`) | the grid's pool, requests | paths are used again while scripts hold views of them | `Pathfinding` |
| Stats (prelude, `stats.cpp`) | attributes, shared pools, proxies' caches | writes of one proxy under another's cache; pools at their limit | `Stats` |
| ImGui and Noesis interface | handlers by ID, queues between threads | IDs and handles come again, events wait over resets | `ImGui`, `NoesisUi` |
| Archives, mod fixes, game files (`pak.cpp`, `pak_fix.cpp`, `ext_libs.cpp`) | file lists by path, corrected copies on disk, scans done once | a crash at any step, archives replaced meanwhile, two threads scanning | `Archives`, `PakFix`, `GameFiles` |
| Searches (`preload.cpp`) | which structures were found, rounds | one search a round, some wait for others | `Searches` |
| Allocator (`fast_alloc.cpp`) | free lists and an arena per thread | blocks freed by other threads | `FastAlloc` |
| Ext.Math (`math.cpp`) | none | shapes told by length, operand orders | `LuaMath` |
| Tools (`tools/modsettings.cpp`) | the order of modules | cycles, absent needs, pointers over a sort | `ModSettings`, `Archives` |
| Strings, hooks and symbols, affinity, logging, the installer | engine structures, files | memory layouts and machine code, which a model says nothing about | not modelled |

How they interact. The engine calls bg3le's hooks on its own threads: the story
thread (the server's tick and `COsiris::Event`), the client thread (one pass of
`machine_update_hook` a frame), the worker that loads stats, and scheduler,
render and UI threads. Every one of them enters a Lua state through `InContext`,
except those that only leave work: the debugger's threads (jobs for the pumps),
the render thread (widget events) and the interface (commands), which the
states' ticks take. The two states talk through the queues of `NetChannels`,
drained by the ticks of `ScriptHost`; the same posts go to other machines when
the handshake of `ExtenderNet` allows it, and Ext.Vars travel in them.
`story_ready()`, set by the story work, gates the debugger's server evaluations,
the client's resets and more.

The hazards behind the properties, each at the line where it bites, are listed
in `PROJECT.json`.

## Modules

Sessions and threads.
`ContextPin` is the promise of `InContext` alone: a thread pins one incarnation
of a context; a context is replaced only while nobody has it pinned.
`ScriptHost` is how the code keeps it. A handler (a tick, a frame, an Osiris
event, a stats load, a job) is the sequence of steps it still has to take,
`todo[t]`; each step is one action, so threads interleave between them. A call
into Lua is `Peek` (the null test some callers make before the lock), `Enter`
(the lock, then the pointer) and `Leave`; a reset is `ResetBegin` (both locks,
both states closed), `ResetBuild` and `ResetEnd`; `lua_reset_client` has three
steps of its own. A state is its address and what has been done in it. A fresh
address is one nobody remembers, so that a stale pointer is told from a live
one. `crossed` is a history variable: it records that a rebuild on the client
thread met the story work of a session, the race of finding 1.
`ModLoading` is what happens in one state when its mods load: one file at a
time, each `Ext.Require` a frame on `running`.

Services.
`EvalService` is what the debugger promises about an evaluation; `DebugServer`
is the queue, the counter and the pumps that implement it, mapped by
`asked <- 1..sent`, `started` the jobs taken or done, `finished` the jobs done.
`DebugOutput` is the other half of that file: reports, histories, descriptors.
`ExtenderNet` has the host's server and any machines in one specification;
connections are ordered queues that vanish with the connection. `NetChannels`
has the two states of one process, their request IDs, callbacks and queues, and
rebuilds of one or both. `NetPosts` follows one message from either side: whom
it goes to, in which version's form, while peers say hello and leave. `NetWire`
splits synced variables into packets and puts posts on the wire and back, and
puts message 400 and the protocol into the engine's peers, over ticks and
failures. Three history variables of `NetPosts` say what may have gone wrong with
the message under way: `steady` has the peers of which nothing changed since it
was begun, `raced` says that a peer's version changed between the two looks at it,
`unforced` that the developer's switch stayed off. Each clause is excused only by
its own: what another peer says or does excuses nothing.

Saves and files.
`SaveData` has the savegame's two kinds of data, each with its cache and pending
flag, the server state's values, and the saves in their slots. The extras are
taken by a state at once even before its mods are loaded, `PersistentVars` wait
for the bootstraps (`MayTake`). Four history variables serve the properties:
`base` (what the save held), `due` (that and what mods set since), `answered`,
and `spoiled`, set when something the code does not undo came between the save
and the mods. `SaveRegion` looks at the values themselves: Ext.Json's tree
(operators over a heap with cycles and views) in typed nodes under the owner's
GUID. `Archives` is `pak.cpp` and the commands that copy archives;
`PakFix` the corrected copies, whose references agree with the files' case, over
crashes and updates: a path is found as a whole or by its tail, an icon under its
directory's name, a GUI key with its extension changed to `.dds`; `Plugins` the settings files over starts of the game;
`ModSettings` the depth-first order of modules; `GameFiles` Ext.IO, path
overrides and the scan of the archives by whichever thread asks first, with
entries that are listed but cannot be read;
`Searches` the rounds in which the engine's structures are looked for.

Callbacks.
`LuaEvents` is one event with its priorities, put-off subscriptions and throws
inside throws, and what the prelude puts around it; `LuaTimers` one pass of `RunTimers` over what was due, with callbacks that change the timers;
`UserVars` a variable's life in three places; `EntityEvents` the table of
subscriptions traversed by `pairs()` while it changes (what is left of such a
traversal after a new key is any set, as Lua leaves it undefined);
`Pathfinding` the pool and its requests; `ImGui` and `NoesisUi` handlers filed
under IDs, and the queues that carry these IDs over resets.

Values.
`StoryListeners` is the stack of each thread through hooks, locks and listeners;
an install replaces the slots class by class and may stop at any of them, and
`orphaned` records the slots it had replaced by then without an original;
`StorySignatures` the store of signatures over runs, crashes and sets of mods;
`StoryCalls` overloads, conversions and references to pooled strings. `Fields`
and `Containers` are the engine's memory written from Lua, step by step, so that
a refusal in the middle leaves what it leaves in the code: a number that is not
one ends the writing of a list, a text that is refused is passed over. `Stats` follows one
attribute of each kind through proxies, caches and pools. `LuaMath` is a table
of functions, operand shapes and results. `FastAlloc` counts memory in the
smallest class's units.

The modules that end in `Proofs` hold theorems and what they rest on, a
component's beside its module: see below.

A comment that begins with "Mutant:" marks an operator that is a plausible error
in the definition after it; `PROJECT.json` names the property it breaks
(`SaveData`'s `OwnOnly` is one too, besides being part of `OwnOrCached`).

Each `MC*` module gives constants finite values; `MCFiles` is run with three
configurations, two of them for a finding each. `MCServices` has the debugger's
queue, the handshake and the queues of `NetChannels`; `MCValues` has, beside what
crosses into the engine, `NetPosts` and `NetWire`, and `MCFiles` has `DebugOutput`, where of
connections, threads and descriptors that are alike the same one is always the
next to be used (`InOrder`). Components that share no state
in the models are explored beside one another in one run: a variable `part`
is chosen at first and stays, only that component's actions are taken, and the
others keep their initial state. A behaviour of such a run is a behaviour of one
of its components, so a property of a component holds in the run exactly if it
holds of the component with these bounds. `MCScriptHost` lets a scheduler thread
run only at the menu, before any session and any reset request: jobs beside
sessions are left to the proofs, which cover them throughout.

## Runs

| Run | Properties | States |
|---|---|---|
| `script_host` | `SidesAreWorked` (each session gets a worked server state unless `crossed`, the menu has its client mods), `ImplementsPin` | 0.94 M |
| `script_host_live` | `ResetServed`, `ScriptsNotHeldForever` (liveness) | 0.13 M |
| `services` | `ImplementsService`, `EvaluateAnswered` (liveness without timeouts); `HandshakeKept` (hello before posts, both ways, and it ends); `AnsweredAsAsked` (a callback is called once; replies come to a side in the order of its requests, over all its incarnations; a reply is its own request's unless the state was rebuilt), `RequestAnswered` (liveness) | 0.25 M |
| `files` | `HeardAsReported`; `SaveReachesMods`, `SaveKeepsValues`, `SavedComesBack`, `PaksHoldTheirFiles`, `CorrectedAndServed`, `PluginsKept`, `OrderIsWhole`, `FoundLoads`, `FoundUnlessBehindMissing` | 2.4 M |
| `callbacks` | `ThrownInOrder`, `TimersKeepTime`, `ServerValueArrives`, `NothingDroppedUnlessAdded`, `OneRequestPerPath`, `LoadedOnceAsItself`, `HandlerRunsOnlyWhileSet`, `UiReachesItsOwn`, `EventsReachTheirs` | 2.8 M |
| `values_and_messages` | `RoutedAsAsked`, `ArrivesAsSent`, `OursIsFirst`; `ProductsFit`, `BlocksApart`, `TupleAppliedAndHeard`, `NoCircularWait`, `DatabaseIsTheStorys`, `CallsComeBack`, `FieldsReadBack`, `StatsInStep`, `ChangesLand` | 1.2 M |
| `script_host_ready`, `extender_net_reuse`, `net_channels_reply`, `mod_order`, `ui_reset`, `game_files_scan` | the disagreements below: TLC finds the property violated (`mod_order` and `game_files_scan` are `MCFiles` with the constants of `files`) | |

Each property is stated with its comment at the end of its module.

Bounds, and why they are enough. Two sessions are needed for one to follow
another and no third state depends on the one before the last; a second reset
request only repeats the flag that one sets. Two connections and two pumps give
every race between a queuing, a timing-out and a taking thread, and depth 2 is a
pump inside an evaluation. Two descriptors and a history of one make a
descriptor be used again and a line fall out of the history. One machine with
the extender and one without, two peer IDs and four connections make an ID pass
from one to the other and back. In `services` three requests and two rebuilds let a
reply of one incarnation meet a request of the next. Three mods (one as most
are, one without values of its own, one not installed), one slot that is saved
to again, two games and three loads let a value of one game be in the cache of
another. Three starts of the game with two plugins let one start fail between
two others. Two throws or two deliveries inside one another, three
subscriptions, two timers over three milliseconds, three writes and one rebuild
let a handler change each list before, at and after the place a traversal is at.
Two stories, one listener and two tuples let an install stop half way, be tried
again while a tuple is under way, and meet the next story's; more listeners at a
time are left to `TuplesHeard`, which bounds none of them. Four changes of peers
put a hello, a connection, a departure and a switch at every step of a message.
Two paths and four requests exhaust the pool. Two widgets, three IDs, one queued
event and one reset let a handle, an ID and an address come again. A pool of two
is full when a third value comes. Values are small sets that hold each kind and
each boundary (a number out of range, an unknown label, a string that is not a
GUID). Every bound is a CONSTANT named `Max...` or a set of that size;
`kMaxQueued`, `SyncBudget`, `ArenaChunk` and `Rounds` are the code's own limits,
made small.

`CHECK_DEADLOCK FALSE` is set where the bounded system stops when its bounds are
used up (all connections made, all evaluations over, all loads done): every run
but `script_host`, `script_host_live`, `script_host_ready` and
`net_channels_reply`, in which TLC checks that it cannot stop. In `services` it
is the handshake's part that ends.

Fairness. `ScriptHost`: threads keep running and a mutex that is free again and
again is had in the end (strong fairness of each thread's steps); frames come
for as long as the game runs, server ticks as long as a story is up; a client
whose story is gone unloads; sixty seconds pass (`LoadClientScripts`, which the
code calls every frame while scripts wait). `DebugServer`: threads run, frames
and pumps keep coming and an evaluation ends. Timeouts are not fair: that an
evaluation is answered does not rest on them. `ExtenderNet`: what is in a
connection is received. `NetChannels`: both contexts tick, and
`lua_reset_client` goes on from closing to building. `MCServices` states the
same for the part that runs. Everything else is safety and states no fairness.

## Findings

1. `story_ready()` can be true for a server state without mods
   (`script_host_ready`). `lua_client_tick` takes a reset when no story is ready
   yet, also while the story work is under way; `lua_reset(false)` replaces the
   state the mods were loaded into, and the work then ends and says ready.
2. A machine without the extender can be sent message 400 (`extender_net_reuse`):
   a departed peer stays known until a `ClientConnect` with its ID is processed.
3. A reply can reach another request's callback (`net_channels_reply`): IDs
   restart in a rebuilt state, the queues are kept.
4. The order `modsettings` writes need not have dependencies first
   (`mod_order`): `byUuid` points into a vector that is sorted afterwards.
5. A property write of the interface from before a reset runs a function of the
   state after it (`ui_reset`): `bg3le_ui_reset` keeps `g_writes` and
   `g_write_handlers`.
6. The story may load the mods of half a list (`game_files_scan`): `pak_modules`
   sets `scanned` before it scans and holds no lock, so a thread that asks while
   the warming thread is at it gets what was read so far (`ext_libs.cpp:645`).
   The searches before the mods are there so that this does not happen
   (`preload.cpp:1035`).

For each of the first five, a property of a passing run says how far the statement does hold.

Stated in the modules, refuted by TLC with the constants of the passing runs,
and left out of them:

- `SaveData!CacheIsOfLastRead`: reading a save without extender data, of a later
  version or, for the extras, from before version 9 leaves what an earlier read
  put into the caches (`savegame.cpp:477`); the next save carries another game's
  values for mods that are not loaded or have none of their own.
- `EntityEvents!NothingDropped`: a handler that subscribes while its event is
  fired can make others be passed over, or end the delivery, as `pairs` over a
  table that gets new keys is undefined (`lua_host.cpp:17632`).
- `Containers!ResizedIsTheList`: an object's array of structs that is given
  another length keeps defaults in place of its elements.
- `Pathfinding!CallbackSeesItsPath`: a path released before its callback runs
  may be another request's by then.
- `ModLoading!IsModLoadedOfOrder`: `mod_loaded` is computed again only when the
  load order's length changes (`lua_host.cpp:14760`).
- `UserVars!ChangeReachesAll`: the host's own client's change goes to the server
  but not on to other machines.
- `Stats!ComboCacheIsCurrent`: a write to ComboProperties or ComboCategories
  returns before it drops the proxy's `__cache` (`lua_host.cpp:15195`), so what
  was read of them before is read again after the write.
- `NetPosts!EveryReaderReads`: what the peers read is looked up for the payload's
  form, again for its flag and again for whom it goes to (`net.cpp:775`), so a
  peer whose hello comes between is sent a form it may not read, or one the flag
  says wrongly.
- `StoryListeners!EveryTupleApplied` and `OriginalsAreTheEngines`: an install that
  stops half way leaves slots replaced with no original kept, which drop every
  tuple; and the next one keeps the replacement as the original, which then calls
  itself. The code says only that "listeners stay inactive" (`osi.cpp:3248`).
- `Fields!EveryElementTaken`: `assign_array` ignores what `write_field` says of an
  element (`lua_host.cpp:2565`), so of a list of texts that was taken some may be
  empty.
- `LuaMath!MulIsTheProduct`: a row vector of four times a matrix is always zero
  (`math.cpp:357` multiplies `b.V` and `a.M4`, of which a matrix and a vector have
  neither).

Met while modelling, described by the models as it is in the code: a save made
without the Lua state loses variables bg3se saved as binary; one variable that
cannot be serialised fails `CollectSaveExtras` for all; a user variable's owner
written in upper case comes back under another key; a widget whose Lua object
was collected forgets its handler's ID; a search that never succeeds takes every
round (`preload.cpp:275`) and the delay between rounds never grows; with
`l_net_force_remote` a broadcast reaches the host's own client twice
(`net.cpp:751`); a payload of nil arrives as an empty string from another
machine but as nil locally; a small variable that shares a packet with one near
the limit is lost with it (`net.cpp:1147`).

## Proofs

`ScriptHostProofs` proves, for any set of jobs, any addresses and any bounds:

- `TypeCorrect`: `Spec => []TypeOK`;
- `RunsLive`: `Spec => []RunsInLiveState`;
- `NullHasOwner`: `Spec => []NullOnlyInReset`;
- `PinImplemented`: `Spec => ImplementsPin`, the refinement of `ContextPin`.

None of the three safety statements is inductive. `LockInv` is what makes them
so: a thread inside a context holds that side's lock, its step is that call and
it runs in the live state (`CtxInv`); a thread in the middle of a reset stands
at that reset's step, holds the locks of the sides it replaces and is in no
context (`ResetInv`); a lock that is held belongs to such a thread (`OwnInv`);
and a null state has its owner (`NullOnlyInReset`). A call leaving must not free
a lock a reset has, and a reset must not free one a call has: that is what
`OwnInv` with the exclusiveness of `lock` gives. There is a lemma per action and
invariant part, collected in one step lemma per part, and the temporal steps
combine these. The refinement needs `LockInv` at both ends of a step: `Enter` is
a `Pin` because the lock was free, and so the side is pinned by nobody;
`ResetBegin` and `ResetBuild` are a `Replace` of both sides for the same reason.
The only assumption is `ConstantsAssumption`.

`SaveDataProofs` proves, for any mods, slots and bounds:

- `TypeCorrect`: `Spec => []TypeOK`;
- `ReachesMods`: `Spec => []SaveReachesMods`;
- `KeepsValues`: `Spec => SaveKeepsValues`, an action property.

`SaveReachesMods` speaks of sessions only; `ReachInv` says what must be so on the
way there. While a kind has not been read the state is empty and nothing is
pending that the read will not replace (`Unread`). Once read it waits in the
cache, flagged, with an empty state (`Waiting`), or is in the state and not
flagged (`InState`); which of the two is the code's choice by thread, and
`LoadModsDue` shows that `lua_load_mods` ends with the same values either way,
because the hand-over comes after the bootstraps. From then on the mods have
what is due (`Arrived`), and `Set` moves both sides. A game marked `spoiled`
owes nothing. `KeepsValues` needs `Arrived` at the save and that no other action
writes a file. The assumption is again `ConstantsAssumption`.

The module goes on with four components that are about files.

- `PluginsStayKept` (`PluginsKept` of `Plugins`), for any plugins, settings and
  starts. `PluginsInv` says that the file is what was set last, of values that
  come back as they are (`AsWritten`: what a start reads it writes again), and
  that only a plugin that runs or is in its init has settings and handlers.
- `CopiesServeTheCorrection` (`CorrectedAndServed` of `PakFix`), for any archives,
  names and references. `FixInv` follows one run through its steps: a copy is
  the correction of the archive whose key it bears (`CopyRight`) unless that was
  replaced while it was read, and from `build` on the key is the installed
  archive's unless the run is behind it. The other half is about what
  a correction is, and holds without a state: that a corrected reference spells a
  file as the corrected archive does (`RefKeeps` and the lemmas before it). It
  needs archives to be finite (`FixAssumption`), as the spelling a group gets is
  chosen among finitely many.
- `SearchesGetTheirTurn` (`FoundUnlessBehindMissing` of `Searches`), for any number
  of rounds and any order in which the engine builds. `Keeps(m)` is the count
  behind it: m searches are over, in their order, and as long as all up to the
  k-th were there in time there is a round left for each that has not run. The
  searches and their order are the code's own.
- `ListedFilesLoad` (`FoundLoads` of `GameFiles`), for any files and archives, and
  any entries of them that are listed but cannot be read. A file that could be read
  when it was listed can be read for good: the first archive that lists it decides,
  the scan only goes on, and an archive read later takes the place of none
  (`FilesInv`, `Kept`); the rest is that a path taken apart and put together is
  itself. That a file listed without being readable is not loaded is what
  the code does, and no part of the statement.

`DebugServerProofs` proves, for any finite sets of connections and threads and
any bounds:

- `TypeCorrect`: `Spec => []TypeOK`;
- `PendingCounts`: `Spec => []PendingCountsQueue`;
- `QueuedAwaited`: `Spec => []QueuedIsAwaited`;
- `ServiceImplemented`: `Spec => ImplementsService`, the refinement of
  `EvalService`;
- `OutputHeard`: `OutputSpec => []HeardAsReported`, about `DebugOutput`.

`PendingCountsQueue` holds only while nobody is between the queue and the
counter. `CountInv` says what the counter is at any time: the queue's length,
plus the pumps that have taken a job and not subtracted it, less the connections
that have queued one and not counted it. It needs to know that a pump inside
another is in that one's evaluation (`Nested`), or ending a pump could uncover a
thread that still has to subtract. `QueuedIsAwaited` needs that a caller woken by
`done` has no job in the queue any more: `Gone` says that what was taken or done
is not queued nor about to be, which rests on the numbers of evaluations
(`Numbered`), and `Unique` that erasing a job erases all of it.

The refinement adds `ServiceInv`: a job is in one frame of one thread until it is
done (`OnceInv`, so `EvalEnds` is a `Finish` that had not been); a number is that
of one job and one connection, and none that was refused (`NumberInv`, so that
`Take`, whose job `Gone` says was never taken, is a `Start` of a number not
started, although the service sees numbers and not jobs); and no number was
answered while its connection is at it (`AnswerInv`, for `Start` and `Answer`
both). `Evaluate` is `Ask`, `Reply` is `Answer`; all else, the counter, the lock
let go in a timeout and the pumps inside pumps, is a stutter.

`OutputInv` follows a connection's phases: who is attached is in the list once,
under a descriptor that is its own and open; a line sent to a client, due to it
from a report under way and still to come in its replay makes two at most; what
was reported since it attached was sent to it or is coming to its descriptor;
and what is kept was sent to it, is coming, or is still to be replayed. The last
two are what makes attaching in the middle of a report safe.

`NetChannelsProofs` proves `ChannelTyped` and `RequestsAnsweredAsAsked`
(`AnsweredAsAsked`), for any sides that answer and any bounds. Each message in a
queue is of a request that was made, comes to the right side and bears its
request's ID; among what is of the present incarnation no ID is given twice
(`QueueInv`, `WaitingInv`). For the order the messages of one asker are put in a
row, from its callbacks called over the replies on their way to the requests
still on theirs: all along it the requests are of falling age (`OrderInv`,
`CallOrderInv`). Only this whole row is inductive, as each tick moves a message
from one stretch to the next. The proof corrected the model: the property had
said that callbacks are called in the order of the callbacks' own requests, of
whichever side, which is false with four requests; the run's bound of three had
hidden it. It now speaks of the requests the replies are to, per asking side.

`SessionProofs` proves `SessionsWorked` (`SidesAreWorked`), for any jobs,
sessions, resets and stats loads, with jobs beside sessions, which the run leaves
out. `HostInv` has three parts: what can be left of each thread's handler
(`Shapes`), who has still to load the client's mods at the menu (`MenuInv`), and
how far the story work is in the server's live state (`WorkInv`). `Shapes` is
what makes it hold: it bounds who can still reset at which point, so that only
the client thread's rebuild can meet the story work, and that is the race
recorded by `crossed` (finding 1). Without `crossed` the statement is false. A
first form of `Shapes` let the story's lock be followed by anything, and was not
inductive.

`StoryProofs` proves `TuplesHeard` (`TupleAppliedAndHeard`) and
`NobodyWaitsInACircle` (`NoCircularWait`), for any classes, stories, threads and
calls inside calls. `LockInv` says of each stack which frame took which lock:
the lowest that needs it; and that under a call of `insert` there is a frame with
the server state's lock, so that lock comes before the cache lock wherever both
are held. `TupleInv` says of each tuple under way how often it was applied and
who has heard of it, of each trigger which tuple it stands on, and of each slot
that was replaced that its original is kept, unless an install stopped there
(`orphaned`). An install keeps this wherever it stops (`InstallKeeps`), also under
tuples that are on their way through the slots it replaces; a tuple of an orphaned
slot is dropped, and the theorem says so rather than excluding such installs.

It also proves `DatabaseStaysTheStorys` (`DatabaseIsTheStorys` of `StorySignatures`)
and `OsiCallsComeBack` (`CallsComeBack` of `StoryCalls`). `SignatureInv` says that
the database has all of a story's objects or none, and that, unless the store was
another's or a write was cut, the store and the lines still to be written make up
the story's signatures or nothing: it is the two together that the steps of a
write keep. For the calls the property is nearly inductive; the work is in what a
call does: a row is encoded up to its first mismatch, what is released is what was
taken, and a tuple is found again by its own values. References are counted by
text (`Released`), so that nothing has to be summed.

`NetProofs` proves `MessagesRouted` (`RoutedAsAsked`) and `ExtendedFirst`
(`OursIsFirst`), for any peers, messages and changes. `RouteInv` counts the
copies at each step of a message's way (found, sent, still to send), peer by peer:
what was read of a peer is still so while that peer is `steady` (`StillSo`), and
hellos, connections, departures and the switch may come at every step. What they
may cost is bounded too: no copy too many, none for a machine that it is not for,
and a flag that says another form only if a version changed between the two looks
(`PeerChanges` is the one lemma for all of them). `ExtendInv` is about one end at a time: the extender's protocol is
nowhere but first, and a peer that was checked is as bg3le knows it unless
another was put in its place in between.

`HelloComesFirst` is the safety half of `HandshakeKept` (`PostsFollowHello` and
`HostSaidHello`). `NetInv` says, machine by machine, what the messages under way in
either direction mean (`MachineInv`): a hello on its way to the host means that
the host has said it, a post on its way to the machine that the machine was
greeted in this connection. It rests on two machines never having one peer ID
at a time. It assumes at least one server, as there is one from the start.

`PoolProofs` proves `BlocksNeverOverlap` (`BlocksApart`) and `PathsNeverShared`
(`OneRequestPerPath`), for any threads, classes, sizes, pools and requests.
`AllocInv` says that the blocks in use, the blocks in the threads' free lists and
what is left of their arenas lie pairwise apart and within what is mapped
(`LiveInv`, `ArenaInv`, `FreeInv`), and that a block in use bears its class in its
header, which is what puts it on the right list when another thread frees it.
`CarveHolds` is the one argument for an arena's rest and for a new chunk: a
stretch that lies apart from all else is made into a block and what is left. That
the class chosen has room for the header too needs the least of a set of classes,
which `Least` takes from the library's well-foundedness of the naturals. It
assumes that a chunk has room for a block of any class (`AllocAssumption`):
`carve` would otherwise map what the model's addresses have no room for.
`PathInv` says that a path is in use exactly when a request that was not released
has it, and that no two requests have the same one.

The other theorems of `PoolProofs` are about what Lua hands to others and gets
back, and each has the invariant of its component.

- `ServersValueArrives` (`ServerValueArrives`), for any machines, variables and
  options. `VarsInv` says what a client will hold once its queue is applied
  (`WillBe`: the last payload that carries the variable, or what it has): it is
  what the server holds, or the variable is dirty there. The order of the queue
  is what makes it so; that no client sends a variable it did not write
  (`ClientsSilent`) is what keeps the server's.
- `ModsLoadOnce` (`LoadedOnceAsItself`), for any mods, files and depth. A file that
  ran is kept as required or is still running (`RunInv`); a bootstrap that runs is
  the outermost of what runs (`UuidInv`).
- `UiStaysWithItsOwn` (`UiReachesItsOwn`) and `HandlersRunOnlyWhileSet`
  (`HandlerRunsOnlyWhileSet`), for any objects, handlers and queues. `NoesisInv`
  gives the waiting commands the state's number as their type, so that a reset
  must empty their queue. `ImGuiInv` says of every event that was drawn or posted
  that its ID is no longer filed or is the one set for its widget: IDs are given
  out once, which is why a handle or an address that comes again does no harm.
- `TimersAreOnTime` (`TimersKeepTime`), for any delays and periods. `OnTime` is about
  what a timer has waited and has still to wait, running or paused; `Over`, that
  what a pass has collected stays due whatever the callbacks before it do.
- `EventsReachWhoStays` (`NothingDroppedUnlessAdded`), for any subscriptions and
  firings inside one another: each frame's listeners that are still subscribed were called
  or are to come, unless a handler subscribed (`FiringOK`).
- `EventsComeToTheirs` (`EventsReachTheirs`). `LogInv` says that the log's event is
  being thrown at most once and exactly while `DispatchingLogEvent` is set, and
  that the messages asked for are those written or held back and this one.

The assumptions are those named in the components' modules, which TLC evaluates
in the runs, and say what the code's own data are: that a key is not also a
wildcard (`UserVarsAssumption`) or a bootstrap a file (`ModLoadingAssumption`), that
a setting's range has its default (`PluginsAssumption`), that a queue has room for
one (`ImGuiAssumption`), the types of delays, rounds, paths, columns and
overloads (`TimersAssumption`, `SearchesAssumption`, `FilesAssumption`,
`CallsAssumption`). The type invariants proved here are in no run of their own, nor
are `RunsInLiveState`, `NullOnlyInReset`, `PendingCountsQueue` and `QueuedIsAwaited`;
`PostsFollowHello` and `HostSaidHello` are parts of `HandshakeKept`. Every other
statement proved is a property of a run, which shows it on a small instance and
with a mutant that breaks it.

Proving changed some models. The due timers of a pass are a set of
records taken in the order of their time and handle, instead of a sequence that is
sorted; and what is saved of them may be collected in any order, as nothing
depends on it. The mods still to load are a function from mod to place, what a
queue of payloads leaves of a variable is its last one that carries it, and `StoryCalls`
counts references per text, none of them by a fold. No property was weakened by this.

Only model-checked, and why:

- Liveness and all that rests on fairness: `ResetServed`,
  `ScriptsNotHeldForever`, `EvaluateAnswered`, `RequestAnswered`, the eventual half
  of `HandshakeKept`.
- What a fold, a filtered or a sorted sequence or a recursion computes for every
  input, which would take induction over data: `ThrownInOrder` (lists that are
  settled by folds), `ArrivesAsSent` (packets), `SavedComesBack` (Ext.Json's tree,
  recursive), `PaksHoldTheirFiles` (the list of parts is folded together),
  `OrderIsWhole` (a depth-first search), `StatsInStep`, `ChangesLand` and
  `FieldsReadBack` (values folded into the engine's memory), `ProductsFit`
  (products of matrices).

## Not modelled

What scripts do inside a call, except what the callbacks above may do; the rest
of the hundreds of API functions; allocation failure; the engine's memory
layouts and the patching of its code; file formats byte by byte; formatting,
parsing and logging; floating point. `FixedString` and translated strings,
hooks, thread affinity and the installer have no state of their own that changes
in steps. In `DebugOutput`, a client that neither reads nor hangs up, for which
the code has no answer: the replay holds `g_status_mutex` over its sends.

External assumptions, taken from how the code uses the engine: a session starts
when the one before is down on both sides; stats are loaded while the client
loads the module and no story is up; a save is read before its story is worked,
on any thread; the client unloads a session on the client thread; connections
are reliable and ordered while they last; the engine's callbacks for one
component come in order; the grid searches its own list of paths; the savegame
visitor keeps what it is given.

## Plan

What is left to prove needs models without folds: the order of `LuaEvents`' list
between throws, and `ArrivesAsSent` of `NetWire` for payloads that fit a packet. Of
the models, `OnNextTick`, Ext.Vars through `NetWire`'s packets, and a composition of
`ScriptHost`'s resets with the queues of `NoesisUi` and `ImGui` are the next
steps.
