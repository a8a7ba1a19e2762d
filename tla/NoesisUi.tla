------------------------------ MODULE NoesisUi ------------------------------
(* Ext.UI: the game's Noesis interface seen from the client's Lua state.    *)
(* Functions stay in Lua, filed under ids; commands, property writes and    *)
(* routed events fire on the UI thread against an id and are run by the     *)
(* client's tick, or at once where that thread can have the client's lock.  *)
(* A proxy for an element is usable in the scope that made it.              *)
EXTENDS Integers, Sequences, FiniteSets

CONSTANTS
    UiCommands,     \* Lua commands a button can be bound to
    UiProperties,   \* "class.property" keys with a WriteCallback
    UiElements,     \* elements a script reaches
    MaxUiIds,       \* handler ids of one state
    MaxUiSubs,      \* subscriptions
    MaxFired,       \* entries of one queue
    MaxUiStates     \* Lua states one after another

VARIABLES
    filed,        \* handlers: the ids that hold a function
    lastHandler,  \* next_handler
    bound,        \* command_handler and g_handlers: the id of each command
    subscribed,   \* g_subscriptions: id and Active, by index
    watched,      \* g_write_handlers: the id of each property
    commands,     \* g_commands
    writes,       \* g_writes
    routed,       \* g_events
    relay,        \* the event the UI thread is taking to the client, if any
    deferred,     \* deferred: how many functions wait
    batch,        \* functions left of the batch being run
    flagged,      \* g_deferred
    current,      \* elements whose proxy is of this generation
    freed,        \* note: elements the interface has freed
    inLua,        \* what holds the client's lock
    hooked,       \* noesis_update_hooked
    ticksItself,  \* g_client_ticks_itself
    uiState,      \* note: which Lua state this is
    commandsRan,          \* note: the entry a handler last ran for, if any
    stray         \* note: a deferred function reached an element that is gone

noesisVars == <<filed, lastHandler, bound, subscribed, watched, commands,
                writes, routed, relay, deferred, batch, flagged, current,
                freed, inLua, hooked, ticksItself, uiState, commandsRan, stray>>
bindingVars == <<filed, lastHandler, bound, subscribed, watched>>
queueVars == <<commands, writes, routed, relay>>
scopeVars == <<deferred, batch, flagged, current, freed>>
hostVars == <<hooked, ticksItself, uiState, stray>>

\* What fired: the id it is for, and a note of the state that gave the id.
Fired(id, kind) == [id |-> id, kind |-> kind, state |-> uiState]

Running == inLua \notin {"none", "reset"}

-----------------------------------------------------------------------------
NoesisInit ==
    /\ filed = {} /\ lastHandler = 0
    /\ bound = <<>> /\ subscribed = <<>> /\ watched = <<>>
    /\ commands = <<>> /\ writes = <<>> /\ routed = <<>> /\ relay = <<>>
    /\ deferred = 0 /\ batch = 0 /\ flagged = FALSE
    /\ current = {} /\ freed = {}
    /\ inLua = "none" /\ hooked \in BOOLEAN /\ ticksItself = FALSE
    /\ uiState = 1 /\ commandsRan = <<>> /\ stray = FALSE

-----------------------------------------------------------------------------
(* What scripts do while they run.                                          *)

\* add_handler: ids are not used again in a state.
AddHandler(without) ==
    /\ lastHandler < MaxUiIds
    /\ lastHandler' = lastHandler + 1
    /\ filed' = (filed \ without) \cup {lastHandler + 1}

\* SetHandler on a command: the function it had is dropped with its id.
SetCommandHandler(c) ==
    /\ Running
    /\ AddHandler({bound[x] : x \in DOMAIN bound \cap {c}})
    /\ bound' = [x \in DOMAIN bound \cup {c} |->
                    IF x = c THEN lastHandler + 1 ELSE bound[x]]
    /\ UNCHANGED <<subscribed, watched, queueVars, scopeVars, inLua, hostVars, commandsRan>>

\* SetHandler(nil).
ClearCommandHandler(c) ==
    /\ Running /\ c \in DOMAIN bound
    /\ filed' = filed \ {bound[c]}
    /\ bound' = [x \in DOMAIN bound \ {c} |-> bound[x]]
    /\ UNCHANGED <<lastHandler, subscribed, watched, queueVars, scopeVars,
                   inLua, hostVars, commandsRan>>

\* Subscribe: an element without that event gives the id back.
SubscribeTo(hasEvent) ==
    /\ Running /\ Len(subscribed) < MaxUiSubs
    /\ IF hasEvent
       THEN /\ AddHandler({})
            /\ subscribed' = Append(subscribed,
                                    [id |-> lastHandler + 1, active |-> TRUE])
       ELSE /\ lastHandler < MaxUiIds
            /\ lastHandler' = lastHandler + 1
            /\ UNCHANGED <<filed, subscribed>>
    /\ UNCHANGED <<bound, watched, queueVars, scopeVars, inLua, hostVars, commandsRan>>

\* Unsubscribe: the function is dropped; the element keeps its relay, which
\* no longer delivers.
UnsubscribeFrom(index) ==
    /\ Running /\ index \in DOMAIN subscribed /\ subscribed[index].active
    /\ filed' = filed \ {subscribed[index].id}
    /\ subscribed' = [subscribed EXCEPT ![index].active = FALSE]
    /\ UNCHANGED <<lastHandler, bound, watched, queueVars, scopeVars, inLua,
                   hostVars, commandsRan>>

\* RegisterType with a property that has a WriteCallback.
RegisterType(p) ==
    /\ Running /\ AddHandler({})
    /\ watched' = [x \in DOMAIN watched \cup {p} |->
                      IF x = p THEN lastHandler + 1 ELSE watched[x]]
    /\ UNCHANGED <<bound, subscribed, queueVars, scopeVars, inLua, hostVars, commandsRan>>

\* wrap: a proxy of this generation for an element that was just reached.
WrapElement(e) ==
    /\ Running /\ e \notin freed \cup current
    /\ current' = current \cup {e}
    /\ UNCHANGED <<bindingVars, queueVars, deferred, batch, flagged, freed,
                   inLua, hostVars, commandsRan>>

\* live: a proxy of an earlier generation raises.
Live(e) == e \in current

\* A key of a proxy, by what the object has under it.
Keys == {"method", "index", "getter", "field", "property", "absent"}

\* UiObject.__index: a method's name is answered for any proxy; the rest needs
\* a live one.  A collection is indexed before its getters, a widget's field
\* before a property, and a key that is none of them raises.
ReadKey(e, key, collection) ==
    IF key = "method" THEN "method"
    ELSE IF ~ Live(e) THEN "expired"
    ELSE IF key = "index" THEN IF collection THEN "item" ELSE "raises"
    ELSE IF key \in {"getter", "field", "property"} THEN key ELSE "raises"

\* UiObject.__newindex: an item of a collection or a property.
WriteKey(e, key, collection) ==
    IF ~ Live(e) THEN "expired"
    ELSE IF key = "index" /\ collection THEN "item"
    ELSE IF key = "property" THEN key ELSE "raises"

\* A method called on a proxy: each begins with live; GetProperty and
\* SetProperty of a name that is not there are logged.
CallMethod(e, key) ==
    IF ~ Live(e) THEN "expired" ELSE IF key = "property" THEN key ELSE "logged"

\* # and pairs: a collection's items, nothing for another object.
Count(e, collection) ==
    IF ~ Live(e) THEN "expired" ELSE IF collection THEN "item" ELSE "empty"

\* tostring and ==: what was read while the proxy was made, never the object.
Describe(e) == IF Live(e) THEN "name" ELSE "dead reference"

\* What comes of using the proxy a script has for an element.
Outcome(e, how, key, collection) ==
    CASE how = "read"  -> ReadKey(e, key, collection)
      [] how = "write" -> WriteKey(e, key, collection)
      [] how = "call"  -> CallMethod(e, key)
      [] how = "count" -> Count(e, collection)
      [] how = "text"  -> Describe(e)

\* The uses that read the element itself.
Reaching(e) ==
    {use \in {"read", "write", "call", "count", "text"} \X Keys \X BOOLEAN :
        Outcome(e, use[1], use[2], use[3]) \notin {"expired", "method", "name", "dead reference"}}

UseProxy(e) ==
    /\ Running /\ Reaching(e) # {}
    /\ stray' = (stray \/ (e \in freed /\ hooked /\ inLua = "deferred"))
    /\ UNCHANGED <<bindingVars, queueVars, scopeVars, inLua, hooked,
                   ticksItself, uiState, commandsRan>>

\* Ext.UI.Defer.
Defer ==
    /\ Running /\ deferred < MaxFired
    /\ deferred' = deferred + 1 /\ flagged' = TRUE
    /\ UNCHANGED <<bindingVars, queueVars, batch, current, freed, inLua,
                   hostVars, commandsRan>>

-----------------------------------------------------------------------------
(* The client's tick.                                                       *)

\* Scripts of the tick outside the pump.
ScriptRuns ==
    /\ inLua = "none" /\ inLua' = "script"
    /\ UNCHANGED <<bindingVars, queueVars, scopeVars, hostVars, commandsRan>>

\* Any call into the client's state that returns, but for the pump's and the
\* deferred ones.
ScriptReturns ==
    /\ inLua \in {"script", "event"} /\ inLua' = "none"
    /\ UNCHANGED <<bindingVars, queueVars, scopeVars, hostVars, commandsRan>>

\* UiPump: a new generation; without the hook the deferred functions come
\* first, on this thread.
UiPump ==
    /\ inLua = "none"
    /\ IF ~ hooked /\ deferred > 0
       THEN inLua' = "deferred" /\ batch' = deferred /\ deferred' = 0
       ELSE inLua' = "commands" /\ UNCHANGED <<batch, deferred>>
    /\ current' = {}
    /\ UNCHANGED <<bindingVars, queueVars, flagged, freed, hostVars, commandsRan>>

\* The handler filed under the id runs; if there is none, what fired is
\* dropped.
Deliver(entry) == commandsRan' = IF entry.id \in filed THEN <<entry>> ELSE <<>>

\* One turn of UiPump's three loops, each run until its queue is empty.
PumpCommands ==
    /\ inLua = "commands"
    /\ IF commands = <<>>
       THEN inLua' = "writes" /\ UNCHANGED <<commands, commandsRan>>
       ELSE commands' = Tail(commands) /\ Deliver(Head(commands)) /\ UNCHANGED inLua
    /\ UNCHANGED <<bindingVars, writes, routed, relay, scopeVars, hostVars>>

PumpWrites ==
    /\ inLua = "writes"
    /\ IF writes = <<>>
       THEN inLua' = "events" /\ UNCHANGED <<writes, commandsRan>>
       ELSE writes' = Tail(writes) /\ Deliver(Head(writes)) /\ UNCHANGED inLua
    /\ UNCHANGED <<bindingVars, commands, routed, relay, scopeVars, hostVars>>

PumpEvents ==
    /\ inLua = "events"
    /\ IF routed = <<>>
       THEN inLua' = "none" /\ UNCHANGED <<routed, commandsRan>>
       ELSE routed' = Tail(routed) /\ Deliver(Head(routed)) /\ UNCHANGED inLua
    /\ UNCHANGED <<bindingVars, commands, writes, relay, scopeVars, hostVars>>

-----------------------------------------------------------------------------
(* The UI thread.                                                           *)

\* bg3le_ui_command_fired: a click, or Execute from a script.
CommandFired(c) ==
    /\ c \in DOMAIN bound /\ Len(commands) < MaxFired
    /\ commands' = Append(commands, Fired(bound[c], "command"))
    /\ UNCHANGED <<bindingVars, writes, routed, relay, scopeVars, inLua,
                   hostVars, commandsRan>>

\* bg3le_ui_property_written.
PropertyWritten(p) ==
    /\ p \in DOMAIN watched /\ Len(writes) < MaxFired
    /\ writes' = Append(writes, Fired(watched[p], "write"))
    /\ UNCHANGED <<bindingVars, commands, routed, relay, scopeVars, inLua,
                   hostVars, commandsRan>>

\* Relay::Handler up to giving up g_lock.
EventRaised(index) ==
    /\ relay = <<>> /\ inLua # "event"
    /\ ~ (inLua = "deferred" /\ hooked)
    /\ index \in DOMAIN subscribed /\ subscribed[index].active
    /\ relay' = <<Fired(subscribed[index].id, "event")>>
    /\ UNCHANGED <<bindingVars, commands, writes, routed, scopeVars, inLua,
                   hostVars, commandsRan>>

\* bg3le_with_client_lua: UiEventNow, inside the routing.  It begins no
\* generation.
UiEventNow ==
    /\ relay # <<>> /\ inLua = "none" /\ ticksItself
    /\ inLua' = "event" /\ relay' = <<>> /\ Deliver(Head(relay))
    /\ UNCHANGED <<bindingVars, commands, writes, routed, scopeVars, hostVars>>

\* No client state, or one that does not tick itself: the event waits.
EventQueued ==
    /\ relay # <<>> /\ (~ ticksItself \/ inLua = "reset")
    /\ Len(routed) < MaxFired
    /\ routed' = Append(routed, Head(relay)) /\ relay' = <<>>
    /\ UNCHANGED <<bindingVars, commands, writes, scopeVars, inLua, hostVars, commandsRan>>

\* Mutant: the batch begins in the generation it finds.
UiRunDeferredKeepsScope ==
    /\ hooked /\ flagged /\ relay = <<>>
    /\ inLua = "none" /\ ticksItself
    /\ flagged' = FALSE
    /\ IF deferred = 0 THEN UNCHANGED <<inLua, batch, deferred, current>>
       ELSE inLua' = "deferred" /\ batch' = deferred /\ deferred' = 0 /\ UNCHANGED current
    /\ UNCHANGED <<bindingVars, queueVars, freed, hostVars, commandsRan>>

\* bg3le_ui_run_deferred and UiRunDeferred: the whole batch, each function in
\* a generation of its own; what they defer is of the next batch.
UiRunDeferred ==
    /\ hooked /\ flagged /\ relay = <<>>
    /\ inLua = "none" /\ ticksItself
    /\ flagged' = FALSE
    /\ IF deferred = 0 THEN UNCHANGED <<inLua, batch, deferred, current>>
       ELSE inLua' = "deferred" /\ batch' = deferred /\ deferred' = 0 /\ current' = {}
    /\ UNCHANGED <<bindingVars, queueVars, freed, hostVars, commandsRan>>

\* A deferred function returns or fails; the generation moves on, before the
\* next one or after the last.
DeferredReturns ==
    /\ inLua = "deferred"
    /\ batch' = batch - 1 /\ current' = {}
    /\ inLua' = IF batch > 1 THEN inLua ELSE IF hooked THEN "none" ELSE "commands"
    /\ UNCHANGED <<bindingVars, queueVars, deferred, flagged, freed, hostVars, commandsRan>>

\* External: the interface frees an element in its own update.
FreeElement(e) ==
    /\ e \notin freed /\ relay = <<>> /\ inLua # "event"
    /\ ~ (inLua = "deferred" /\ hooked)
    /\ freed' = freed \cup {e}
    /\ UNCHANGED <<bindingVars, queueVars, deferred, batch, flagged, current,
                   inLua, hostVars, commandsRan>>

-----------------------------------------------------------------------------
(* The host.                                                                *)

\* The client's own thread has begun to tick its state.
ClientTicksItself ==
    /\ ~ ticksItself /\ ticksItself' = TRUE
    /\ UNCHANGED <<bindingVars, queueVars, scopeVars, inLua, hooked, uiState, commandsRan,
                   stray>>

\* bg3le_ui_reset, under the client's lock: handlers, commands and events are
\* forgotten and the subscriptions no longer deliver; watched properties and
\* the writes queued for them stay.  The old state goes with its functions.
UiReset ==
    /\ inLua = "none" /\ uiState < MaxUiStates
    /\ bound' = <<>> /\ commands' = <<>> /\ routed' = <<>>
    /\ subscribed' = [i \in DOMAIN subscribed |-> [subscribed[i] EXCEPT !.active = FALSE]]
    /\ filed' = {} /\ lastHandler' = 0 /\ deferred' = 0 /\ current' = {}
    /\ inLua' = "reset" /\ commandsRan' = <<>>
    /\ UNCHANGED <<watched, writes, relay, batch, flagged, freed, hostVars>>

\* The new client state is in place.
StateRebuilt ==
    /\ inLua = "reset" /\ inLua' = "none" /\ uiState' = uiState + 1
    /\ UNCHANGED <<bindingVars, queueVars, scopeVars, hooked, ticksItself, commandsRan,
                   stray>>

NoesisNext ==
    \/ \E c \in UiCommands :
          SetCommandHandler(c) \/ ClearCommandHandler(c) \/ CommandFired(c)
    \/ \E has \in BOOLEAN : SubscribeTo(has)
    \/ \E i \in 1..MaxUiSubs : UnsubscribeFrom(i) \/ EventRaised(i)
    \/ \E p \in UiProperties : RegisterType(p) \/ PropertyWritten(p)
    \/ \E e \in UiElements :
          WrapElement(e) \/ FreeElement(e) \/ UseProxy(e)
    \/ Defer \/ ScriptRuns \/ ScriptReturns
    \/ UiPump \/ PumpCommands \/ PumpWrites \/ PumpEvents
    \/ UiEventNow \/ EventQueued \/ UiRunDeferred \/ DeferredReturns
    \/ ClientTicksItself \/ UiReset \/ StateRebuilt

NoesisSpec == NoesisInit /\ [][NoesisNext]_noesisVars

-----------------------------------------------------------------------------
\* "Forgets what the old Lua states bound: their handler ids mean nothing to
\* the new ones" (bg3le_ui_reset): a handler runs only for what fired against
\* an id of its own state.
RunsForItsState == \A i \in DOMAIN commandsRan : commandsRan[i].state = uiState

\* So it is for commands, whatever is set, fired and rebuilt in between.  (A
\* write queued before the rebuild, and an event on its way to the client's
\* lock during it, reach a function the new state filed under the same id.)
CommandRunsForItsState ==
    \A i \in DOMAIN commandsRan : commandsRan[i].kind = "command" => commandsRan[i].state = uiState

\* Where the interface's update is hooked, a deferred function never reaches
\* an element that was freed, through whatever it kept from the tick, from an
\* event or from an earlier function of the batch.
DeferredReachesLiveElements == ~ stray

\* Commands run in the state that bound them, and deferred functions on
\* elements that are there.
UiReachesItsOwn ==
    CommandRunsForItsState /\ DeferredReachesLiveElements
=============================================================================
