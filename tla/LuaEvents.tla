----------------------------- MODULE LuaEvents ------------------------------
(* One event of Ext.Events (SubscribableEvent of the Lua prelude): the list *)
(* of its subscribers, what is put off while it is being thrown, and the    *)
(* throws under way, the innermost last.  Handlers are any mod's code: they *)
(* subscribe, unsubscribe, stop the event and throw it again.  Then what    *)
(* the prelude has around it: the engine's events and those of the mods.    *)
EXTENDS Integers, Sequences, SequencesExt, FiniteSets

CONSTANTS
    Priorities,   \* the priorities handlers ask for
    MaxSubs,      \* subscriptions made
    MaxDepth      \* throws of the event inside one another

VARIABLES
    list,         \* the nodes from First on
    nextIndex,    \* NextIndex
    adds,         \* PendingAdds
    deletions,    \* PendingDeletions
    frames        \* the throws under way; EnterCount is their number

eventVars == <<list, nextIndex, adds, deletions, frames>>

Sub == [index : 1..MaxSubs, priority : Priorities, once : BOOLEAN]

Indices(subs) == {subs[i].index : i \in DOMAIN subs}

-----------------------------------------------------------------------------
(* The list.  A node that was removed has no Next: nothing follows it.      *)

\* DoSubscribe: before the first node of a lower priority, or at the end.
DoSubscribe(subs, sub) ==
    LET lower == {i \in DOMAIN subs : sub.priority > subs[i].priority}
    IN  IF lower = {} THEN Append(subs, sub)
        ELSE LET at == CHOOSE i \in lower : \A j \in lower : i <= j
             IN  InsertAt(subs, at, sub)

\* DoUnsubscribe and RemoveNode: an index that is not there only warns.
DoUnsubscribe(subs, index) ==
    SelectSeq(subs, LAMBDA s : s.index # index)

\* cur.Next, if any: none when cur is the last node or not in the list.
NextOf(subs, cur) ==
    LET at == {i \in 1..Len(subs) - 1 : subs[i] = cur}
    IN  {subs[i + 1] : i \in at}

\* ProcessDeferredSubscriptions: what was added first, then what was removed.
Settle(subs) ==
    FoldLeft(DoUnsubscribe, FoldLeft(DoSubscribe, subs, adds), deletions)

-----------------------------------------------------------------------------
EventsInit ==
    /\ list = <<>>
    /\ nextIndex = 1
    /\ adds = <<>>
    /\ deletions = <<>>
    /\ frames = <<>>

\* SubscribableEvent:Subscribe.
Subscribe(priority, once) ==
    LET sub == [index |-> nextIndex, priority |-> priority, once |-> once]
    IN  /\ nextIndex <= MaxSubs
        /\ nextIndex' = nextIndex + 1
        /\ IF frames = <<>>
           THEN list' = DoSubscribe(list, sub) /\ UNCHANGED adds
           ELSE adds' = Append(adds, sub) /\ UNCHANGED list
        /\ UNCHANGED <<deletions, frames>>

\* Mutant: without the test of EnterCount.
UnsubscribeAtOnce(index) ==
    /\ index < nextIndex
    /\ list' = DoUnsubscribe(list, index)
    /\ UNCHANGED <<nextIndex, adds, deletions, frames>>

\* SubscribableEvent:Unsubscribe with an ID of this event.  One that is
\* queued already is not queued again here: removing it twice only warns.
Unsubscribe(index) ==
    /\ index < nextIndex
    /\ ~ Contains(deletions, index)
    /\ IF frames = <<>>
       THEN list' = DoUnsubscribe(list, index) /\ UNCHANGED deletions
       ELSE deletions' = Append(deletions, index) /\ UNCHANGED list
    /\ UNCHANGED <<nextIndex, adds, frames>>

\* SubscribableEvent:Throw up to the first handler.  `due` are the handlers
\* it is thrown to, `called` those called, `again` whether a handler that is
\* to run once threw the event itself: three notes for the properties.
Throw ==
    /\ Len(frames) < MaxDepth
    /\ list # <<>>
    /\ frames' = Append([i \in DOMAIN frames |->
                            [frames[i] EXCEPT !.again = @ \/ frames[i].cur.once]],
                        [cur |-> Head(list), stopped |-> FALSE,
                         due |-> Indices(list), called |-> <<Head(list).index>>,
                         again |-> FALSE])
    /\ UNCHANGED <<list, nextIndex, adds, deletions>>

\* EventBase:StopPropagation.
StopPropagation ==
    /\ frames # <<>>
    /\ ~ Last(frames).stopped
    /\ frames' = [frames EXCEPT ![Len(frames)].stopped = TRUE]
    /\ UNCHANGED <<list, nextIndex, adds, deletions>>

\* A handler returns, or fails and is reported, and the throw goes on: the
\* node is left or, if it runs once, removed; the next handler is called, or
\* the throw ends and, with the outermost one, what was put off is done.
HandlerReturns ==
    LET frame == Last(frames)
        next  == IF frame.stopped THEN {} ELSE NextOf(list, frame.cur)
        left  == IF frame.cur.once THEN DoUnsubscribe(list, frame.cur.index)
                                   ELSE list
    IN  /\ frames # <<>>
        /\ \/ \E sub \in next :
                 /\ frames' = [frames EXCEPT
                                 ![Len(frames)].cur = sub,
                                 ![Len(frames)].called = Append(@, sub.index)]
                 /\ list' = left
                 /\ UNCHANGED <<adds, deletions>>
           \/ /\ next = {}
              /\ frames' = Front(frames)
              /\ IF Len(frames) = 1
                 THEN list' = Settle(left) /\ adds' = <<>> /\ deletions' = <<>>
                 ELSE list' = left /\ UNCHANGED <<adds, deletions>>
        /\ UNCHANGED nextIndex

EventsNext ==
    \/ \E p \in Priorities, once \in BOOLEAN : Subscribe(p, once)
    \/ \E i \in 1..MaxSubs : Unsubscribe(i)
    \/ Throw
    \/ StopPropagation
    \/ HandlerReturns

EventsSpec == EventsInit /\ [][EventsNext]_eventVars

-----------------------------------------------------------------------------
\* Whoever was subscribed when an event is thrown, and has not run for its
\* only time in a throw inside this one, is called, and once in that throw,
\* whatever the handlers before it subscribe, unsubscribe or throw: unless
\* the event is stopped, or a handler that runs once throws the event itself
\* (the inner throw unlinks it, and the outer one ends with it).
ThrownToAll ==
    [][Len(frames') < Len(frames) =>
         LET frame == Last(frames)
         IN  /\ IsInjective(frame.called)
             /\ ToSet(frame.called) \subseteq frame.due
             /\ \/ frame.stopped \/ frame.again
                \/ frame.due \cap Indices(list) \subseteq ToSet(frame.called)
      ]_frames

\* Between throws the list holds what was subscribed and not yet removed, in
\* order: by priority, and among equals by age.  Nothing put off is left.
SettledInOrder ==
    frames = <<>> =>
        /\ adds = <<>> /\ deletions = <<>>
        /\ \A i, j \in DOMAIN list : i < j =>
              \/ list[i].priority > list[j].priority
              \/ /\ list[i].priority = list[j].priority
                 /\ list[i].index < list[j].index

\* The list is in order between throws, and a throw goes through all of it.
ThrownInOrder ==
    []SettledInOrder /\ ThrownToAll

-----------------------------------------------------------------------------
(* What the Lua prelude puts around SubscribableEvent: the engine's events  *)
(* by name and the object their handlers are given, input the handlers can  *)
(* keep from the game, the events mods make for one another, and console    *)
(* commands.                                                                *)
CONSTANTS
    EventMods,       \* mods
    ModEventNames,   \* names of their events
    Listeners,       \* handlers that subscribe to those
    CommandNames,    \* console commands
    MaxThrown,       \* engine events thrown inside one another
    MaxLines         \* messages logged

VARIABLES
    clientSide,      \* IsClientState
    thrown,          \* objects of the engine events being thrown
    statsWindow,     \* StatsModuleLoad
    kept,            \* InputEvent's last answer: kept from the game
    bootstraps,      \* BootstrappingMod, "none" outside
    modEvents,       \* mod_events: subscribers of each event that exists
    console,         \* console_commands
    logLevels,       \* EnabledLogLevels: the levels that are on
    dispatchingLog,  \* DispatchingLogEvent
    lines            \* note: messages to be written, by how they ended

engineEventVars == <<clientSide, thrown, statsWindow, kept, bootstraps,
                     modEvents, console, logLevels, dispatchingLog, lines>>
logVars == <<logLevels, dispatchingLog, lines>>

-----------------------------------------------------------------------------
SharedEvents == {"ModuleLoadStarted", "StatsLoaded", "ModuleResume",
    "SessionLoading", "SessionLoaded", "GameStateChanged", "ResetCompleted",
    "Shutdown", "DoConsoleCommand", "Tick", "StatsStructureLoaded", "FindPath",
    "NetMessage", "NetModMessage", "Log"}
ServerEvents == {"DealDamage", "DealtDamage", "BeforeDealDamage",
    "ExecuteFunctor", "AfterExecuteFunctor"}
ClientEvents == {"KeyInput", "MouseButtonInput", "MouseWheelInput",
    "ControllerAxisInput", "ControllerButtonInput", "ViewportResized"}

\* engine_events of this context.
Registered == SharedEvents \cup IF clientSide THEN ClientEvents ELSE ServerEvents

\* Ext.Events[name]: a name that is not published has an object whose methods
\* only report it.
EventNamed(name) == IF name \in Registered THEN name ELSE "missing"

\* InputEvent: the event of each kind of input, and whether the handlers can
\* keep it from the game.
InputEvent == <<
    [name |-> "KeyInput",              preventable |-> TRUE],
    [name |-> "MouseButtonInput",      preventable |-> TRUE],
    [name |-> "MouseWheelInput",       preventable |-> TRUE],
    [name |-> "ControllerAxisInput",   preventable |-> FALSE],
    [name |-> "ControllerButtonInput", preventable |-> TRUE],
    [name |-> "ViewportResized",       preventable |-> FALSE] >>

LogLevels == <<"Debug", "Info", "Warning", "Error">>

-----------------------------------------------------------------------------
EngineEventsInit ==
    /\ clientSide \in BOOLEAN
    /\ thrown = <<>> /\ statsWindow = FALSE /\ kept = FALSE
    /\ bootstraps = "none" /\ modEvents = <<>> /\ console = <<>>
    /\ logLevels = 1..Len(LogLevels) /\ dispatchingLog = FALSE
    /\ lines = [asked |-> 0, written |-> 0, prevented |-> 0]

\* FireEvent up to the handlers; a name this context has not is ignored.
FireTo(name, preventable, input) ==
    /\ Len(thrown) < MaxThrown
    /\ EventNamed(name) # "missing"
    /\ thrown' = Append(thrown, [name |-> name, can |-> preventable,
                                 prevented |-> FALSE, input |-> input])
    /\ statsWindow' = (statsWindow \/ name = "StatsLoaded")
    /\ UNCHANGED <<clientSide, kept, bootstraps, modEvents, console, logVars>>

\* The host fires an event that is not of the input's.
FireEvent(name) == FireTo(name, FALSE, FALSE)

\* The game's input, of any kind.
FireInput(kind) == FireTo(InputEvent[kind].name, InputEvent[kind].preventable, TRUE)

\* EventBase:PreventAction, by a handler of the innermost event.
PreventAction ==
    /\ thrown # <<>>
    /\ thrown[Len(thrown)].can
    /\ thrown' = [thrown EXCEPT ![Len(thrown)].prevented = TRUE]
    /\ UNCHANGED <<clientSide, statsWindow, kept, bootstraps, modEvents, console, logVars>>

\* FireEvent after the handlers: the window of StatsLoaded ends with it, and
\* input is answered for.
Thrown ==
    LET e == thrown[Len(thrown)]
    IN  /\ thrown # <<>>
        /\ thrown' = SubSeq(thrown, 1, Len(thrown) - 1)
        /\ statsWindow' = (statsWindow /\ e.name # "StatsLoaded")
        /\ kept' = IF e.input THEN e.prevented ELSE kept
        /\ IF e.name = "Log"
           THEN /\ dispatchingLog' = FALSE
                /\ lines' = IF e.prevented THEN [lines EXCEPT !.prevented = @ + 1]
                                           ELSE [lines EXCEPT !.written = @ + 1]
                /\ UNCHANGED logLevels
           ELSE UNCHANGED logVars
        /\ UNCHANGED <<clientSide, bootstraps, modEvents, console>>

\* Logger:Log, for a level that is on: the message's event is thrown first,
\* but not for what the handlers of such an event log themselves, which is
\* written at once.
LogMessage(level) ==
    /\ level \in logLevels /\ lines.asked < MaxLines
    /\ IF dispatchingLog
       THEN /\ lines' = [lines EXCEPT !.asked = @ + 1, !.written = @ + 1]
            /\ UNCHANGED <<thrown, dispatchingLog>>
       ELSE /\ lines' = [lines EXCEPT !.asked = @ + 1]
            /\ thrown' = Append(thrown, [name |-> "Log", can |-> TRUE,
                                         prevented |-> FALSE, input |-> FALSE])
            /\ dispatchingLog' = TRUE
    /\ UNCHANGED <<clientSide, statsWindow, kept, bootstraps, modEvents, console,
                   logLevels>>

\* Logger:SetLogLevel: that level and those after it.
SetLogLevel(level) ==
    /\ logLevels' = level..Len(LogLevels)
    /\ UNCHANGED <<clientSide, thrown, statsWindow, kept, bootstraps, modEvents,
                   console, dispatchingLog, lines>>

-----------------------------------------------------------------------------
\* A mod's bootstrap begins or ends.
Bootstraps(m) ==
    /\ (bootstraps = "none") # (m = "none")
    /\ bootstraps' = m
    /\ UNCHANGED <<clientSide, thrown, statsWindow, kept, modEvents, console, logVars>>

\* Ext.ModEvents[mod][event]:Subscribe: the event is made when it is first
\* asked for, before its mod registers it or though it never does.
SubscribeModEvent(m, e, handler) ==
    /\ modEvents' = [x \in DOMAIN modEvents \cup {<<m, e>>} |->
                        IF x \notin DOMAIN modEvents THEN {handler}
                        ELSE IF x = <<m, e>> THEN modEvents[x] \cup {handler}
                        ELSE modEvents[x]]
    /\ UNCHANGED <<clientSide, thrown, statsWindow, kept, bootstraps, console, logVars>>

\* Mutant: the event is made anew though it is there already.
RegisterModEventAnew(m, e) ==
    /\ bootstraps = m
    /\ modEvents' = [x \in DOMAIN modEvents \cup {<<m, e>>} |->
                        IF x = <<m, e>> THEN {} ELSE modEvents[x]]
    /\ UNCHANGED <<clientSide, thrown, statsWindow, kept, bootstraps, console, logVars>>

\* Ext.RegisterModEvent: only for the mod that bootstraps, and one that is
\* there already is kept, with a warning.
RegisterModEvent(m, e) ==
    /\ bootstraps = m
    /\ <<m, e>> \notin DOMAIN modEvents
    /\ modEvents' = [x \in DOMAIN modEvents \cup {<<m, e>>} |->
                        IF x = <<m, e>> THEN {} ELSE modEvents[x]]
    /\ UNCHANGED <<clientSide, thrown, statsWindow, kept, bootstraps, console, logVars>>

\* Ext.RegisterConsoleCommand: the last handler of a name is the one a line
\* that begins with it runs.
RegisterConsoleCommand(name, handler) ==
    /\ console' = [x \in DOMAIN console \cup {name} |->
                      IF x = name THEN handler ELSE console[x]]
    /\ UNCHANGED <<clientSide, thrown, statsWindow, kept, bootstraps, modEvents, logVars>>

EngineEventsNext ==
    \/ \E name \in (SharedEvents \ {"Log"}) \cup ServerEvents : FireEvent(name)
    \/ \E kind \in DOMAIN InputEvent : FireInput(kind)
    \/ PreventAction \/ Thrown
    \/ \E level \in 1..Len(LogLevels) : LogMessage(level) \/ SetLogLevel(level)
    \/ \E m \in EventMods \cup {"none"} : Bootstraps(m)
    \/ \E m \in EventMods, e \in ModEventNames :
          \/ RegisterModEvent(m, e)
          \/ \E handler \in Listeners : SubscribeModEvent(m, e, handler)
    \/ \E name \in CommandNames, handler \in Listeners :
          RegisterConsoleCommand(name, handler)

EngineEventsSpec == EngineEventsInit /\ [][EngineEventsNext]_engineEventVars

-----------------------------------------------------------------------------
\* Whoever subscribed to a mod's event hears it from then on, in whatever
\* order the mods that use it and the mod that registers it are loaded.
ModSubscribersKept ==
    [][\A x \in DOMAIN modEvents :
          x \in DOMAIN modEvents' /\ modEvents[x] \subseteq modEvents'[x]
      ]_modEvents

\* A handler of Ext.Events.Log may log: that throws no second event inside the
\* first, and once no event is being thrown every message was written or held
\* back by a handler, once.
LogEndsEachMessage ==
    /\ Cardinality({i \in DOMAIN thrown : thrown[i].name = "Log"}) <= 1
    /\ thrown = <<>> => lines.asked = lines.written + lines.prevented

\* Mods' events keep their subscribers, and the log event comes back to itself
\* once.
EventsReachTheirs ==
    []LogEndsEachMessage /\ ModSubscribersKept
=============================================================================
