--------------------------- MODULE StoryListeners ---------------------------
(***************************************************************************)
(* Ext.Osiris.RegisterListener: osi.cpp replaces the insert and the delete *)
(* slot of the two node classes that hold tuples, and the replacement      *)
(* raises the listeners around the engine's own operation.  The operation  *)
(* runs on the engine's story thread, or on the server's thread inside     *)
(* osi::insert, which holds Osiris' cache lock while the engine runs;      *)
(* listeners run under the server state's lock.  Both locks are recursive. *)
(*                                                                         *)
(* A thread's stack has one frame for each call that is under way:         *)
(*   script   a script of the server state, under its lock                 *)
(*   call     osi::insert or osi::remove, under the cache lock             *)
(*   tuple    watched_insert or watched_delete                             *)
(*   listen   FireOsirisListener, under the server state's lock            *)
(* `took` says whether the frame is the one that took its lock.            *)
(***************************************************************************)
EXTENDS Naturals, Sequences, SequencesExt, FiniteSets

CONSTANTS
    StoryClasses,         \* the tuple node classes, CReteEvent and CReteFact
    NoThread,        \* the owner of a lock nobody holds
    MaxStories,      \* bound on the stories loaded
    MaxListeners,    \* bound on the listeners registered
    MaxTuples        \* bound on the operations started

StoryThreads == {"server", "story", "client"}
StorySlots == StoryClasses \X {"insert", "delete"}
ASSUME StoryAssumption == NoThread \notin StoryThreads

VARIABLES
    storySlot,       \* what each slot holds: "engine" or "watched"
    original,     \* g_hooked: what each slot held, "none" when not kept
    orphaned,     \* history: slots replaced by an install that then stopped there
    watching,   \* g_watching
    story,      \* the generation of the story the engine has loaded
    boundTo,      \* the generation database()'s defs are of; 0 is none
    named,      \* the generation def_names() was built from
    listeners,  \* osiris_listeners: ids in the order they registered
    storyLive,       \* osiris_subscribers: the ids still subscribed
    lastListener,     \* next_osiris_subscriber
    cacheLock, serverLock,
    stack,      \* each thread's frames, the innermost last
    tuples      \* how many operations were started

hookVars == <<storySlot, original, orphaned, watching>>
storyVars == <<hookVars, story, boundTo, named, listeners, storyLive, lastListener,
               cacheLock, serverLock, stack, tuples>>

Free(lock, t) == lock \in {NoThread, t}

Top(t) == Last(stack[t])
In(t, kind) == stack[t] # <<>> /\ Top(t).kind = kind

StoryFrame(kind, took) ==
    [kind |-> kind, took |-> took, slot |-> <<"none", "none">>, original |-> "none", stage |-> "run",
     todo |-> <<>>, heard |-> {}, applied |-> 0, due |-> {}]

Push(t, f) == [stack EXCEPT ![t] = Append(@, f)]
Replace(t, f) == [stack EXCEPT ![t] = Append(Front(@), f)]
Pop(t) == [stack EXCEPT ![t] = Front(@)]

\* Where a script's Lua runs: in a script or in a listener.
RunsLua(t) == In(t, "script") \/ (In(t, "listen") /\ Top(t).stage = "handler")

StoryInit ==
    /\ storySlot = [s \in StorySlots |-> "engine"]
    /\ original = [s \in StorySlots |-> "none"]
    /\ orphaned = {} /\ watching = FALSE
    /\ story = 0 /\ boundTo = 0 /\ named = 0
    /\ listeners = <<>> /\ storyLive = {} /\ lastListener = 0
    /\ cacheLock = NoThread /\ serverLock = NoThread
    /\ stack = [t \in StoryThreads |-> <<>>]
    /\ tuples = 0

-----------------------------------------------------------------------------

\* A session's story: the states were rebuilt when the last session ended, so
\* no listener is left, and the story work reads the new signatures before a
\* mod is loaded (preload.cpp, dump_osiris_api).  The hooks stay installed.
StoryLoads ==
    /\ story < MaxStories
    /\ \A t \in StoryThreads : stack[t] = <<>>
    /\ story' = story + 1
    /\ boundTo' = 0
    /\ listeners' = <<>> /\ storyLive' = {} /\ lastListener' = 0
    /\ UNCHANGED <<hookVars, named, cacheLock, serverLock,
                   stack, tuples>>

\* Mutant: the originals are kept in one go, once every class is watched.
ReplaceSlotsKeptAtTheEnd(all, half) ==
    /\ storySlot' = [s \in StorySlots |->
          IF s[1] \in all \/ s = <<half, "insert">> THEN "watched" ELSE storySlot[s]]
    /\ original' = IF all = StoryClasses THEN storySlot ELSE original
    /\ orphaned' = orphaned \cup {s \in StorySlots : s = <<half, "insert">>}
    /\ watching' = (all = StoryClasses)

\* The two slots of each class, insert first; what they held is kept once both
\* are replaced.  It stops where the table cannot be made writable: the classes
\* `all` are done by then, and of `half` the insert slot.  What was replaced
\* stays, so that the next attempt finds the replacement and keeps that.
ReplaceSlots(all, half) ==
    /\ storySlot' = [s \in StorySlots |->
          IF s[1] \in all \/ s = <<half, "insert">> THEN "watched" ELSE storySlot[s]]
    /\ original' = [s \in StorySlots |-> IF s[1] \in all THEN storySlot[s] ELSE original[s]]
    /\ orphaned' = orphaned \cup {s \in StorySlots : s = <<half, "insert">>}
    /\ watching' = (all = StoryClasses)

\* install_node_hooks, under the cache lock throughout: the names are rebuilt
\* on every call, and stay so when the classes are not found or a slot is not
\* replaced.  (Where no story is bound it changes nothing.)
InstallHooks ==
    /\ boundTo' = story /\ named' = story
    /\ \/ watching /\ UNCHANGED hookVars
       \/ /\ ~watching
          /\ \E all \in SUBSET StoryClasses :
                \E half \in (StoryClasses \ all) \cup {"none"} : ReplaceSlots(all, half)

\* Ext.Osiris.RegisterListener, from the server's scripts or the client's: an
\* error where the watching did not start.  A client's listener is kept in the
\* client's own state and never fires, but it starts the watching and rebuilds
\* the names like any other.
RegisterListener(t) ==
    /\ t = "client" \/ RunsLua(t)
    /\ story > 0
    /\ Free(cacheLock, t)
    /\ InstallHooks
    /\ IF t = "client" \/ ~watching'
       THEN UNCHANGED <<listeners, storyLive, lastListener>>
       ELSE /\ lastListener < MaxListeners
            /\ lastListener' = lastListener + 1
            /\ listeners' = Append(listeners, lastListener')
            /\ storyLive' = storyLive \cup {lastListener'}
    /\ UNCHANGED <<story, cacheLock, serverLock, stack, tuples>>

UnregisterListener(t) ==
    /\ RunsLua(t)
    /\ \E id \in storyLive :
        /\ storyLive' = storyLive \ {id}
        /\ \E i \in DOMAIN listeners :
              listeners[i] = id /\ listeners' = RemoveAt(listeners, i)
    /\ UNCHANGED <<hookVars, story, boundTo, named, lastListener,
                   cacheLock, serverLock, stack, tuples>>

-----------------------------------------------------------------------------

\* The server thread enters its state (a tick, a message, a timer).
ScriptEnters ==
    /\ story > 0
    /\ stack["server"] = <<>> /\ serverLock = NoThread
    /\ serverLock' = "server"
    /\ stack' = Push("server", StoryFrame("script", TRUE))
    /\ UNCHANGED <<hookVars, story, boundTo, named, listeners,
                   storyLive, lastListener, cacheLock, tuples>>

BodyReturns(t) ==
    /\ In(t, "script")
    /\ serverLock' = NoThread
    /\ stack' = Pop(t)
    /\ UNCHANGED <<hookVars, story, boundTo, named, listeners,
                   storyLive, lastListener, cacheLock, tuples>>

\* Mutant: the client's scripts can call Osi too, without the server's lock.
OsiInsertFromClient(t) ==
    /\ RunsLua(t) \/ t = "client"
    /\ tuples < MaxTuples
    /\ Free(cacheLock, t)
    /\ cacheLock' = t
    /\ stack' = Push(t, StoryFrame("call", cacheLock # t))
    /\ boundTo' = story
    /\ UNCHANGED <<hookVars, story, named, listeners, storyLive,
                   lastListener, serverLock, tuples>>

\* osi::insert and osi::remove: the cache lock is held until they return.
OsiInsert(t) ==
    /\ RunsLua(t)
    /\ tuples < MaxTuples
    /\ Free(cacheLock, t)
    /\ cacheLock' = t
    /\ stack' = Push(t, StoryFrame("call", cacheLock # t))
    /\ boundTo' = story
    /\ UNCHANGED <<hookVars, story, named, listeners, storyLive,
                   lastListener, serverLock, tuples>>

InsertReturns(t) ==
    /\ In(t, "call") /\ Top(t).stage = "ran"
    /\ cacheLock' = IF Top(t).took THEN NoThread ELSE cacheLock
    /\ stack' = Pop(t)
    /\ UNCHANGED <<hookVars, story, boundTo, named, listeners,
                   storyLive, lastListener, serverLock, tuples>>

\* The engine acts on a tuple: from a rule on its story thread, or for the
\* insert or the delete that a script called.  It goes through the class' slot.
EngineTuple(t, slot) ==
    /\ story > 0 /\ tuples < MaxTuples
    /\ \/ t = "story" /\ stack[t] = <<>>
       \/ In(t, "call") /\ Top(t).stage = "run"
    /\ tuples' = tuples + 1
    /\ LET below == IF stack[t] = <<>> THEN stack
                    ELSE Replace(t, [Top(t) EXCEPT !.stage = "ran"])
           tuple == [StoryFrame("tuple", FALSE) EXCEPT
                        !.slot = slot, !.stage = "look",
                        !.due = IF named = story THEN storyLive ELSE {}]
       IN  stack' = IF storySlot[slot] = "engine" THEN below
                    ELSE [below EXCEPT ![t] = Append(@, tuple)]
    /\ UNCHANGED <<hookVars, story, boundTo, named, listeners,
                   storyLive, lastListener, cacheLock, serverLock>>

\* hooked_for: what the slot held, read under the cache lock.
HookedFor(t) ==
    /\ In(t, "tuple") /\ Top(t).stage = "look"
    /\ Free(cacheLock, t)
    /\ stack' = Replace(t, [Top(t) EXCEPT !.original = original[Top(t).slot], !.stage = "name"])
    /\ UNCHANGED <<hookVars, story, boundTo, named, listeners,
                   storyLive, lastListener, cacheLock, serverLock, tuples>>

\* node_name: under the lock again.  The listeners are raised when the node's
\* def is one of the names.
NameNode(t) ==
    /\ In(t, "tuple") /\ Top(t).stage = "name"
    /\ Free(cacheLock, t)
    /\ stack' = Replace(t, [Top(t) EXCEPT
                    !.stage = IF named = story THEN "before" ELSE "silent"])
    /\ UNCHANGED <<hookVars, story, boundTo, named, listeners,
                   storyLive, lastListener, cacheLock, serverLock, tuples>>

\* osiris_trigger: enters the server's state and takes the listeners as they
\* are now.
OsirisTrigger(t) ==
    /\ In(t, "tuple") /\ Top(t).stage \in {"before", "after"}
    /\ Free(serverLock, t)
    /\ serverLock' = t
    /\ stack' = Push(t, [StoryFrame("listen", serverLock # t) EXCEPT
                            !.todo = listeners])
    /\ UNCHANGED <<hookVars, story, boundTo, named, listeners,
                   storyLive, lastListener, cacheLock, tuples>>

\* The next handler of the snapshot; one unregistered meanwhile is skipped.
CallListener(t) ==
    /\ In(t, "listen") /\ Top(t).stage = "run" /\ Top(t).todo # <<>>
    /\ LET id == Head(Top(t).todo)
           next == [Top(t) EXCEPT !.todo = Tail(@)]
       IN  stack' = Replace(t,
                IF id \in storyLive
                THEN [next EXCEPT !.stage = "handler", !.heard = @ \cup {id}]
                ELSE next)
    /\ UNCHANGED <<hookVars, story, boundTo, named, listeners,
                   storyLive, lastListener, cacheLock, serverLock, tuples>>

ListenerReturns(t) ==
    /\ In(t, "listen") /\ Top(t).stage = "handler"
    /\ stack' = Replace(t, [Top(t) EXCEPT !.stage = "run"])
    /\ UNCHANGED <<hookVars, story, boundTo, named, listeners,
                   storyLive, lastListener, cacheLock, serverLock, tuples>>

\* The trigger returns to the tuple it was raised for.
TriggerReturns(t) ==
    /\ In(t, "listen") /\ Top(t).stage = "run" /\ Top(t).todo = <<>>
    /\ serverLock' = IF Top(t).took THEN NoThread ELSE serverLock
    /\ LET under == Front(stack[t])
           tuple == Last(under)
           after == [tuple EXCEPT
                        !.stage = IF @ = "before" THEN "original" ELSE "done",
                        !.heard = @ \cup Top(t).heard,
                        !.due = @ \cap storyLive]
       IN  stack' = [stack EXCEPT ![t] = Append(Front(under), after)]
    /\ UNCHANGED <<hookVars, story, boundTo, named, listeners,
                   storyLive, lastListener, cacheLock, tuples>>

\* The engine's own operation, when it is known.  One kept by a second attempt
\* is the replacement itself: the tuple starts over, and its call never returns.
CallOriginal(t) ==
    /\ In(t, "tuple") /\ Top(t).stage \in {"original", "silent"}
    /\ LET over == [Top(t) EXCEPT !.stage = IF @ = "original" THEN "after" ELSE "done"]
       IN  stack' = Replace(t, CASE Top(t).original = "engine" -> [over EXCEPT !.applied = @ + 1]
                                 [] Top(t).original = "none" -> over
                                 [] OTHER -> [Top(t) EXCEPT !.stage = "look"])
    /\ UNCHANGED <<hookVars, story, boundTo, named, listeners,
                   storyLive, lastListener, cacheLock, serverLock, tuples>>

TupleReturns(t) ==
    /\ In(t, "tuple") /\ Top(t).stage = "done"
    /\ stack' = Pop(t)
    /\ UNCHANGED <<hookVars, story, boundTo, named, listeners,
                   storyLive, lastListener, cacheLock, serverLock, tuples>>

StoryNext ==
    \/ StoryLoads \/ ScriptEnters
    \/ \E t \in StoryThreads :
        \/ RegisterListener(t) \/ UnregisterListener(t)
        \/ BodyReturns(t) \/ OsiInsert(t) \/ InsertReturns(t)
        \/ \E slot \in StorySlots : EngineTuple(t, slot)
        \/ HookedFor(t) \/ NameNode(t) \/ OsirisTrigger(t) \/ CallListener(t)
        \/ ListenerReturns(t) \/ TriggerReturns(t) \/ CallOriginal(t)
        \/ TupleReturns(t)

StorySpec == StoryInit /\ [][StoryNext]_storyVars

-----------------------------------------------------------------------------

\* A tuple that went through a replaced slot is applied by the engine exactly
\* once when its call returns, however the installs came between, unless the
\* install that replaced the slot stopped at that very class; and every listener
\* that was subscribed when it began and still is has heard of it (osi.cpp, fire).
TupleAppliedAndHeard ==
    \A t \in StoryThreads : In(t, "tuple") /\ Top(t).stage = "done" =>
        /\ \/ Top(t).applied = 1
           \/ Top(t).applied = 0 /\ Top(t).slot \in orphaned
        /\ (Top(t).due \cap storyLive) \subseteq Top(t).heard

\* Not so: an install that stops "leaves listeners inactive" (osi.cpp:3248), but
\* a slot it had replaced drops every tuple, for want of the class' original.
EveryTupleApplied ==
    \A t \in StoryThreads : In(t, "tuple") /\ Top(t).stage = "done" => Top(t).applied = 1

\* Not so: the next registration finds the replacement where the engine's own
\* operation was, and every tuple of that slot calls itself without end.
OriginalsAreTheEngines == \A s \in StorySlots : original[s] # "watched"

\* What a thread waits for: the lock its next step needs.
WaitsFor(t) ==
    CASE In(t, "tuple") /\ Top(t).stage \in {"look", "name"} -> cacheLock
      [] In(t, "tuple") /\ Top(t).stage \in {"before", "after"} -> serverLock
      [] OTHER -> NoThread

\* No two threads wait for each other's locks, although osi::insert holds the
\* cache lock while the engine raises listeners under the state's lock and a
\* listener on the story thread calls osi::insert under the state's lock.
NoCircularWait ==
    ~ \E t, u \in StoryThreads :
        /\ t # u
        /\ \/ WaitsFor(t) = u
           \/ RunsLua(t) /\ cacheLock = u     \* the script calls Osi next
        /\ WaitsFor(u) = t
=============================================================================
