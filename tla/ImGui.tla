-------------------------------- MODULE ImGui -------------------------------
(* Ext.IMGUI: widgets the engine draws and the handlers a Lua state sets on *)
(* them.  A widget fires on the render thread while a frame is drawn; what  *)
(* fired is posted when the frame is done, and taken by the state's tick.   *)
(* The function stays in Lua, filed under an id that is written into the    *)
(* widget.  One event per widget stands for all of them.                    *)
EXTENDS Integers, Sequences, FiniteSets

CONSTANTS
    Addresses,        \* where a Lua state can be allocated
    kMaxQueued,       \* events kept for delivery
    MaxWidgets,       \* widgets made in one tree
    MaxCallbacks,     \* ids handed out
    MaxDrawn,         \* events of one frame
    MaxUiResets       \* rebuilds of the Lua state

ASSUME ImGuiAssumption == kMaxQueued \in Nat \ {0} /\ MaxWidgets \in Nat

VARIABLES
    state,        \* the address of the Lua state
    widgets,      \* the tree: live handles and the parent of each (0: a window)
    widgetsMade,         \* handles given out by this tree
    slot,         \* the id in each widget's delegate, 0 for none
    owners,       \* owners(): the state that asked for each id in use
    lastId,       \* the last id handed out
    drawn,        \* what fired in the frame being drawn
    posted,       \* queue()
    callbacks,    \* imgui_callbacks: the ids that hold a function
    registered,   \* the id each widget's Lua object has for its event;
                  \* the objects are those of the domain
    handler,      \* note: the id last set for each widget, 0 if taken back
    lost,         \* note: widgets whose object went with a handler set
    resets

uiVars == <<state, widgets, widgetsMade, slot, owners, lastId, drawn, posted,
            callbacks, registered, handler, lost, resets>>

Handles == 1..MaxWidgets

\* f without the arguments in S.
WithoutWidget(f, S) == [x \in DOMAIN f \ S |-> f[x]]

-----------------------------------------------------------------------------
(* Values across the boundary.                                              *)

\* A Lua value as a method's argument sees it: what it is, the number of
\* numbers it begins with, and the handle it carries if any.
LuaArg == [type : {"nil", "boolean", "integer", "number", "string",
                   "widget", "entity", "enum", "table"},
           numbers : 0..5, handle : Handles \cup {0}]

\* read_imgui_args, one argument: only a widget, or a table with a Handle, is
\* a handle, and an entity is not, though it has one; a table's first four
\* numbers are a vector, unless they are fewer than two.
ReadImguiArg(v) ==
    CASE v.type \in {"boolean", "number", "string"} -> v.type
      [] v.type \in {"integer", "enum"} -> "integer"
      [] v.type = "widget" -> "handle"
      [] v.type = "table" ->
           IF v.handle # 0 THEN "handle"
           ELSE IF v.numbers >= 4 THEN "vec4"
           ELSE IF v.numbers = 3 THEN "vec3"
           ELSE IF v.numbers = 2 THEN "vec2" ELSE "none"
      [] OTHER -> "none"

\* push_imgui_result: a handle of nothing is nil, any other has to be wrapped
\* in its object; the rest are plain values.
PushImguiResult(kind, handle) ==
    [value |-> IF kind = "handle" /\ handle = 0 THEN "nil" ELSE kind,
     isWidget |-> kind = "handle" /\ handle # 0]

-----------------------------------------------------------------------------
UiInit ==
    /\ state \in Addresses
    /\ widgets = <<>> /\ widgetsMade = 0
    /\ slot = <<>> /\ owners = <<>> /\ lastId = 0
    /\ drawn = <<>> /\ posted = <<>>
    /\ callbacks = {} /\ registered = <<>>
    /\ handler = [h \in Handles |-> 0] /\ lost = {}
    /\ resets = 0

\* ImguiObject: a widget is looked up at every use, as its pool can move it.
Resolves(h) == h \in DOMAIN widgets

\* ImguiSetCallback: a new id, which belongs to the state that asked.
WithOwner(own, id) == [i \in DOMAIN own \cup {id} |-> IF i = id THEN state ELSE own[i]]

\* make_widget: the object kept for the handle, or a new one without handlers.
MakeWidget(objects, h) ==
    [x \in DOMAIN objects \cup {h} |-> IF x \in DOMAIN objects THEN objects[x] ELSE 0]

\* A widget below `parent` (0: a window) and its object.
Make(parent) ==
    LET h == widgetsMade + 1
    IN  /\ widgetsMade < MaxWidgets
        /\ widgetsMade' = h
        /\ widgets' = [x \in DOMAIN widgets \cup {h} |->
                          IF x = h THEN parent ELSE widgets[x]]
        /\ slot' = [x \in DOMAIN slot \cup {h} |-> IF x = h THEN 0 ELSE slot[x]]
        /\ registered' = MakeWidget(registered, h)
        /\ UNCHANGED <<state, owners, lastId, drawn, posted, callbacks,
                       handler, lost, resets>>

\* Ext.IMGUI.NewWindow and bg3le_imgui_new_window.
NewWindow == Make(0)

\* The Add* methods and bg3le_imgui_add: the parent has to be there.
AddWidget(parent) == parent \in DOMAIN widgets /\ parent \in DOMAIN registered /\ Make(parent)

\* AttachChild through ImguiCall: the child moves if the argument is a handle
\* of this tree; `false` and an error leave everything.
AttachChild(h, v) ==
    /\ h \in DOMAIN widgets \cap DOMAIN registered
    /\ ReadImguiArg(v) = "handle" /\ v.handle \in DOMAIN widgets \ {h}
    /\ widgets[v.handle] # h
    /\ widgets' = [widgets EXCEPT ![v.handle] = h]
    /\ UNCHANGED <<state, widgetsMade, slot, owners, lastId, drawn, posted, callbacks,
                   registered, handler, lost, resets>>

\* Get of ParentElement, or an entry of Children: the result's object is made
\* if the mod had let go of it.
ReadWidget(h) ==
    /\ Resolves(h)
    /\ PushImguiResult("handle", h).isWidget
    /\ registered' = MakeWidget(registered, h)
    /\ UNCHANGED <<state, widgets, widgetsMade, slot, owners, lastId, drawn, posted,
                   callbacks, handler, lost, resets>>

\* bg3le_imgui_clear_callback: the delegate of a widget that is there.
Cleared(h) ==
    IF h \in DOMAIN widgets
    THEN [slot |-> [slot EXCEPT ![h] = 0], owners |-> WithoutWidget(owners, {slot[h]})]
    ELSE [slot |-> slot, owners |-> owners]

\* Mutant: a handler that is replaced stays filed.
SetHandlerKeepsOld(h) ==
    /\ h \in DOMAIN registered \cap DOMAIN widgets
    /\ lastId < MaxCallbacks
    /\ lastId' = lastId + 1
    /\ owners' = WithOwner(owners, lastId')
    /\ slot' = [slot EXCEPT ![h] = lastId']
    /\ callbacks' = callbacks \cup {lastId'}
    /\ registered' = [registered EXCEPT ![h] = lastId']
    /\ handler' = [handler EXCEPT ![h] = lastId']
    /\ UNCHANGED <<state, widgets, widgetsMade, drawn, posted, lost, resets>>

\* widget.OnX = function: the handler set before is taken back in Lua and in
\* the engine, and the new one is filed under a new id, unless the widget is
\* gone and has no such event any more (that raises, the old one taken back).
SetHandler(h) ==
    LET was  == registered[h]
        left == IF was # 0 THEN Cleared(h) ELSE [slot |-> slot, owners |-> owners]
        id   == lastId + 1
    IN  /\ h \in DOMAIN registered
        /\ lastId < MaxCallbacks
        /\ IF h \in DOMAIN widgets
           THEN /\ lastId' = id
                /\ owners' = WithOwner(left.owners, id)
                /\ slot' = [left.slot EXCEPT ![h] = id]
                /\ callbacks' = (callbacks \ {was}) \cup {id}
                /\ registered' = [registered EXCEPT ![h] = id]
                /\ handler' = [handler EXCEPT ![h] = id]
           ELSE /\ callbacks' = callbacks \ {was}
                /\ registered' = [registered EXCEPT ![h] = 0]
                /\ handler' = [handler EXCEPT ![h] = 0]
                /\ UNCHANGED <<owners, slot, lastId>>
        /\ UNCHANGED <<state, widgets, widgetsMade, drawn, posted, lost, resets>>

\* widget.OnX = nil: as above, with nothing set.  Where the object has no
\* handler of its own, an id is taken for the event and forgotten with it.
ClearHandler(h) ==
    LET was == registered[h]
    IN  /\ h \in DOMAIN registered
        /\ IF was # 0
           THEN /\ callbacks' = callbacks \ {was}
                /\ registered' = [registered EXCEPT ![h] = 0]
                /\ slot' = Cleared(h).slot /\ owners' = Cleared(h).owners
                /\ UNCHANGED lastId
           ELSE /\ h \in DOMAIN widgets /\ lastId < MaxCallbacks
                /\ lastId' = lastId + 1
                /\ slot' = [slot EXCEPT ![h] = 0]
                /\ UNCHANGED <<callbacks, registered, owners>>
        /\ handler' = [handler EXCEPT ![h] = 0]
        /\ UNCHANGED <<state, widgets, widgetsMade, drawn, posted, lost, resets>>

\* ImguiChildren.
Children(h) == {x \in DOMAIN widgets : widgets[x] = h}

\* The widgets at or below h, as deep as a tree of the bound's size goes.
Below(h) ==
    LET one == Children(h)
    IN  {h} \cup one \cup UNION {Children(x) : x \in one}

\* widget:Destroy(): the handlers its own object knows of are dropped, then
\* the widget and what is below it goes; their objects stay with the mod.
Destroy(h) ==
    LET gone == Below(h) \cap DOMAIN widgets
    IN  /\ h \in DOMAIN registered
        /\ h \in DOMAIN widgets
        /\ callbacks' = callbacks \ {registered[h]}
        /\ registered' = WithoutWidget(registered, {h})
        /\ handler' = [handler EXCEPT ![h] = 0]
        /\ widgets' = WithoutWidget(widgets, gone)
        /\ slot' = WithoutWidget(slot, gone)
        /\ UNCHANGED <<state, widgetsMade, owners, lastId, drawn, posted, lost, resets>>

\* imgui_widgets is weak: the object of a widget the mod let go of is
\* collected, and the id of its handler with it.
CollectObject(h) ==
    /\ h \in DOMAIN registered
    /\ registered' = WithoutWidget(registered, {h})
    /\ lost' = IF registered[h] # 0 THEN lost \cup {h} ELSE lost
    /\ UNCHANGED <<state, widgets, widgetsMade, slot, owners, lastId, drawn, posted,
                   callbacks, handler, resets>>

\* The user clicks in the frame being drawn: the delegate's id is kept.
Fires(h) ==
    /\ h \in DOMAIN widgets /\ slot[h] # 0
    /\ Len(drawn) < MaxDrawn
    /\ drawn' = Append(drawn, [id |-> slot[h], widget |-> h])
    /\ UNCHANGED <<state, widgets, widgetsMade, slot, owners, lastId, posted,
                   callbacks, registered, handler, lost, resets>>

\* imgui_flush_events, one of them: delegate_post, start_event, finish_event.
\* One whose id was forgotten is dropped, and the oldest is when it is full.
Post ==
    LET e == Head(drawn)
        room == IF Len(posted) >= kMaxQueued THEN Tail(posted) ELSE posted
    IN  /\ drawn # <<>>
        /\ drawn' = Tail(drawn)
        /\ posted' = IF e.id \in DOMAIN owners
                     THEN Append(room, [id |-> e.id, state |-> owners[e.id],
                                        widget |-> e.widget])
                     ELSE posted
        /\ UNCHANGED <<state, widgets, widgetsMade, slot, owners, lastId, callbacks,
                       registered, handler, lost, resets>>

\* Where the first event of this state is in the queue, if there is one.
FirstMine ==
    LET mine == {i \in DOMAIN posted : posted[i].state = state}
    IN  {i \in mine : \A j \in mine : i <= j}

\* bg3le_imgui_take_event and one turn of imgui_pump: the first event of this
\* state; its function, if one is still filed, is called with its object.
TakeEvent ==
    \E at \in FirstMine :
        LET e == posted[at] IN
        /\ posted' = SubSeq(posted, 1, at - 1) \o SubSeq(posted, at + 1, Len(posted))
        /\ registered' = IF e.id \in callbacks THEN MakeWidget(registered, e.widget)
                                               ELSE registered
        /\ UNCHANGED <<state, widgets, widgetsMade, slot, owners, lastId, drawn,
                       callbacks, handler, lost, resets>>

\* imgui_api_reset and the rebuilt state: a new tree, whose handles start
\* over, and empty tables; owners and the queue are kept.  The new state may
\* be where the old one was.
ImGuiReset ==
    /\ resets < MaxUiResets
    /\ resets' = resets + 1
    /\ state' \in Addresses
    /\ widgets' = <<>> /\ widgetsMade' = 0 /\ slot' = <<>> /\ drawn' = <<>>
    /\ callbacks' = {} /\ registered' = <<>>
    /\ handler' = [h \in Handles |-> 0] /\ lost' = {}
    /\ UNCHANGED <<owners, lastId, posted>>

UiNext ==
    \/ NewWindow
    \/ \E h \in Handles :
          \/ AddWidget(h) \/ ReadWidget(h)
          \/ SetHandler(h) \/ ClearHandler(h)
          \/ Destroy(h) \/ CollectObject(h) \/ Fires(h)
          \/ \E x \in Handles, t \in {"widget", "entity"} :
                AttachChild(h, [type |-> t, numbers |-> 0, handle |-> x])
    \/ Post
    \/ TakeEvent
    \/ ImGuiReset

UiSpec == UiInit /\ [][UiNext]_uiVars

-----------------------------------------------------------------------------
\* A queued event runs the handler its widget has when it is delivered, or
\* nothing: not one that was replaced, taken back or destroyed with its
\* widget while the event was queued, and none of a state before a reset,
\* though handles and even the state's address come again.  The exception is
\* a widget whose object was collected: the new object does not know the id.
HandlerRunsOnlyWhileSet ==
    [][TakeEvent =>
         \A at \in FirstMine :
            LET e == posted[at]
            IN  \/ e.id \notin callbacks \/ e.widget \in lost
                \/ handler[e.widget] = e.id]_uiVars
=============================================================================
