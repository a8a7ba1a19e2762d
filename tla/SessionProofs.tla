-------------------------- MODULE SessionProofs --------------------------
(***************************************************************************)
(* Proofs about ScriptHost, continued: a story that is announced as ready   *)
(* is worked in the server's live state, and the client's mods are loaded   *)
(* at the menu or wait for the module list, for every set of jobs and every *)
(* number of sessions, resets and stats loads.                              *)
(*                                                                         *)
(* The invariant says what can be left of each thread's handler (Shapes),   *)
(* who still has to load the client's mods (MenuInv), and how far the story *)
(* work is in the server's live state (WorkInv).                            *)
(***************************************************************************)
EXTENDS ScriptHostProofs

(* What is left of the handlers.  The story thread works a story to the end *)
(* under its lock; the rest of its steps are a tick's.                      *)
Called == [op : Calls, side : Sides]
Own(ops) == Called \cup {Do(op) : op \in ops}
TickSteps   == Own({"CheckReset", "ClearReset", "ResetLoad", "CheckState", "CheckEvents"})
WorkerSteps == Own({"ResetClient", "LoadClientScripts", "ModuleLoadStarted", "ModuleBootstraps",
                    "StatsLoaded"})
FrameSteps  == Own({"CheckScripts", "CheckMenuReset", "LoadClientScripts"})

Begin(s)   == Call("LoadModsBegin", s)
Session(s) == Call("LoadModsSession", s)
Work1 == <<Do("BindBegin"), Begin("Server"), Begin("Client"), Session("Server"), Session("Client"),
           Do("StoryReady"), Do("StoryDone")>>
Bound == <<Do("BindEnd"), Begin("Server"), Begin("Client"), Session("Server"), Session("Client"),
           Do("StoryReady"), Do("StoryDone")>>
Work2 == <<Begin("Server"), Begin("Client"), Session("Server"), Session("Client"),
           Do("StoryReady"), Do("StoryDone")>>
Work3 == <<Begin("Client"), Session("Server"), Session("Client"), Do("StoryReady"), Do("StoryDone")>>
Work4 == <<Session("Server"), Session("Client"), Do("StoryReady"), Do("StoryDone")>>
Work5 == <<Session("Client"), Do("StoryReady"), Do("StoryDone")>>
Work6 == <<Do("StoryReady"), Do("StoryDone")>>
Work7 == <<Do("StoryDone")>>
Announced == todo["story"] = Work7
LoadedSession == todo["story"] \in {Work5, Work6, Work7}
Loaded        == todo["story"] \in {Work3, Work4} \/ LoadedSession
OsiBound      == todo["story"] = Work2 \/ Loaded
Working       == todo["story"] \in {Work1, Bound} \/ OsiBound

StoryShape == /\ todo["story"] # <<>> => story
              /\ storyLock = None =>
                    todo["story"] \in Seq(TickSteps) \/ todo["story"] = <<Do("LockStory")>>
              /\ storyLock = "story" => Working /\ ~done

(* The client's: a frame's, a reset asked for at the menu in front of it, or *)
(* the end of a session.                                                    *)
MenuRebuild == <<Do("Reset"), Do("LoadClientScripts"), Call("AfterReset", "Client")>>
MenuResets  == {<<>>, MenuReset, MenuRebuild}
Ended  == <<Do("NoteSessionEnded"), Do("CheckScripts"), Do("CheckMenuReset"), Call("RunTimers", "Client")>>
Ended2 == <<Do("Rearm"), Do("Reset"), Do("CheckScripts"), Do("CheckMenuReset"), Call("RunTimers", "Client")>>
Ended3 == <<Do("Reset"), Do("CheckScripts"), Do("CheckMenuReset"), Call("RunTimers", "Client")>>
ClientFits(handler, at) ==
    \/ \E r \in MenuResets, q \in Seq(FrameSteps) : handler = r \o q
    \/ at = "Unloaded" /\ handler \in {Ended, Ended2, Ended3}
ClientShape == ClientFits(todo["client"], clientState)

OtherShapes == /\ todo["worker"] \in Seq(WorkerSteps)
               /\ clientState # "Unloaded" => todo["worker"] = <<>>
               /\ \A j \in Jobs : todo[j] \in Seq(Called)

Shapes == StoryShape /\ ClientShape /\ OtherShapes

(* At the menu the client's mods are loaded, or somebody still has to.      *)
ToLoad == \/ At("client", "LoadClientScripts") \/ At("client", "Reset")
          \/ todo["client"] # <<>> /\ Head(todo["client"]) = Call("LoadModScripts", "Client")
MenuInv == clientState = "Menu" =>
    st["Client"].scripts \/ scriptsWaiting \/ building["story"] # "no" \/ ToLoad

(* The story work: how far it is in the live state of the server; a session  *)
(* that ended takes the announcement back before its lock is free again.    *)
ReadyInv == /\ ready => done \/ Announced
            /\ At("client", "Rearm") => ~ready /\ (done \/ Announced)
            /\ clientState # "Session" /\ ready => At("client", "NoteSessionEnded")
            /\ clientState # "Session" /\ storyLock = "story" => At("client", "NoteSessionEnded") \/ Announced
            /\ building["client"] # "no" => storyLock = None /\ ~done
WorkingInv == /\ todo["story"] = Bound => raw = st["Server"].id
              /\ OsiBound => st["Server"].osi /\ functions
              /\ Loaded => st["Server"].scripts
              /\ LoadedSession => st["Server"].session = session
WorkedInv == ready /\ clientState = "Session" => functions /\ (building["story"] # "no" \/ Worked)
WorkInv == crossed \/ (ReadyInv /\ WorkingInv /\ WorkedInv)

HostInv == Shapes /\ MenuInv /\ WorkInv

-----------------------------------------------------------------------------
(* Steps of different kinds differ.                                         *)
LEMMA Kinds ==
  /\ \A o, p \in Plain : Do(o) = Do(p) => o = p
  /\ \A o \in Plain, f \in Calls, s \in Sides : Do(o) # Call(f, s)
  /\ \A f, g \in Calls, s, r \in Sides : Call(f, s) = Call(g, r) => f = g /\ s = r
  /\ \A o \in Plain : Do(o).op = o /\ o \notin Calls
  /\ \A f \in Calls, s \in Sides : Call(f, s).op = f /\ Call(f, s).side = s
  BY DEF Do, Call, Plain, Calls

(* A tuple seen from its ends.                                              *)
LEMMA Ends ==
  /\ Head(Work1) = Do("BindBegin")       /\ Tail(Work1) = Work2
  /\ Head(Bound) = Do("BindEnd")         /\ Tail(Bound) = Work2
  /\ Head(Work2) = Begin("Server")       /\ Tail(Work2) = Work3
  /\ Head(Work3) = Begin("Client")       /\ Tail(Work3) = Work4
  /\ Head(Work4) = Session("Server")     /\ Tail(Work4) = Work5
  /\ Head(Work5) = Session("Client")     /\ Tail(Work5) = Work6
  /\ Head(Work6) = Do("StoryReady")      /\ Tail(Work6) = Work7
  /\ Head(Work7) = Do("StoryDone")       /\ Tail(Work7) = <<>>
  /\ \A w \in {Work1, Bound, Work2, Work3, Work4, Work5, Work6, Work7} : w # <<>>
  BY DEF Work1, Bound, Work2, Work3, Work4, Work5, Work6, Work7

(* The same, of what the client has left of a session that ended.           *)
LEMMA EndsClient ==
  /\ Head(Ended) = Do("NoteSessionEnded") /\ Tail(Ended) = ClientTick
  /\ Head(Ended2) = Do("Rearm")           /\ Tail(Ended2) = Ended3
  /\ Head(Ended3) = Do("Reset")           /\ Tail(Ended3) = ClientTick
  /\ <<>> \notin {Ended, Ended2, Ended3}
  BY DEF Ended, Ended2, Ended3, ClientTick

(* Nothing in front of a handler.                                           *)
LEMMA Empty == \A q \in Seq(Steps) : <<>> \o q = q
  OBVIOUS

(* What lua_load_mods and the lock of the story put together.               *)
LEMMA Glued ==
  ASSUME NEW a, NEW b, NEW c, NEW d, NEW e, NEW f, NEW g
  PROVE  <<a>> \o <<b, c, d, e>> \o <<f, g>> = <<a, b, c, d, e, f, g>>
  <1>. DEFINE S == {a, b, c, d, e, f, g}
              x == <<a, b, c, d, e>>
              y == <<f, g>>
  <1>1. <<a, b, c, d, e>> = <<a>> \o <<b, c, d, e>> OBVIOUS
  <1>2. x \o y = <<a, b, c, d, e, f, g>>
    <2>1. x \in Seq(S) /\ y \in Seq(S) OBVIOUS
    <2>2. Len(x) = 5 /\ Len(y) = 2 OBVIOUS
    <2>3. /\ x \o y \in Seq(S) /\ Len(x \o y) = 7
          /\ \A i \in 1..7 : (x \o y)[i] = IF i <= 5 THEN x[i] ELSE y[i - 5]
      BY <2>1, <2>2, ConcatProperties
    <2>. HIDE DEF x, y
    <2>4. <<a, b, c, d, e, f, g>> \in Seq(S) /\ Len(<<a, b, c, d, e, f, g>>) = 7 OBVIOUS
    <2>5. \A i \in 1..7 : (x \o y)[i] = <<a, b, c, d, e, f, g>>[i] BY <2>3 DEF x, y
    <2>. QED BY <2>3, <2>4, <2>5, SeqEqual
  <1>. QED BY <1>1, <1>2

(* The same, of two steps and three.                                        *)
LEMMA Glued2 ==
  ASSUME NEW a, NEW b, NEW c, NEW d, NEW e
  PROVE  <<a, b>> \o <<c, d, e>> = <<a, b, c, d, e>>
  <1>. DEFINE S == {a, b, c, d, e}
              x == <<a, b>>
              y == <<c, d, e>>
  <1>1. x \in Seq(S) /\ y \in Seq(S) /\ Len(x) = 2 /\ Len(y) = 3 OBVIOUS
  <1>2. /\ x \o y \in Seq(S) /\ Len(x \o y) = 5
        /\ \A i \in 1..5 : (x \o y)[i] = IF i <= 2 THEN x[i] ELSE y[i - 2]
    BY <1>1, ConcatProperties
  <1>. HIDE DEF x, y
  <1>3. <<a, b, c, d, e>> \in Seq(S) /\ Len(<<a, b, c, d, e>>) = 5 OBVIOUS
  <1>4. \A i \in 1..5 : (x \o y)[i] = <<a, b, c, d, e>>[i] BY <1>2 DEF x, y
  <1>. QED BY <1>2, <1>3, <1>4, SeqEqual DEF x, y

-----------------------------------------------------------------------------
(* A handler that goes on loses its head; the other threads' stay.          *)
LEMMA Goes ==
  ASSUME TypeOK, NEW t \in Threads, todo[t] # <<>>, NEW more \in Seq(Steps), Continue(t, more)
  PROVE  /\ todo'[t] = more \o Tail(todo[t])
         /\ more = <<>> => todo'[t] = Tail(todo[t])
         /\ Tail(todo[t]) \in Seq(Steps)
         /\ \A u \in Threads \ {t} : todo'[u] = todo[u]
  <1>1. todo \in [Threads -> Seq(Steps)] BY DEF TypeOK, TodoTypes
  <1>2. Tail(todo[t]) \in Seq(Steps) BY <1>1, HeadTailProperties
  <1>3. todo' = [todo EXCEPT ![t] = more \o Tail(todo[t])] BY DEF Continue
  <1>. QED BY <1>1, <1>2, <1>3, Empty

(* What a step common to the threads does to the handlers, and what it      *)
(* leaves alone.                                                            *)
Goes1(t) == /\ todo[t] # <<>> /\ todo'[t] = Tail(todo[t])
            /\ \/ InCall(t) \/ AtReset(t) \/ At(t, "ResetClient")
               \/ At(t, "ClearReset") \/ At(t, "LoadClientScripts")
LoadsScripts(t) == /\ At(t, "LoadClientScripts") /\ todo[t] # <<>>
                   /\ todo'[t] = <<Call("LoadModScripts", "Client")>> \o Tail(todo[t])

(* A step of a thread leaves the others' handlers and the engine alone.     *)
LEMMA StepTodo ==
  ASSUME TypeOK, NEW t \in Threads, Step(t)
  PROVE  /\ \A u \in Threads \ {t} : todo'[u] = todo[u]
         /\ todo'[t] = todo[t] \/ Goes1(t) \/ LoadsScripts(t)
         /\ UNCHANGED <<raw, storyVars, engineVars>>
  <1>1. UNCHANGED <<raw, storyVars, engineVars>>
    BY DEF Step, Peek, Enter, Leave, ResetBegin, ResetBuild, ResetEnd, ResetClientBegin,
           ResetClientBuild, ResetClientEnd, ClearReset, DeferClientScripts, LoadClientScripts
  <1>2. CASE UNCHANGED todo BY <1>1, <1>2
  <1>3. CASE /\ Continue(t, <<>>)
             /\ \/ InCall(t) \/ AtReset(t) \/ At(t, "ResetClient")
                \/ At(t, "ClearReset") \/ At(t, "LoadClientScripts")
    <2>1. todo[t] # <<>> BY <1>3 DEF InCall, AtReset, At
    <2>2. <<>> \in Seq(Steps) OBVIOUS
    <2>. QED BY <1>1, <1>3, <2>1, <2>2, Goes DEF Goes1
  <1>4. CASE Continue(t, <<Call("LoadModScripts", "Client")>>) /\ At(t, "LoadClientScripts")
    <2>1. todo[t] # <<>> BY <1>4 DEF At
    <2>2. <<Call("LoadModScripts", "Client")>> \in Seq(Steps)
      BY StepTypes, Pieces DEF Calls, Sides
    <2>. QED BY <1>1, <1>4, <2>1, <2>2, Goes DEF LoadsScripts
  <1>. QED
    BY <1>2, <1>3, <1>4
    DEF Step, Peek, Enter, Leave, ResetBegin, ResetBuild, ResetEnd, ResetClientBegin,
        ResetClientBuild, ResetClientEnd, ClearReset, DeferClientScripts, LoadClientScripts

(* The heads of handlers.                                                   *)
LEMMA KindsOfSteps ==
  /\ \A h \in Called : h.op \in Calls
  /\ \A h \in TickSteps : h.op \in Calls \/ h \in {Do("CheckReset"), Do("ClearReset"),
                             Do("ResetLoad"), Do("CheckState"), Do("CheckEvents")}
  /\ \A h \in WorkerSteps : h.op \in Calls \/ h \in {Do("ResetClient"), Do("LoadClientScripts"),
                             Do("ModuleLoadStarted"), Do("ModuleBootstraps"), Do("StatsLoaded")}
  /\ \A h \in FrameSteps : h.op \in Calls \/ h \in {Do("CheckScripts"), Do("CheckMenuReset"),
                             Do("LoadClientScripts")}
  BY DEF Called, TickSteps, WorkerSteps, FrameSteps, Own

(* The head and the tail of a handler made of steps of a kind.              *)
LEMMA EndsOf ==
  ASSUME NEW S, NEW q \in Seq(S), q # <<>>
  PROVE  Head(q) \in S /\ Tail(q) \in Seq(S)
  BY HeadTailProperties

(* A handler of a story work is none of a tick.                             *)
LEMMA WorkingHead ==
  ASSUME Working
  PROVE  /\ todo["story"] # <<>>
         /\ Head(todo["story"]) \in {Do("BindBegin"), Do("BindEnd"), Do("StoryReady"), Do("StoryDone"),
                  Begin("Server"), Begin("Client"), Session("Server"), Session("Client")}
         /\ ~AtReset("story") /\ ~At("story", "ClearReset") /\ ~At("story", "ResetClient")
         /\ ~At("story", "LoadClientScripts")
  <1>1. /\ todo["story"] # <<>>
        /\ Head(todo["story"]) \in {Do("BindBegin"), Do("BindEnd"), Do("StoryReady"), Do("StoryDone"),
                  Begin("Server"), Begin("Client"), Session("Server"), Session("Client")}
    BY Ends DEF Working, OsiBound, Loaded, LoadedSession
  <1>. QED BY <1>1 DEF AtReset, At, Do, Begin, Session, Call

(* What is left of a story work always ends in StoryDone.                   *)
LEMMA WorkDone ==
  ASSUME NEW S, Do("StoryDone") \notin S
  PROVE  \A w \in {Work1, Bound, Work2, Work3, Work4, Work5, Work6, Work7} : w \notin Seq(S)
  <1>1. /\ Work1 \notin Seq(S) /\ Bound \notin Seq(S) BY DEF Work1, Bound
  <1>2. /\ Work2 \notin Seq(S) /\ Work3 \notin Seq(S) BY DEF Work2, Work3
  <1>3. /\ Work4 \notin Seq(S) /\ Work5 \notin Seq(S) BY DEF Work4, Work5
  <1>4. /\ Work6 \notin Seq(S) /\ Work7 \notin Seq(S) BY DEF Work6, Work7
  <1>. QED BY <1>1, <1>2, <1>3, <1>4

(* Without the story's lock there is no story work in hand.                 *)
LEMMA NotWorking ==
  ASSUME StoryShape, storyLock = None
  PROVE  ~Working /\ ~Announced /\ ~LoadedSession /\ ~Loaded /\ ~OsiBound
  <1>1. ASSUME Working PROVE FALSE
    <2>1. todo["story"] \in {Work1, Bound, Work2, Work3, Work4, Work5, Work6, Work7}
      BY <1>1 DEF Working, OsiBound, Loaded, LoadedSession
    <2>2. Do("StoryDone") \notin TickSteps
      BY DEF TickSteps, Own, Called, Calls, Do
    <2>3. todo["story"] \notin Seq(TickSteps) BY <2>1, <2>2, WorkDone
    <2>4. Head(todo["story"]) # Do("LockStory") BY <1>1, WorkingHead DEF Do, Begin, Session, Call
    <2>5. todo["story"] # <<Do("LockStory")>> BY <2>4
    <2>. QED BY <2>3, <2>5 DEF StoryShape
  <1>. QED BY <1>1 DEF Working, Announced, LoadedSession, Loaded, OsiBound

(* The heads the client's handler can have, and what is left after them.    *)
ClientHead ==
  \/ /\ todo["client"] \in Seq(FrameSteps) /\ Head(todo["client"]) \in FrameSteps
     /\ Tail(todo["client"]) \in Seq(FrameSteps)
  \/ /\ Head(todo["client"]) = Do("ClearReset")
     /\ \E q \in Seq(FrameSteps) : Tail(todo["client"]) = MenuRebuild \o q
  \/ /\ Head(todo["client"]) = Do("Reset")
     /\ Tail(todo["client"]) \in Seq(FrameSteps) /\ Tail(todo["client"]) # <<>>
     /\ Head(Tail(todo["client"])) = Do("LoadClientScripts")
  \/ clientState = "Unloaded" /\ todo["client"] \in {Ended, Ended2, Ended3}

(* What the client's shape says of the first step it has left.              *)
LEMMA ClientHeads ==
  ASSUME ClientShape, todo["client"] # <<>>
  PROVE  ClientHead
  <1>1. CASE clientState = "Unloaded" /\ todo["client"] \in {Ended, Ended2, Ended3}
    BY <1>1 DEF ClientHead
  <1>2. ASSUME NEW q \in Seq(FrameSteps), todo["client"] = <<>> \o q PROVE ClientHead
    <2>1. todo["client"] = q BY <1>2
    <2>. QED BY <2>1, EndsOf DEF ClientHead
  <1>3. ASSUME NEW q \in Seq(FrameSteps), todo["client"] = MenuReset \o q PROVE ClientHead
    <2>1. Head(MenuReset \o q) = Do("ClearReset") /\ Tail(MenuReset \o q) = MenuRebuild \o q
      BY DEF MenuReset, MenuRebuild
    <2>. QED BY <1>3, <2>1 DEF ClientHead
  <1>4. ASSUME NEW q \in Seq(FrameSteps), todo["client"] = MenuRebuild \o q PROVE ClientHead
    <2>1. /\ Head(MenuRebuild \o q) = Do("Reset")
          /\ Tail(MenuRebuild \o q) = <<Do("LoadClientScripts"), Call("AfterReset", "Client")>> \o q
      BY DEF MenuRebuild
    <2>2. /\ Head(<<Do("LoadClientScripts"), Call("AfterReset", "Client")>> \o q)
                  = Do("LoadClientScripts")
          /\ <<Do("LoadClientScripts"), Call("AfterReset", "Client")>> \o q # <<>>
      OBVIOUS
    <2>3. <<Do("LoadClientScripts"), Call("AfterReset", "Client")>> \in Seq(FrameSteps)
      BY DEF FrameSteps, Own, Called, Call, Calls, Sides
    <2>4. <<Do("LoadClientScripts"), Call("AfterReset", "Client")>> \o q \in Seq(FrameSteps)
      BY <2>3
    <2>. QED BY <1>4, <2>1, <2>2, <2>4 DEF ClientHead
  <1>. QED BY <1>1, <1>2, <1>3, <1>4 DEF ClientShape, ClientFits, MenuResets

(* Where the threads can reset and load.                                    *)
LEMMA Where ==
  ASSUME TypeOK, Shapes, NEW t \in Threads, todo[t] # <<>>
  PROVE  /\ AtReset(t) => \/ t = "story" /\ At(t, "ResetLoad") /\ storyLock = None
                          \/ t = "client" /\ At(t, "Reset") /\ ~At(t, "ResetLoad")
         /\ At(t, "ResetClient") => t = "worker" /\ clientState = "Unloaded"
         /\ At(t, "LoadClientScripts") => t \in {"client", "worker"}
         /\ At(t, "ClearReset") => t \in {"story", "client"}
         /\ t = "worker" => clientState = "Unloaded"
  <1>1. CASE t = "story" /\ storyLock = "story"
    <2>1. Working BY <1>1 DEF Shapes, StoryShape
    <2>. QED BY <1>1, <2>1, WorkingHead
  <1>2. CASE t = "story" /\ storyLock = None
    <2>1. CASE todo["story"] \in Seq(TickSteps)
      <3>1. Head(todo["story"]) \in TickSteps BY <1>2, <2>1, EndsOf
      <3>. QED BY <1>2, <3>1, KindsOfSteps DEF AtReset, At, Do, Calls
    <2>2. CASE todo["story"] = <<Do("LockStory")>>
      <3>1. Head(todo["story"]) = Do("LockStory") BY <2>2
      <3>. QED BY <1>2, <3>1 DEF AtReset, At, Do
    <2>. QED BY <1>2, <2>1, <2>2 DEF Shapes, StoryShape
  <1>3. CASE t = "client"
    <2>1. ClientHead BY <1>3, ClientHeads DEF Shapes
    <2>2. CASE Head(todo["client"]) \in FrameSteps
      BY <1>3, <2>2, KindsOfSteps DEF AtReset, At, Do, Calls
    <2>3. CASE Head(todo["client"]) = Do("ClearReset") \/ Head(todo["client"]) = Do("Reset")
      BY <1>3, <2>3 DEF AtReset, At, Do
    <2>4. CASE todo["client"] \in {Ended, Ended2, Ended3}
      BY <1>3, <2>4, EndsClient DEF AtReset, At, Do
    <2>. QED BY <2>1, <2>2, <2>3, <2>4 DEF ClientHead
  <1>4. CASE t = "worker"
    <2>1. Head(todo["worker"]) \in WorkerSteps BY <1>4, EndsOf DEF Shapes, OtherShapes
    <2>. QED BY <1>4, <2>1, KindsOfSteps DEF AtReset, At, Do, Calls, Shapes, OtherShapes
  <1>5. CASE t \in Jobs
    <2>1. Head(todo[t]) \in Called BY <1>5, EndsOf DEF Shapes, OtherShapes
    <2>2. t # "worker" BY <1>5, ConstantsAssumption
    <2>. QED BY <1>5, <2>1, <2>2, KindsOfSteps DEF AtReset, At, Do, Calls
  <1>. QED BY <1>1, <1>2, <1>3, <1>4, <1>5 DEF Threads, TypeOK, StoryTypes

-----------------------------------------------------------------------------
(* What fits the client's thread.                                           *)
LEMMA FrameFits ==
  ASSUME NEW at
  PROVE  /\ ClientTick \in Seq(FrameSteps)
         /\ <<>> \in Seq(FrameSteps)
         /\ \A q \in Seq(FrameSteps) : ClientFits(q, at)
         /\ \A q \in Seq(FrameSteps) : ClientFits(MenuRebuild \o q, at)
         /\ \A q \in Seq(FrameSteps) : ClientFits(MenuReset \o q, at)
         /\ \A h \in FrameSteps, q \in Seq(FrameSteps) : <<h>> \o q \in Seq(FrameSteps)
  <1>1. ClientTick \in Seq(FrameSteps)
    BY DEF ClientTick, FrameSteps, Own, Called, Call, Calls, Sides
  <1>2. ASSUME NEW q \in Seq(FrameSteps) PROVE ClientFits(q, at)
    <2>1. q = <<>> \o q OBVIOUS
    <2>. QED BY <2>1 DEF ClientFits, MenuResets
  <1>3. \A q \in Seq(FrameSteps) : ClientFits(MenuRebuild \o q, at)
    BY DEF ClientFits, MenuResets
  <1>4. \A q \in Seq(FrameSteps) : ClientFits(MenuReset \o q, at)
    BY DEF ClientFits, MenuResets
  <1>. QED BY <1>1, <1>2, <1>3, <1>4

(* What is left of the client's handler after its head fits too.            *)
LEMMA ClientTail ==
  ASSUME ClientShape, todo["client"] # <<>>
  PROVE  ClientFits(Tail(todo["client"]), clientState)
  <1>1. ClientHead BY ClientHeads
  <1>2. CASE Tail(todo["client"]) \in Seq(FrameSteps) BY <1>2, FrameFits
  <1>3. CASE \E q \in Seq(FrameSteps) : Tail(todo["client"]) = MenuRebuild \o q
    BY <1>3, FrameFits
  <1>4. CASE clientState = "Unloaded" /\ todo["client"] \in {Ended, Ended2, Ended3}
    <2>1. \/ Tail(todo["client"]) = ClientTick \/ Tail(todo["client"]) = Ended3
      BY <1>4, EndsClient
    <2>2. ClientFits(Ended3, clientState) BY <1>4 DEF ClientFits
    <2>. QED BY <2>1, <2>2, FrameFits
  <1>. QED BY <1>1, <1>2, <1>3, <1>4 DEF ClientHead

(* The handler a thread has when a step leaves it or takes its head.        *)
LEMMA StoryTail ==
  ASSUME TypeOK, StoryShape, todo["story"] # <<>>, UNCHANGED <<story, storyLock, done>>,
         ~At("story", "StoryDone"), todo'["story"] = Tail(todo["story"])
  PROVE  StoryShape'
  <1>1. story BY DEF StoryShape
  <1>2. CASE storyLock = None
    <2>1. CASE todo["story"] \in Seq(TickSteps)
      <3>1. Tail(todo["story"]) \in Seq(TickSteps) BY <2>1, EndsOf
      <3>. QED BY <3>1, <1>1, <1>2, ConstantsAssumption DEF StoryShape, Threads
    <2>2. CASE todo["story"] = <<Do("LockStory")>>
      <3>1. Tail(todo["story"]) = <<>> BY <2>2
      <3>2. <<>> \in Seq(TickSteps) OBVIOUS
      <3>. QED BY <3>1, <3>2, <1>2, ConstantsAssumption DEF StoryShape, Threads
    <2>. QED BY <1>2, <2>1, <2>2 DEF StoryShape
  <1>3. CASE storyLock = "story"
    <2>1. Working /\ ~done BY <1>3 DEF StoryShape
    <2>2. todo["story"] # Work7 BY Ends DEF At
    <2>3. Tail(todo["story"]) \in {Work2, Work3, Work4, Work5, Work6, Work7}
      BY <2>1, <2>2, Ends DEF Working, OsiBound, Loaded, LoadedSession
    <2>4. Working' BY <2>3 DEF Working, OsiBound, Loaded, LoadedSession
    <2>. QED BY <2>1, <2>4, <1>1, <1>3, ConstantsAssumption DEF StoryShape, Threads
  <1>. QED BY <1>2, <1>3 DEF TypeOK, StoryTypes

(* A shape that a step leaves alone.                                        *)
LEMMA ShapesKept ==
  /\ StoryShape /\ UNCHANGED <<story, storyLock, done>> /\ todo'["story"] = todo["story"]
       => StoryShape'
  /\ ClientShape /\ UNCHANGED clientState /\ todo'["client"] = todo["client"] => ClientShape'
  /\ OtherShapes /\ UNCHANGED clientState /\ (\A u \in Jobs \cup {"worker"} : todo'[u] = todo[u])
       => OtherShapes'
  BY DEF StoryShape, ClientShape, OtherShapes, Working, OsiBound, Loaded, LoadedSession

(* The steps common to the threads keep the shapes.                         *)
LEMMA StepShapes ==
  ASSUME TypeOK, Shapes, NEW t \in Threads, Step(t)
  PROVE  Shapes'
  <1>1. /\ \A u \in Threads \ {t} : todo'[u] = todo[u]
        /\ todo'[t] = todo[t] \/ Goes1(t) \/ LoadsScripts(t)
        /\ UNCHANGED <<story, storyLock, done, clientState>>
    BY StepTodo DEF storyVars, engineVars
  <1>2. CASE todo'[t] = todo[t] BY <1>1, <1>2, ShapesKept DEF Shapes, Threads
  <1>3. CASE t = "story" /\ Goes1(t)
    <2>1. ~At("story", "StoryDone")
      BY <1>3 DEF Goes1, InCall, AtReset, At, Do, Calls
    <2>2. StoryShape' BY <1>1, <1>3, <2>1, StoryTail DEF Goes1, Shapes
    <2>. QED BY <1>1, <1>3, <2>2, ShapesKept, ConstantsAssumption DEF Shapes, Threads
  <1>4. CASE t = "client" /\ Goes1(t)
    <2>1. ClientShape' BY <1>1, <1>4, ClientTail DEF Goes1, Shapes, ClientShape
    <2>. QED BY <1>1, <1>4, <2>1, ShapesKept, ConstantsAssumption DEF Shapes, Threads
  <1>5. CASE t = "worker" /\ Goes1(t)
    <2>1. todo'["worker"] \in Seq(WorkerSteps) /\ clientState = "Unloaded"
      BY <1>5, EndsOf, Where DEF Goes1, Shapes, OtherShapes
    <2>2. OtherShapes' BY <1>1, <1>5, <2>1, ConstantsAssumption DEF Shapes, OtherShapes, Threads
    <2>. QED BY <1>1, <1>5, <2>2, ShapesKept, ConstantsAssumption DEF Shapes, Threads
  <1>6. CASE t \in Jobs /\ Goes1(t)
    <2>1. todo'[t] \in Seq(Called) BY <1>6, EndsOf DEF Goes1, Shapes, OtherShapes
    <2>2. t \notin {"story", "client", "worker"} BY <1>6, ConstantsAssumption
    <2>3. OtherShapes' BY <1>1, <2>1, <2>2 DEF Shapes, OtherShapes, Threads
    <2>. QED BY <1>1, <2>2, <2>3, ShapesKept DEF Shapes, Threads
  <1>7. CASE LoadsScripts(t)
    <2>1. t \in {"client", "worker"} BY <1>7, Where DEF LoadsScripts
    <2>2. Call("LoadModScripts", "Client") \in Called BY DEF Called, Call, Calls, Sides
    <2>3. CASE t = "client"
      <3>1. Head(todo["client"]) = Do("LoadClientScripts") BY <1>7, <2>3 DEF LoadsScripts, At
      <3>2. Tail(todo["client"]) \in Seq(FrameSteps)
        <4>1. ClientHead BY <1>7, <2>3, ClientHeads DEF LoadsScripts, Shapes
        <4>2. todo["client"] \notin {Ended, Ended2, Ended3} BY <3>1, EndsClient DEF Do
        <4>. QED BY <3>1, <4>1, <4>2 DEF ClientHead, Do
      <3>3. todo'["client"] \in Seq(FrameSteps)
        BY <1>7, <2>2, <2>3, <3>2, FrameFits DEF LoadsScripts, FrameSteps, Own
      <3>4. ClientShape' BY <3>3, FrameFits DEF ClientShape
      <3>. QED BY <1>1, <2>3, <3>4, ShapesKept, ConstantsAssumption DEF Shapes, Threads
    <2>4. CASE t = "worker"
      <3>1. Tail(todo["worker"]) \in Seq(WorkerSteps)
        BY <1>7, <2>4, EndsOf DEF LoadsScripts, Shapes, OtherShapes
      <3>2. todo'["worker"] \in Seq(WorkerSteps)
        BY <1>7, <2>2, <2>4, <3>1 DEF LoadsScripts, WorkerSteps, Own
      <3>3. clientState = "Unloaded" BY <1>7, <2>4, Where DEF LoadsScripts
      <3>4. OtherShapes' BY <1>1, <2>4, <3>2, <3>3, ConstantsAssumption DEF Shapes, OtherShapes, Threads
      <3>. QED BY <1>1, <2>4, <3>4, ShapesKept, ConstantsAssumption DEF Shapes, Threads
    <2>. QED BY <2>1, <2>3, <2>4
  <1>. QED BY <1>1, <1>2, <1>3, <1>4, <1>5, <1>6, <1>7 DEF Threads

(* What the head of the story's handler says of the rest.                   *)
LEMMA StoryHead ==
  ASSUME TypeOK, StoryShape
  PROVE  /\ \A op \in {"CheckReset", "CheckState", "CheckEvents"} : At("story", op) =>
              storyLock = None /\ todo["story"] \in Seq(TickSteps)
         /\ At("story", "LockStory")  => storyLock = None /\ todo["story"] = <<Do("LockStory")>>
         /\ At("story", "BindBegin")  => storyLock = "story" /\ ~done /\ todo["story"] = Work1
         /\ At("story", "BindEnd")    => storyLock = "story" /\ ~done /\ todo["story"] = Bound
         /\ At("story", "StoryReady") => storyLock = "story" /\ ~done /\ todo["story"] = Work6
         /\ At("story", "StoryDone")  => storyLock = "story" /\ ~done /\ todo["story"] = Work7
  <1>. DEFINE h == Head(todo["story"])
  <1>1. CASE todo["story"] = <<>> BY <1>1 DEF At
  <1>2. CASE storyLock = None /\ todo["story"] # <<>> /\ todo["story"] \in Seq(TickSteps)
    <2>1. h \in TickSteps BY <1>2, EndsOf
    <2>. QED BY <1>2, <2>1, KindsOfSteps DEF At, Do, Calls
  <1>3. CASE storyLock = None /\ todo["story"] = <<Do("LockStory")>>
    <2>1. h = Do("LockStory") BY <1>3
    <2>. QED BY <1>3, <2>1 DEF At, Do
  <1>4. CASE storyLock = "story"
    <2>1. Working /\ ~done BY <1>4 DEF StoryShape
    <2>2. todo["story"] \in {Work1, Bound, Work2, Work3, Work4, Work5, Work6, Work7}
      BY <2>1 DEF Working, OsiBound, Loaded, LoadedSession
    <2>3. CASE todo["story"] \in {Work2, Work3, Work4, Work5}
      <3>1. h.op \in Calls BY <2>3, Ends, Kinds DEF Begin, Session, Calls, Sides
      <3>. QED BY <2>1, <3>1 DEF At, Do, Calls
    <2>4. CASE todo["story"] = Work1 BY <1>4, <2>1, <2>4, Ends DEF At, Do
    <2>5. CASE todo["story"] = Bound BY <1>4, <2>1, <2>5, Ends DEF At, Do
    <2>6. CASE todo["story"] = Work6 BY <1>4, <2>1, <2>6, Ends DEF At, Do
    <2>7. CASE todo["story"] = Work7 BY <1>4, <2>1, <2>7, Ends DEF At, Do
    <2>. QED BY <2>2, <2>3, <2>4, <2>5, <2>6, <2>7
  <1>. QED BY <1>1, <1>2, <1>3, <1>4 DEF TypeOK, StoryTypes, StoryShape

(* How the story work goes on.                                              *)
LEMMA WorkGoes ==
  ASSUME TypeOK, StoryShape
  PROVE  /\ LockStory /\ ~done  => todo'["story"] = Work1
         /\ LockStory /\ done   => todo'["story"] = <<>>
         /\ BindBegin  => todo'["story"] = IF st["Server"].id = Null THEN Work2 ELSE Bound
         /\ BindEnd    => todo'["story"] = Work2
         /\ StoryReady => todo'["story"] = Work7
         /\ StoryDone  => todo'["story"] = <<>>
  <1>1. "story" \in Threads /\ <<>> \in Seq(Steps) BY DEF Threads
  <1>2. ASSUME LockStory, ~done PROVE todo'["story"] = Work1
    <2>1. todo["story"] = <<Do("LockStory")>> BY <1>2, StoryHead DEF LockStory
    <2>2. /\ Tail(todo["story"]) = <<>> /\ todo["story"] # <<>> BY <2>1
    <2>3. Continue("story", <<Do("BindBegin")>> \o LoadMods \o <<Do("StoryReady"), Do("StoryDone")>>)
      BY <1>2 DEF LockStory
    <2>4. <<Do("BindBegin")>> \o LoadMods \o <<Do("StoryReady"), Do("StoryDone")>> = Work1
      BY Glued DEF LoadMods, Work1, Begin, Session
    <2>5. Work1 \in Seq(Steps) BY <2>4, Handlers
    <2>6. todo'["story"] = Work1 \o <<>> BY <1>1, <2>2, <2>3, <2>4, <2>5, Goes
    <2>7. Work1 \o <<>> = Work1 BY <2>5
    <2>. QED BY <2>6, <2>7
  <1>3. ASSUME LockStory, done PROVE todo'["story"] = <<>>
    <2>1. todo["story"] = <<Do("LockStory")>> BY <1>3, StoryHead DEF LockStory
    <2>2. /\ Tail(todo["story"]) = <<>> /\ todo["story"] # <<>> BY <2>1
    <2>. QED BY <1>1, <1>3, <2>2, Goes DEF LockStory
  <1>4. ASSUME BindBegin PROVE todo'["story"] = IF st["Server"].id = Null THEN Work2 ELSE Bound
    <2>1. todo["story"] = Work1 BY <1>4, StoryHead DEF BindBegin
    <2>2. Tail(todo["story"]) = Work2 /\ todo["story"] # <<>> BY <2>1, Ends
    <2>3. CASE st["Server"].id = Null BY <1>1, <1>4, <2>2, <2>3, Goes DEF BindBegin
    <2>4. CASE st["Server"].id # Null
      <3>1. <<Do("BindEnd")>> \in Seq(Steps) BY StepTypes, Pieces DEF Plain
      <3>2. todo'["story"] = <<Do("BindEnd")>> \o Work2
        BY <1>1, <1>4, <2>2, <2>4, <3>1, Goes DEF BindBegin
      <3>3. Bound = <<Do("BindEnd")>> \o Work2 BY DEF Bound, Work2
      <3>. QED BY <2>4, <3>2, <3>3
    <2>. QED BY <2>3, <2>4
  <1>5. ASSUME BindEnd PROVE todo'["story"] = Work2
    <2>1. todo["story"] = Bound BY <1>5, StoryHead DEF BindEnd
    <2>. QED BY <1>1, <1>5, <2>1, Ends, Goes DEF BindEnd
  <1>6. ASSUME StoryReady PROVE todo'["story"] = Work7
    <2>1. todo["story"] = Work6 BY <1>6, StoryHead DEF StoryReady
    <2>. QED BY <1>1, <1>6, <2>1, Ends, Goes DEF StoryReady
  <1>7. ASSUME StoryDone PROVE todo'["story"] = <<>>
    <2>1. todo["story"] = Work7 BY <1>7, StoryHead DEF StoryDone
    <2>. QED BY <1>1, <1>7, <2>1, Ends, Goes DEF StoryDone
  <1>. QED BY <1>2, <1>3, <1>4, <1>5, <1>6, <1>7

(* The steps of the story thread keep the shapes.                           *)
LEMMA StoryShapes ==
  ASSUME TypeOK, Shapes, StoryThread
  PROVE  Shapes'
  <1>1. /\ \A u \in Threads \ {"story"} : todo'[u] = todo[u]
        /\ UNCHANGED <<story, clientState>>
    BY DEF StoryThread, CheckReset, CheckState, CheckEvents, LockStory, BindBegin, BindEnd,
           StoryReady, StoryDone, Continue, TypeOK, TodoTypes, engineVars
  <1>2. ClientShape' /\ OtherShapes'
    BY <1>1, ShapesKept, ConstantsAssumption DEF Shapes, Threads
  <1>3. None # "story" BY ConstantsAssumption DEF Threads
  <1>4. /\ todo["story"] # <<>> /\ story /\ "story" \in Threads
    BY DEF StoryThread, CheckReset, CheckState, CheckEvents, LockStory, BindBegin, BindEnd,
           StoryReady, StoryDone, At, Shapes, StoryShape, Threads
  <1>5. CASE CheckReset \/ CheckState \/ CheckEvents
    <2>1. storyLock = None /\ todo["story"] \in Seq(TickSteps)
      BY <1>5, StoryHead DEF Shapes, CheckReset, CheckState, CheckEvents
    <2>2. Tail(todo["story"]) \in Seq(TickSteps) BY <1>4, <2>1, EndsOf
    <2>3. todo'["story"] \in Seq(TickSteps)
      <3>1. CASE CheckReset
        <4>1. <<Do("ClearReset"), Do("ResetLoad")>> \in Seq(TickSteps) /\ <<>> \in Seq(TickSteps)
          BY DEF TickSteps, Own
        <4>2. <<Do("ClearReset"), Do("ResetLoad")>> \in Seq(Steps) /\ <<>> \in Seq(Steps)
          BY StepTypes, Pieces DEF Plain
        <4>3. PICK more \in Seq(Steps) : more \in Seq(TickSteps) /\ Continue("story", more)
          BY <3>1, <4>1, <4>2 DEF CheckReset
        <4>4. todo'["story"] = more \o Tail(todo["story"]) BY <1>4, <4>3, Goes
        <4>. QED BY <2>2, <4>3, <4>4
      <3>2. CASE CheckState
        <4>1. <<>> \in Seq(Steps) /\ <<>> \in Seq(TickSteps) OBVIOUS
        <4>2. CASE Continue("story", <<>>) BY <1>4, <2>2, <4>1, <4>2, Goes
        <4>3. CASE todo' = [todo EXCEPT !["story"] = <<>>]
          BY <1>4, <4>1, <4>3 DEF TypeOK, TodoTypes
        <4>. QED BY <3>2, <4>2, <4>3 DEF CheckState
      <3>3. CASE CheckEvents
        <4>1. /\ <<Call("AfterReset", "Server"), Call("AfterReset", "Client")>> \in Seq(TickSteps)
              /\ <<>> \in Seq(TickSteps)
          BY DEF TickSteps, Own, Called, Call, Calls, Sides
        <4>2. /\ <<Call("AfterReset", "Server"), Call("AfterReset", "Client")>> \in Seq(Steps)
              /\ <<>> \in Seq(Steps)
          BY StepTypes, Pieces DEF Calls, Sides
        <4>3. PICK more \in Seq(Steps) : more \in Seq(TickSteps) /\ Continue("story", more)
          BY <3>3, <4>1, <4>2 DEF CheckEvents
        <4>4. todo'["story"] = more \o Tail(todo["story"]) BY <1>4, <4>3, Goes
        <4>. QED BY <2>2, <4>3, <4>4
      <3>. QED BY <1>5, <3>1, <3>2, <3>3
    <2>4. UNCHANGED <<storyLock, done>>
      BY <1>5 DEF CheckReset, CheckState, CheckEvents, storyVars
    <2>5. StoryShape' BY <1>1, <1>3, <1>4, <2>1, <2>3, <2>4 DEF StoryShape
    <2>. QED BY <1>2, <2>5 DEF Shapes
  <1>6. CASE LockStory
    <2>1. storyLock' = (IF done THEN None ELSE "story") /\ done' = done
      BY <1>6 DEF LockStory
    <2>2. CASE done
      <3>1. todo'["story"] = <<>> /\ <<>> \in Seq(TickSteps) BY <1>6, <2>2, WorkGoes DEF Shapes
      <3>. QED BY <1>1, <1>2, <1>3, <2>1, <2>2, <3>1 DEF Shapes, StoryShape
    <2>3. CASE ~done
      <3>1. todo'["story"] = Work1 BY <1>6, <2>3, WorkGoes DEF Shapes
      <3>2. Working' BY <3>1 DEF Working
      <3>. QED BY <1>1, <1>2, <1>3, <1>4, <2>1, <2>3, <3>2 DEF Shapes, StoryShape
    <2>. QED BY <2>2, <2>3
  <1>7. CASE BindBegin \/ BindEnd \/ StoryReady
    <2>1. storyLock = "story" /\ ~done
      BY <1>7, StoryHead DEF BindBegin, BindEnd, StoryReady, Shapes
    <2>2. todo'["story"] \in {Bound, Work2, Work7} BY <1>7, WorkGoes DEF Shapes
    <2>3. Working' BY <2>2 DEF Working, OsiBound, Loaded, LoadedSession
    <2>4. UNCHANGED <<storyLock, done>> BY <1>7 DEF BindBegin, BindEnd, StoryReady, storyVars
    <2>. QED BY <1>1, <1>2, <1>3, <1>4, <2>1, <2>3, <2>4 DEF Shapes, StoryShape
  <1>8. CASE StoryDone
    <2>1. todo'["story"] = <<>> /\ <<>> \in Seq(TickSteps) BY <1>8, WorkGoes DEF Shapes
    <2>2. storyLock' = None BY <1>8 DEF StoryDone
    <2>. QED BY <1>2, <1>3, <2>1, <2>2 DEF Shapes, StoryShape
  <1>. QED BY <1>5, <1>6, <1>7, <1>8 DEF StoryThread

(* What the head of the client's handler says of the rest.                  *)
LEMMA ClientAt ==
  ASSUME ClientShape
  PROVE  /\ At("client", "NoteSessionEnded") => todo["client"] = Ended /\ clientState = "Unloaded"
         /\ At("client", "Rearm") => todo["client"] = Ended2 /\ clientState = "Unloaded"
         /\ \A op \in {"CheckScripts", "CheckMenuReset", "LoadClientScripts"} : At("client", op) =>
              Tail(todo["client"]) \in Seq(FrameSteps)
  <1>1. CASE todo["client"] = <<>> BY <1>1 DEF At
  <1>2. CASE todo["client"] # <<>>
    <2>1. ClientHead BY <1>2, ClientHeads
    <2>2. CASE todo["client"] \in {Ended, Ended2, Ended3}
      <3>1. Head(todo["client"]) \in {Do("NoteSessionEnded"), Do("Rearm"), Do("Reset")}
        BY <2>2, EndsClient
      <3>2. Head(todo["client"]) \notin FrameSteps /\ Head(todo["client"]) # Do("ClearReset")
        BY <3>1, KindsOfSteps DEF Do, Calls
      <3>3. Head(todo["client"]) # Do("Reset") => clientState = "Unloaded"
        BY <2>1, <3>2 DEF ClientHead
      <3>4. CASE todo["client"] = Ended BY <3>3, <3>4, EndsClient DEF At, Do
      <3>5. CASE todo["client"] = Ended2 BY <3>3, <3>5, EndsClient DEF At, Do
      <3>6. CASE todo["client"] = Ended3 BY <3>6, EndsClient DEF At, Do
      <3>. QED BY <2>2, <3>4, <3>5, <3>6
    <2>3. CASE todo["client"] \notin {Ended, Ended2, Ended3}
      <3>1. CASE Head(todo["client"]) \in FrameSteps
        BY <2>1, <2>3, <3>1, KindsOfSteps DEF At, Do, Calls, ClientHead
      <3>2. CASE Head(todo["client"]) \in {Do("ClearReset"), Do("Reset")}
        BY <3>2 DEF At, Do
      <3>. QED BY <2>1, <2>3, <3>1, <3>2 DEF ClientHead
    <2>. QED BY <2>2, <2>3
  <1>. QED BY <1>1, <1>2

(* How the end of a session goes on.                                        *)
LEMMA EndGoes ==
  ASSUME TypeOK, ClientShape
  PROVE  /\ NoteSessionEnded => todo'["client"] = IF ready THEN Ended2 ELSE ClientTick
         /\ Rearm => todo'["client"] = Ended3
  <1>1. "client" \in Threads /\ <<>> \in Seq(Steps) BY DEF Threads
  <1>2. ASSUME NoteSessionEnded PROVE todo'["client"] = IF ready THEN Ended2 ELSE ClientTick
    <2>1. todo["client"] = Ended BY <1>2, ClientAt DEF NoteSessionEnded
    <2>2. Tail(todo["client"]) = ClientTick /\ todo["client"] # <<>> BY <2>1, EndsClient
    <2>3. CASE ~ready BY <1>1, <1>2, <2>2, <2>3, Goes DEF NoteSessionEnded
    <2>4. CASE ready
      <3>1. <<Do("Rearm"), Do("Reset")>> \in Seq(Steps) BY StepTypes, Pieces DEF Plain
      <3>2. todo'["client"] = <<Do("Rearm"), Do("Reset")>> \o ClientTick
        BY <1>1, <1>2, <2>2, <2>4, <3>1, Goes DEF NoteSessionEnded
      <3>3. <<Do("Rearm"), Do("Reset")>> \o ClientTick = Ended2
        BY Glued2 DEF Ended2, ClientTick
      <3>. QED BY <2>4, <3>2, <3>3
    <2>. QED BY <2>3, <2>4
  <1>3. ASSUME Rearm PROVE todo'["client"] = Ended3
    <2>1. todo["client"] = Ended2 BY <1>3, ClientAt DEF Rearm
    <2>. QED BY <1>1, <1>3, <2>1, EndsClient, Goes DEF Rearm
  <1>. QED BY <1>2, <1>3

(* The steps of the client thread keep the shapes.                          *)
LEMMA ClientShapes ==
  ASSUME TypeOK, Shapes, ClientThread
  PROVE  Shapes'
  <1>1. /\ \A u \in Threads \ {"client"} : todo'[u] = todo[u]
        /\ UNCHANGED <<story, storyLock, clientState>>
    BY DEF ClientThread, NoteSessionEnded, Rearm, CheckScripts, CheckMenuReset, Continue,
           TypeOK, TodoTypes, engineVars, storyVars
  <1>2. OtherShapes' BY <1>1, ShapesKept, ConstantsAssumption DEF Shapes, Threads
  <1>3. StoryShape'
    <2>1. CASE Rearm
      BY <1>1, <2>1, ConstantsAssumption DEF Rearm, Shapes, StoryShape, Threads
    <2>2. CASE ~Rearm
      <3>1. UNCHANGED done
        BY <2>2 DEF ClientThread, NoteSessionEnded, CheckScripts, CheckMenuReset, storyVars
      <3>. QED BY <1>1, <3>1, ShapesKept DEF Shapes, Threads
    <2>. QED BY <2>1, <2>2
  <1>4. "client" \in Threads /\ todo["client"] # <<>>
    BY DEF Threads, At, ClientThread, NoteSessionEnded, Rearm, CheckScripts, CheckMenuReset
  <1>5. CASE NoteSessionEnded
    <2>1. clientState = "Unloaded" BY <1>5, ClientAt DEF NoteSessionEnded, Shapes
    <2>2. todo'["client"] = Ended2 \/ todo'["client"] = ClientTick
      BY <1>5, EndGoes DEF Shapes
    <2>3. ClientFits(Ended2, clientState) BY <2>1 DEF ClientFits
    <2>. QED BY <1>1, <1>2, <1>3, <2>2, <2>3, FrameFits DEF Shapes, ClientShape
  <1>6. CASE Rearm
    <2>1. clientState = "Unloaded" BY <1>6, ClientAt DEF Rearm, Shapes
    <2>2. todo'["client"] = Ended3 BY <1>6, EndGoes DEF Shapes
    <2>3. ClientFits(Ended3, clientState) BY <2>1 DEF ClientFits
    <2>. QED BY <1>1, <1>2, <1>3, <2>2, <2>3 DEF Shapes, ClientShape
  <1>7. CASE CheckScripts
    <2>1. Tail(todo["client"]) \in Seq(FrameSteps) BY <1>7, ClientAt DEF CheckScripts, Shapes
    <2>2. <<Do("LoadClientScripts")>> \in Seq(FrameSteps) /\ <<>> \in Seq(FrameSteps)
      BY DEF FrameSteps, Own
    <2>3. <<Do("LoadClientScripts")>> \in Seq(Steps) /\ <<>> \in Seq(Steps)
      BY StepTypes, Pieces DEF Plain
    <2>4. PICK more \in Seq(Steps) : more \in Seq(FrameSteps) /\ Continue("client", more)
      BY <1>7, <2>2, <2>3 DEF CheckScripts
    <2>5. todo'["client"] = more \o Tail(todo["client"]) BY <1>4, <2>4, Goes
    <2>6. todo'["client"] \in Seq(FrameSteps) BY <2>1, <2>4, <2>5
    <2>. QED BY <1>2, <1>3, <2>6, FrameFits DEF Shapes, ClientShape
  <1>8. CASE CheckMenuReset
    <2>1. Tail(todo["client"]) \in Seq(FrameSteps) BY <1>8, ClientAt DEF CheckMenuReset, Shapes
    <2>2. MenuReset \in Seq(Steps) /\ <<>> \in Seq(Steps) BY Handlers
    <2>3. PICK more \in Seq(Steps) : more \in {<<>>, MenuReset} /\ Continue("client", more)
      BY <1>8, <2>2 DEF CheckMenuReset
    <2>4. todo'["client"] = more \o Tail(todo["client"]) BY <1>4, <2>3, Goes
    <2>5. ClientFits(more \o Tail(todo["client"]), clientState)
      BY <2>1, <2>3 DEF ClientFits, MenuResets
    <2>. QED BY <1>1, <1>2, <1>3, <2>4, <2>5 DEF Shapes, ClientShape
  <1>. QED BY <1>5, <1>6, <1>7, <1>8 DEF ClientThread

(* The steps of the stats worker keep the shapes.                           *)
LEMMA WorkerShapes ==
  ASSUME TypeOK, Shapes, WorkerThread
  PROVE  Shapes'
  <1>1. /\ \A u \in Threads \ {"worker"} : todo'[u] = todo[u]
        /\ UNCHANGED <<story, storyLock, done, clientState>>
    BY DEF WorkerThread, ModuleLoadStarted, ModuleBootstraps, StatsLoaded, Continue,
           TypeOK, TodoTypes, engineVars, storyVars
  <1>2. "worker" \in Threads /\ todo["worker"] # <<>>
    BY DEF Threads, At, WorkerThread, ModuleLoadStarted, ModuleBootstraps, StatsLoaded
  <1>3. Tail(todo["worker"]) \in Seq(WorkerSteps) /\ clientState = "Unloaded"
    BY <1>2, EndsOf, Where DEF Shapes, OtherShapes
  <1>. DEFINE Mores == {<<>>, <<Do("ResetClient"), Do("ModuleBootstraps")>>,
                <<Call("LoadModuleBootstraps", "Client"), Call("FireEvent", "Client")>>,
                <<Do("ResetClient"), Do("LoadClientScripts"), Call("FireEvent", "Client")>>}
  <1>4. Mores \subseteq Seq(WorkerSteps)
    BY DEF WorkerSteps, Own, Called, Call, Calls, Sides
  <1>5. Mores \subseteq Seq(Steps) BY StepTypes, Pieces DEF Plain, Calls, Sides
  <1>6. PICK more \in Mores : Continue("worker", more)
    BY DEF WorkerThread, ModuleLoadStarted, ModuleBootstraps, StatsLoaded
  <1>7. more \in Seq(Steps) /\ more \in Seq(WorkerSteps) BY <1>4, <1>5
  <1>8. todo'["worker"] = more \o Tail(todo["worker"]) BY <1>2, <1>6, <1>7, Goes
  <1>9. todo'["worker"] \in Seq(WorkerSteps) BY <1>3, <1>7, <1>8
  <1>10. OtherShapes'
    BY <1>1, <1>3, <1>9, ConstantsAssumption DEF Shapes, OtherShapes, Threads
  <1>. QED BY <1>1, <1>10, ShapesKept DEF Shapes, Threads

(* A handler starts.                                                        *)
LEMMA StartShapes ==
  ASSUME TypeOK, Shapes,
         \/ ServerTick \/ StoryEvent \/ ClientFrame \/ StatsLoad
         \/ \E j \in Jobs, s \in Sides : JobEvent(j, s)
  PROVE  Shapes'
  <1>1. UNCHANGED <<story, storyLock, done>>
    BY DEF ServerTick, StoryEvent, ClientFrame, Frame, FrameUnloadSession, FrameLeaveLoadMenu,
           StatsLoad, JobEvent, storyVars, engineVars
  <1>2. todo \in [Threads -> Seq(Steps)] BY DEF TypeOK, TodoTypes
  <1>3. CASE ServerTick \/ StoryEvent
    <2>1. /\ \A u \in Threads \ {"story"} : todo'[u] = todo[u]
          /\ UNCHANGED clientState /\ story /\ todo["story"] = <<>>
      BY <1>2, <1>3 DEF ServerTick, StoryEvent, Start, engineVars
    <2>2. \/ todo'["story"] \in Seq(TickSteps) \/ todo'["story"] = <<Do("LockStory")>>
      <3>1. CASE ServerTick
        <4>1. todo'["story"] = <<Do("CheckReset"), Do("CheckState"), Do("CheckEvents"),
                                 Call("RunTimers", "Server")>>
          BY <1>2, <3>1 DEF ServerTick, Start, Threads
        <4>2. <<Do("CheckReset"), Do("CheckState"), Do("CheckEvents"),
                Call("RunTimers", "Server")>> \in Seq(TickSteps)
          BY DEF TickSteps, Own, Called, Call, Calls, Sides
        <4>. QED BY <4>1, <4>2
      <3>2. CASE StoryEvent BY <1>2, <3>2 DEF StoryEvent, Start, Threads
      <3>. QED BY <1>3, <3>1, <3>2
    <2>3. storyLock = None
      <3>1. ~Working BY <2>1, WorkingHead
      <3>. QED BY <3>1 DEF Shapes, StoryShape, TypeOK, StoryTypes
    <2>4. StoryShape'
      BY <1>1, <2>1, <2>2, <2>3, ConstantsAssumption DEF StoryShape, Threads
    <2>. QED BY <2>1, <2>4, ShapesKept, ConstantsAssumption DEF Shapes, Threads
  <1>4. CASE ClientFrame
    <2>1. /\ \A u \in Threads \ {"client"} : todo'[u] = todo[u]
          /\ clientState' # "Unloaded" => todo["worker"] = <<>>
      BY <1>2, <1>4 DEF ClientFrame, Frame, FrameUnloadSession, FrameLeaveLoadMenu, Start,
                        engineVars, Shapes, OtherShapes
    <2>2. OtherShapes'
      BY <2>1, ConstantsAssumption DEF Shapes, OtherShapes, Threads
    <2>3. ClientShape'
      <3>1. CASE Frame
        <4>1. todo'["client"] = ClientTick BY <1>2, <3>1 DEF Frame, Start, Threads
        <4>. QED BY <4>1, FrameFits DEF ClientShape
      <3>2. CASE FrameUnloadSession
        <4>1. todo'["client"] = <<Do("NoteSessionEnded")>> \o ClientTick
          BY <1>2, <3>2 DEF FrameUnloadSession, Start, Threads
        <4>2. Ended = <<Do("NoteSessionEnded")>> \o ClientTick BY DEF Ended, ClientTick
        <4>. QED BY <3>2, <4>1, <4>2 DEF ClientShape, ClientFits, FrameUnloadSession
      <3>3. CASE FrameLeaveLoadMenu
        <4>1. todo'["client"] = <<Do("LoadClientScripts")>> \o ClientTick
          BY <1>2, <3>3 DEF FrameLeaveLoadMenu, Start, Threads
        <4>2. Do("LoadClientScripts") \in FrameSteps BY DEF FrameSteps, Own
        <4>3. todo'["client"] \in Seq(FrameSteps) BY <4>1, <4>2, FrameFits
        <4>. QED BY <4>3, FrameFits DEF ClientShape
      <3>. QED BY <1>4, <3>1, <3>2, <3>3 DEF ClientFrame
    <2>. QED BY <1>1, <2>1, <2>2, <2>3, ShapesKept DEF Shapes, Threads
  <1>5. CASE StatsLoad
    <2>1. /\ \A u \in Threads \ {"worker"} : todo'[u] = todo[u]
          /\ clientState = "Unloaded" /\ UNCHANGED clientState
          /\ todo'["worker"] = <<Do("ModuleLoadStarted"), Do("StatsLoaded")>>
      BY <1>2, <1>5 DEF StatsLoad, Start, Threads
    <2>2. <<Do("ModuleLoadStarted"), Do("StatsLoaded")>> \in Seq(WorkerSteps)
      BY DEF WorkerSteps, Own
    <2>3. OtherShapes' BY <2>1, <2>2, ConstantsAssumption DEF Shapes, OtherShapes, Threads
    <2>. QED BY <1>1, <2>1, <2>3, ShapesKept DEF Shapes, Threads
  <1>6. CASE \E j \in Jobs, s \in Sides : JobEvent(j, s)
    <2>1. PICK j \in Jobs, s \in Sides : JobEvent(j, s) BY <1>6
    <2>2. /\ \A u \in Threads \ {j} : todo'[u] = todo[u]
          /\ UNCHANGED clientState /\ todo'[j] = <<Call("FireEvent", s)>>
      BY <1>2, <2>1 DEF JobEvent, Start, Threads, engineVars
    <2>3. <<Call("FireEvent", s)>> \in Seq(Called) BY DEF Called, Call, Calls
    <2>4. j \notin {"story", "client", "worker"} BY ConstantsAssumption
    <2>5. OtherShapes' BY <2>2, <2>3, <2>4 DEF Shapes, OtherShapes, Threads
    <2>. QED BY <1>1, <2>2, <2>4, <2>5, ShapesKept DEF Shapes, Threads
  <1>. QED BY <1>3, <1>4, <1>5, <1>6

(* Every step keeps the shapes.                                             *)
LEMMA ShapesStep ==
  ASSUME TypeOK, Shapes, [Next]_vars
  PROVE  Shapes'
  <1>1. ASSUME NEW t \in Threads, Step(t) PROVE Shapes' BY <1>1, StepShapes
  <1>2. CASE StoryStep \/ ClientStep \/ WorkerStep
    BY <1>1, <1>2, StoryShapes, ClientShapes, WorkerShapes
    DEF StoryStep, ClientStep, WorkerStep, Threads
  <1>3. CASE \E j \in Jobs : Step(j) BY <1>1, <1>3 DEF Threads
  <1>4. CASE \/ ServerTick \/ StoryEvent \/ ClientFrame \/ StatsLoad
             \/ \E j \in Jobs, s \in Sides : JobEvent(j, s)
    BY <1>4, StartShapes
  <1>5. CASE \/ \E t \in Threads : RequestReset(t)
             \/ FindModules \/ UNCHANGED vars
    <2>1. UNCHANGED <<todo, clientState, story, storyLock, done>>
      BY <1>5 DEF RequestReset, FindModules, vars, threadVars, storyVars, engineVars
    <2>. QED BY <2>1, ShapesKept DEF Shapes
  <1>6. CASE EndStory
    <2>1. UNCHANGED <<todo, clientState, storyLock, done>> /\ todo["story"] = <<>>
      BY <1>6 DEF EndStory, threadVars, storyVars
    <2>2. StoryShape'
      BY <2>1 DEF Shapes, StoryShape, Working, OsiBound, Loaded, LoadedSession
    <2>. QED BY <2>1, <2>2, ShapesKept DEF Shapes
  <1>7. CASE StartSession
    <2>1. UNCHANGED <<todo, storyLock, done>> /\ story' /\ todo["worker"] = <<>> /\ todo["client"] = <<>>
      BY <1>7 DEF StartSession, threadVars, storyVars
    <2>2. StoryShape'
      BY <2>1 DEF Shapes, StoryShape, Working, OsiBound, Loaded, LoadedSession
    <2>3. ClientShape' BY <2>1, FrameFits DEF ClientShape
    <2>4. OtherShapes' BY <2>1 DEF Shapes, OtherShapes
    <2>. QED BY <2>2, <2>3, <2>4 DEF Shapes
  <1>. QED BY <1>2, <1>3, <1>4, <1>5, <1>6, <1>7 DEF Next

(* The shapes hold at the start: no thread is in a handler.                 *)
LEMMA ShapesInit == Init => Shapes
  <1>. SUFFICES ASSUME Init PROVE Shapes OBVIOUS
  <1>1. /\ \A t \in Threads : todo[t] = <<>>
        /\ storyLock = None /\ clientState = "Unloaded"
    BY DEF Init
  <1>2. <<>> \in Seq(TickSteps) /\ <<>> \in Seq(WorkerSteps) /\ <<>> \in Seq(Called) OBVIOUS
  <1>3. StoryShape BY <1>1, <1>2, ConstantsAssumption DEF StoryShape, Threads
  <1>4. ClientShape BY <1>1, FrameFits DEF ClientShape, Threads
  <1>5. OtherShapes BY <1>1, <1>2 DEF OtherShapes, Threads
  <1>. QED BY <1>3, <1>4, <1>5 DEF Shapes

-----------------------------------------------------------------------------
(* What steps that are no reset do to a state: it stays where it is, and it *)
(* loses nothing of what the story work put into it.                        *)
Grown(s) == /\ st'[s].id = st[s].id
            /\ st[s].scripts => st'[s].scripts
            /\ st[s].osi => st'[s].osi
            /\ st'[s].session \in {st[s].session, session}

(* A step that leaves the states alone leaves them as they were.            *)
LEMMA Kept == st' = st => \A s \in Sides : Grown(s)
  BY DEF Grown

(* What a call leaves in its state when it is over.                         *)
LEMMA LeaveGrows ==
  ASSUME TypeOK, LockInv, NEW t \in Threads, Leave(t)
  PROVE  /\ \A s \in Sides : Grown(s)
         /\ Fn(t) \in {"LoadModsBegin", "LoadModScripts"} => st'[Side(t)].scripts
         /\ Fn(t) = "LoadModsSession" => st'[Side(t)].session = session
  <1>1. Side(t) \in Sides /\ InCall(t) BY CallSide DEF Leave, TypeOK
  <1>2. st[Side(t)].id # Null BY DEF Leave, LockInv, CtxInv
  <1>3. /\ st'[Side(t)] = AfterCall(Fn(t), st[Side(t)])
        /\ \A s \in Sides \ {Side(t)} : st'[s] = st[s]
    BY <1>1, <1>2 DEF Leave, TypeOK, StateTypes
  <1>4. st[Side(t)] \in State BY <1>1 DEF TypeOK, StateTypes
  <1>. DEFINE old == st[Side(t)]
              new == AfterCall(Fn(t), old)
  <1>5. CASE Fn(t) \in {"LoadModsBegin", "LoadModScripts"}
    <2>1. new = [old EXCEPT !.scripts = TRUE] BY <1>5 DEF AfterCall
    <2>2. new.id = old.id /\ new.scripts /\ new.osi = old.osi /\ new.session = old.session
      BY <1>4, <2>1 DEF State
    <2>. QED BY <1>1, <1>3, <1>5, <2>2 DEF Grown
  <1>6. CASE Fn(t) = "LoadModsSession"
    <2>1. new = [old EXCEPT !.session = session] BY <1>6 DEF AfterCall
    <2>2. /\ new.id = old.id /\ new.scripts = old.scripts /\ new.osi = old.osi
          /\ new.session = session
      BY <1>4, <2>1 DEF State
    <2>. QED BY <1>1, <1>3, <1>6, <2>2 DEF Grown
  <1>7. CASE Fn(t) \notin {"LoadModsBegin", "LoadModScripts", "LoadModsSession"}
    <2>1. new = old BY <1>7 DEF AfterCall
    <2>. QED BY <1>1, <1>3, <1>7, <2>1 DEF Grown
  <1>. QED BY <1>5, <1>6, <1>7

(* What binding Osi does.                                                   *)
LEMMA BindGrows ==
  ASSUME TypeOK, BindEnd
  PROVE  /\ \A s \in Sides : Grown(s)
         /\ st'["Client"] = st["Client"]
         /\ raw = st["Server"].id => st'["Server"].osi
  <1>1. st["Server"] \in State /\ st["Client"] \in State /\ "Server" \in Sides
    BY DEF TypeOK, StateTypes, Sides
  <1>2. /\ st'["Client"] = st["Client"]
        /\ st'["Server"] = [st["Server"] EXCEPT !.osi = @ \/ st["Server"].id = raw]
    BY <1>1 DEF BindEnd, TypeOK, StateTypes, Sides
  <1>3. /\ st'["Server"].id = st["Server"].id /\ st'["Server"].scripts = st["Server"].scripts
        /\ st'["Server"].session = st["Server"].session
        /\ st'["Server"].osi = (st["Server"].osi \/ st["Server"].id = raw)
    BY <1>1, <1>2 DEF State
  <1>. QED BY <1>2, <1>3 DEF Grown, Sides

(* A state whose rebuild is over.                                           *)
LEMMA RebuiltHas ==
  ASSUME NEW state \in State, NEW server \in BOOLEAN, NEW load \in BOOLEAN
  PROVE  /\ Rebuilt(state, server, load).scripts = load
         /\ server /\ functions => Rebuilt(state, server, load).osi
         /\ load => Rebuilt(state, server, load).session = session
  BY DEF Rebuilt, State

(* What a reset that loads the mods leaves in the two states.               *)
LEMMA EndHas ==
  ASSUME TypeOK, NEW t \in Threads, ResetEnd(t), At(t, "ResetLoad")
  PROVE  /\ st'["Server"].scripts /\ st'["Client"].scripts
         /\ functions => st'["Server"].osi
         /\ st'["Server"].session = session
  <1>1. st["Server"] \in State /\ st["Client"] \in State BY DEF TypeOK, StateTypes, Sides
  <1>2. /\ st'["Server"] = Rebuilt(st["Server"], TRUE, TRUE)
        /\ st'["Client"] = Rebuilt(st["Client"], FALSE, TRUE)
    BY DEF ResetEnd, Sides
  <1>3. TRUE \in BOOLEAN /\ FALSE \in BOOLEAN OBVIOUS
  <1>4. /\ Rebuilt(st["Server"], TRUE, TRUE).scripts
        /\ functions => Rebuilt(st["Server"], TRUE, TRUE).osi
        /\ Rebuilt(st["Server"], TRUE, TRUE).session = session
    BY <1>1, <1>3, RebuiltHas
  <1>5. Rebuilt(st["Client"], FALSE, TRUE).scripts BY <1>1, <1>3, RebuiltHas
  <1>. QED BY <1>2, <1>4, <1>5

(* Nobody's load of the client's mods is forgotten by a step that leaves    *)
(* them alone.                                                              *)
LEMMA MenuKept ==
  ASSUME MenuInv, UNCHANGED clientState,
         st["Client"].scripts => st'["Client"].scripts,
         scriptsWaiting => scriptsWaiting',
         building'["story"] = building["story"],
         todo'["client"] = todo["client"] \/ ~ToLoad
  PROVE  MenuInv'
  BY DEF MenuInv, ToLoad, At

(* A call into a state: only the loading of the client's mods matters.      *)
LEMMA MenuCall ==
  ASSUME TypeOK, LockInv, Shapes, MenuInv, NEW t \in Threads,
         Peek(t) \/ Enter(t) \/ Leave(t)
  PROVE  MenuInv'
  <1>1. UNCHANGED <<clientState, scriptsWaiting, building>> /\ InCall(t)
    BY DEF Peek, Enter, Leave, engineVars, flagVars
  <1>2. \A u \in Threads \ {t} : todo'[u] = todo[u] BY StepTodo DEF Step
  <1>3. Head(todo[t]).op \in Calls BY <1>1 DEF InCall
  <1>4. t = "client" => ~At("client", "LoadClientScripts") /\ ~At("client", "Reset")
    BY <1>3 DEF At, Do, Calls
  <1>5. CASE Peek(t)
    <2>1. t = "client" => Head(todo["client"]) # Call("LoadModScripts", "Client")
      BY <1>5 DEF Peek, Prechecked, Fn, Call
    <2>2. t = "client" => ~ToLoad BY <1>4, <2>1 DEF ToLoad
    <2>3. st' = st BY <1>5 DEF Peek
    <2>. QED BY <1>1, <1>2, <2>2, <2>3, MenuKept DEF Threads
  <1>6. CASE Enter(t)
    <2>1. UNCHANGED <<st, todo>> BY <1>6 DEF Enter
    <2>. QED BY <1>1, <2>1, MenuKept
  <1>7. CASE Leave(t)
    <2>1. Grown("Client") BY <1>7, LeaveGrows DEF Sides
    <2>2. CASE t = "client" /\ Head(todo["client"]) = Call("LoadModScripts", "Client")
      <3>1. Fn(t) = "LoadModScripts" /\ Side(t) = "Client" BY <2>2 DEF Fn, Side, Call
      <3>2. st'["Client"].scripts BY <1>7, <3>1, LeaveGrows
      <3>. QED BY <3>2 DEF MenuInv
    <2>3. CASE ~(t = "client" /\ Head(todo["client"]) = Call("LoadModScripts", "Client"))
      <3>1. t = "client" => ~ToLoad BY <1>4, <2>3 DEF ToLoad
      <3>. QED BY <1>1, <1>2, <2>1, <3>1, MenuKept DEF Grown, Threads
    <2>. QED BY <2>2, <2>3
  <1>. QED BY <1>5, <1>6, <1>7

(* A reset: the client's own is followed by the loading it asks for.        *)
LEMMA MenuReset2 ==
  ASSUME TypeOK, LockInv, Shapes, MenuInv, NEW t \in Threads,
         \/ ResetBegin(t) \/ ResetBuild(t) \/ ResetEnd(t)
         \/ ResetClientBegin(t) \/ ResetClientBuild(t) \/ ResetClientEnd(t)
  PROVE  MenuInv'
  <1>1. UNCHANGED <<clientState, scriptsWaiting>> /\ todo[t] # <<>>
    BY DEF ResetBegin, ResetBuild, ResetEnd, ResetClientBegin, ResetClientBuild, ResetClientEnd,
           engineVars, flagVars, AtReset, At
  <1>2. CASE ResetClientBegin(t) \/ ResetClientBuild(t) \/ ResetClientEnd(t)
    <2>1. clientState = "Unloaded"
      BY <1>1, <1>2, Where DEF ResetClientBegin, ResetClientBuild, ResetClientEnd
    <2>. QED BY <1>1, <2>1 DEF MenuInv
  <1>3. CASE ResetBegin(t) \/ ResetBuild(t)
    <2>1. AtReset(t) /\ UNCHANGED todo BY <1>3 DEF ResetBegin, ResetBuild
    <2>2. CASE t = "story"
      <3>1. building'["story"] \in {"closed", "built"}
        BY <1>3, <2>2 DEF ResetBegin, ResetBuild, TypeOK, ThreadTypes
      <3>. QED BY <3>1 DEF MenuInv
    <2>3. CASE t = "client" /\ At("client", "Reset")
      BY <2>1, <2>3 DEF MenuInv, ToLoad, At
    <2>. QED BY <1>1, <2>1, <2>2, <2>3, Where
  <1>4. CASE ResetEnd(t)
    <2>1. AtReset(t) BY <1>4 DEF ResetEnd
    <2>2. CASE At(t, "ResetLoad")
      <3>1. st'["Client"].scripts BY <1>4, <2>2, EndHas
      <3>. QED BY <3>1 DEF MenuInv
    <2>3. CASE t = "client" /\ At("client", "Reset")
      <3>1. todo'["client"] = Tail(todo["client"])
        <4>1. Continue("client", <<>>) BY <1>4, <2>3 DEF ResetEnd
        <4>2. "client" \in Threads /\ todo["client"] # <<>> /\ <<>> \in Seq(Steps)
          BY <1>1, <2>3
        <4>. QED BY <4>1, <4>2, Goes
      <3>2. ClientHead BY <1>1, <2>3, ClientHeads DEF Shapes
      <3>3. CASE clientState = "Unloaded" BY <1>1, <3>3 DEF MenuInv
      <3>4. CASE clientState # "Unloaded"
        <4>1. Head(todo["client"]) = Do("Reset") BY <2>3 DEF At
        <4>2. Head(todo["client"]) \notin FrameSteps /\ Head(todo["client"]) # Do("ClearReset")
          BY <4>1, KindsOfSteps DEF Do, Calls
        <4>3. Tail(todo["client"]) # <<>> /\ Head(Tail(todo["client"])) = Do("LoadClientScripts")
          BY <3>2, <3>4, <4>2 DEF ClientHead
        <4>. QED BY <3>1, <4>3 DEF MenuInv, ToLoad, At
      <3>. QED BY <3>3, <3>4
    <2>. QED BY <1>1, <2>1, <2>2, <2>3, Where
  <1>. QED BY <1>2, <1>3, <1>4

(* The loading of the client's mods is done, or put off with a flag.         *)
LEMMA MenuLoad ==
  ASSUME TypeOK, LockInv, Shapes, MenuInv, NEW t \in Threads,
         ClearReset(t) \/ DeferClientScripts(t) \/ LoadClientScripts(t)
  PROVE  MenuInv'
  <1>1. UNCHANGED <<st, building, clientState>> /\ todo[t] # <<>>
    BY DEF ClearReset, DeferClientScripts, LoadClientScripts, At, engineVars
  <1>2. /\ \A u \in Threads \ {t} : todo'[u] = todo[u]
    BY StepTodo DEF Step
  <1>3. CASE ClearReset(t)
    <2>1. t = "client" => ~ToLoad BY <1>3 DEF ClearReset, ToLoad, At, Do, Call
    <2>2. UNCHANGED scriptsWaiting BY <1>3 DEF ClearReset
    <2>. QED BY <1>1, <1>2, <2>1, <2>2, MenuKept DEF Threads
  <1>4. CASE t = "worker"
    <2>1. clientState = "Unloaded" BY <1>1, <1>4, Where
    <2>. QED BY <1>1, <2>1 DEF MenuInv
  <1>5. CASE DeferClientScripts(t) /\ t = "client"
    <2>1. CASE scriptsWaiting' BY <2>1 DEF MenuInv
    <2>2. CASE ~scriptsWaiting'
      <3>1. st["Client"].id = Null BY <1>5, <2>2 DEF DeferClientScripts
      <3>2. PICK u \in Threads : lock["Client"] = u /\ building[u] = "closed"
        BY <3>1 DEF LockInv, NullOnlyInReset, Sides
      <3>3. AtReset(u) \/ At(u, "ResetClient") BY <3>2 DEF LockInv, ResetInv
      <3>4. todo[u] # <<>> BY <3>3 DEF AtReset, At
      <3>5. u # "client"
        BY <1>5, <3>3 DEF DeferClientScripts, AtReset, At, Do
      <3>6. u = "story" \/ clientState = "Unloaded" BY <3>3, <3>4, <3>5, Where
      <3>. QED BY <1>1, <3>2, <3>6 DEF MenuInv
    <2>. QED BY <2>1, <2>2
  <1>6. CASE LoadClientScripts(t) /\ t = "client"
    <2>1. Continue("client", <<Call("LoadModScripts", "Client")>>) /\ todo["client"] # <<>>
      BY <1>1, <1>6 DEF LoadClientScripts
    <2>2. "client" \in Threads /\ <<Call("LoadModScripts", "Client")>> \in Seq(Steps)
      BY StepTypes, Pieces DEF Calls, Sides, Threads
    <2>3. /\ todo'["client"] = <<Call("LoadModScripts", "Client")>> \o Tail(todo["client"])
          /\ Tail(todo["client"]) \in Seq(Steps)
      BY <2>1, <2>2, Goes
    <2>4. todo'["client"] # <<>> /\ Head(todo'["client"]) = Call("LoadModScripts", "Client")
      BY <2>3
    <2>. QED BY <2>4 DEF MenuInv, ToLoad
  <1>. QED
    BY <1>1, <1>3, <1>4, <1>5, <1>6, Where DEF DeferClientScripts, LoadClientScripts

(* Every step keeps it: at the menu the mods are loaded or will be.         *)
LEMMA MenuStep ==
  ASSUME TypeOK, LockInv, Shapes, MenuInv, [Next]_vars
  PROVE  MenuInv'
  <1>1. ASSUME NEW t \in Threads, Step(t) PROVE MenuInv'
    BY <1>1, MenuCall, MenuReset2, MenuLoad DEF Step
  <1>2. CASE StoryThread
    <2>1. /\ UNCHANGED <<clientState, scriptsWaiting, building>>
          /\ todo'["client"] = todo["client"]
      BY <1>2 DEF StoryThread, CheckReset, CheckState, CheckEvents, LockStory, BindBegin,
                  BindEnd, StoryReady, StoryDone, Continue, TypeOK, TodoTypes, Threads,
                  flagVars, engineVars
    <2>2. st'["Client"] = st["Client"]
      <3>1. CASE BindEnd BY <3>1, BindGrows
      <3>2. CASE ~BindEnd
        BY <1>2, <3>2 DEF StoryThread, CheckReset, CheckState, CheckEvents, LockStory,
                          BindBegin, StoryReady, StoryDone
      <3>. QED BY <3>1, <3>2
    <2>. QED BY <2>1, <2>2, MenuKept
  <1>3. CASE ClientThread
    <2>1. UNCHANGED <<st, clientState, scriptsWaiting, building>>
      BY <1>3 DEF ClientThread, NoteSessionEnded, Rearm, CheckScripts, CheckMenuReset,
                  flagVars, engineVars
    <2>2. ~ToLoad
      BY <1>3 DEF ClientThread, NoteSessionEnded, Rearm, CheckScripts, CheckMenuReset,
                  ToLoad, At, Do, Call
    <2>. QED BY <2>1, <2>2, MenuKept
  <1>4. CASE \/ WorkerThread \/ ServerTick \/ StoryEvent \/ StatsLoad
             \/ \E j \in Jobs, s \in Sides : JobEvent(j, s)
             \/ EndStory \/ FindModules \/ UNCHANGED vars
             \/ \E t \in Threads : RequestReset(t)
    <2>1. UNCHANGED <<st, clientState, scriptsWaiting, building>>
      BY <1>4 DEF WorkerThread, ModuleLoadStarted, ModuleBootstraps, StatsLoaded, ServerTick,
                  StoryEvent, StatsLoad, JobEvent, EndStory, FindModules, RequestReset, vars,
                  threadVars, flagVars, engineVars
    <2>2. "client" \notin Jobs /\ "client" \in Threads BY ConstantsAssumption DEF Threads
    <2>3. todo'["client"] = todo["client"]
      BY <1>4, <2>2
      DEF WorkerThread, ModuleLoadStarted, ModuleBootstraps, StatsLoaded, ServerTick,
          StoryEvent, StatsLoad, JobEvent, EndStory, FindModules, RequestReset, vars,
          threadVars, Continue, Start, TypeOK, TodoTypes
    <2>. QED BY <2>1, <2>3, MenuKept
  <1>5. CASE Frame
    <2>1. ~ToLoad BY <1>5 DEF Frame, Start, ToLoad, At
    <2>. QED BY <1>5, <2>1, MenuKept DEF Frame, flagVars, engineVars
  <1>6. CASE FrameUnloadSession BY <1>6 DEF FrameUnloadSession, MenuInv
  <1>7. CASE FrameLeaveLoadMenu
    <2>1. todo'["client"] = <<Do("LoadClientScripts")>> \o ClientTick
      BY <1>7 DEF FrameLeaveLoadMenu, Start, TypeOK, TodoTypes, Threads
    <2>2. todo'["client"] # <<>> /\ Head(todo'["client"]) = Do("LoadClientScripts")
      BY <2>1 DEF ClientTick
    <2>. QED BY <2>2 DEF MenuInv, ToLoad, At
  <1>8. CASE StartSession BY <1>8 DEF StartSession, MenuInv
  <1>. QED
    BY <1>1, <1>2, <1>3, <1>4, <1>5, <1>6, <1>7, <1>8
    DEF Next, StoryStep, ClientStep, WorkerStep, ClientFrame, Threads

-----------------------------------------------------------------------------
(* The stages of the story work are told apart by their first step.         *)
LEMMA Stages ==
  /\ \A w \in {Work1, Work2, Work3, Work4, Work5, Work6, Work7} : w # Bound
  /\ Work2 \notin {Work1, Work3, Work4, Work5, Work6, Work7}
  /\ Work1 \notin {Work3, Work4, Work5, Work6, Work7}
  /\ Work3 \notin {Work5, Work6, Work7} /\ Work4 \notin {Work5, Work6, Work7}
  /\ Bound \notin {Work3, Work4, Work5, Work6, Work7}
  /\ \A w \in {Bound, Work1, Work2, Work3, Work4, Work5, Work6} : w # Work7
  BY Ends DEF Do, Begin, Session, Call

(* What keeps each part of the invariant.                                   *)
LEMMA ReadyKept ==
  ASSUME ReadyInv, UNCHANGED <<ready, done, storyLock, clientState>>,
         At("client", "Rearm")' <=> At("client", "Rearm"),
         At("client", "NoteSessionEnded")' <=> At("client", "NoteSessionEnded"),
         Announced' <=> Announced,
         building'["client"] = building["client"]
  PROVE  ReadyInv'
  BY DEF ReadyInv

(* The server's side stays worked while its state only grows.               *)
LEMMA WorkedKept ==
  ASSUME WorkedInv, UNCHANGED <<ready, clientState, functions, session>>, Grown("Server"),
         building'["story"] = building["story"]
  PROVE  WorkedInv'
  BY DEF WorkedInv, Worked, Grown

(* So does a work in hand what it has done, while its handler stands.       *)
LEMMA WorkingKept ==
  ASSUME WorkingInv, UNCHANGED <<raw, functions, session>>, Grown("Server"),
         todo'["story"] = todo["story"]
  PROVE  WorkingInv'
  BY DEF WorkingInv, OsiBound, Loaded, LoadedSession, Grown

(* Nothing is asked of a story work while there is none.                    *)
LEMMA NotWorkingInv ==
  ASSUME ~Working
  PROVE  WorkingInv /\ ~Announced
  BY DEF Working, WorkingInv, Announced, OsiBound, Loaded, LoadedSession

(* Without the story's lock there is no story work, now and after a step.   *)
Unlocked == StoryShape /\ storyLock = None => ~Working /\ WorkingInv /\ ~Announced

(* That is so in every state ...                                            *)
LEMMA UnlockedNow == Unlocked
  BY NotWorking, NotWorkingInv DEF Unlocked

(* ... and so in the one after a step.                                      *)
LEMMA UnlockedNext == Unlocked'
  BY UnlockedNow, PTL

(* No step common to the threads starts or takes the steps that end a       *)
(* session.                                                                 *)
LEMMA MarksKept ==
  ASSUME TypeOK, Shapes, NEW t \in Threads, Step(t)
  PROVE  /\ At("client", "Rearm")' <=> At("client", "Rearm")
         /\ At("client", "NoteSessionEnded")' <=> At("client", "NoteSessionEnded")
  <1>1. /\ \A u \in Threads \ {t} : todo'[u] = todo[u]
        /\ todo'[t] = todo[t] \/ Goes1(t) \/ LoadsScripts(t)
    BY StepTodo
  <1>2. CASE todo'["client"] = todo["client"] BY <1>2 DEF At
  <1>3. CASE t = "client" /\ Goes1(t)
    <2>1. ~At("client", "Rearm") /\ ~At("client", "NoteSessionEnded") /\ todo["client"] # <<>>
      BY <1>3 DEF Goes1, InCall, AtReset, At, Do, Calls
    <2>2. ClientHead BY <2>1, ClientHeads DEF Shapes
    <2>3. todo'["client"] = Tail(todo["client"]) BY <1>3 DEF Goes1
    <2>4. CASE Tail(todo["client"]) \in Seq(FrameSteps)
      <3>1. todo'["client"] # <<>> => Head(todo'["client"]) \in FrameSteps
        BY <2>3, <2>4, EndsOf
      <3>. QED BY <2>1, <3>1, KindsOfSteps DEF At, Do, Calls
    <2>5. CASE \E q \in Seq(FrameSteps) : Tail(todo["client"]) = MenuRebuild \o q
      <3>1. Head(todo'["client"]) = Do("Reset") BY <2>3, <2>5 DEF MenuRebuild
      <3>. QED BY <2>1, <3>1 DEF At, Do
    <2>6. CASE todo["client"] \in {Ended, Ended2, Ended3}
      <3>1. todo["client"] = Ended3 BY <2>1, <2>6, EndsClient DEF At
      <3>2. Head(todo'["client"]) = Do("CheckScripts")
        <4>1. todo'["client"] = ClientTick BY <2>3, <3>1, EndsClient
        <4>2. Head(ClientTick) = Do("CheckScripts") BY DEF ClientTick
        <4>. QED BY <4>1, <4>2
      <3>. QED BY <2>1, <3>2 DEF At, Do
    <2>. QED BY <2>2, <2>4, <2>5, <2>6 DEF ClientHead
  <1>4. CASE t = "client" /\ LoadsScripts(t)
    <2>1. Tail(todo["client"]) \in Seq(Steps) BY <1>4, EndsOf DEF LoadsScripts, TypeOK, TodoTypes
    <2>2. Head(todo'["client"]) = Call("LoadModScripts", "Client")
      BY <1>4, <2>1 DEF LoadsScripts
    <2>3. ~At("client", "Rearm") /\ ~At("client", "NoteSessionEnded")
      BY <1>4 DEF LoadsScripts, At, Do
    <2>. QED BY <2>2, <2>3 DEF At, Do, Call, Calls
  <1>. QED BY <1>1, <1>2, <1>3, <1>4 DEF Threads

(* A step of the story's handler that is no call is a tick's.               *)
LEMMA TickOnly ==
  ASSUME TypeOK, Shapes, todo["story"] # <<>>,
         \/ AtReset("story") \/ At("story", "ResetClient")
         \/ At("story", "ClearReset") \/ At("story", "LoadClientScripts")
  PROVE  storyLock = None
  BY WorkingHead DEF Shapes, StoryShape, TypeOK, StoryTypes

(* The calls of the story work take it from stage to stage.                 *)
LEMMA WorkCalls ==
  ASSUME TypeOK, LockInv, Shapes, WorkingInv, storyLock = "story",
         Peek("story") \/ Leave("story"), todo'["story"] = Tail(todo["story"])
  PROVE  WorkingInv' /\ (Announced' <=> Announced)
  <1>1. Working /\ InCall("story") BY DEF Shapes, StoryShape, Peek, Leave
  <1>2. Head(todo["story"]).op \in Calls BY <1>1 DEF InCall
  <1>3. todo["story"] \in {Work2, Work3, Work4, Work5}
    <2>1. todo["story"] \notin {Work1, Bound, Work6, Work7} BY <1>2, Ends, Kinds DEF Plain
    <2>. QED BY <1>1, <2>1 DEF Working, OsiBound, Loaded, LoadedSession
  <1>4. "story" \in Threads /\ "Server" \in Sides BY DEF Threads, Sides
  <1>5. Grown("Server") /\ UNCHANGED <<raw, functions, session>>
    <2>1. CASE Peek("story") BY <1>4, <2>1, Kept DEF Peek, storyVars, engineVars
    <2>2. CASE Leave("story") BY <1>4, <2>2, LeaveGrows DEF Leave, storyVars, engineVars
    <2>. QED BY <2>1, <2>2
  <1>6. CASE todo["story"] = Work2
    <2>1. todo'["story"] = Work3 BY <1>6, Ends
    <2>2. Fn("story") = "LoadModsBegin" /\ Side("story") = "Server"
      BY <1>6, Ends DEF Fn, Side, Begin, Call
    <2>3. Leave("story") BY <2>2 DEF Peek, Prechecked
    <2>4. st'["Server"].scripts BY <1>4, <2>2, <2>3, LeaveGrows
    <2>5. st["Server"].osi /\ functions BY <1>6 DEF WorkingInv, OsiBound
    <2>. QED BY <1>5, <1>6, <2>1, <2>4, <2>5, Stages
         DEF WorkingInv, OsiBound, Loaded, LoadedSession, Announced, Grown
  <1>7. CASE todo["story"] = Work3
    <2>1. todo'["story"] = Work4 BY <1>7, Ends
    <2>2. st["Server"].osi /\ functions /\ st["Server"].scripts
      BY <1>7 DEF WorkingInv, OsiBound, Loaded
    <2>. QED BY <1>5, <1>7, <2>1, <2>2, Stages
         DEF WorkingInv, OsiBound, Loaded, LoadedSession, Announced, Grown
  <1>8. CASE todo["story"] = Work4
    <2>1. todo'["story"] = Work5 BY <1>8, Ends
    <2>2. Fn("story") = "LoadModsSession" /\ Side("story") = "Server"
      BY <1>8, Ends DEF Fn, Side, Session, Call
    <2>3. Leave("story") BY <2>2 DEF Peek, Prechecked
    <2>4. st'["Server"].session = session BY <1>4, <2>2, <2>3, LeaveGrows
    <2>5. st["Server"].osi /\ functions /\ st["Server"].scripts
      BY <1>8 DEF WorkingInv, OsiBound, Loaded
    <2>. QED BY <1>5, <1>8, <2>1, <2>4, <2>5, Stages
         DEF WorkingInv, OsiBound, Loaded, LoadedSession, Announced, Grown
  <1>9. CASE todo["story"] = Work5
    <2>1. todo'["story"] = Work6 BY <1>9, Ends
    <2>2. /\ st["Server"].osi /\ functions /\ st["Server"].scripts
          /\ st["Server"].session = session
      BY <1>9 DEF WorkingInv, OsiBound, Loaded, LoadedSession
    <2>. QED BY <1>5, <1>9, <2>1, <2>2, Stages
         DEF WorkingInv, OsiBound, Loaded, LoadedSession, Announced, Grown
  <1>. QED BY <1>3, <1>6, <1>7, <1>8, <1>9

(* A call, of any thread.                                                   *)
LEMMA WorkCall ==
  ASSUME TypeOK, LockInv, Shapes, Shapes', ReadyInv, WorkingInv, WorkedInv, NEW t \in Threads,
         Peek(t) \/ Enter(t) \/ Leave(t)
  PROVE  ReadyInv' /\ WorkingInv' /\ WorkedInv'
  <1>1. Step(t) /\ InCall(t) BY DEF Step, Peek, Enter, Leave
  <1>2. UNCHANGED <<raw, ready, done, storyLock, functions, clientState, session, building>>
    BY DEF Peek, Enter, Leave, storyVars, engineVars
  <1>3. Grown("Server")
    <2>1. "Server" \in Sides BY DEF Sides
    <2>2. CASE Leave(t) BY <2>1, <2>2, LeaveGrows
    <2>3. CASE Peek(t) \/ Enter(t) BY <2>1, <2>3, Kept DEF Peek, Enter
    <2>. QED BY <2>2, <2>3
  <1>4. /\ At("client", "Rearm")' <=> At("client", "Rearm")
        /\ At("client", "NoteSessionEnded")' <=> At("client", "NoteSessionEnded")
    BY <1>1, MarksKept
  <1>5. WorkedInv' BY <1>2, <1>3, WorkedKept
  <1>6. WorkingInv' /\ (Announced' <=> Announced)
    <2>1. /\ \A u \in Threads \ {t} : todo'[u] = todo[u]
          /\ todo'[t] = todo[t] \/ Goes1(t) \/ LoadsScripts(t)
      BY <1>1, StepTodo
    <2>2. CASE todo'["story"] = todo["story"]
      BY <1>2, <1>3, <2>2, WorkingKept DEF Announced
    <2>3. CASE storyLock = None
      <3>1. ~Announced BY <2>3, UnlockedNow DEF Shapes, Unlocked
      <3>2. WorkingInv' /\ ~Announced'
        BY <1>2, <2>3, UnlockedNext DEF Shapes, Unlocked
      <3>. QED BY <3>1, <3>2
    <2>4. CASE storyLock = "story" /\ todo'["story"] # todo["story"]
      <3>1. t = "story" /\ ~LoadsScripts(t)
        BY <1>1, <2>1, <2>4 DEF Threads, LoadsScripts, InCall, At, Do, Calls
      <3>2. todo'["story"] = Tail(todo["story"]) BY <2>1, <2>4, <3>1 DEF Goes1
      <3>3. Peek("story") \/ Leave("story") BY <2>4, <3>1 DEF Enter
      <3>. QED BY <2>4, <3>2, <3>3, WorkCalls
    <2>. QED BY <2>2, <2>3, <2>4 DEF TypeOK, StoryTypes
  <1>7. ReadyInv' BY <1>2, <1>4, <1>6, ReadyKept
  <1>. QED BY <1>5, <1>6, <1>7

(* A reset, of the story thread's tick or on the client thread.  One that    *)
(* meets the story work is not counted here: crossed remembers it.          *)
LEMMA WorkReset ==
  ASSUME TypeOK, LockInv, Shapes, Shapes', ReadyInv, WorkingInv, WorkedInv, ~crossed',
         NEW t \in Threads, ResetBegin(t) \/ ResetBuild(t) \/ ResetEnd(t)
  PROVE  ReadyInv' /\ WorkingInv' /\ WorkedInv'
  <1>1. Step(t) /\ AtReset(t) /\ todo[t] # <<>>
    BY DEF Step, ResetBegin, ResetBuild, ResetEnd, AtReset, At
  <1>2. UNCHANGED <<raw, ready, done, storyLock, functions, clientState, session>>
    BY DEF ResetBegin, ResetBuild, ResetEnd, storyVars, engineVars
  <1>3. /\ At("client", "Rearm")' <=> At("client", "Rearm")
        /\ At("client", "NoteSessionEnded")' <=> At("client", "NoteSessionEnded")
    BY <1>1, MarksKept
  <1>4. CASE t = "story" /\ At(t, "ResetLoad") /\ storyLock = None
    <2>1. ~Announced BY <1>4, UnlockedNow DEF Shapes, Unlocked
    <2>2. WorkingInv' /\ ~Announced' BY <1>2, <1>4, UnlockedNext DEF Shapes, Unlocked
    <2>3. building'["client"] = building["client"]
      BY <1>4 DEF ResetBegin, ResetBuild, ResetEnd, TypeOK, ThreadTypes, Threads
    <2>4. ReadyInv' BY <1>2, <1>3, <2>1, <2>2, <2>3, ReadyKept
    <2>5. WorkedInv'
      <3>1. CASE ResetBegin(t) \/ ResetBuild(t)
        <4>1. building'["story"] \in {"closed", "built"}
          BY <1>4, <3>1 DEF ResetBegin, ResetBuild, TypeOK, ThreadTypes
        <4>. QED BY <1>2, <4>1 DEF WorkedInv
      <3>2. CASE ResetEnd(t)
        <4>1. /\ st'["Server"].scripts /\ st'["Server"].session = session
              /\ functions => st'["Server"].osi
          BY <1>4, <3>2, EndHas
        <4>. QED BY <1>2, <4>1 DEF WorkedInv, Worked
      <3>. QED BY <3>1, <3>2
    <2>. QED BY <2>2, <2>4, <2>5
  <1>5. CASE t = "client" /\ At(t, "Reset")
    <2>1. storyLock = None /\ ~done
      <3>1. CASE ResetBegin(t) BY <1>5, <3>1 DEF ResetBegin
      <3>2. CASE ResetBuild(t) \/ ResetEnd(t)
        <4>1. building["client"] # "no" BY <1>5, <3>2 DEF ResetBuild, ResetEnd
        <4>. QED BY <4>1 DEF ReadyInv
      <3>. QED BY <3>1, <3>2
    <2>2. ~Announced BY <2>1, UnlockedNow DEF Shapes, Unlocked
    <2>3. WorkingInv' /\ ~Announced' BY <1>2, <2>1, UnlockedNext DEF Shapes, Unlocked
    <2>4. ~ready BY <2>1, <2>2 DEF ReadyInv
    <2>5. ~At("client", "Rearm") BY <1>5 DEF At, Do
    <2>6. ReadyInv'
      BY <1>2, <1>3, <2>1, <2>4, <2>5, ConstantsAssumption DEF ReadyInv, Threads
    <2>7. WorkedInv' BY <1>2, <2>4 DEF WorkedInv
    <2>. QED BY <2>3, <2>6, <2>7
  <1>. QED BY <1>1, <1>4, <1>5, Where

(* The rest of the steps common to the threads leave the server alone.      *)
LEMMA WorkQuietStep ==
  ASSUME TypeOK, LockInv, Shapes, Shapes', ReadyInv, WorkingInv, WorkedInv,
         NEW t \in Threads,
         \/ ResetClientBegin(t) \/ ResetClientBuild(t) \/ ResetClientEnd(t)
         \/ ClearReset(t) \/ DeferClientScripts(t) \/ LoadClientScripts(t)
  PROVE  ReadyInv' /\ WorkingInv' /\ WorkedInv'
  <1>1. /\ Step(t) /\ todo[t] # <<>>
        /\ \/ At(t, "ResetClient") \/ At(t, "ClearReset") \/ At(t, "LoadClientScripts")
    BY DEF Step, ResetClientBegin, ResetClientBuild, ResetClientEnd, ClearReset,
           DeferClientScripts, LoadClientScripts, At
  <1>2. UNCHANGED <<raw, ready, done, storyLock, functions, clientState, session>>
    BY DEF ResetClientBegin, ResetClientBuild, ResetClientEnd, ClearReset,
           DeferClientScripts, LoadClientScripts, storyVars, engineVars
  <1>3. /\ At("client", "Rearm")' <=> At("client", "Rearm")
        /\ At("client", "NoteSessionEnded")' <=> At("client", "NoteSessionEnded")
    BY <1>1, MarksKept
  <1>4. st'["Server"] = st["Server"]
    BY DEF ResetClientBegin, ResetClientBuild, ResetClientEnd, ClearReset,
           DeferClientScripts, LoadClientScripts, TypeOK, StateTypes, Sides
  <1>5. building'["client"] = building["client"] /\ building'["story"] = building["story"]
    <2>1. At(t, "ResetClient") => t = "worker" BY <1>1, Where
    <2>2. CASE ResetClientBegin(t) \/ ResetClientBuild(t) \/ ResetClientEnd(t)
      <3>1. t = "worker" BY <2>1, <2>2 DEF ResetClientBegin, ResetClientBuild, ResetClientEnd
      <3>. QED BY <2>2, <3>1
           DEF ResetClientBegin, ResetClientBuild, ResetClientEnd, TypeOK, ThreadTypes, Threads
    <2>3. CASE ClearReset(t) \/ DeferClientScripts(t) \/ LoadClientScripts(t)
      BY <2>3 DEF ClearReset, DeferClientScripts, LoadClientScripts
    <2>. QED BY <2>2, <2>3
  <1>6. Grown("Server") BY <1>4 DEF Grown
  <1>7. WorkedInv' BY <1>2, <1>5, <1>6, WorkedKept
  <1>8. WorkingInv' /\ (Announced' <=> Announced)
    <2>1. CASE t = "story"
      <3>1. storyLock = None BY <1>1, <2>1, TickOnly
      <3>2. ~Announced BY <3>1, UnlockedNow DEF Shapes, Unlocked
      <3>3. WorkingInv' /\ ~Announced' BY <1>2, <3>1, UnlockedNext DEF Shapes, Unlocked
      <3>. QED BY <3>2, <3>3
    <2>2. CASE t # "story"
      <3>1. todo'["story"] = todo["story"] BY <1>1, <2>2, StepTodo DEF Threads
      <3>. QED BY <1>2, <1>6, <3>1, WorkingKept DEF Announced
    <2>. QED BY <2>1, <2>2
  <1>9. ReadyInv' BY <1>2, <1>3, <1>5, <1>8, ReadyKept
  <1>. QED BY <1>7, <1>8, <1>9

(* The steps of the story thread.                                           *)
LEMMA WorkStory ==
  ASSUME TypeOK, LockInv, Shapes, Shapes', ReadyInv, WorkingInv, WorkedInv, ~crossed',
         StoryThread
  PROVE  ReadyInv' /\ WorkingInv' /\ WorkedInv'
  <1>1. UNCHANGED <<clientState, session, building>> /\ todo'["client"] = todo["client"]
    BY DEF StoryThread, CheckReset, CheckState, CheckEvents, LockStory, BindBegin, BindEnd,
           StoryReady, StoryDone, Continue, TypeOK, TodoTypes, Threads, engineVars
  <1>2. /\ At("client", "Rearm")' <=> At("client", "Rearm")
        /\ At("client", "NoteSessionEnded")' <=> At("client", "NoteSessionEnded")
    BY <1>1 DEF At
  <1>3. "story" # None BY ConstantsAssumption DEF Threads
  <1>4. Grown("Server")
    <2>1. "Server" \in Sides BY DEF Sides
    <2>2. CASE BindEnd BY <2>1, <2>2, BindGrows
    <2>3. CASE ~BindEnd
      BY <2>1, <2>3, Kept DEF StoryThread, CheckReset, CheckState, CheckEvents, LockStory,
                              BindBegin, StoryReady, StoryDone
    <2>. QED BY <2>2, <2>3
  <1>5. CASE CheckReset \/ CheckState \/ CheckEvents \/ (LockStory /\ done)
    <2>1. storyLock = None BY <1>5, StoryHead
      DEF Shapes, CheckReset, CheckState, CheckEvents, LockStory
    <2>2. UNCHANGED <<raw, ready, done, storyLock, functions>>
      BY <1>5, <2>1 DEF CheckReset, CheckState, CheckEvents, LockStory, storyVars
    <2>3. ~Announced BY <2>1, UnlockedNow DEF Shapes, Unlocked
    <2>4. WorkingInv' /\ ~Announced' BY <2>1, <2>2, UnlockedNext DEF Shapes, Unlocked
    <2>. QED BY <1>1, <1>2, <1>4, <2>2, <2>3, <2>4, ReadyKept, WorkedKept
  <1>6. CASE LockStory /\ ~done
    <2>1. storyLock = None /\ UNCHANGED <<ready, done, functions>>
      BY <1>6 DEF LockStory
    <2>2. clientState = "Session" /\ lock["Server"] # "client" BY <1>6 DEF LockStory
    <2>3. ~Announced BY <2>1, UnlockedNow DEF Shapes, Unlocked
    <2>4. ~ready /\ ~At("client", "Rearm") BY <1>6, <2>3 DEF ReadyInv
    <2>5. building["client"] = "no"
      <3>1. "client" \in Threads /\ "Server" \in Sides BY DEF Threads, Sides
      <3>2. ~At("client", "ResetClient")
        <4>1. CASE todo["client"] = <<>> BY <4>1 DEF At
        <4>2. CASE todo["client"] # <<>> BY <3>1, <4>2, Where
        <4>. QED BY <4>1, <4>2
      <3>. QED BY <2>2, <3>1, <3>2 DEF LockInv, ResetInv
    <2>6. ReadyInv' BY <1>1, <1>2, <2>1, <2>2, <2>4, <2>5 DEF ReadyInv
    <2>7. todo'["story"] = Work1 BY <1>6, WorkGoes DEF Shapes
    <2>8. WorkingInv' BY <2>7, Stages DEF WorkingInv, OsiBound, Loaded, LoadedSession
    <2>9. WorkedInv' BY <2>1, <2>4 DEF WorkedInv
    <2>. QED BY <2>6, <2>8, <2>9
  <1>7. CASE BindBegin
    <2>1. storyLock = "story" /\ ~done /\ todo["story"] = Work1
      BY <1>7, StoryHead DEF Shapes, BindBegin
    <2>2. UNCHANGED <<ready, done, storyLock, functions>> /\ raw' = st["Server"].id /\ st' = st
      BY <1>7 DEF BindBegin, storyVars
    <2>3. st["Server"].id # Null
      <3>. SUFFICES ASSUME st["Server"].id = Null PROVE FALSE OBVIOUS
      <3>1. PICK u \in Threads : lock["Server"] = u /\ building[u] = "closed"
        BY DEF LockInv, NullOnlyInReset, Sides
      <3>2. AtReset(u)
        <4>1. AtReset(u) \/ At(u, "ResetClient") BY <3>1 DEF LockInv, ResetInv
        <4>2. At(u, "ResetClient") => lock["Server"] # u BY <3>1, ResetClientAlone
        <4>. QED BY <3>1, <4>1, <4>2
      <3>3. u = "client" \/ storyLock = None BY <3>2, Where DEF AtReset, At
      <3>. QED BY <1>3, <2>1, <3>1, <3>3 DEF ReadyInv
    <2>4. todo'["story"] = Bound BY <1>7, <2>3, WorkGoes DEF Shapes
    <2>5. WorkingInv' BY <2>2, <2>4, Stages DEF WorkingInv, OsiBound, Loaded, LoadedSession
    <2>6. ~Announced /\ ~Announced' BY <2>1, <2>4, Stages DEF Announced
    <2>. QED BY <1>1, <1>2, <1>4, <2>2, <2>5, <2>6, ReadyKept, WorkedKept
  <1>8. CASE BindEnd
    <2>1. storyLock = "story" /\ ~done /\ todo["story"] = Bound
      BY <1>8, StoryHead DEF Shapes, BindEnd
    <2>2. UNCHANGED <<ready, done, storyLock>> /\ functions' BY <1>8 DEF BindEnd
    <2>3. st'["Server"].osi BY <1>8, <2>1, BindGrows DEF WorkingInv
    <2>4. todo'["story"] = Work2 BY <1>8, WorkGoes DEF Shapes
    <2>5. WorkingInv'
      BY <2>2, <2>3, <2>4, Stages DEF WorkingInv, OsiBound, Loaded, LoadedSession
    <2>6. ~Announced /\ ~Announced' BY <2>1, <2>4, Stages DEF Announced
    <2>7. ReadyInv' BY <1>1, <1>2, <2>2, <2>6, ReadyKept
    <2>8. ~ready BY <2>1, <2>6 DEF ReadyInv
    <2>9. WorkedInv' BY <2>2, <2>8 DEF WorkedInv
    <2>. QED BY <2>5, <2>7, <2>9
  <1>9. CASE StoryReady
    <2>1. storyLock = "story" /\ ~done /\ todo["story"] = Work6
      BY <1>9, StoryHead DEF Shapes, StoryReady
    <2>2. UNCHANGED <<raw, done, storyLock, functions>> /\ ready' /\ st' = st
      BY <1>9 DEF StoryReady
    <2>3. todo'["story"] = Work7 BY <1>9, WorkGoes DEF Shapes
    <2>4. ~Announced /\ Announced' BY <2>1, <2>3, Stages DEF Announced
    <2>5. /\ st["Server"].osi /\ functions /\ st["Server"].scripts
          /\ st["Server"].session = session
      BY <2>1 DEF WorkingInv, OsiBound, Loaded, LoadedSession
    <2>6. WorkingInv'
      BY <1>1, <2>2, <2>3, <2>5, Stages DEF WorkingInv, OsiBound, Loaded, LoadedSession
    <2>7. WorkedInv' BY <1>1, <2>2, <2>5 DEF WorkedInv, Worked
    <2>8. ReadyInv'
      <3>1. ~At("client", "Rearm") BY <2>1, <2>4 DEF ReadyInv
      <3>2. clientState # "Session" => At("client", "NoteSessionEnded")
        BY <2>1, <2>4 DEF ReadyInv
      <3>3. building["client"] = "no" BY <1>3, <2>1 DEF ReadyInv
      <3>. QED BY <1>1, <1>2, <2>2, <2>4, <3>1, <3>2, <3>3 DEF ReadyInv
    <2>. QED BY <2>6, <2>7, <2>8
  <1>10. CASE StoryDone
    <2>1. storyLock = "story" /\ ~done /\ todo["story"] = Work7
      BY <1>10, StoryHead DEF Shapes, StoryDone
    <2>2. UNCHANGED <<ready, functions>> /\ done' /\ storyLock' = None
      BY <1>10 DEF StoryDone
    <2>3. WorkingInv' BY <2>2, UnlockedNext DEF Shapes, Unlocked
    <2>4. building["client"] = "no" BY <1>3, <2>1 DEF ReadyInv
    <2>5. ReadyInv' BY <1>1, <1>2, <1>3, <2>2, <2>4 DEF ReadyInv
    <2>6. WorkedInv' BY <1>1, <1>4, <2>2, WorkedKept
    <2>. QED BY <2>3, <2>5, <2>6
  <1>. QED BY <1>5, <1>6, <1>7, <1>8, <1>9, <1>10 DEF StoryThread

(* The end of a session on the client thread, and a frame's checks.         *)
LEMMA WorkClient ==
  ASSUME TypeOK, LockInv, Shapes, Shapes', ReadyInv, WorkingInv, WorkedInv, ~crossed',
         ClientThread
  PROVE  ReadyInv' /\ WorkingInv' /\ WorkedInv'
  <1>1. /\ UNCHANGED <<st, raw, clientState, session, building, functions, storyLock>>
        /\ todo'["story"] = todo["story"]
    BY DEF ClientThread, NoteSessionEnded, Rearm, CheckScripts, CheckMenuReset, Continue,
           TypeOK, TodoTypes, Threads, engineVars, storyVars
  <1>2. Grown("Server") BY <1>1, Kept DEF Sides
  <1>3. WorkingInv' /\ (Announced' <=> Announced) BY <1>1, <1>2, WorkingKept DEF Announced
  <1>4. "story" # None /\ "client" \in Threads BY ConstantsAssumption DEF Threads
  <1>5. CASE NoteSessionEnded
    <2>1. ~ready' /\ UNCHANGED done BY <1>5 DEF NoteSessionEnded, ReadyAfterUnload
    <2>2. building["client"] = "no" BY <1>4, <1>5, Idle DEF NoteSessionEnded, Plain
    <2>3. WorkedInv' BY <2>1 DEF WorkedInv
    <2>4. CASE ready
      <3>1. done \/ Announced BY <2>4 DEF ReadyInv
      <3>2. storyLock = "story" => Announced
        BY <3>1 DEF Shapes, StoryShape
      <3>. QED BY <1>1, <1>3, <2>1, <2>2, <2>3, <3>1, <3>2 DEF ReadyInv
    <2>5. CASE ~ready
      <3>1. storyLock = None BY <1>5, <2>5 DEF NoteSessionEnded
      <3>2. todo'["client"] = ClientTick BY <1>5, <2>5, EndGoes DEF Shapes
      <3>3. Head(ClientTick) = Do("CheckScripts") BY DEF ClientTick
      <3>4. ~At("client", "Rearm")' BY <3>2, <3>3 DEF At, Do
      <3>. QED BY <1>1, <1>3, <1>4, <2>1, <2>2, <2>3, <3>1, <3>4 DEF ReadyInv
    <2>. QED BY <2>4, <2>5
  <1>6. CASE Rearm
    <2>1. ~ready /\ ready' = ready /\ ~done' /\ storyLock = None
      BY <1>6 DEF Rearm, ReadyInv
    <2>2. building["client"] = "no" BY <1>4, <1>6, Idle DEF Rearm, Plain
    <2>3. todo'["client"] = Ended3 BY <1>6, EndGoes DEF Shapes
    <2>4. ~At("client", "Rearm")' BY <2>3, EndsClient DEF At, Do
    <2>5. ReadyInv' BY <1>1, <1>4, <2>1, <2>2, <2>4 DEF ReadyInv
    <2>6. WorkedInv' BY <2>1 DEF WorkedInv
    <2>. QED BY <1>3, <2>5, <2>6
  <1>7. CASE CheckScripts \/ CheckMenuReset
    <2>1. UNCHANGED <<ready, done>> BY <1>7 DEF CheckScripts, CheckMenuReset, storyVars
    <2>2. WorkedInv' BY <1>1, <1>2, <2>1, WorkedKept
    <2>3. /\ ~At("client", "Rearm") /\ ~At("client", "NoteSessionEnded")
          /\ todo["client"] # <<>>
      BY <1>7 DEF CheckScripts, CheckMenuReset, At, Do
    <2>4. Tail(todo["client"]) \in Seq(FrameSteps)
      BY <1>7, ClientAt DEF CheckScripts, CheckMenuReset, Shapes
    <2>5. PICK more \in {<<>>, <<Do("LoadClientScripts")>>, MenuReset} : Continue("client", more)
      BY <1>7 DEF CheckScripts, CheckMenuReset
    <2>6. more \in Seq(Steps) BY StepTypes, Pieces, Handlers DEF Plain
    <2>7. todo'["client"] = more \o Tail(todo["client"]) BY <1>4, <2>3, <2>5, <2>6, Goes
    <2>8. ~At("client", "Rearm")' /\ ~At("client", "NoteSessionEnded")'
      <3>1. CASE more = <<>>
        <4>1. todo'["client"] = Tail(todo["client"]) BY <2>4, <2>7, <3>1
        <4>2. todo'["client"] # <<>> => Head(todo'["client"]) \in FrameSteps
          BY <2>4, <4>1, EndsOf
        <4>. QED BY <4>2, KindsOfSteps DEF At, Do, Calls
      <3>2. CASE more = <<Do("LoadClientScripts")>>
        <4>1. Head(todo'["client"]) = Do("LoadClientScripts") BY <2>4, <2>7, <3>2
        <4>. QED BY <4>1 DEF At, Do
      <3>3. CASE more = MenuReset
        <4>1. Head(todo'["client"]) = Do("ClearReset") BY <2>4, <2>7, <3>3 DEF MenuReset
        <4>. QED BY <4>1 DEF At, Do
      <3>. QED BY <3>1, <3>2, <3>3
    <2>9. ReadyInv' BY <1>1, <1>3, <2>1, <2>3, <2>8, ReadyKept
    <2>. QED BY <1>3, <2>2, <2>9
  <1>. QED BY <1>5, <1>6, <1>7 DEF ClientThread

(* The starts of handlers, the worker and the engine.                       *)
LEMMA WorkEngine ==
  ASSUME TypeOK, LockInv, Shapes, Shapes', ReadyInv, WorkingInv, WorkedInv,
         \/ WorkerThread \/ ServerTick \/ StoryEvent \/ ClientFrame \/ StatsLoad
         \/ \E j \in Jobs, s \in Sides : JobEvent(j, s)
         \/ \E t \in Threads : RequestReset(t)
         \/ StartSession \/ EndStory \/ FindModules \/ UNCHANGED vars
  PROVE  ReadyInv' /\ WorkingInv' /\ WorkedInv'
  <1>1. UNCHANGED <<st, raw, ready, done, storyLock, functions, building>>
    BY DEF WorkerThread, ModuleLoadStarted, ModuleBootstraps, StatsLoaded, ServerTick,
           StoryEvent, ClientFrame, Frame, FrameUnloadSession, FrameLeaveLoadMenu, StatsLoad,
           JobEvent, RequestReset, StartSession, EndStory, FindModules, vars, threadVars, storyVars
  <1>2. Grown("Server") BY <1>1, Kept DEF Sides
  <1>3. /\ "story" # None /\ {"story", "client", "worker"} \subseteq Threads
        /\ "story" \notin Jobs /\ "client" \notin Jobs
    BY ConstantsAssumption DEF Threads
  <1>4. todo \in [Threads -> Seq(Steps)] BY DEF TypeOK, TodoTypes
  <1>5. CASE \/ WorkerThread \/ StatsLoad \/ \E j \in Jobs, s \in Sides : JobEvent(j, s)
             \/ \E t \in Threads : RequestReset(t)
             \/ EndStory \/ FindModules \/ UNCHANGED vars
    <2>1. /\ UNCHANGED <<clientState, session>>
          /\ todo'["story"] = todo["story"] /\ todo'["client"] = todo["client"]
      BY <1>3, <1>4, <1>5
      DEF WorkerThread, ModuleLoadStarted, ModuleBootstraps, StatsLoaded, StatsLoad,
          JobEvent, RequestReset, EndStory, FindModules, vars, threadVars, engineVars,
          Start, Continue
    <2>. QED BY <1>1, <1>2, <2>1, ReadyKept, WorkingKept, WorkedKept DEF At, Announced
  <1>6. CASE ServerTick \/ StoryEvent
    <2>1. /\ UNCHANGED <<clientState, session>> /\ todo'["client"] = todo["client"]
          /\ todo["story"] = <<>>
      BY <1>3, <1>4, <1>6 DEF ServerTick, StoryEvent, Start, engineVars
    <2>2. storyLock = None
      <3>1. ~Working BY <2>1, WorkingHead
      <3>. QED BY <3>1 DEF Shapes, StoryShape, TypeOK, StoryTypes
    <2>3. ~Announced BY <2>2, UnlockedNow DEF Shapes, Unlocked
    <2>4. WorkingInv' /\ ~Announced' BY <1>1, <2>2, UnlockedNext DEF Shapes, Unlocked
    <2>. QED BY <1>1, <1>2, <2>1, <2>3, <2>4, ReadyKept, WorkedKept DEF At
  <1>7. CASE ClientFrame
    <2>1. /\ session' = session /\ todo'["story"] = todo["story"] /\ todo["client"] = <<>>
      BY <1>3, <1>4, <1>7
      DEF ClientFrame, Frame, FrameUnloadSession, FrameLeaveLoadMenu, Start, engineVars
    <2>2. WorkingInv' /\ (Announced' <=> Announced)
      BY <1>1, <1>2, <2>1, WorkingKept DEF Announced
    <2>3. ~At("client", "Rearm") /\ ~At("client", "NoteSessionEnded") BY <2>1 DEF At
    <2>4. building["client"] = "no" BY <1>3, <2>1, Idle
    <2>5. CASE Frame
      <3>1. todo'["client"] = ClientTick /\ clientState' = clientState
        BY <1>3, <1>4, <2>5 DEF Frame, Start, engineVars
      <3>2. Head(ClientTick) = Do("CheckScripts") BY DEF ClientTick
      <3>3. ~At("client", "Rearm")' /\ ~At("client", "NoteSessionEnded")'
        BY <3>1, <3>2 DEF At, Do
      <3>. QED BY <1>1, <1>2, <2>1, <2>2, <2>3, <3>1, <3>3, ReadyKept, WorkedKept
    <2>6. CASE FrameUnloadSession
      <3>1. /\ todo'["client"] = <<Do("NoteSessionEnded")>> \o ClientTick
            /\ clientState' = "Unloaded"
        BY <1>3, <1>4, <2>6 DEF FrameUnloadSession, Start
      <3>2. /\ Head(<<Do("NoteSessionEnded")>> \o ClientTick) = Do("NoteSessionEnded")
            /\ <<Do("NoteSessionEnded")>> \o ClientTick # <<>>
        BY DEF ClientTick
      <3>3. ~At("client", "Rearm")' /\ At("client", "NoteSessionEnded")'
        BY <3>1, <3>2 DEF At, Do
      <3>4. ReadyInv' BY <1>1, <2>2, <2>4, <3>3 DEF ReadyInv
      <3>5. WorkedInv' BY <3>1 DEF WorkedInv
      <3>. QED BY <2>2, <3>4, <3>5
    <2>7. CASE FrameLeaveLoadMenu
      <3>1. /\ todo'["client"] = <<Do("LoadClientScripts")>> \o ClientTick
            /\ clientState = "Unloaded" /\ clientState' = "Menu"
        BY <1>3, <1>4, <2>7 DEF FrameLeaveLoadMenu, Start
      <3>2. Head(<<Do("LoadClientScripts")>> \o ClientTick) = Do("LoadClientScripts")
        BY DEF ClientTick
      <3>3. ~At("client", "Rearm")' /\ ~At("client", "NoteSessionEnded")'
        BY <3>1, <3>2 DEF At, Do
      <3>4. ReadyInv' BY <1>1, <2>2, <2>3, <2>4, <3>1, <3>3 DEF ReadyInv
      <3>5. WorkedInv' BY <3>1 DEF WorkedInv
      <3>. QED BY <2>2, <3>4, <3>5
    <2>. QED BY <1>7, <2>5, <2>6, <2>7 DEF ClientFrame
  <1>8. CASE StartSession
    <2>1. /\ todo' = todo /\ clientState # "Session" /\ ~story /\ todo["client"] = <<>>
          /\ clientState' = "Session"
      BY <1>8 DEF StartSession, threadVars
    <2>2. ~At("client", "Rearm") /\ ~At("client", "NoteSessionEnded") BY <2>1 DEF At
    <2>3. ~ready /\ todo["story"] = <<>> BY <2>1, <2>2 DEF ReadyInv, Shapes, StoryShape
    <2>4. storyLock = None
      <3>1. ~Working BY <2>3, WorkingHead
      <3>. QED BY <3>1 DEF Shapes, StoryShape, TypeOK, StoryTypes
    <2>5. WorkingInv' BY <1>1, <2>4, UnlockedNext DEF Shapes, Unlocked
    <2>6. building["client"] = "no" BY <1>3, <2>1, Idle
    <2>7. ReadyInv' BY <1>1, <2>1, <2>2, <2>3, <2>6 DEF ReadyInv, At
    <2>8. WorkedInv' BY <1>1, <2>3 DEF WorkedInv
    <2>. QED BY <2>5, <2>7, <2>8
  <1>. QED BY <1>5, <1>6, <1>7, <1>8

(* What crossed remembers, it does not forget.                              *)
LEMMA CrossedStays == [Next]_vars /\ crossed => crossed'
  <1>. SUFFICES ASSUME [Next]_vars, crossed PROVE crossed' OBVIOUS
  <1>1. ASSUME NEW t \in Threads, Step(t) PROVE crossed'
    BY <1>1 DEF Step, Peek, Enter, Leave, ResetBegin, ResetBuild, ResetEnd, ResetClientBegin,
         ResetClientBuild, ResetClientEnd, ClearReset, DeferClientScripts, LoadClientScripts
  <1>2. CASE StoryThread \/ ClientThread \/ WorkerThread
    BY <1>2 DEF StoryThread, CheckReset, CheckState, CheckEvents, LockStory, BindBegin, BindEnd,
         StoryReady, StoryDone, ClientThread, NoteSessionEnded, Rearm, CheckScripts,
         CheckMenuReset, WorkerThread, ModuleLoadStarted, ModuleBootstraps, StatsLoaded
  <1>3. CASE \/ ServerTick \/ StoryEvent \/ ClientFrame \/ StatsLoad
             \/ \E j \in Jobs, s \in Sides : JobEvent(j, s)
             \/ \E t \in Threads : RequestReset(t)
             \/ StartSession \/ EndStory \/ FindModules \/ UNCHANGED vars
    BY <1>3 DEF ServerTick, StoryEvent, ClientFrame, Frame, FrameUnloadSession,
         FrameLeaveLoadMenu, StatsLoad, JobEvent, RequestReset, StartSession, EndStory,
         FindModules, vars
  <1>. QED
    BY <1>1, <1>2, <1>3 DEF Next, StoryStep, ClientStep, WorkerStep, Threads

(* Every step keeps what is known of the story work.                        *)
LEMMA WorkStep ==
  ASSUME TypeOK, LockInv, Shapes, Shapes', WorkInv, [Next]_vars
  PROVE  WorkInv'
  <1>. SUFFICES ASSUME ~crossed' PROVE ReadyInv' /\ WorkingInv' /\ WorkedInv'
    BY DEF WorkInv
  <1>1. ReadyInv /\ WorkingInv /\ WorkedInv BY CrossedStays DEF WorkInv
  <1>2. ASSUME NEW t \in Threads, Step(t) PROVE ReadyInv' /\ WorkingInv' /\ WorkedInv'
    BY <1>1, <1>2, WorkCall, WorkReset, WorkQuietStep DEF Step
  <1>3. CASE StoryThread \/ ClientThread BY <1>1, <1>3, WorkStory, WorkClient
  <1>4. CASE \/ WorkerThread \/ ServerTick \/ StoryEvent \/ ClientFrame \/ StatsLoad
             \/ \E j \in Jobs, s \in Sides : JobEvent(j, s)
             \/ \E t \in Threads : RequestReset(t)
             \/ StartSession \/ EndStory \/ FindModules \/ UNCHANGED vars
    BY <1>1, <1>4, WorkEngine
  <1>. QED
    BY <1>2, <1>3, <1>4 DEF Next, StoryStep, ClientStep, WorkerStep, Threads

(* The invariant holds at the start.                                        *)
LEMMA HostInit == Init => HostInv
  <1>. SUFFICES ASSUME Init PROVE HostInv OBVIOUS
  <1>1. Shapes BY ShapesInit
  <1>2. /\ ~ready /\ ~done /\ storyLock = None /\ clientState = "Unloaded"
        /\ \A t \in Threads : todo[t] = <<>> /\ building[t] = "no"
    BY DEF Init
  <1>3. "story" # None /\ "client" \in Threads BY ConstantsAssumption DEF Threads
  <1>4. MenuInv BY <1>2 DEF MenuInv
  <1>5. WorkingInv BY <1>1, <1>2, UnlockedNow DEF Shapes, Unlocked
  <1>6. ~At("client", "Rearm") BY <1>2, <1>3 DEF At
  <1>7. ReadyInv /\ WorkedInv BY <1>2, <1>3, <1>6 DEF ReadyInv, WorkedInv
  <1>. QED BY <1>1, <1>4, <1>5, <1>7 DEF HostInv, WorkInv

(* A story announced as ready is worked in the server's live state -- its   *)
(* mods loaded, Osi bound, SessionLoaded seen in this session -- unless a   *)
(* rebuild of the client thread's met the story work; and the client's mods *)
(* are loaded at the menu or wait for the module list.                      *)
THEOREM SessionsWorked == Spec => []SidesAreWorked
  <1>1. HostInv => SidesAreWorked
    <2>. SUFFICES ASSUME HostInv PROVE SidesAreWorked OBVIOUS
    <2>1. {"story", "client"} \subseteq Threads BY DEF Threads
    <2>2. StoryReadyIsWorkedUnlessCrossed
      BY <2>1 DEF HostInv, WorkInv, WorkedInv, StoryReadyIsWorkedUnlessCrossed,
                  StoryReadyIsWorked, NoReset
    <2>3. ClientModsAtMenu
      BY <2>1 DEF HostInv, MenuInv, ToLoad, At, ClientModsAtMenu, NoReset
    <2>. QED BY <2>2, <2>3 DEF SidesAreWorked
  <1>2. TypeOK /\ LockInv /\ HostInv /\ [Next]_vars => HostInv'
    BY ShapesStep, MenuStep, WorkStep DEF HostInv
  <1>. QED
    BY <1>1, <1>2, HostInit, TypeInit, TypeStep, LockInit, LockStep, PTL DEF Spec
=============================================================================
