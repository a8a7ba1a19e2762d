-------------------------- MODULE ScriptHostProofs --------------------------
(***************************************************************************)
(* Proofs about ScriptHost, for every set of jobs, every set of addresses   *)
(* and every bound: the types; that a call runs in the live state and that *)
(* a null state has an owner (from LockInv, which says what each lock is   *)
(* held for); and that the locks implement ContextPin.                     *)
(***************************************************************************)
EXTENDS ScriptHost, TLAPS, SequenceTheorems

(* A choice from a set that is not empty is one of its members.             *)
LEMMA PickIn == ASSUME NEW S, S # {} PROVE Pick(S) \in S
  BY DEF Pick

(* The steps the handlers are made of.                                      *)
LEMMA StepTypes == /\ \A op \in Plain : Do(op) \in Steps
                   /\ \A op \in Calls, s \in Sides : Call(op, s) \in Steps
  BY DEF Do, Call, Steps

(* A handler that goes on is still a sequence of steps.                     *)
LEMMA ContinueType ==
  ASSUME TodoTypes, NEW t \in Threads, todo[t] # <<>>, NEW more \in Seq(Steps),
         Continue(t, more)
  PROVE  TodoTypes'
  <1>1. todo[t] \in Seq(Steps) BY DEF TodoTypes
  <1>2. Tail(todo[t]) \in Seq(Steps) BY <1>1, HeadTailProperties
  <1>3. more \o Tail(todo[t]) \in Seq(Steps) BY <1>2, ConcatProperties
  <1>. QED BY <1>3 DEF Continue, TodoTypes

(* So is one that starts.                                                   *)
LEMMA StartType ==
  ASSUME TodoTypes, NEW t \in Threads, NEW steps \in Seq(Steps), Start(t, steps)
  PROVE  TodoTypes'
  BY DEF Start, TodoTypes

(* The types hold at the start.                                             *)
LEMMA TypeInit == Init => TypeOK
  <1>. SUFFICES ASSUME Init PROVE TypeOK OBVIOUS
  <1>1. PICK p, q \in Names : p # q BY ConstantsAssumption
  <1>2. Pick(Names) \in Names BY <1>1, PickIn
  <1>3. Pick(Names \ {Pick(Names)}) \in Names BY <1>1, <1>2, PickIn
  <1>4. StateTypes
    BY <1>2, <1>3 DEF Init, StateTypes, Sides, State, Fresh, NoState, Addresses
  <1>5. ThreadTypes BY DEF Init, ThreadTypes, NoCtx, NotRead, Addresses, Phases
  <1>6. TodoTypes
    <2>1. <<>> \in Seq(Steps) OBVIOUS
    <2>. QED BY <2>1 DEF Init, TodoTypes
  <1>7. StoryTypes /\ FlagTypes BY DEF Init, StoryTypes, FlagTypes
  <1>8. EngineTypes BY ConstantsAssumption DEF Init, EngineTypes
  <1>. QED BY <1>4, <1>5, <1>6, <1>7, <1>8 DEF TypeOK

-----------------------------------------------------------------------------
(* The pieces handlers are put together from.                               *)
LEMMA Pieces ==
  /\ <<>> \in Seq(Steps)
  /\ \A x \in Steps : <<x>> \in Seq(Steps)
  /\ \A x, y \in Steps : <<x, y>> \in Seq(Steps)
  /\ \A x, y, z \in Steps : <<x, y, z>> \in Seq(Steps)
  /\ \A x, y, z, w \in Steps : <<x, y, z, w>> \in Seq(Steps)
  /\ \A q, r \in Seq(Steps) : q \o r \in Seq(Steps)
  OBVIOUS

(* Every handler the engine starts is a sequence of steps.                  *)
LEMMA Handlers ==
  /\ LoadMods \in Seq(Steps) /\ ClientTick \in Seq(Steps) /\ MenuReset \in Seq(Steps)
  /\ <<Do("BindBegin")>> \o LoadMods \o <<Do("StoryReady"), Do("StoryDone")>> \in Seq(Steps)
  /\ <<Do("NoteSessionEnded")>> \o ClientTick \in Seq(Steps)
  /\ <<Do("LoadClientScripts")>> \o ClientTick \in Seq(Steps)
  <1>1. /\ LoadMods \in Seq(Steps) /\ ClientTick \in Seq(Steps) /\ MenuReset \in Seq(Steps)
    BY StepTypes, Pieces DEF LoadMods, ClientTick, MenuReset, Plain, Calls, Sides
  <1>2. /\ <<Do("BindBegin")>> \in Seq(Steps)
        /\ <<Do("StoryReady"), Do("StoryDone")>> \in Seq(Steps)
        /\ <<Do("NoteSessionEnded")>> \in Seq(Steps)
        /\ <<Do("LoadClientScripts")>> \in Seq(Steps)
    BY StepTypes, Pieces DEF Plain
  <1>. QED BY <1>1, <1>2, Pieces

(* The state variables of a group that does not change keep their types.    *)
LEMMA KeptTypes ==
  /\ StateTypes /\ UNCHANGED <<st, raw>> => StateTypes'
  /\ ThreadTypes /\ UNCHANGED <<lock, ctx, peek, building>> => ThreadTypes'
  /\ TodoTypes /\ UNCHANGED todo => TodoTypes'
  /\ EngineTypes /\ UNCHANGED <<clientState, session, requests, statsLoads>> => EngineTypes'
  BY DEF StateTypes, ThreadTypes, TodoTypes, EngineTypes

(* The steps of the story thread.                                           *)
LEMMA TypeStory ==
  ASSUME TypeOK,
         CheckReset \/ CheckState \/ CheckEvents \/ LockStory \/ BindBegin \/ BindEnd
         \/ StoryReady \/ StoryDone
  PROVE  TypeOK'
  <1>1. TodoTypes'
    <2>1. CASE CheckReset
      BY <2>1, ContinueType, StepTypes, Pieces, Handlers DEF CheckReset, At, TypeOK,
           Threads, Plain, Calls, Sides
    <2>2. CASE CheckState
      BY <2>2, ContinueType, Pieces DEF CheckState, At, TypeOK, TodoTypes, Threads
    <2>3. CASE CheckEvents
      BY <2>3, ContinueType, StepTypes, Pieces, Handlers DEF CheckEvents, At, TypeOK,
           Threads, Plain, Calls, Sides
    <2>4. CASE LockStory
      BY <2>4, ContinueType, StepTypes, Pieces, Handlers DEF LockStory, At, TypeOK,
           Threads, Plain, Calls, Sides
    <2>5. CASE BindBegin
      BY <2>5, ContinueType, StepTypes, Pieces, Handlers DEF BindBegin, At, TypeOK,
           Threads, Plain, Calls, Sides
    <2>6. CASE BindEnd
      BY <2>6, ContinueType, StepTypes, Pieces, Handlers DEF BindEnd, At, TypeOK,
           Threads, Plain, Calls, Sides
    <2>7. CASE StoryReady
      BY <2>7, ContinueType, StepTypes, Pieces, Handlers DEF StoryReady, At, TypeOK,
           Threads, Plain, Calls, Sides
    <2>8. CASE StoryDone
      BY <2>8, ContinueType, StepTypes, Pieces, Handlers DEF StoryDone, At, TypeOK,
           Threads, Plain, Calls, Sides
    <2>. QED BY <2>1, <2>2, <2>3, <2>4, <2>5, <2>6, <2>7, <2>8
  <1>2. StateTypes'
    <2>1. CASE BindBegin
      BY <2>1 DEF BindBegin, TypeOK, StateTypes, State, Sides, vars, threadVars
    <2>2. CASE BindEnd
      BY <2>2 DEF BindEnd, TypeOK, StateTypes, State, Sides, Addresses
    <2>3. CASE ~(BindBegin \/ BindEnd)
      BY <2>3, KeptTypes DEF TypeOK, CheckReset, CheckState, CheckEvents, LockStory,
           StoryReady, StoryDone, vars, threadVars, storyVars, flagVars, engineVars
    <2>. QED BY <2>1, <2>2, <2>3
  <1>3. ThreadTypes' /\ EngineTypes'
    BY KeptTypes DEF TypeOK, CheckReset, CheckState, CheckEvents, LockStory, BindBegin,
         BindEnd, StoryReady, StoryDone, vars, threadVars, storyVars, flagVars,
         engineVars
  <1>4. StoryTypes' /\ FlagTypes'
    <2>1. CASE LockStory
      BY <2>1 DEF LockStory, TypeOK, StoryTypes, FlagTypes, flagVars, engineVars
    <2>2. CASE CheckEvents
      BY <2>2 DEF CheckEvents, TypeOK, StoryTypes, FlagTypes, storyVars, engineVars
    <2>3. CASE CheckReset
      BY <2>3 DEF CheckReset, TypeOK, StoryTypes, FlagTypes, vars, threadVars, storyVars, flagVars,
           engineVars
    <2>4. CASE CheckState
      BY <2>4 DEF CheckState, TypeOK, StoryTypes, FlagTypes, vars, threadVars, storyVars, flagVars,
           engineVars
    <2>5. CASE BindBegin
      BY <2>5 DEF BindBegin, TypeOK, StoryTypes, FlagTypes, vars, threadVars, storyVars, flagVars,
           engineVars
    <2>6. CASE BindEnd
      BY <2>6 DEF BindEnd, TypeOK, StoryTypes, FlagTypes, vars, threadVars, storyVars, flagVars,
           engineVars
    <2>7. CASE StoryReady
      BY <2>7 DEF StoryReady, TypeOK, StoryTypes, FlagTypes, vars, threadVars, storyVars, flagVars,
           engineVars
    <2>8. CASE StoryDone
      BY <2>8 DEF StoryDone, TypeOK, StoryTypes, FlagTypes, vars, threadVars, storyVars, flagVars,
           engineVars
    <2>. QED BY <2>1, <2>2, <2>3, <2>4, <2>5, <2>6, <2>7, <2>8
  <1>. QED BY <1>1, <1>2, <1>3, <1>4 DEF TypeOK

(* The steps of the client thread and of the stats worker.                  *)
LEMMA TypeClient ==
  ASSUME TypeOK,
         NoteSessionEnded \/ Rearm \/ CheckScripts \/ CheckMenuReset \/ ModuleLoadStarted
         \/ ModuleBootstraps \/ StatsLoaded
  PROVE  TypeOK'
  <1>1. TodoTypes'
    <2>1. CASE NoteSessionEnded
      BY <2>1, ContinueType, StepTypes, Pieces, Handlers DEF NoteSessionEnded, At,
           TypeOK, Threads, Plain, Calls, Sides
    <2>2. CASE Rearm
      BY <2>2, ContinueType, StepTypes, Pieces, Handlers DEF Rearm, At, TypeOK, Threads,
           Plain, Calls, Sides
    <2>3. CASE CheckScripts
      BY <2>3, ContinueType, StepTypes, Pieces, Handlers DEF CheckScripts, At, TypeOK,
           Threads, Plain, Calls, Sides
    <2>4. CASE CheckMenuReset
      BY <2>4, ContinueType, StepTypes, Pieces, Handlers DEF CheckMenuReset, At, TypeOK,
           Threads, Plain, Calls, Sides
    <2>5. CASE ModuleLoadStarted
      BY <2>5, ContinueType, StepTypes, Pieces, Handlers DEF ModuleLoadStarted, At,
           TypeOK, Threads, Plain, Calls, Sides
    <2>6. CASE ModuleBootstraps
      BY <2>6, ContinueType, StepTypes, Pieces, Handlers DEF ModuleBootstraps, At,
           TypeOK, Threads, Plain, Calls, Sides
    <2>7. CASE StatsLoaded
      BY <2>7, ContinueType, StepTypes, Pieces, Handlers DEF StatsLoaded, At, TypeOK,
           Threads, Plain, Calls, Sides
    <2>. QED BY <2>1, <2>2, <2>3, <2>4, <2>5, <2>6, <2>7
  <1>2. StateTypes' /\ ThreadTypes' /\ EngineTypes'
    BY KeptTypes DEF TypeOK, NoteSessionEnded, Rearm, CheckScripts, CheckMenuReset,
         ModuleLoadStarted, ModuleBootstraps, StatsLoaded, vars, threadVars, storyVars,
         flagVars, engineVars
  <1>3. StoryTypes' /\ FlagTypes'
    <2>1. CASE NoteSessionEnded
      BY <2>1 DEF NoteSessionEnded, ReadyAfterUnload, TypeOK, StoryTypes, FlagTypes, vars, threadVars,
           storyVars, flagVars, engineVars
    <2>2. CASE Rearm
      BY <2>2 DEF Rearm, ReadyAfterUnload, TypeOK, StoryTypes, FlagTypes, vars, threadVars,
           storyVars, flagVars, engineVars
    <2>3. CASE CheckScripts
      BY <2>3 DEF CheckScripts, ReadyAfterUnload, TypeOK, StoryTypes, FlagTypes, vars, threadVars,
           storyVars, flagVars, engineVars
    <2>4. CASE CheckMenuReset
      BY <2>4 DEF CheckMenuReset, ReadyAfterUnload, TypeOK, StoryTypes, FlagTypes, vars, threadVars,
           storyVars, flagVars, engineVars
    <2>5. CASE ModuleLoadStarted
      BY <2>5 DEF ModuleLoadStarted, ReadyAfterUnload, TypeOK, StoryTypes, FlagTypes, vars, threadVars,
           storyVars, flagVars, engineVars
    <2>6. CASE ModuleBootstraps
      BY <2>6 DEF ModuleBootstraps, ReadyAfterUnload, TypeOK, StoryTypes, FlagTypes, vars, threadVars,
           storyVars, flagVars, engineVars
    <2>7. CASE StatsLoaded
      BY <2>7 DEF StatsLoaded, ReadyAfterUnload, TypeOK, StoryTypes, FlagTypes, vars, threadVars,
           storyVars, flagVars, engineVars
    <2>. QED BY <2>1, <2>2, <2>3, <2>4, <2>5, <2>6, <2>7
  <1>. QED BY <1>1, <1>2, <1>3 DEF TypeOK

(* A handler starts.                                                        *)
LEMMA TypeStart ==
  ASSUME TypeOK,
         ServerTick \/ StoryEvent \/ Frame \/ FrameUnloadSession \/ FrameLeaveLoadMenu
         \/ StatsLoad
  PROVE  TypeOK'
  <1>1. TodoTypes'
    <2>1. CASE ServerTick
      BY <2>1, StartType, StepTypes, Pieces, Handlers DEF ServerTick, TypeOK, Threads,
           Plain, Calls, Sides
    <2>2. CASE StoryEvent
      BY <2>2, StartType, StepTypes, Pieces, Handlers DEF StoryEvent, TypeOK, Threads,
           Plain, Calls, Sides
    <2>3. CASE Frame
      BY <2>3, StartType, StepTypes, Pieces, Handlers DEF Frame, TypeOK, Threads, Plain,
           Calls, Sides
    <2>4. CASE FrameUnloadSession
      BY <2>4, StartType, StepTypes, Pieces, Handlers DEF FrameUnloadSession, TypeOK,
           Threads, Plain, Calls, Sides
    <2>5. CASE FrameLeaveLoadMenu
      BY <2>5, StartType, StepTypes, Pieces, Handlers DEF FrameLeaveLoadMenu, TypeOK,
           Threads, Plain, Calls, Sides
    <2>6. CASE StatsLoad
      BY <2>6, StartType, StepTypes, Pieces, Handlers DEF StatsLoad, TypeOK, Threads,
           Plain, Calls, Sides
    <2>. QED BY <2>1, <2>2, <2>3, <2>4, <2>5, <2>6
  <1>2. StateTypes' /\ ThreadTypes'
    BY KeptTypes DEF TypeOK, ServerTick, StoryEvent, Frame, FrameUnloadSession,
         FrameLeaveLoadMenu, StatsLoad, vars, threadVars, storyVars, flagVars, engineVars
  <1>3. StoryTypes' /\ FlagTypes'
    BY DEF TypeOK, ServerTick, StoryEvent, Frame, FrameUnloadSession, FrameLeaveLoadMenu,
         StatsLoad, StoryTypes, FlagTypes, vars, threadVars, storyVars, flagVars,
         engineVars
  <1>4. EngineTypes'
    BY ConstantsAssumption DEF TypeOK, ServerTick, StoryEvent, Frame, FrameUnloadSession,
         FrameLeaveLoadMenu, StatsLoad, EngineTypes, vars, threadVars, storyVars,
         flagVars, engineVars
  <1>. QED BY <1>1, <1>2, <1>3, <1>4 DEF TypeOK

(* A call names a context of the two and a function.                        *)
LEMMA CallSide ==
  ASSUME TodoTypes, NEW t \in Threads, InCall(t)
  PROVE  Side(t) \in Sides /\ Fn(t) \in Calls /\ todo[t] # <<>>
  <1>1. Head(todo[t]) \in Steps
    BY HeadTailProperties DEF TodoTypes, InCall
  <1>. QED BY <1>1 DEF InCall, Side, Fn, Steps, Calls, Plain

(* What a call, a build and the end of a rebuild make of a state.           *)
LEMMA AfterCallType ==
  ASSUME NEW state \in State, NEW fn, session \in Nat
  PROVE  AfterCall(fn, state) \in State /\ AfterCall(fn, state).id = state.id
  BY DEF AfterCall, State

(* A state that was just published has the type and the address it should.  *)
LEMMA FreshType == NoState \in State /\ \A i \in Addresses : Fresh(i) \in State /\ Fresh(i).id = i
  BY DEF NoState, Fresh, State, Addresses

(* So does one whose rebuild is over.                                       *)
LEMMA RebuiltType ==
  ASSUME NEW state \in State, session \in Nat, NEW load \in BOOLEAN, NEW server \in BOOLEAN,
         functions \in BOOLEAN
  PROVE  Rebuilt(state, server, load) \in State /\ Rebuilt(state, server, load).id = state.id
  BY DEF Rebuilt, State

(* The number of sessions started is a natural number.                      *)
LEMMA SessionNat == EngineTypes => session \in Nat
  BY ConstantsAssumption DEF EngineTypes

(* A call into a context: the test, the entry, the return; a request in it. *)
LEMMA TypeCall ==
  ASSUME TypeOK, NEW t \in Threads,
         Peek(t) \/ Enter(t) \/ Leave(t) \/ RequestReset(t)
  PROVE  TypeOK'
  <1>1. TodoTypes'
    <2>1. CASE Peek(t)
      BY <2>1, CallSide, ContinueType, Pieces DEF Peek, TypeOK, TodoTypes
    <2>2. CASE Leave(t)
      BY <2>2, CallSide, ContinueType, Pieces DEF Leave, TypeOK
    <2>3. CASE Enter(t) \/ RequestReset(t)
      BY <2>3, KeptTypes DEF Enter, RequestReset, TypeOK, threadVars
    <2>. QED BY <2>1, <2>2, <2>3
  <1>2. StateTypes'
    <2>1. CASE Leave(t)
      <3>1. Side(t) \in Sides BY <2>1, CallSide DEF Leave, TypeOK
      <3>2. AfterCall(Fn(t), st[Side(t)]) \in State
        BY <3>1, AfterCallType, SessionNat DEF TypeOK, StateTypes
      <3>. QED BY <2>1, <3>1, <3>2 DEF Leave, TypeOK, StateTypes
    <2>2. CASE Peek(t) \/ Enter(t) \/ RequestReset(t)
      BY <2>2, KeptTypes DEF Peek, Enter, RequestReset, TypeOK, threadVars
    <2>. QED BY <2>1, <2>2
  <1>3. ThreadTypes'
    <2>1. CASE Peek(t)
      <3>1. st[Side(t)].id \in Addresses
        BY <2>1, CallSide DEF Peek, TypeOK, StateTypes, State
      <3>2. [read |-> TRUE, id |-> st[Side(t)].id] \in [read : BOOLEAN, id : Addresses]
        BY <3>1
      <3>. QED BY <2>1, <3>2 DEF Peek, TypeOK, ThreadTypes
    <2>2. CASE Enter(t)
      <3>1. Side(t) \in Sides BY <2>2, CallSide DEF Enter, TypeOK
      <3>2. EnteredState(t) \in Addresses
        BY <3>1 DEF EnteredState, TypeOK, StateTypes, State
      <3>. QED BY <2>2, <3>1, <3>2 DEF Enter, TypeOK, ThreadTypes
    <2>3. CASE Leave(t)
      BY <2>3, CallSide DEF Leave, TypeOK, ThreadTypes, NoCtx, NotRead, Addresses
    <2>4. CASE RequestReset(t)
      BY <2>4, KeptTypes DEF RequestReset, TypeOK, threadVars
    <2>. QED BY <2>1, <2>2, <2>3, <2>4
  <1>4. StoryTypes' /\ FlagTypes'
    <2>1. CASE Peek(t)
      BY <2>1 DEF Peek, TypeOK, StoryTypes, FlagTypes, storyVars, flagVars, engineVars
    <2>2. CASE Enter(t)
      BY <2>2 DEF Enter, TypeOK, StoryTypes, FlagTypes, storyVars, flagVars, engineVars
    <2>3. CASE Leave(t)
      BY <2>3 DEF Leave, TypeOK, StoryTypes, FlagTypes, storyVars, flagVars, engineVars
    <2>4. CASE RequestReset(t)
      BY <2>4 DEF RequestReset, TypeOK, StoryTypes, FlagTypes, storyVars, flagVars, engineVars
    <2>. QED BY <2>1, <2>2, <2>3, <2>4
  <1>5. EngineTypes'
    BY ConstantsAssumption
    DEF TypeOK, Peek, Enter, Leave, RequestReset, EngineTypes, engineVars
  <1>. QED BY <1>1, <1>2, <1>3, <1>4, <1>5 DEF TypeOK

(* The resets, and the loading of the client's scripts.                     *)
LEMMA TypeReset ==
  ASSUME TypeOK, NEW t \in Threads,
         \/ ResetBegin(t) \/ ResetBuild(t) \/ ResetEnd(t)
         \/ ResetClientBegin(t) \/ ResetClientBuild(t) \/ ResetClientEnd(t)
         \/ ClearReset(t) \/ DeferClientScripts(t) \/ LoadClientScripts(t)
  PROVE  TypeOK'
  <1>1. TodoTypes'
    <2>1. CASE ResetEnd(t)
      BY <2>1, ContinueType, Pieces DEF ResetEnd, AtReset, At, TypeOK
    <2>2. CASE ResetClientEnd(t)
      BY <2>2, ContinueType, Pieces DEF ResetClientEnd, At, TypeOK
    <2>3. CASE ClearReset(t)
      BY <2>3, ContinueType, Pieces DEF ClearReset, At, TypeOK
    <2>4. CASE DeferClientScripts(t)
      BY <2>4, ContinueType, Pieces DEF DeferClientScripts, At, TypeOK
    <2>5. CASE LoadClientScripts(t)
      BY <2>5, ContinueType, Pieces, StepTypes
      DEF LoadClientScripts, At, TypeOK, Calls, Sides
    <2>6. CASE ResetBegin(t) \/ ResetBuild(t) \/ ResetClientBegin(t) \/ ResetClientBuild(t)
      BY <2>6, KeptTypes
      DEF ResetBegin, ResetBuild, ResetClientBegin, ResetClientBuild, TypeOK
    <2>. QED BY <2>1, <2>2, <2>3, <2>4, <2>5, <2>6
  <1>2. StateTypes'
    <2>1. CASE ResetBegin(t)
      BY <2>1, FreshType DEF ResetBegin, TypeOK, StateTypes
    <2>2. CASE ResetBuild(t)
      <3>1. Unused \subseteq Names BY DEF Unused
      <3>2. /\ Pick(Unused) \in Names
            /\ Pick(Unused \ {Pick(Unused)}) \in Names
        BY <2>2, <3>1, PickIn DEF ResetBuild
      <3>. QED BY <2>2, <3>2, FreshType DEF ResetBuild, TypeOK, StateTypes, Addresses
    <2>3. CASE ResetEnd(t)
      <3>1. \A s \in Sides, load \in BOOLEAN : Rebuilt(st[s], s = "Server", load) \in State
        BY RebuiltType, SessionNat DEF TypeOK, StateTypes, StoryTypes
      <3>2. At(t, "ResetLoad") \in BOOLEAN BY DEF At
      <3>. QED BY <2>3, <3>1, <3>2 DEF ResetEnd, TypeOK, StateTypes
    <2>4. CASE ResetClientBegin(t)
      BY <2>4, FreshType DEF ResetClientBegin, TypeOK, StateTypes, Sides
    <2>5. CASE ResetClientBuild(t)
      <3>1. Unused \subseteq Names BY DEF Unused
      <3>2. Pick(Unused) \in Names BY <2>5, <3>1, PickIn DEF ResetClientBuild
      <3>. QED
        BY <2>5, <3>2, FreshType DEF ResetClientBuild, TypeOK, StateTypes, Addresses, Sides
    <2>6. CASE ResetClientEnd(t) \/ ClearReset(t) \/ DeferClientScripts(t)
    \/ LoadClientScripts(t)
      BY <2>6, KeptTypes
      DEF ResetClientEnd, ClearReset, DeferClientScripts, LoadClientScripts, TypeOK
    <2>. QED BY <2>1, <2>2, <2>3, <2>4, <2>5, <2>6
  <1>3. ThreadTypes'
    <2>1. CASE ResetBegin(t)
      BY <2>1 DEF ResetBegin, BothHeld, TypeOK, ThreadTypes, Phases
    <2>2. CASE ResetBuild(t)
      BY <2>2 DEF ResetBuild, TypeOK, ThreadTypes, Phases
    <2>3. CASE ResetEnd(t)
      BY <2>3 DEF ResetEnd, TypeOK, ThreadTypes, Phases
    <2>4. CASE ResetClientBegin(t)
      BY <2>4 DEF ResetClientBegin, TypeOK, ThreadTypes, Phases, Sides
    <2>5. CASE ResetClientBuild(t)
      BY <2>5 DEF ResetClientBuild, TypeOK, ThreadTypes, Phases
    <2>6. CASE ResetClientEnd(t)
      BY <2>6 DEF ResetClientEnd, TypeOK, ThreadTypes, Phases, Sides
    <2>7. CASE ClearReset(t) \/ DeferClientScripts(t) \/ LoadClientScripts(t)
      BY <2>7, KeptTypes DEF ClearReset, DeferClientScripts, LoadClientScripts, TypeOK
    <2>. QED BY <2>1, <2>2, <2>3, <2>4, <2>5, <2>6, <2>7
  <1>4. StoryTypes'
    BY DEF TypeOK, ResetBegin, ResetBuild, ResetEnd, ResetClientBegin, ResetClientBuild,
           ResetClientEnd, ClearReset, DeferClientScripts, LoadClientScripts, StoryTypes,
           storyVars
  <1>5. FlagTypes'
    <2>1. CASE ResetBegin(t)
      BY <2>1 DEF ResetBegin, TypeOK, FlagTypes, flagVars, engineVars
    <2>2. CASE ResetEnd(t)
      BY <2>2 DEF ResetEnd, TypeOK, FlagTypes, flagVars, engineVars
    <2>3. CASE ~(ResetBegin(t) \/ ResetEnd(t))
      BY <2>3 DEF TypeOK, ResetBuild, ResetClientBegin, ResetClientBuild, ResetClientEnd,
           ClearReset, DeferClientScripts, LoadClientScripts, FlagTypes, flagVars, engineVars
    <2>. QED BY <2>1, <2>2, <2>3
  <1>6. EngineTypes'
    BY KeptTypes DEF TypeOK, ResetBegin, ResetBuild, ResetEnd, ResetClientBegin,
           ResetClientBuild, ResetClientEnd, ClearReset, DeferClientScripts,
           LoadClientScripts, engineVars
  <1>. QED BY <1>1, <1>2, <1>3, <1>4, <1>5, <1>6 DEF TypeOK

(* A job's event, and the engine.                                           *)
LEMMA TypeEngine ==
  ASSUME TypeOK,
         \/ \E j \in Jobs, s \in Sides : JobEvent(j, s)
         \/ StartSession \/ EndStory \/ FindModules
  PROVE  TypeOK'
  <1>1. TodoTypes'
    <2>1. CASE \E j \in Jobs, s \in Sides : JobEvent(j, s)
      BY <2>1, StartType, StepTypes, Pieces DEF JobEvent, TypeOK, Threads, Calls
    <2>2. CASE StartSession \/ EndStory \/ FindModules
      BY <2>2, KeptTypes DEF StartSession, EndStory, FindModules, TypeOK, threadVars
    <2>. QED BY <2>1, <2>2
  <1>2. StateTypes' /\ ThreadTypes'
    BY KeptTypes DEF JobEvent, StartSession, EndStory, FindModules, TypeOK, threadVars
  <1>3. StoryTypes' /\ FlagTypes'
    <2>1. CASE \E j \in Jobs, s \in Sides : JobEvent(j, s)
      BY <2>1 DEF JobEvent, TypeOK, StoryTypes, FlagTypes, storyVars, flagVars, engineVars
    <2>2. CASE StartSession
      BY <2>2 DEF StartSession, TypeOK, StoryTypes, FlagTypes, storyVars, flagVars, engineVars
    <2>3. CASE EndStory
      BY <2>3 DEF EndStory, TypeOK, StoryTypes, FlagTypes, storyVars, flagVars, engineVars
    <2>4. CASE FindModules
      BY <2>4 DEF FindModules, TypeOK, StoryTypes, FlagTypes, storyVars, flagVars, engineVars
    <2>. QED BY <2>1, <2>2, <2>3, <2>4
  <1>4. EngineTypes'
    <2>1. CASE StartSession
      BY <2>1, ConstantsAssumption DEF StartSession, TypeOK, EngineTypes
    <2>2. CASE \/ \E j \in Jobs, s \in Sides : JobEvent(j, s)
               \/ EndStory \/ FindModules
      BY <2>2, KeptTypes DEF JobEvent, EndStory, FindModules, TypeOK, engineVars
    <2>. QED BY <2>1, <2>2
  <1>. QED BY <1>1, <1>2, <1>3, <1>4 DEF TypeOK

(* Every step keeps the types.                                              *)
LEMMA TypeStep == TypeOK /\ [Next]_vars => TypeOK'
  <1>. SUFFICES ASSUME TypeOK, [Next]_vars PROVE TypeOK' OBVIOUS
  <1>1. ASSUME NEW t \in Threads, Step(t) PROVE TypeOK'
    BY <1>1, TypeCall, TypeReset DEF Step
  <1>2. CASE StoryStep BY <1>1, <1>2, TypeStory DEF StoryStep, StoryThread, Threads
  <1>3. CASE ClientStep BY <1>1, <1>3, TypeClient DEF ClientStep, ClientThread, Threads
  <1>4. CASE WorkerStep BY <1>1, <1>4, TypeClient DEF WorkerStep, WorkerThread, Threads
  <1>5. CASE \E j \in Jobs : Step(j) BY <1>1, <1>5 DEF Threads
  <1>6. CASE \E t \in Threads : RequestReset(t) BY <1>6, TypeCall
  <1>7. CASE ServerTick \/ StoryEvent \/ ClientFrame \/ StatsLoad
    BY <1>7, TypeStart DEF ClientFrame
  <1>8. CASE \/ \E j \in Jobs, s \in Sides : JobEvent(j, s)
             \/ StartSession \/ EndStory \/ FindModules
    BY <1>8, TypeEngine
  <1>9. CASE UNCHANGED vars
    BY <1>9, KeptTypes DEF TypeOK, StoryTypes, FlagTypes, vars, threadVars, storyVars,
                           flagVars, engineVars
  <1>. QED BY <1>2, <1>3, <1>4, <1>5, <1>6, <1>7, <1>8, <1>9 DEF Next

(* The types hold in every reachable state, for every value of the constants. *)
THEOREM TypeCorrect == Spec => []TypeOK
  <1>. QED BY TypeInit, TypeStep, PTL DEF Spec

-----------------------------------------------------------------------------
(* What a thread holds a lock for: a call it is inside, in the live state   *)
(* of that side; or a reset, of both states or of the client's.             *)
CtxInv == \A t \in Threads : ctx[t] # NoCtx =>
    /\ InCall(t) /\ ctx[t].side = Side(t) /\ lock[Side(t)] = t
    /\ ctx[t].id # Null /\ ctx[t].id = st[Side(t)].id

ResetInv == \A t \in Threads : building[t] # "no" =>
    \/ AtReset(t) /\ \A s \in Sides : lock[s] = t
    \/ At(t, "ResetClient") /\ lock["Client"] = t

HeldFor(t, s) == \/ ctx[t] # NoCtx /\ Side(t) = s
                 \/ building[t] # "no" /\ (AtReset(t) \/ s = "Client")
OwnInv == \A t \in Threads, s \in Sides : lock[s] = t => HeldFor(t, s)

LockInv == CtxInv /\ ResetInv /\ OwnInv /\ NullOnlyInReset

(* The lock invariant holds at the start: nobody is in a context or a reset. *)
LEMMA LockInit == Init => LockInv
  <1>. SUFFICES ASSUME Init PROVE LockInv OBVIOUS
  <1>1. PICK p, q \in Names : p # q BY ConstantsAssumption
  <1>2. /\ Pick(Names) \in Names
        /\ Pick(Names \ {Pick(Names)}) \in Names
    BY <1>1, PickIn
  <1>3. \A s \in Sides : st[s].id # Null
    BY <1>2, ConstantsAssumption DEF Init, Fresh, NoState
  <1>4. \A t \in Threads : ctx[t] = NoCtx /\ building[t] = "no" BY DEF Init
  <1>5. \A s \in Sides : lock[s] \notin Threads BY ConstantsAssumption DEF Init
  <1>. QED BY <1>3, <1>4, <1>5 DEF LockInv, CtxInv, ResetInv, OwnInv, NullOnlyInReset

(* A thread that is neither in a call nor in a reset holds nothing.          *)
LEMMA Idle ==
  ASSUME LockInv, NEW t \in Threads,
         \/ todo[t] = <<>>
         \/ \E op \in Plain \ {"Reset", "ResetLoad", "ResetClient"} : At(t, op)
  PROVE  ctx[t] = NoCtx /\ building[t] = "no"
  <1>1. ~InCall(t) /\ ~AtReset(t) /\ ~At(t, "ResetClient")
    <2>1. CASE todo[t] = <<>> BY <2>1 DEF InCall, AtReset, At
    <2>2. CASE todo[t] # <<>>
      <3>1. PICK op \in Plain \ {"Reset", "ResetLoad", "ResetClient"} :
              Head(todo[t]) = [op |-> op, side |-> None]
        BY <2>2 DEF At, Do
      <3>2. Head(todo[t]).op = op BY <3>1
      <3>3. op \notin Calls BY DEF Calls, Plain
      <3>. QED BY <3>2, <3>3 DEF InCall, AtReset, At, Do
    <2>. QED BY <2>1, <2>2
  <1>. QED BY <1>1 DEF LockInv, CtxInv, ResetInv

(* A reset is not a call.                                                   *)
LEMMA ResetNoCall ==
  ASSUME LockInv, NEW t \in Threads, AtReset(t) \/ At(t, "ResetClient")
  PROVE  ctx[t] = NoCtx /\ ~(AtReset(t) /\ At(t, "ResetClient"))
  <1>1. ~InCall(t) BY DEF InCall, AtReset, At, Do, Calls
  <1>. QED BY <1>1 DEF LockInv, CtxInv, AtReset, At, Do

(* A call is not a reset.                                                   *)
LEMMA CallNoReset ==
  ASSUME LockInv, NEW t \in Threads, InCall(t)
  PROVE  building[t] = "no" /\ ~AtReset(t) /\ ~At(t, "ResetClient")
  <1>1. ~AtReset(t) /\ ~At(t, "ResetClient") BY DEF InCall, AtReset, At, Do, Calls
  <1>. QED BY <1>1 DEF LockInv, ResetInv

(* A step that leaves locks, contexts, resets and pointers alone, and only  *)
(* the handlers of idle threads go on, keeps the invariant.                 *)
LEMMA Quiet ==
  ASSUME LockInv, UNCHANGED <<lock, ctx, building>>,
         \A s \in Sides : st'[s].id = st[s].id,
         \A t \in Threads : todo'[t] = todo[t] \/ (ctx[t] = NoCtx /\ building[t] = "no"),
         TypeOK
  PROVE  LockInv'
  <1>1. CtxInv'
    <2>. SUFFICES ASSUME NEW t \in Threads, ctx[t] # NoCtx
         PROVE /\ InCall(t)' /\ ctx[t].side = Side(t)' /\ lock[Side(t)'] = t
               /\ ctx[t].id # Null /\ ctx[t].id = st'[Side(t)'].id
      BY DEF CtxInv, InCall, Side
    <2>1. todo'[t] = todo[t] OBVIOUS
    <2>2. InCall(t)' /\ Side(t)' = Side(t) BY <2>1 DEF InCall, Side, LockInv, CtxInv
    <2>3. Side(t) \in Sides BY CallSide DEF TypeOK, LockInv, CtxInv
    <2>. QED BY <2>2, <2>3 DEF LockInv, CtxInv
  <1>2. ResetInv' BY DEF LockInv, ResetInv, AtReset, At
  <1>3. OwnInv' BY DEF LockInv, OwnInv, HeldFor, AtReset, At, Side
  <1>4. NullOnlyInReset' BY DEF LockInv, NullOnlyInReset
  <1>. QED BY <1>1, <1>2, <1>3, <1>4 DEF LockInv

(* The server's tick, the story work, the client's frame, the stats worker, *)
(* the jobs and the engine are quiet: a handler goes on or starts.          *)
LEMMA QuietThreads ==
  ASSUME TypeOK, LockInv,
         \/ StoryThread \/ ClientThread \/ WorkerThread
         \/ ServerTick \/ StoryEvent \/ ClientFrame \/ StatsLoad
         \/ StartSession \/ EndStory \/ FindModules
         \/ \E j \in Jobs, s \in Sides : JobEvent(j, s)
  PROVE  LockInv'
  <1>1. CASE StoryThread
    <2>1. \E op \in Plain \ {"Reset", "ResetLoad", "ResetClient"} : At("story", op)
      BY <1>1 DEF StoryThread, CheckReset, CheckState, CheckEvents, LockStory, BindBegin,
                  BindEnd, StoryReady, StoryDone, Plain
    <2>2. ctx["story"] = NoCtx /\ building["story"] = "no" BY <2>1, Idle DEF Threads
    <2>3. /\ UNCHANGED <<lock, ctx, building>>
          /\ \A t \in Threads \ {"story"} : todo'[t] = todo[t]
      BY <1>1 DEF StoryThread, CheckReset, CheckState, CheckEvents, LockStory, BindBegin,
                  BindEnd, StoryReady, StoryDone, Continue, TypeOK, TodoTypes
    <2>4. \A s \in Sides : st'[s].id = st[s].id
      <3>1. CASE BindEnd BY <3>1 DEF BindEnd, TypeOK, StateTypes, State, Sides
      <3>2. CASE ~BindEnd
        BY <1>1, <3>2 DEF StoryThread, CheckReset, CheckState, CheckEvents, LockStory,
                          BindBegin, StoryReady, StoryDone
      <3>. QED BY <3>1, <3>2
    <2>. QED BY <2>2, <2>3, <2>4, Quiet
  <1>2. CASE ClientThread
    <2>1. \E op \in Plain \ {"Reset", "ResetLoad", "ResetClient"} : At("client", op)
      BY <1>2 DEF ClientThread, NoteSessionEnded, Rearm, CheckScripts, CheckMenuReset, Plain
    <2>2. ctx["client"] = NoCtx /\ building["client"] = "no" BY <2>1, Idle DEF Threads
    <2>3. /\ UNCHANGED <<st, lock, ctx, building>>
          /\ \A t \in Threads \ {"client"} : todo'[t] = todo[t]
      BY <1>2 DEF ClientThread, NoteSessionEnded, Rearm, CheckScripts, CheckMenuReset,
                  Continue, TypeOK, TodoTypes
    <2>. QED BY <2>2, <2>3, Quiet
  <1>3. CASE WorkerThread
    <2>1. \E op \in Plain \ {"Reset", "ResetLoad", "ResetClient"} : At("worker", op)
      BY <1>3 DEF WorkerThread, ModuleLoadStarted, ModuleBootstraps, StatsLoaded, Plain
    <2>2. ctx["worker"] = NoCtx /\ building["worker"] = "no" BY <2>1, Idle DEF Threads
    <2>3. /\ UNCHANGED <<st, lock, ctx, building>>
          /\ \A t \in Threads \ {"worker"} : todo'[t] = todo[t]
      BY <1>3 DEF WorkerThread, ModuleLoadStarted, ModuleBootstraps, StatsLoaded,
                  Continue, TypeOK, TodoTypes
    <2>. QED BY <2>2, <2>3, Quiet
  <1>4. CASE \/ ServerTick \/ StoryEvent \/ ClientFrame \/ StatsLoad
             \/ StartSession \/ EndStory \/ FindModules
             \/ \E j \in Jobs, s \in Sides : JobEvent(j, s)
    <2>1. UNCHANGED <<st, lock, ctx, building>>
      BY <1>4 DEF ServerTick, StoryEvent, ClientFrame, Frame, FrameUnloadSession,
                  FrameLeaveLoadMenu, StatsLoad, StartSession, EndStory, FindModules,
                  JobEvent, threadVars
    <2>2. \A t \in Threads : todo'[t] = todo[t] \/ todo[t] = <<>>
      BY <1>4 DEF ServerTick, StoryEvent, ClientFrame, Frame, FrameUnloadSession,
                  FrameLeaveLoadMenu, StatsLoad, StartSession, EndStory, FindModules,
                  JobEvent, threadVars, Start, TypeOK, TodoTypes
    <2>. QED BY <2>1, <2>2, Idle, Quiet
  <1>. QED BY <1>1, <1>2, <1>3, <1>4

(* The rest of the quiet steps.                                             *)
LEMMA QuietSteps ==
  ASSUME TypeOK, LockInv, NEW t \in Threads,
         \/ Peek(t) \/ RequestReset(t) \/ ClearReset(t)
         \/ DeferClientScripts(t) \/ LoadClientScripts(t)
  PROVE  LockInv'
  <1>1. UNCHANGED <<st, lock, ctx, building>>
    BY DEF Peek, RequestReset, ClearReset, DeferClientScripts, LoadClientScripts, threadVars
  <1>2. \A u \in Threads \ {t} : todo'[u] = todo[u]
    BY DEF Peek, RequestReset, ClearReset, DeferClientScripts, LoadClientScripts,
           Continue, threadVars, TypeOK, TodoTypes
  <1>3. todo'[t] = todo[t] \/ (ctx[t] = NoCtx /\ building[t] = "no")
    <2>1. CASE Peek(t) BY <2>1, CallNoReset DEF Peek
    <2>2. CASE RequestReset(t) BY <2>2 DEF RequestReset, threadVars
    <2>3. CASE ClearReset(t) \/ DeferClientScripts(t) \/ LoadClientScripts(t)
      BY <2>3, Idle DEF ClearReset, DeferClientScripts, LoadClientScripts, Plain
    <2>. QED BY <2>1, <2>2, <2>3
  <1>. QED BY <1>1, <1>2, <1>3, Quiet

(* A call enters only a free lock, and a state whose lock is free is there. *)
LEMMA EnterKeeps ==
  ASSUME TypeOK, LockInv, NEW t \in Threads, Enter(t) PROVE LockInv'
  <1>1. Side(t) \in Sides /\ InCall(t) BY CallSide DEF Enter, TypeOK
  <1>2. building[t] = "no" /\ ~AtReset(t) BY <1>1, CallNoReset
  <1>3. UNCHANGED <<st, todo, building>> BY DEF Enter
  <1>4. /\ lock[Side(t)] = None
        /\ \A s \in Sides : lock'[s] = IF s = Side(t) THEN t ELSE lock[s]
    BY <1>1 DEF Enter, TypeOK, ThreadTypes
  <1>5. /\ ctx'[t] = [side |-> Side(t), id |-> st[Side(t)].id]
        /\ \A u \in Threads \ {t} : ctx'[u] = ctx[u]
    BY DEF Enter, EnteredState, TypeOK, ThreadTypes
  <1>6. \A u \in Threads : None # u BY ConstantsAssumption
  <1>7. st[Side(t)].id # Null
    BY <1>1, <1>4, <1>6 DEF LockInv, NullOnlyInReset
  <1>8. CtxInv'
    <2>. SUFFICES ASSUME NEW u \in Threads, ctx'[u] # NoCtx
         PROVE /\ InCall(u) /\ ctx'[u].side = Side(u) /\ lock'[Side(u)] = u
               /\ ctx'[u].id # Null /\ ctx'[u].id = st[Side(u)].id
      BY <1>3 DEF CtxInv, InCall, Side
    <2>1. CASE u = t BY <2>1, <1>1, <1>4, <1>5, <1>7
    <2>2. CASE u # t
      <3>1. Side(u) \in Sides BY <2>2, <1>5, CallSide DEF TypeOK, LockInv, CtxInv
      <3>. QED BY <2>2, <3>1, <1>4, <1>5, <1>6 DEF LockInv, CtxInv
    <2>. QED BY <2>1, <2>2
  <1>9. ResetInv'
    BY <1>1, <1>2, <1>3, <1>4, <1>6 DEF LockInv, ResetInv, AtReset, At, Sides
  <1>10. OwnInv'
    <2>1. ctx'[t] # NoCtx BY <1>5, <1>7 DEF NoCtx
    <2>. SUFFICES ASSUME NEW u \in Threads, NEW s \in Sides, lock'[s] = u
         PROVE  \/ ctx'[u] # NoCtx /\ Side(u) = s
                \/ building[u] # "no" /\ (AtReset(u) \/ s = "Client")
      BY <1>3 DEF OwnInv, HeldFor, AtReset, At, Side
    <2>. QED BY <2>1, <1>4, <1>5 DEF LockInv, OwnInv, HeldFor
  <1>11. NullOnlyInReset'
    BY <1>3, <1>4, <1>6 DEF LockInv, NullOnlyInReset
  <1>. QED BY <1>8, <1>9, <1>10, <1>11 DEF LockInv

(* A call that returns gives its lock back and leaves the state where it was. *)
LEMMA LeaveKeeps ==
  ASSUME TypeOK, LockInv, NEW t \in Threads, Leave(t) PROVE LockInv'
  <1>1. Side(t) \in Sides /\ InCall(t) BY CallSide DEF Leave, TypeOK
  <1>2. building[t] = "no" BY <1>1, CallNoReset
  <1>3. /\ lock[Side(t)] = t /\ st[Side(t)].id # Null
    BY DEF Leave, LockInv, CtxInv
  <1>4. UNCHANGED building BY DEF Leave
  <1>5. \A s \in Sides : lock'[s] = IF s = Side(t) THEN None ELSE lock[s]
    BY DEF Leave, TypeOK, ThreadTypes
  <1>6. ctx'[t] = NoCtx /\ \A u \in Threads \ {t} : ctx'[u] = ctx[u]
    BY DEF Leave, TypeOK, ThreadTypes
  <1>7. \A s \in Sides : st'[s].id = st[s].id
    <2>1. \A s \in Sides : AfterCall(Fn(t), st[s]).id = st[s].id
      BY AfterCallType, SessionNat DEF TypeOK, StateTypes
    <2>. QED BY <1>1, <2>1 DEF Leave, TypeOK, StateTypes
  <1>8. \A u \in Threads \ {t} : todo'[u] = todo[u]
    BY DEF Leave, Continue, TypeOK, TodoTypes
  <1>9. \A u \in Threads : None # u BY ConstantsAssumption
  <1>10. CtxInv'
    <2>. SUFFICES ASSUME NEW u \in Threads \ {t}, ctx[u] # NoCtx
         PROVE /\ InCall(u)' /\ ctx[u].side = Side(u)' /\ lock'[Side(u)'] = u
               /\ ctx[u].id # Null /\ ctx[u].id = st'[Side(u)'].id
      BY <1>6 DEF CtxInv
    <2>1. InCall(u)' /\ Side(u)' = Side(u) BY <1>8 DEF InCall, Side, LockInv, CtxInv
    <2>2. Side(u) \in Sides BY CallSide DEF TypeOK, LockInv, CtxInv
    <2>. QED BY <2>1, <2>2, <1>3, <1>5, <1>7 DEF LockInv, CtxInv
  <1>11. ResetInv'
    <2>. SUFFICES ASSUME NEW u \in Threads, building[u] # "no"
         PROVE  \/ AtReset(u)' /\ \A s \in Sides : lock'[s] = u
                \/ At(u, "ResetClient")' /\ lock'["Client"] = u
      BY <1>4 DEF ResetInv
    <2>1. u # t /\ todo'[u] = todo[u] BY <1>2, <1>8
    <2>2. CASE AtReset(u) /\ \A s \in Sides : lock[s] = u
      BY <2>1, <2>2, <1>1, <1>3
    <2>3. CASE At(u, "ResetClient") /\ lock["Client"] = u
      BY <2>1, <2>3, <1>1, <1>3, <1>5 DEF At, Sides
    <2>. QED BY <2>2, <2>3 DEF LockInv, ResetInv
  <1>12. OwnInv'
    <2>. SUFFICES ASSUME NEW u \in Threads, NEW s \in Sides, lock'[s] = u
         PROVE  HeldFor(u, s)'
      BY DEF OwnInv
    <2>1. s # Side(t) /\ lock[s] = u BY <1>5, <1>9
    <2>2. u # t BY <2>1, <1>2 DEF LockInv, OwnInv, HeldFor
    <2>. QED BY <2>1, <2>2, <1>4, <1>6, <1>8 DEF LockInv, OwnInv, HeldFor, AtReset, At, Side
  <1>13. NullOnlyInReset'
    BY <1>3, <1>4, <1>5, <1>7 DEF LockInv, NullOnlyInReset
  <1>. QED BY <1>10, <1>11, <1>12, <1>13 DEF LockInv

(* lua_reset takes both locks free: no call is inside either state.          *)
LEMMA ResetBeginKeeps ==
  ASSUME TypeOK, LockInv, NEW t \in Threads, ResetBegin(t) PROVE LockInv'
  <1>1. \A u \in Threads : None # u BY ConstantsAssumption
  <1>2. \A u \in Threads : ctx[u] = NoCtx
    BY <1>1, CallSide DEF ResetBegin, LockInv, CtxInv, TypeOK
  <1>3. \A u \in Threads \ {t} : building[u] = "no"
    BY <1>1 DEF ResetBegin, LockInv, ResetInv, Sides
  <1>4. /\ AtReset(t) /\ UNCHANGED <<ctx, todo>>
        /\ \A s \in Sides : lock'[s] = t
        /\ \A u \in Threads : building'[u] = IF u = t THEN "closed" ELSE building[u]
    BY DEF ResetBegin, BothHeld, TypeOK, ThreadTypes
  <1>5. CtxInv' BY <1>2, <1>4 DEF CtxInv
  <1>6. ResetInv' BY <1>3, <1>4 DEF ResetInv, AtReset, At
  <1>7. OwnInv' BY <1>4 DEF OwnInv, HeldFor, AtReset, At
  <1>8. NullOnlyInReset' BY <1>4 DEF NullOnlyInReset
  <1>. QED BY <1>5, <1>6, <1>7, <1>8 DEF LockInv

(* Nobody else is in a call or a reset while a thread has both locks.        *)
LEMMA ResetAlone ==
  ASSUME TypeOK, LockInv, NEW t \in Threads, AtReset(t), building[t] # "no"
  PROVE  /\ \A s \in Sides : lock[s] = t
         /\ \A u \in Threads : ctx[u] = NoCtx
         /\ \A u \in Threads \ {t} : building[u] = "no"
  <1>1. ctx[t] = NoCtx /\ ~At(t, "ResetClient") BY ResetNoCall
  <1>2. \A s \in Sides : lock[s] = t BY <1>1 DEF LockInv, ResetInv
  <1>3. \A u \in Threads \ {t} : ctx[u] = NoCtx
    BY <1>2, CallSide DEF LockInv, CtxInv, TypeOK
  <1>4. \A u \in Threads \ {t} : building[u] = "no"
    BY <1>2 DEF LockInv, ResetInv, Sides
  <1>. QED BY <1>1, <1>2, <1>3, <1>4

(* lua_reset publishes two new states while it has both locks.              *)
LEMMA ResetBuildKeeps ==
  ASSUME TypeOK, LockInv, NEW t \in Threads, ResetBuild(t) PROVE LockInv'
  <1>1. AtReset(t) /\ building[t] = "closed" BY DEF ResetBuild
  <1>2. /\ UNCHANGED <<lock, ctx, todo>>
        /\ \A u \in Threads : building'[u] = IF u = t THEN "built" ELSE building[u]
    BY DEF ResetBuild, TypeOK, ThreadTypes
  <1>3. \A s \in Sides : st'[s].id # Null
    <2>1. Unused \subseteq Names BY DEF Unused
    <2>2. /\ Pick(Unused) \in Names /\ Pick(Unused \ {Pick(Unused)}) \in Names
      BY <2>1, PickIn DEF ResetBuild
    <2>. QED BY <2>2, FreshType, ConstantsAssumption DEF ResetBuild, Addresses
  <1>4. CtxInv' BY <1>1, <1>2, ResetAlone DEF CtxInv
  <1>5. ResetInv' BY <1>1, <1>2, ResetAlone DEF ResetInv, AtReset, At
  <1>6. OwnInv' BY <1>1, <1>2, ResetAlone DEF OwnInv, HeldFor, AtReset, At
  <1>7. NullOnlyInReset' BY <1>3 DEF NullOnlyInReset
  <1>. QED BY <1>4, <1>5, <1>6, <1>7 DEF LockInv

(* lua_reset lets go of both locks with both states there.                  *)
LEMMA ResetEndKeeps ==
  ASSUME TypeOK, LockInv, NEW t \in Threads, ResetEnd(t) PROVE LockInv'
  <1>1. AtReset(t) /\ building[t] = "built" BY DEF ResetEnd
  <1>2. /\ UNCHANGED ctx /\ \A s \in Sides : lock'[s] = None
        /\ \A u \in Threads : building'[u] = IF u = t THEN "no" ELSE building[u]
    BY DEF ResetEnd, TypeOK, ThreadTypes
  <1>3. \A s \in Sides : st'[s].id = st[s].id
    <2>1. At(t, "ResetLoad") \in BOOLEAN BY DEF At
    <2>2. \A s \in Sides : Rebuilt(st[s], s = "Server", At(t, "ResetLoad")).id = st[s].id
      BY <2>1, RebuiltType, SessionNat DEF TypeOK, StateTypes, StoryTypes
    <2>. QED BY <2>2 DEF ResetEnd
  <1>4. \A u \in Threads : None # u BY ConstantsAssumption
  <1>5. \A s \in Sides : st[s].id # Null
    BY <1>1, ResetAlone DEF LockInv, NullOnlyInReset
  <1>6. CtxInv' BY <1>1, <1>2, ResetAlone DEF CtxInv
  <1>7. ResetInv' BY <1>1, <1>2, ResetAlone DEF ResetInv
  <1>8. OwnInv' BY <1>2, <1>4 DEF OwnInv
  <1>9. NullOnlyInReset' BY <1>3, <1>5 DEF NullOnlyInReset
  <1>. QED BY <1>6, <1>7, <1>8, <1>9 DEF LockInv

(* lua_reset_client takes the client's lock alone: calls into the server's  *)
(* state go on.                                                             *)
LEMMA ResetClientBeginKeeps ==
  ASSUME TypeOK, LockInv, NEW t \in Threads, ResetClientBegin(t) PROVE LockInv'
  <1>1. /\ At(t, "ResetClient") /\ building[t] = "no" /\ lock["Client"] = None
        /\ UNCHANGED <<ctx, todo>>
        /\ lock'["Client"] = t /\ lock'["Server"] = lock["Server"]
        /\ \A u \in Threads : building'[u] = IF u = t THEN "closed" ELSE building[u]
        /\ st'["Server"] = st["Server"]
    BY DEF ResetClientBegin, TypeOK, ThreadTypes, StateTypes, Sides
  <1>2. \A u \in Threads : None # u BY ConstantsAssumption
  <1>3. ctx[t] = NoCtx /\ ~AtReset(t) BY <1>1, ResetNoCall
  <1>4. CtxInv'
    <2>. SUFFICES ASSUME NEW u \in Threads, ctx[u] # NoCtx
         PROVE /\ InCall(u) /\ ctx[u].side = Side(u) /\ lock'[Side(u)] = u
               /\ ctx[u].id # Null /\ ctx[u].id = st'[Side(u)].id
      BY <1>1 DEF CtxInv, InCall, Side
    <2>1. Side(u) \in Sides /\ lock[Side(u)] = u
      BY CallSide DEF TypeOK, LockInv, CtxInv
    <2>2. Side(u) = "Server" BY <2>1, <1>1, <1>2 DEF Sides
    <2>. QED BY <2>1, <2>2, <1>1 DEF LockInv, CtxInv
  <1>5. ResetInv'
    <2>. SUFFICES ASSUME NEW u \in Threads, building'[u] # "no"
         PROVE  \/ AtReset(u) /\ \A s \in Sides : lock'[s] = u
                \/ At(u, "ResetClient") /\ lock'["Client"] = u
      BY <1>1 DEF ResetInv, AtReset, At
    <2>1. u = t BY <1>1, <1>2 DEF LockInv, ResetInv, Sides
    <2>. QED BY <2>1, <1>1
  <1>6. OwnInv'
    <2>. SUFFICES ASSUME NEW u \in Threads, NEW s \in Sides, lock'[s] = u
         PROVE  HeldFor(u, s)'
      BY DEF OwnInv
    <2>1. CASE s = "Client" BY <2>1, <1>1 DEF HeldFor, At
    <2>2. CASE s = "Server"
      <3>1. HeldFor(u, s) BY <2>2, <1>1 DEF LockInv, OwnInv, Sides
      <3>. QED BY <3>1, <2>2, <1>1, <1>3 DEF HeldFor, Side, AtReset, At
    <2>. QED BY <2>1, <2>2 DEF Sides
  <1>7. NullOnlyInReset'
    <2>1. CASE st["Server"].id = Null
      <3>1. PICK u \in Threads : lock["Server"] = u /\ building[u] = "closed"
        BY <2>1 DEF LockInv, NullOnlyInReset, Sides
      <3>2. AtReset(u) \/ lock["Client"] = u BY <3>1 DEF LockInv, ResetInv
      <3>3. lock["Client"] = u BY <3>1, <3>2, ResetNoCall DEF LockInv, ResetInv, Sides
      <3>. QED BY <3>3, <1>1, <1>2
    <2>2. CASE st["Server"].id # Null BY <2>2, <1>1 DEF NullOnlyInReset, Sides
    <2>. QED BY <2>1, <2>2
  <1>. QED BY <1>4, <1>5, <1>6, <1>7 DEF LockInv

(* While a thread resets the client's state, who else can be in a context.  *)
LEMMA ResetClientAlone ==
  ASSUME TypeOK, LockInv, NEW t \in Threads, At(t, "ResetClient"), building[t] # "no"
  PROVE  /\ lock["Client"] = t /\ lock["Server"] # t /\ ctx[t] = NoCtx
         /\ \A u \in Threads \ {t} : building[u] = "no"
         /\ \A u \in Threads : ctx[u] # NoCtx => Side(u) = "Server"
         /\ st["Server"].id # Null
  <1>1. ctx[t] = NoCtx /\ ~AtReset(t) BY ResetNoCall
  <1>2. lock["Client"] = t BY <1>1 DEF LockInv, ResetInv
  <1>3. lock["Server"] # t BY <1>1 DEF LockInv, OwnInv, HeldFor, Sides
  <1>4. \A u \in Threads \ {t} : building[u] = "no"
    BY <1>2 DEF LockInv, ResetInv, Sides
  <1>5. \A u \in Threads : ctx[u] # NoCtx => Side(u) = "Server"
    BY <1>1, <1>2, CallSide DEF LockInv, CtxInv, TypeOK, Sides
  <1>6. st["Server"].id # Null
    BY <1>3, <1>4 DEF LockInv, NullOnlyInReset, Sides
  <1>. QED BY <1>1, <1>2, <1>3, <1>4, <1>5, <1>6

(* lua_reset_client publishes a new state while it has the client's lock.   *)
LEMMA ResetClientBuildKeeps ==
  ASSUME TypeOK, LockInv, NEW t \in Threads, ResetClientBuild(t) PROVE LockInv'
  <1>1. /\ At(t, "ResetClient") /\ building[t] # "no"
        /\ UNCHANGED <<lock, ctx, todo>>
        /\ \A u \in Threads : building'[u] = IF u = t THEN "built" ELSE building[u]
        /\ st'["Server"] = st["Server"]
    BY DEF ResetClientBuild, TypeOK, ThreadTypes, StateTypes, Sides
  <1>2. st'["Client"].id # Null
    <2>1. Pick(Unused) \in Names BY PickIn DEF ResetClientBuild, Unused
    <2>. QED
      BY <2>1, FreshType, ConstantsAssumption
      DEF ResetClientBuild, Addresses, TypeOK, StateTypes, Sides
  <1>3. CtxInv' BY <1>1, ResetClientAlone DEF LockInv, CtxInv, InCall, Side
  <1>4. ResetInv' BY <1>1, ResetClientAlone DEF ResetInv, At
  <1>5. OwnInv' BY <1>1 DEF LockInv, OwnInv, HeldFor, AtReset, At, Side
  <1>6. NullOnlyInReset' BY <1>1, <1>2, ResetClientAlone DEF NullOnlyInReset, Sides
  <1>. QED BY <1>3, <1>4, <1>5, <1>6 DEF LockInv

(* lua_reset_client lets go of the lock with the state there.               *)
LEMMA ResetClientEndKeeps ==
  ASSUME TypeOK, LockInv, NEW t \in Threads, ResetClientEnd(t) PROVE LockInv'
  <1>1. /\ At(t, "ResetClient") /\ building[t] = "built" /\ UNCHANGED <<st, ctx>>
        /\ lock'["Client"] = None /\ lock'["Server"] = lock["Server"]
        /\ \A u \in Threads : building'[u] = IF u = t THEN "no" ELSE building[u]
        /\ \A u \in Threads \ {t} : todo'[u] = todo[u]
    BY DEF ResetClientEnd, Continue, TypeOK, ThreadTypes, TodoTypes, Sides
  <1>2. \A u \in Threads : None # u BY ConstantsAssumption
  <1>3. CtxInv'
    BY <1>1, ResetClientAlone DEF LockInv, CtxInv, InCall, Side
  <1>4. ResetInv' BY <1>1, ResetClientAlone DEF ResetInv
  <1>5. OwnInv'
    <2>. SUFFICES ASSUME NEW u \in Threads, NEW s \in Sides, lock'[s] = u
         PROVE  HeldFor(u, s)'
      BY DEF OwnInv
    <2>1. s = "Server" /\ lock["Server"] = u BY <1>1, <1>2 DEF Sides
    <2>2. u # t BY <2>1, <1>1, ResetClientAlone
    <2>. QED BY <2>1, <2>2, <1>1 DEF LockInv, OwnInv, HeldFor, AtReset, At, Side
  <1>6. NullOnlyInReset'
    <2>1. st["Client"].id # Null
      BY <1>1, ResetClientAlone DEF LockInv, NullOnlyInReset, Sides
    <2>. QED BY <2>1, <1>1, ResetClientAlone DEF NullOnlyInReset, Sides
  <1>. QED BY <1>3, <1>4, <1>5, <1>6 DEF LockInv

(* Every step keeps the lock invariant.                                     *)
LEMMA LockStep == TypeOK /\ LockInv /\ [Next]_vars => LockInv'
  <1>. SUFFICES ASSUME TypeOK, LockInv, [Next]_vars PROVE LockInv' OBVIOUS
  <1>1. ASSUME NEW t \in Threads, Step(t) PROVE LockInv'
    BY <1>1, QuietSteps, EnterKeeps, LeaveKeeps, ResetBeginKeeps, ResetBuildKeeps,
       ResetEndKeeps, ResetClientBeginKeeps, ResetClientBuildKeeps, ResetClientEndKeeps
    DEF Step
  <1>2. CASE StoryStep \/ ClientStep \/ WorkerStep
    BY <1>1, <1>2, QuietThreads DEF StoryStep, ClientStep, WorkerStep, Threads
  <1>3. CASE \E j \in Jobs : Step(j) BY <1>1, <1>3 DEF Threads
  <1>4. CASE \E t \in Threads : RequestReset(t) BY <1>4, QuietSteps
  <1>5. CASE \/ ServerTick \/ StoryEvent \/ ClientFrame \/ StatsLoad
             \/ StartSession \/ EndStory \/ FindModules
             \/ \E j \in Jobs, s \in Sides : JobEvent(j, s)
    BY <1>5, QuietThreads
  <1>6. CASE UNCHANGED vars BY <1>6, Quiet DEF vars, threadVars
  <1>. QED BY <1>2, <1>3, <1>4, <1>5, <1>6 DEF Next

(* A call runs in the live state of its side, never in one a reset closed,  *)
(* whatever threads there are and however resets follow one another.        *)
THEOREM RunsLive == Spec => []RunsInLiveState
  <1>1. LockInv => RunsInLiveState BY DEF LockInv, CtxInv, RunsInLiveState
  <1>. QED BY <1>1, TypeInit, TypeStep, LockInit, LockStep, PTL DEF Spec

(* A state is missing only while the thread that closed it has its lock.    *)
THEOREM NullHasOwner == Spec => []NullOnlyInReset
  <1>1. LockInv => NullOnlyInReset BY DEF LockInv
  <1>. QED BY <1>1, TypeInit, TypeStep, LockInit, LockStep, PTL DEF Spec
-----------------------------------------------------------------------------
(* The refinement.  The pin's two variables under the mapping of Pinned.    *)
Current == [s \in Sides |-> st[s].id]
PinOf   == [t \in Threads |-> [s \in Sides |-> IF ctx[t].side = s THEN ctx[t].id ELSE Null]]

(* A side whose lock nobody has for a call is pinned by nobody.             *)
LEMMA NotPinned ==
  ASSUME TypeOK, LockInv, NEW s \in Sides,
         \A t \in Threads : ctx[t] = NoCtx \/ Side(t) # s
  PROVE  \A t \in Threads : PinOf[t][s] = Null
  <1>1. None # s BY ConstantsAssumption
  <1>2. \A t \in Threads : ctx[t] = NoCtx \/ ctx[t].side # s BY DEF LockInv, CtxInv
  <1>. QED BY <1>1, <1>2 DEF PinOf, NoCtx

(* The initial states are initial states of the pin.                        *)
LEMMA PinInit == Init => Pinned!Init
  <1>. SUFFICES ASSUME Init PROVE Pinned!Init OBVIOUS
  <1>1. \A s \in Sides : st[s].id \in Names \cup {Null}
    BY TypeInit DEF TypeOK, StateTypes, State, Addresses
  <1>2. \A t \in Threads, s \in Sides : ctx[t].side # s
    BY ConstantsAssumption DEF Init, NoCtx
  <1>. QED BY <1>1, <1>2 DEF Pinned!Init

(* A step that changes neither states nor contexts is a stutter of the pin. *)
LEMMA PinQuiet ==
  ASSUME UNCHANGED ctx, \A s \in Sides : st'[s].id = st[s].id
  PROVE  UNCHANGED Pinned!vars
  BY DEF Pinned!vars

(* Entering a context pins the incarnation that is live there.              *)
LEMMA EnterPins ==
  ASSUME TypeOK, LockInv, NEW t \in Threads, NEW s \in Sides, s = Side(t), Enter(t)
  PROVE  Pinned!Pin(t, s)
  <1>1. Side(t) \in Sides /\ InCall(t) BY CallSide DEF Enter, TypeOK
  <1>2. \A u \in Threads : ctx[u] = NoCtx \/ Side(u) # s
    BY ConstantsAssumption DEF Enter, LockInv, CtxInv
  <1>3. \A u \in Threads : PinOf[u][s] = Null BY <1>1, <1>2, NotPinned
  <1>4. Pinned!Free(s) BY <1>1, <1>3 DEF Pinned!Free, PinOf
  <1>5. ctx' = [ctx EXCEPT ![t] = [side |-> s, id |-> st[s].id]]
    BY DEF Enter, EnteredState
  <1>6. \A r \in Sides : r # s => PinOf[t][r] = Null
    BY ConstantsAssumption DEF Enter, PinOf, NoCtx
  <1>7. PinOf' = [PinOf EXCEPT ![t][s] = Current[s]]
    BY <1>1, <1>5, <1>6 DEF PinOf, Current, TypeOK, ThreadTypes
  <1>8. Current' = Current BY DEF Enter, Current
  <1>. QED BY <1>4, <1>7, <1>8 DEF Pinned!Pin, PinOf, Current

(* Leaving a context lets go of its pin.                                    *)
LEMMA LeaveUnpins ==
  ASSUME TypeOK, LockInv, NEW t \in Threads, NEW s \in Sides, s = Side(t), Leave(t)
  PROVE  Pinned!Unpin(t, s)
  <1>1. Side(t) \in Sides BY CallSide DEF Leave, TypeOK
  <1>2. ctx[t].side = s BY DEF Leave, LockInv, CtxInv
  <1>3. ctx' = [ctx EXCEPT ![t] = NoCtx] BY DEF Leave
  <1>4. \A r \in Sides : None # r BY ConstantsAssumption
  <1>5. PinOf' = [PinOf EXCEPT ![t][s] = Null]
    BY <1>1, <1>2, <1>3, <1>4 DEF PinOf, NoCtx, TypeOK, ThreadTypes
  <1>6. \A r \in Sides : st'[r].id = st[r].id
    <2>1. \A r \in Sides : AfterCall(Fn(t), st[r]).id = st[r].id
      BY AfterCallType, SessionNat DEF TypeOK, StateTypes
    <2>. QED BY <1>1, <2>1 DEF Leave, TypeOK, StateTypes
  <1>7. Current' = Current BY <1>6 DEF Current
  <1>. QED BY <1>5, <1>7 DEF Pinned!Unpin, PinOf, Current

(* Closing and publishing states, both or the client's, while nobody is in. *)
LEMMA ResetReplaces ==
  ASSUME TypeOK, LockInv, TypeOK', NEW t \in Threads,
         ResetBegin(t) \/ ResetBuild(t) \/ ResetClientBegin(t) \/ ResetClientBuild(t)
  PROVE  \E S \in SUBSET Sides : Pinned!Replace(S)
  <1>1. Current' \in [Sides -> Names \cup {Null}]
    BY DEF Current, TypeOK, StateTypes, State, Addresses
  <1>2. UNCHANGED ctx
    BY DEF ResetBegin, ResetBuild, ResetClientBegin, ResetClientBuild
  <1>3. \A u \in Threads : None # u BY ConstantsAssumption
  <1>4. CASE ResetBegin(t) \/ ResetBuild(t)
    <2>1. \A u \in Threads : ctx[u] = NoCtx
      <3>1. CASE ResetBegin(t)
        BY <3>1, <1>3, CallSide DEF ResetBegin, LockInv, CtxInv, TypeOK
      <3>2. CASE ResetBuild(t) BY <3>2, ResetAlone DEF ResetBuild
      <3>. QED BY <1>4, <3>1, <3>2
    <2>2. \A s \in Sides : Pinned!Free(s) BY <2>1, NotPinned DEF Pinned!Free, PinOf
    <2>3. Pinned!Replace(Sides) BY <1>1, <1>2, <2>2 DEF Pinned!Replace, Current
    <2>. QED BY <2>3
  <1>5. CASE ResetClientBegin(t) \/ ResetClientBuild(t)
    <2>1. \A u \in Threads : ctx[u] = NoCtx \/ Side(u) # "Client"
      <3>1. CASE ResetClientBegin(t)
        BY <3>1, <1>3 DEF ResetClientBegin, LockInv, CtxInv
      <3>2. CASE ResetClientBuild(t)
        BY <3>2, ResetClientAlone DEF ResetClientBuild
      <3>. QED BY <1>5, <3>1, <3>2
    <2>2. Pinned!Free("Client") BY <2>1, NotPinned DEF Pinned!Free, PinOf, Sides
    <2>3. st'["Server"] = st["Server"]
      BY <1>5 DEF ResetClientBegin, ResetClientBuild, TypeOK, StateTypes, Sides
    <2>4. Pinned!Replace({"Client"})
      BY <1>1, <1>2, <2>2, <2>3 DEF Pinned!Replace, Current, Sides
    <2>. QED BY <2>4 DEF Sides
  <1>. QED BY <1>4, <1>5

(* Every step is a step of the pin or a stutter.                            *)
LEMMA PinStep ==
  ASSUME TypeOK, LockInv, TypeOK', [Next]_vars
  PROVE  Pinned!Next \/ UNCHANGED Pinned!vars
  <1>1. ASSUME NEW t \in Threads, Step(t) \/ RequestReset(t)
        PROVE  Pinned!Next \/ UNCHANGED Pinned!vars
    <2>1. CASE Enter(t)
      <3>1. Side(t) \in Sides BY <2>1, CallSide DEF Enter, TypeOK
      <3>2. PICK s \in Sides : s = Side(t) BY <3>1
      <3>3. Pinned!Pin(t, s) BY <2>1, <3>2, EnterPins
      <3>. QED BY <3>3 DEF Pinned!Next
    <2>2. CASE Leave(t)
      <3>1. Side(t) \in Sides BY <2>2, CallSide DEF Leave, TypeOK
      <3>2. PICK s \in Sides : s = Side(t) BY <3>1
      <3>3. Pinned!Unpin(t, s) BY <2>2, <3>2, LeaveUnpins
      <3>. QED BY <3>3 DEF Pinned!Next
    <2>3. CASE ResetBegin(t) \/ ResetBuild(t) \/ ResetClientBegin(t) \/ ResetClientBuild(t)
      BY <2>3, ResetReplaces DEF Pinned!Next
    <2>4. CASE ResetEnd(t)
      <3>1. At(t, "ResetLoad") \in BOOLEAN BY DEF At
      <3>2. \A s \in Sides : st'[s].id = st[s].id
        BY <2>4, <3>1, RebuiltType, SessionNat DEF ResetEnd, TypeOK, StateTypes, StoryTypes
      <3>. QED BY <2>4, <3>2, PinQuiet DEF ResetEnd
    <2>5. CASE \/ ResetClientEnd(t) \/ Peek(t) \/ RequestReset(t) \/ ClearReset(t)
               \/ DeferClientScripts(t) \/ LoadClientScripts(t)
      BY <2>5, PinQuiet DEF ResetClientEnd, Peek, RequestReset, ClearReset,
                            DeferClientScripts, LoadClientScripts, threadVars
    <2>. QED BY <1>1, <2>1, <2>2, <2>3, <2>4, <2>5 DEF Step
  <1>2. CASE StoryThread
    <2>1. \A s \in Sides : st'[s].id = st[s].id
      <3>1. CASE BindEnd BY <3>1 DEF BindEnd, TypeOK, StateTypes, State, Sides
      <3>2. CASE ~BindEnd
        BY <1>2, <3>2 DEF StoryThread, CheckReset, CheckState, CheckEvents, LockStory,
                          BindBegin, StoryReady, StoryDone
      <3>. QED BY <3>1, <3>2
    <2>2. UNCHANGED ctx
      BY <1>2 DEF StoryThread, CheckReset, CheckState, CheckEvents, LockStory, BindBegin,
                  BindEnd, StoryReady, StoryDone
    <2>. QED BY <2>1, <2>2, PinQuiet
  <1>3. CASE \/ ClientThread \/ WorkerThread \/ UNCHANGED vars
             \/ ServerTick \/ StoryEvent \/ ClientFrame \/ StatsLoad
             \/ StartSession \/ EndStory \/ FindModules
             \/ \E j \in Jobs, s \in Sides : JobEvent(j, s)
    <2>1. UNCHANGED <<st, ctx>>
      BY <1>3 DEF ClientThread, NoteSessionEnded, Rearm, CheckScripts, CheckMenuReset,
                  WorkerThread, ModuleLoadStarted, ModuleBootstraps, StatsLoaded,
                  ServerTick, StoryEvent, ClientFrame, Frame, FrameUnloadSession,
                  FrameLeaveLoadMenu, StatsLoad, StartSession, EndStory, FindModules,
                  JobEvent, vars, threadVars
    <2>. QED BY <2>1, PinQuiet
  <1>. QED
    BY <1>1, <1>2, <1>3 DEF Next, StoryStep, ClientStep, WorkerStep, Threads

(* Locks, null pointers and the order of reset and read implement the pin.  *)
THEOREM PinImplemented == Spec => ImplementsPin
  <1>1. TypeOK /\ LockInv /\ TypeOK' /\ [Next]_vars => [Pinned!Next]_Pinned!vars
    BY PinStep
  <1>. QED
    BY <1>1, PinInit, TypeInit, TypeStep, LockInit, LockStep, PTL
    DEF Spec, ImplementsPin, Pinned!Spec
=============================================================================
