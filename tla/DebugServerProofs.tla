-------------------------- MODULE DebugServerProofs -------------------------
(***************************************************************************)
(* Proofs about the debugger, for any connections, threads and bounds: the *)
(* counter outside the lock agrees with the queue, no job is left queued   *)
(* by a caller that has stopped waiting, and the whole implements the      *)
(* service (DebugServer, EvalService); a client is shown what was          *)
(* reported, at most twice (DebugOutput).                                  *)
(***************************************************************************)
EXTENDS DebugServer, DebugOutput, FiniteSetTheorems, SequenceTheorems, TLAPS

(* A pump's frame has a job from when it takes one to the evaluation's end. *)
Frames == [at : {"look"}, job : {NoJob}] \cup [at : {"subtract", "eval"}, job : Jobs]
StackInv == stack \in [Pumps -> Seq(Frames)]

(* TypeOK in parts, of which StackInv gives one.                            *)
HandlerType == /\ pc \in [Clients -> {"idle", "refuse", "push", "count", "wait", "expired",
                                      "result", "timeout", "gone"}]
               /\ sent \in Nat /\ n \in [Clients -> Nat] /\ side \in [Clients -> Contexts]
QueueType == queue \in Seq(Jobs) /\ pending \in Int /\ done \subseteq Jobs
OtherType == /\ clientPumps \in BOOLEAN /\ storyReady \in BOOLEAN /\ timeouts \in Nat
             /\ answers \subseteq [to : Nat, how : {"refused", "result", "timeout"}]
Typed == HandlerType /\ QueueType /\ OtherType /\ StackInv

Busy(p, i) == i \in 1..Len(stack[p]) /\ stack[p][i].at # "look"
Past(j) == j \in done \/ \E p \in Pumps : \E i \in 1..Len(stack[p]) :
                             Busy(p, i) /\ stack[p][i].job = j

(* A job is queued once, by a caller that waits for it, and never again     *)
(* after it was taken: what was taken is not queued nor about to be.        *)
Unique == \A i, k \in 1..Len(queue) : queue[i] = queue[k] => i = k
Numbered == \A c \in Clients : n[c] <= sent
Gone == \A j \in Jobs : Past(j) => /\ j.nth <= sent /\ ~Queued(j)
                                   /\ \A c \in Clients : pc[c] = "push" => j # Job(c)
JobInv == Unique /\ QueuedIsAwaited /\ Numbered /\ Gone

(* The counter lags by those that have queued a job and not counted it, and *)
(* leads by those that have taken one and not subtracted it.                *)
Counting    == {c \in Clients : pc[c] = "count"}
Subtracting == {p \in Pumps : In(p, "subtract")}
CountInv == pending = Len(queue) + Cardinality(Subtracting) - Cardinality(Counting)

(* A pump inside a pump is inside its evaluation.                           *)
Nested == \A p \in Pumps : \A i \in 2..Len(stack[p]) : stack[p][i].at = "eval"

Inv == Typed /\ JobInv /\ Nested /\ CountInv

-----------------------------------------------------------------------------
(* A sequence without its i-th element, as the queue after an erase.        *)
LEMMA WithoutProperties ==
  ASSUME NEW S, NEW i \in 1..Len(queue), queue \in Seq(S)
  PROVE  /\ Without(i) \in Seq(S) /\ Len(Without(i)) = Len(queue) - 1
         /\ \A k \in 1..(Len(queue) - 1) :
                Without(i)[k] = IF k < i THEN queue[k] ELSE queue[k + 1]
<1>0. Len(queue) \in Nat /\ \A k \in 1..Len(queue) : queue[k] \in S
  BY LenProperties, ElementOfSeq
<1> DEFINE a == SubSeq(queue, 1, i - 1)
           b == SubSeq(queue, i + 1, Len(queue))
<1>1. /\ a \in Seq(S) /\ Len(a) = i - 1
      /\ \A k \in 1..(i - 1) : a[k] = queue[k]
  BY <1>0, SubSeqProperties
<1>2. /\ b \in Seq(S) /\ Len(b) = Len(queue) - i
      /\ \A k \in 1..(Len(queue) - i) : b[k] = queue[i + k]
  BY <1>0, SubSeqProperties
<1>3. Without(i) = a \o b
  BY DEF Without
<1> HIDE DEF a, b
<1>4. /\ a \o b \in Seq(S) /\ Len(a \o b) = Len(queue) - 1
      /\ \A k \in 1..(Len(queue) - 1) : (a \o b)[k] = IF k <= i - 1 THEN a[k] ELSE b[k - (i - 1)]
  <2>1. /\ a \o b \in Seq(S) /\ Len(a \o b) = Len(a) + Len(b)
        /\ \A k \in 1..(Len(a) + Len(b)) : (a \o b)[k] = IF k <= Len(a) THEN a[k] ELSE b[k - Len(a)]
    BY <1>1, <1>2, ConcatProperties
  <2>2. Len(a) = i - 1 /\ Len(a) + Len(b) = Len(queue) - 1
    BY <1>0, <1>1, <1>2
  <2> QED
    BY <2>1, <2>2
<1> QED
  BY <1>0, <1>1, <1>2, <1>3, <1>4

(* A frame put on a thread's stack, and the innermost one replaced.         *)
LEMMA FrameOnTop ==
  ASSUME NEW s \in Seq(Frames), NEW f \in Frames
  PROVE  /\ <<f>> \o s \in Seq(Frames) /\ Len(<<f>> \o s) = Len(s) + 1
         /\ (<<f>> \o s)[1] = f
         /\ \A i \in 2..(Len(s) + 1) : (<<f>> \o s)[i] = s[i - 1]
<1>1. <<f>> \in Seq(Frames) /\ Len(<<f>>) = 1 /\ <<f>>[1] = f
  OBVIOUS
<1>2. Len(s) \in Nat
  BY LenProperties
<1> QED
  BY <1>1, <1>2, ConcatProperties

(* The frame below stays where it was.                                      *)
LEMMA FrameReplaced ==
  ASSUME NEW s \in Seq(Frames), s # <<>>, NEW f \in Frames
  PROVE  /\ <<f>> \o Tail(s) \in Seq(Frames) /\ Len(<<f>> \o Tail(s)) = Len(s)
         /\ (<<f>> \o Tail(s))[1] = f
         /\ \A i \in 2..Len(s) : (<<f>> \o Tail(s))[i] = s[i]
<1>1. /\ Tail(s) \in Seq(Frames) /\ Len(Tail(s)) = Len(s) - 1
      /\ \A i \in 1..(Len(s) - 1) : Tail(s)[i] = s[i + 1]
  BY HeadTailProperties
<1>2. Len(s) \in Nat
  BY LenProperties
<1>3. /\ <<f>> \o Tail(s) \in Seq(Frames) /\ Len(<<f>> \o Tail(s)) = Len(Tail(s)) + 1
      /\ (<<f>> \o Tail(s))[1] = f
      /\ \A i \in 2..(Len(Tail(s)) + 1) : (<<f>> \o Tail(s))[i] = Tail(s)[i - 1]
  BY <1>1, FrameOnTop
<1> QED
  BY <1>1, <1>2, <1>3

(* What pushing, replacing and popping a frame leaves on the stacks.        *)
LEMMA Pushed ==
  ASSUME StackInv, NEW p \in Pumps, NEW f \in Frames,
         stack' = [stack EXCEPT ![p] = <<f>> \o @]
  PROVE  /\ StackInv' /\ \A q \in Pumps \ {p} : stack'[q] = stack[q]
         /\ Len(stack'[p]) = Len(stack[p]) + 1 /\ stack'[p][1] = f
         /\ \A i \in 2..Len(stack'[p]) : i - 1 \in 1..Len(stack[p]) /\ stack'[p][i] = stack[p][i - 1]
<1>1. stack[p] \in Seq(Frames) /\ stack'[p] = <<f>> \o stack[p]
  BY DEF StackInv
<1>2. Len(stack[p]) \in Nat
  BY <1>1, LenProperties
<1>3. /\ <<f>> \o stack[p] \in Seq(Frames) /\ Len(<<f>> \o stack[p]) = Len(stack[p]) + 1
      /\ (<<f>> \o stack[p])[1] = f
      /\ \A i \in 2..(Len(stack[p]) + 1) : (<<f>> \o stack[p])[i] = stack[p][i - 1]
  BY <1>1, FrameOnTop
<1>4. StackInv' /\ \A q \in Pumps \ {p} : stack'[q] = stack[q]
  BY <1>3 DEF StackInv
<1> QED
  BY <1>1, <1>2, <1>3, <1>4

(* SetTop.                                                                  *)
LEMMA Replaced ==
  ASSUME StackInv, NEW p \in Pumps, stack[p] # <<>>, NEW f \in Frames,
         stack' = [stack EXCEPT ![p] = <<f>> \o Tail(@)]
  PROVE  /\ StackInv' /\ \A q \in Pumps \ {p} : stack'[q] = stack[q]
         /\ Len(stack'[p]) = Len(stack[p]) /\ Len(stack[p]) \in Nat \ {0}
         /\ stack'[p] # <<>> /\ stack'[p][1] = f
         /\ \A i \in 2..Len(stack[p]) : stack'[p][i] = stack[p][i]
<1>1. stack[p] \in Seq(Frames) /\ stack'[p] = <<f>> \o Tail(stack[p])
  BY DEF StackInv
<1>2. Len(stack[p]) \in Nat \ {0}
  BY <1>1, EmptySeq
<1>3. /\ <<f>> \o Tail(stack[p]) \in Seq(Frames) /\ Len(<<f>> \o Tail(stack[p])) = Len(stack[p])
      /\ (<<f>> \o Tail(stack[p]))[1] = f
      /\ \A i \in 2..Len(stack[p]) : (<<f>> \o Tail(stack[p]))[i] = stack[p][i]
  BY <1>1, FrameReplaced
<1>4. StackInv' /\ \A q \in Pumps \ {p} : stack'[q] = stack[q]
  BY <1>3 DEF StackInv
<1>5. stack'[p] # <<>>
  BY <1>1, <1>2, <1>3
<1> QED
  BY <1>1, <1>2, <1>3, <1>4, <1>5

(* A pump's end.                                                            *)
LEMMA Popped ==
  ASSUME StackInv, NEW p \in Pumps, stack[p] # <<>>,
         stack' = [stack EXCEPT ![p] = Tail(@)]
  PROVE  /\ StackInv' /\ \A q \in Pumps \ {p} : stack'[q] = stack[q]
         /\ Len(stack'[p]) = Len(stack[p]) - 1
         /\ \A i \in 1..Len(stack'[p]) : i + 1 \in 1..Len(stack[p]) /\ stack'[p][i] = stack[p][i + 1]
<1>1. stack[p] \in Seq(Frames) /\ stack'[p] = Tail(stack[p])
  BY DEF StackInv
<1>2. Len(stack[p]) \in Nat
  BY <1>1, LenProperties
<1>3. /\ Tail(stack[p]) \in Seq(Frames) /\ Len(Tail(stack[p])) = Len(stack[p]) - 1
      /\ \A i \in 1..Len(Tail(stack[p])) : Tail(stack[p])[i] = stack[p][i + 1]
  BY <1>1, HeadTailProperties
<1>4. StackInv' /\ \A q \in Pumps \ {p} : stack'[q] = stack[q]
  BY <1>1, <1>3 DEF StackInv
<1>5. /\ Len(stack'[p]) = Len(stack[p]) - 1
      /\ \A i \in 1..Len(stack'[p]) : stack'[p][i] = stack[p][i + 1]
  BY <1>1, <1>3, Zenon
<1>6. \A i \in 1..Len(stack'[p]) : i + 1 \in 1..Len(stack[p])
  BY <1>2, <1>5
<1> QED
  BY <1>4, <1>5, <1>6, Zenon

(* The frame an action finds innermost.                                     *)
LEMMA TopFrame ==
  ASSUME StackInv, NEW p \in Pumps, NEW at \in {"subtract", "eval"}, In(p, at)
  PROVE  /\ stack[p] # <<>> /\ 1 \in 1..Len(stack[p]) /\ Top(p) = stack[p][1]
         /\ Top(p).at = at /\ Top(p).job \in Jobs /\ Busy(p, 1)
<1>1. stack[p] \in Seq(Frames) /\ stack[p] # <<>> /\ Top(p).at = at
  BY DEF StackInv, In
<1>2. Len(stack[p]) \in Nat \ {0}
  BY <1>1, EmptySeq
<1>3. Top(p) = stack[p][1] /\ stack[p][1] \in Frames
  BY <1>1, <1>2, ElementOfSeq DEF Top
<1> QED
  BY <1>1, <1>2, <1>3 DEF Frames, Busy

(* StackInv is the stronger type.                                           *)
LEMMA StackTyped ==
  StackInv => stack \in [Pumps -> Seq([at : {"look", "subtract", "eval"}, job : Jobs \cup {NoJob}])]
<1>1. Frames \subseteq [at : {"look", "subtract", "eval"}, job : Jobs \cup {NoJob}]
  BY DEF Frames
<1>2. Seq(Frames) \subseteq Seq([at : {"look", "subtract", "eval"}, job : Jobs \cup {NoJob}])
  BY <1>1, SeqMonotonic
<1> QED
  BY <1>2 DEF StackInv

-----------------------------------------------------------------------------
(* Threads are finite in number.                                            *)
LEMMA PumpsFinite == IsFiniteSet(Pumps)
  BY ConstantsAssumption, FS_AddElement DEF Pumps

(* Typed is stronger than TypeOK.                                           *)
LEMMA TypedOK == Typed => TypeOK
  BY StackTyped DEF Typed, HandlerType, QueueType, OtherType, TypeOK

(* Nothing is queued, taken or counted at first.                            *)
LEMMA InitInv == Init => Inv
<1> SUFFICES ASSUME Init PROVE Inv
  OBVIOUS
<1>1. Typed
  <2>1. StackInv /\ QueueType
    BY EmptySeq DEF Init, StackInv, QueueType
  <2>2. HandlerType
    BY DEF Init, HandlerType, Contexts
  <2>3. OtherType
    BY DEF Init, OtherType
  <2> QED
    BY <2>1, <2>2, <2>3 DEF Typed
<1>2. JobInv
  <2>1. Len(queue) = 0
    BY DEF Init
  <2>2. \A j : ~Past(j)
    BY DEF Init, Past
  <2> QED
    BY <2>1, <2>2 DEF Init, JobInv, Unique, QueuedIsAwaited, Numbered, Gone
<1>3. CountInv
  <2>1. Counting = {} /\ Subtracting = {}
    BY DEF Init, Counting, Subtracting, In
  <2> QED
    BY <2>1, FS_EmptySet DEF Init, CountInv
<1>4. Nested
  BY DEF Init, Nested
<1> QED
  BY <1>1, <1>2, <1>3, <1>4 DEF Inv

(* A connection's step keeps the types.                                     *)
LEMMA HandlerTyped ==
  ASSUME Typed, NEW c \in Clients,
         Handler(c) \/ Timeout(c) \/ Detach(c) \/ \E s \in Contexts : Evaluate(c, s)
  PROVE  Typed'
<1>0. HandlerType /\ QueueType /\ OtherType /\ StackInv
  BY DEF Typed
<1>1. Job(c) \in Jobs
  BY <1>0 DEF Job, Jobs, HandlerType
<1>2. StackInv'
  BY <1>0 DEF Evaluate, Handler, Push, Count, Finished, Timeout, Withdraw, Reply, Detach, StackInv
<1>3. HandlerType'
  <2>1. ASSUME NEW s \in Contexts, Evaluate(c, s) PROVE HandlerType'
    BY <1>0, <2>1 DEF Evaluate, Goto, HandlerType
  <2>2. CASE Handler(c) \/ Timeout(c) \/ Detach(c)
    BY <1>0, <2>2 DEF Handler, Push, Count, Finished, Timeout, Withdraw, Reply, Detach, Goto,
                      HandlerType
  <2> QED
    BY <2>1, <2>2
<1>4. QueueType'
  <2>1. CASE Push(c)
    BY <1>0, <1>1, <2>1 DEF Push, QueueType
  <2>2. CASE Count(c)
    BY <1>0, <2>2 DEF Count, QueueType
  <2>3. CASE Withdraw(c)
    <3>1. Withdrawn(c) \in Seq(Jobs)
      BY <1>0, WithoutProperties DEF Withdrawn, Queued, Position, QueueType
    <3>2. CountedOut(c) \in Int
      BY <1>0 DEF CountedOut, QueueType
    <3> QED
      BY <1>0, <2>3, <3>1, <3>2 DEF Withdraw, QueueType
  <2>4. CASE UNCHANGED queueVars
    BY <1>0, <2>4 DEF queueVars, QueueType
  <2> QED
    BY <2>1, <2>2, <2>3, <2>4 DEF Evaluate, Handler, Finished, Timeout, Reply, Detach
<1>5. OtherType'
  <2>1. CASE Reply(c)
    <3>1. n[c] \in Nat /\ Outcome(c) \in {"refused", "result", "timeout"}
      BY <1>0, <2>1 DEF Reply, Outcome, HandlerType
    <3>2. answers' = answers \cup {[to |-> n[c], how |-> Outcome(c)]}
      BY <2>1 DEF Reply, Answer
    <3>3. UNCHANGED <<clientPumps, storyReady, timeouts>>
      BY <2>1 DEF Reply
    <3> QED
      BY <1>0, <3>1, <3>2, <3>3 DEF OtherType
  <2>2. CASE UNCHANGED <<clientPumps, storyReady, answers>> /\ timeouts' \in {timeouts, timeouts + 1}
    BY <1>0, <2>2 DEF OtherType
  <2> QED
    BY <2>1, <2>2 DEF Evaluate, Handler, Push, Count, Finished, Timeout, Withdraw, Detach
<1> QED
  BY <1>2, <1>3, <1>4, <1>5 DEF Typed

(* The frames pumps put on their stacks.                                    *)
LEMMA FramesTyped ==
  Looking \in Frames /\ \A j \in Jobs : Frame("subtract", j) \in Frames /\ Frame("eval", j) \in Frames
  BY DEF Looking, Frame, Frames

(* A pump's step keeps the types.                                           *)
LEMMA PumpTyped ==
  ASSUME Typed, NEW p \in Pumps,
         PumpServer(p) \/ Take(p) \/ PumpEnds(p) \/ Subtract(p) \/ EvalEnds(p)
  PROVE  Typed'
<1>0. HandlerType /\ QueueType /\ OtherType /\ StackInv
  BY DEF Typed
<1>1. HandlerType' /\ OtherType'
  <2>1. UNCHANGED <<pc, sent, n, side, storyReady, clientPumps, timeouts, answers>>
    BY DEF PumpServer, Take, PumpEnds, Subtract, EvalEnds, handlerVars
  <2> QED
    BY <1>0, <2>1 DEF HandlerType, OtherType
<1>2. CASE PumpServer(p)
  <2>1. StackInv'
    BY <1>0, <1>2, Pushed, FramesTyped DEF PumpServer
  <2>2. QueueType'
    BY <1>0, <1>2 DEF PumpServer, queueVars, QueueType
  <2> QED
    BY <1>1, <2>1, <2>2 DEF Typed
<1>3. CASE Take(p)
  <2>1. PICK i \in 1..Len(queue) : SetTop(p, Frame("subtract", queue[i])) /\ queue' = Without(i)
    BY <1>3 DEF Take
  <2>2. queue[i] \in Jobs
    BY <1>0, <2>1, ElementOfSeq DEF QueueType
  <2>3. PICK j \in Jobs : j = queue[i]
    BY <2>2
  <2>4. StackInv'
    BY <1>0, <1>3, <2>1, <2>3, Replaced, FramesTyped DEF Take, In, SetTop
  <2>5. queue' \in Seq(Jobs)
    BY <1>0, <2>1, WithoutProperties DEF QueueType
  <2>6. QueueType'
    BY <1>0, <1>3, <2>5 DEF Take, QueueType
  <2> QED
    BY <1>1, <2>4, <2>6 DEF Typed
<1>4. CASE PumpEnds(p)
  <2>1. StackInv'
    BY <1>0, <1>4, Popped DEF PumpEnds, In
  <2>2. QueueType'
    BY <1>0, <1>4 DEF PumpEnds, queueVars, QueueType
  <2> QED
    BY <1>1, <2>1, <2>2 DEF Typed
<1>5. CASE Subtract(p)
  <2>1. PICK j \in Jobs : j = Top(p).job
    BY <1>0, <1>5, TopFrame DEF Subtract
  <2>2. StackInv'
    BY <1>0, <1>5, <2>1, Replaced, FramesTyped DEF Subtract, In, SetTop
  <2>3. QueueType'
    BY <1>0, <1>5 DEF Subtract, QueueType
  <2> QED
    BY <1>1, <2>2, <2>3 DEF Typed
<1>6. CASE EvalEnds(p)
  <2>1. StackInv'
    BY <1>0, <1>6, Replaced, FramesTyped DEF EvalEnds, In, SetTop
  <2>2. Top(p).job \in Jobs
    BY <1>0, <1>6, TopFrame DEF EvalEnds
  <2>3. QueueType'
    BY <1>0, <1>6, <2>2 DEF EvalEnds, QueueType
  <2> QED
    BY <1>1, <2>1, <2>3 DEF Typed
<1> QED
  BY <1>2, <1>3, <1>4, <1>5, <1>6

(* A frame of the client that finds something counted pumps.                *)
LEMMA PumpClientPushes ==
  ASSUME Typed, PumpClient, pending # 0
  PROVE  "client" \in Pumps /\ stack' = [stack EXCEPT !["client"] = <<Looking>> \o @]
<1>1. "client" \in Pumps
  BY DEF Pumps
<1>2. <<Looking>> \o <<>> = <<Looking>>
  OBVIOUS
<1>3. stack' = [stack EXCEPT !["client"] = <<Looking>>] /\ stack["client"] = <<>>
  BY DEF PumpClient
<1> QED
  BY <1>1, <1>2, <1>3 DEF Typed, StackInv

(* Every step keeps the types.                                              *)
LEMMA StepTyped == Typed /\ [Next]_vars => Typed'
<1> SUFFICES ASSUME Typed, [Next]_vars PROVE Typed'
  OBVIOUS
<1>1. CASE PumpClient
  <2>1. StackInv'
    BY <1>1, PumpClientPushes, Pushed, FramesTyped DEF PumpClient, Typed, StackInv
  <2>2. HandlerType' /\ QueueType' /\ OtherType'
    BY <1>1 DEF PumpClient, handlerVars, queueVars, Typed, HandlerType, QueueType, OtherType
  <2> QED
    BY <2>1, <2>2 DEF Typed
<1>2. CASE StoryChanges
  <2>1. UNCHANGED <<handlerVars, queueVars, stack, clientPumps, timeouts, answers>>
        /\ storyReady' \in BOOLEAN
    BY <1>2 DEF StoryChanges
  <2> QED
    BY <2>1 DEF handlerVars, queueVars, Typed, HandlerType, QueueType, OtherType, StackInv
<1>3. CASE UNCHANGED vars
  BY <1>3 DEF vars, handlerVars, queueVars, Typed, HandlerType, QueueType, OtherType, StackInv
<1> QED
  BY <1>1, <1>2, <1>3, HandlerTyped, PumpTyped DEF Next

(* For any connections, threads and bounds, TypeOK always holds.            *)
THEOREM TypeCorrect == Spec => []TypeOK
<1>1. Init => Typed
  BY InitInv DEF Inv
<1> QED
  BY <1>1, StepTyped, TypedOK, PTL DEF Spec

-----------------------------------------------------------------------------
(* A thread's step that takes no job adds nothing to what was taken.        *)
LEMMA PastPushed ==
  ASSUME StackInv, NEW p \in Pumps, stack' = [stack EXCEPT ![p] = <<Looking>> \o @], done' = done,
         NEW j, Past(j)'
  PROVE  Past(j)
<1> SUFFICES ASSUME j \notin done PROVE Past(j)
  BY DEF Past
<1>1. PICK q \in Pumps : \E i \in 1..Len(stack'[q]) : Busy(q, i)' /\ stack'[q][i].job = j
  BY DEF Past
<1>2. PICK i \in 1..Len(stack'[q]) : stack'[q][i].at # "look" /\ stack'[q][i].job = j
  BY <1>1 DEF Busy
<1>3. Looking.at = "look"
  BY DEF Looking
<1>4. /\ \A r \in Pumps \ {p} : stack'[r] = stack[r]
      /\ Len(stack'[p]) = Len(stack[p]) + 1 /\ stack'[p][1] = Looking
      /\ \A m \in 2..Len(stack'[p]) : m - 1 \in 1..Len(stack[p]) /\ stack'[p][m] = stack[p][m - 1]
  BY Pushed, FramesTyped
<1>5. CASE q = p
  <2>1. i # 1
    BY <1>2, <1>3, <1>4, <1>5
  <2>2. i \in 2..Len(stack'[p])
    BY <1>2, <1>5, <2>1
  <2> QED
    BY <1>2, <1>4, <1>5, <2>2 DEF Past, Busy
<1>6. CASE q # p
  BY <1>2, <1>4, <1>6 DEF Past, Busy
<1> QED
  BY <1>5, <1>6

(* A pump's end.                                                            *)
LEMMA PastPopped ==
  ASSUME StackInv, NEW p \in Pumps, stack[p] # <<>>, stack' = [stack EXCEPT ![p] = Tail(@)],
         done' = done, NEW j, Past(j)'
  PROVE  Past(j)
<1> SUFFICES ASSUME j \notin done PROVE Past(j)
  BY DEF Past
<1>1. PICK q \in Pumps : \E i \in 1..Len(stack'[q]) : Busy(q, i)' /\ stack'[q][i].job = j
  BY DEF Past
<1>2. PICK i \in 1..Len(stack'[q]) : stack'[q][i].at # "look" /\ stack'[q][i].job = j
  BY <1>1 DEF Busy
<1>3. /\ \A r \in Pumps \ {p} : stack'[r] = stack[r]
      /\ \A m \in 1..Len(stack'[p]) : m + 1 \in 1..Len(stack[p]) /\ stack'[p][m] = stack[p][m + 1]
  BY Popped
<1>4. CASE q = p
  BY <1>2, <1>3, <1>4 DEF Past, Busy
<1>5. CASE q # p
  BY <1>2, <1>3, <1>5 DEF Past, Busy
<1> QED
  BY <1>4, <1>5

(* A frame replaced by one with a job adds that job at most.                *)
LEMMA PastReplaced ==
  ASSUME StackInv, NEW p \in Pumps, stack[p] # <<>>, NEW f \in Frames,
         stack' = [stack EXCEPT ![p] = <<f>> \o Tail(@)],
         NEW j, Past(j)', j \notin done', f.at # "look" => f.job # j
  PROVE  Past(j)
<1>1. PICK q \in Pumps : \E i \in 1..Len(stack'[q]) : Busy(q, i)' /\ stack'[q][i].job = j
  BY DEF Past
<1>2. PICK i \in 1..Len(stack'[q]) : stack'[q][i].at # "look" /\ stack'[q][i].job = j
  BY <1>1 DEF Busy
<1>3. /\ \A r \in Pumps \ {p} : stack'[r] = stack[r]
      /\ Len(stack'[p]) = Len(stack[p]) /\ Len(stack[p]) \in Nat \ {0} /\ stack'[p][1] = f
      /\ \A m \in 2..Len(stack[p]) : stack'[p][m] = stack[p][m]
  BY Replaced
<1>4. CASE q = p
  <2>1. i # 1
    BY <1>2, <1>3, <1>4
  <2>2. i \in 2..Len(stack[p]) /\ i \in 1..Len(stack[p])
    BY <1>2, <1>3, <1>4, <2>1
  <2> QED
    BY <1>2, <1>3, <1>4, <2>2 DEF Past, Busy
<1>5. CASE q # p
  BY <1>2, <1>3, <1>5 DEF Past, Busy
<1> QED
  BY <1>4, <1>5

(* A step that leaves the queue and the connections alone.                  *)
LEMMA JobInvKept ==
  ASSUME JobInv, UNCHANGED <<handlerVars, queue>>, \A j \in Jobs : Past(j)' => Past(j)
  PROVE  JobInv'
<1>1. UNCHANGED <<pc, sent, n, side, queue>>
  BY DEF handlerVars
<1>2. Unique' /\ QueuedIsAwaited' /\ Numbered'
  BY <1>1 DEF JobInv, Unique, QueuedIsAwaited, Numbered, Job
<1>3. Gone'
  BY <1>1 DEF JobInv, Gone, Queued, Job
<1> QED
  BY <1>2, <1>3 DEF JobInv

(* Erasing a job from a queue of different jobs leaves the others, once.    *)
LEMMA Erased ==
  ASSUME Typed, Unique, NEW i \in 1..Len(queue), queue' = Without(i)
  PROVE  /\ Unique' /\ \A k \in 1..Len(queue') : queue'[k] # queue[i]
         /\ \A k \in 1..Len(queue') : \E m \in 1..Len(queue) : m # i /\ queue'[k] = queue[m]
<1>1. /\ Len(queue) \in Nat /\ Len(queue') = Len(queue) - 1
      /\ \A k \in 1..(Len(queue) - 1) : queue'[k] = IF k < i THEN queue[k] ELSE queue[k + 1]
  BY WithoutProperties, LenProperties DEF Typed, QueueType
<1>2. Unique'
  BY <1>1 DEF Unique
<1>3. \A k \in 1..Len(queue') : \E m \in 1..Len(queue) : m # i /\ queue'[k] = queue[m]
  <2> TAKE k \in 1..Len(queue')
  <2>1. CASE k < i
    BY <1>1, <2>1
  <2>2. CASE ~(k < i)
    <3>1. k + 1 \in 1..Len(queue) /\ k + 1 # i /\ queue'[k] = queue[k + 1]
      BY <1>1, <2>2
    <3> QED
      BY <3>1
  <2> QED
    BY <2>1, <2>2
<1>4. \A k \in 1..Len(queue') : queue'[k] # queue[i]
  BY <1>3 DEF Unique
<1> QED
  BY <1>2, <1>3, <1>4

(* A connection's step keeps JobInv.                                        *)
LEMMA HandlerJobs ==
  ASSUME Typed, JobInv, NEW c \in Clients,
         Handler(c) \/ Timeout(c) \/ Detach(c) \/ \E s \in Contexts : Evaluate(c, s)
  PROVE  JobInv'
<1>0. Unique /\ QueuedIsAwaited /\ Numbered /\ Gone
  BY DEF JobInv
<1>a. HandlerType /\ queue \in Seq(Jobs) /\ Len(queue) \in Nat
  BY LenProperties DEF Typed, QueueType
<1>b. \A j : Past(j)' <=> Past(j)
  BY DEF Past, Busy, Evaluate, Handler, Push, Count, Finished, Timeout, Withdraw, Reply, Detach,
         queueVars
<1>c. \A d, e \in Clients : Job(d) = Job(e) => d = e
  BY DEF Job
<1>1. ASSUME NEW s \in Contexts, Evaluate(c, s) PROVE JobInv'
  <2>1. /\ pc[c] = "idle" /\ sent' = sent + 1 /\ queue' = queue /\ n'[c] = sent + 1
        /\ \A d \in Clients \ {c} : pc'[d] = pc[d] /\ n'[d] = n[d] /\ Job(d)' = Job(d)
    BY <1>1, <1>a DEF Evaluate, Goto, queueVars, HandlerType, Job
  <2>2. Unique'
    BY <1>0, <2>1 DEF Unique
  <2>3. QueuedIsAwaited'
    BY <1>0, <2>1 DEF QueuedIsAwaited
  <2>4. Numbered'
    BY <1>0, <1>a, <2>1 DEF Numbered, HandlerType
  <2>5. Gone'
    <3> SUFFICES ASSUME NEW j \in Jobs, Past(j)
                 PROVE  /\ j.nth <= sent' /\ ~Queued(j)'
                        /\ \A d \in Clients : pc'[d] = "push" => j # Job(d)'
      BY <1>b DEF Gone
    <3>1. /\ j.nth <= sent /\ j.nth \in Nat /\ ~Queued(j)
          /\ \A d \in Clients : pc[d] = "push" => j # Job(d)
      BY <1>0 DEF Gone, Jobs
    <3>2. j.nth <= sent' /\ j.nth # n'[c]
      BY <1>a, <2>1, <3>1 DEF HandlerType
    <3>3. j # Job(c)'
      BY <3>2 DEF Job
    <3>4. ~Queued(j)'
      BY <2>1, <3>1 DEF Queued
    <3> QED
      BY <2>1, <3>1, <3>2, <3>3, <3>4
  <2> QED
    BY <2>2, <2>3, <2>4, <2>5 DEF JobInv
<1>2. CASE Push(c)
  <2>1. /\ pc[c] = "push" /\ UNCHANGED <<sent, n, side>> /\ queue' = Append(queue, Job(c))
        /\ pc'[c] = "count" /\ \A d \in Clients \ {c} : pc'[d] = pc[d]
    BY <1>2, <1>a DEF Push, Goto, HandlerType
  <2>2. \A d \in Clients : Job(d)' = Job(d)
    BY <2>1 DEF Job
  <2>3. Job(c) \in Jobs
    BY <1>a DEF HandlerType, Job, Jobs
  <2>4. /\ Len(queue') = Len(queue) + 1 /\ queue'[Len(queue) + 1] = Job(c)
        /\ \A i \in 1..Len(queue) : queue'[i] = queue[i]
    BY <1>a, <2>1, <2>3
  <2>5. \A i \in 1..Len(queue) : queue[i] # Job(c)
    BY <1>0, <1>c, <2>1 DEF QueuedIsAwaited
  <2>6. \A i \in 1..Len(queue') : i \in 1..Len(queue) \/ i = Len(queue) + 1
    BY <1>a, <2>4
  <2>7. Unique'
    BY <1>0, <2>4, <2>5, <2>6 DEF Unique
  <2>8. QueuedIsAwaited'
    BY <1>0, <2>1, <2>2, <2>4, <2>6 DEF QueuedIsAwaited
  <2>9. Numbered'
    BY <1>0, <2>1 DEF Numbered
  <2>10. Gone'
    <3> SUFFICES ASSUME NEW j \in Jobs, Past(j)
                 PROVE  /\ j.nth <= sent' /\ ~Queued(j)'
                        /\ \A d \in Clients : pc'[d] = "push" => j # Job(d)'
      BY <1>b DEF Gone
    <3>1. j.nth <= sent /\ ~Queued(j) /\ j # Job(c) /\ \A d \in Clients : pc[d] = "push" => j # Job(d)
      BY <1>0, <2>1 DEF Gone
    <3>2. ~Queued(j)'
      BY <2>4, <2>6, <3>1 DEF Queued
    <3> QED
      BY <2>1, <2>2, <3>1, <3>2
  <2> QED
    BY <2>7, <2>8, <2>9, <2>10 DEF JobInv
<1>3. CASE Count(c) \/ Timeout(c)
  <2>1. /\ pc'[c] \in {"wait", "expired"} /\ UNCHANGED <<sent, n, side, queue>>
        /\ \A d \in Clients \ {c} : pc'[d] = pc[d]
    BY <1>3, <1>a DEF Count, Timeout, Goto, queueVars, HandlerType
  <2>2. \A d \in Clients : Job(d)' = Job(d) /\ (pc'[d] = "push" => pc[d] = "push")
    BY <2>1 DEF Job
  <2>3. Unique' /\ QueuedIsAwaited' /\ Numbered'
    BY <1>0, <2>1, <2>2 DEF Unique, QueuedIsAwaited, Numbered
  <2>4. Gone'
    BY <1>0, <1>b, <2>1, <2>2 DEF Gone, Queued
  <2> QED
    BY <2>3, <2>4 DEF JobInv
<1>4. CASE Finished(c) \/ Reply(c) \/ Detach(c)
  <2>1. /\ pc'[c] \in {"result", "idle", "gone"} /\ UNCHANGED <<sent, n, side, queue>>
        /\ \A d \in Clients \ {c} : pc'[d] = pc[d]
    BY <1>4, <1>a DEF Finished, Reply, Detach, Goto, queueVars, HandlerType
  <2>2. \A d \in Clients : Job(d)' = Job(d) /\ (pc'[d] = "push" => pc[d] = "push")
    BY <2>1 DEF Job
  <2>3. ~Queued(Job(c))
    <3>1. CASE Finished(c)
      <4>1. Job(c) \in done /\ Job(c) \in Jobs
        BY <1>a, <3>1 DEF Finished, HandlerType, Job, Jobs
      <4> QED
        BY <1>0, <4>1 DEF Gone, Past
    <3>2. CASE Reply(c) \/ Detach(c)
      <4>1. pc[c] \notin {"count", "wait", "expired"}
        BY <3>2 DEF Reply, Detach
      <4> QED
        BY <1>0, <1>c, <4>1 DEF QueuedIsAwaited, Queued
    <3> QED
      BY <1>4, <3>1, <3>2
  <2>4. QueuedIsAwaited'
    BY <1>0, <2>1, <2>2, <2>3 DEF QueuedIsAwaited, Queued
  <2>5. Unique' /\ Numbered'
    BY <1>0, <2>1 DEF Unique, Numbered
  <2>6. Gone'
    BY <1>0, <1>b, <2>1, <2>2 DEF Gone, Queued
  <2> QED
    BY <2>4, <2>5, <2>6 DEF JobInv
<1>5. CASE Withdraw(c)
  <2>1. /\ pc'[c] = "timeout" /\ UNCHANGED <<sent, n, side>> /\ queue' = Withdrawn(c)
        /\ \A d \in Clients \ {c} : pc'[d] = pc[d]
    BY <1>5, <1>a DEF Withdraw, Goto, HandlerType
  <2>2. \A d \in Clients : Job(d)' = Job(d) /\ (pc'[d] = "push" => pc[d] = "push")
    BY <2>1 DEF Job
  <2>3. /\ Unique' /\ \A k \in 1..Len(queue') : queue'[k] # Job(c)
        /\ \A k \in 1..Len(queue') : \E m \in 1..Len(queue) : queue'[k] = queue[m]
    <3>1. CASE Queued(Job(c))
      <4>1. PICK i \in 1..Len(queue) : i = Position(Job(c)) /\ queue[i] = Job(c)
        BY <3>1 DEF Queued, Position
      <4>2. queue' = Without(i)
        BY <2>1, <3>1, <4>1 DEF Withdrawn
      <4> QED
        BY <1>0, <4>1, <4>2, Erased
    <3>2. CASE ~Queued(Job(c))
      BY <1>0, <2>1, <3>2 DEF Withdrawn, Queued, Unique
    <3> QED
      BY <3>1, <3>2
  <2>4. QueuedIsAwaited'
    BY <1>0, <2>1, <2>2, <2>3 DEF QueuedIsAwaited
  <2>5. Numbered'
    BY <1>0, <2>1 DEF Numbered
  <2>6. Gone'
    BY <1>0, <1>b, <2>1, <2>2, <2>3 DEF Gone, Queued
  <2> QED
    BY <2>3, <2>4, <2>5, <2>6 DEF JobInv
<1> QED
  BY <1>1, <1>2, <1>3, <1>4, <1>5 DEF Handler

(* A pump's step keeps JobInv.                                              *)
LEMMA PumpJobs ==
  ASSUME Typed, JobInv, NEW p \in Pumps,
         PumpServer(p) \/ Take(p) \/ PumpEnds(p) \/ Subtract(p) \/ EvalEnds(p)
  PROVE  JobInv'
<1>0. StackInv /\ Unique /\ QueuedIsAwaited /\ Numbered /\ Gone
  BY DEF JobInv, Typed
<1>1. CASE PumpServer(p)
  <2>1. \A j \in Jobs : Past(j)' => Past(j)
    BY <1>0, <1>1, PastPushed DEF PumpServer, queueVars
  <2> QED
    BY <1>1, <2>1, JobInvKept DEF PumpServer, queueVars
<1>2. CASE PumpEnds(p)
  <2>1. \A j \in Jobs : Past(j)' => Past(j)
    BY <1>0, <1>2, PastPopped DEF PumpEnds, In, queueVars
  <2> QED
    BY <1>2, <2>1, JobInvKept DEF PumpEnds, queueVars
<1>3. CASE Subtract(p)
  <2>1. PICK job \in Jobs : job = Top(p).job
    BY <1>0, <1>3, TopFrame DEF Subtract
  <2>2. Past(job)
    BY <1>0, <1>3, <2>1, TopFrame DEF Subtract, Past
  <2>3. stack[p] # <<>> /\ stack' = [stack EXCEPT ![p] = <<Frame("eval", job)>> \o Tail(@)]
        /\ done' = done
    BY <1>3, <2>1 DEF Subtract, In, SetTop
  <2>4. Frame("eval", job) \in Frames /\ Frame("eval", job).job = job
    BY FramesTyped DEF Frame
  <2>5. \A j \in Jobs : Past(j)' => Past(j)
    <3> SUFFICES ASSUME NEW j \in Jobs, Past(j)', j # job, j \notin done PROVE Past(j)
      BY <2>2 DEF Past
    <3> QED
      BY <1>0, <2>3, <2>4, PastReplaced
  <2> QED
    BY <1>3, <2>5, JobInvKept DEF Subtract
<1>4. CASE EvalEnds(p)
  <2>1. PICK job \in Jobs : job = Top(p).job
    BY <1>0, <1>4, TopFrame DEF EvalEnds
  <2>2. Past(job)
    BY <1>0, <1>4, <2>1, TopFrame DEF EvalEnds, Past
  <2>3. stack[p] # <<>> /\ stack' = [stack EXCEPT ![p] = <<Looking>> \o Tail(@)]
        /\ done' = done \cup {job}
    BY <1>4, <2>1 DEF EvalEnds, In, SetTop
  <2>4. Looking \in Frames /\ Looking.at = "look"
    BY FramesTyped DEF Looking
  <2>5. \A j \in Jobs : Past(j)' => Past(j)
    <3> SUFFICES ASSUME NEW j \in Jobs, Past(j)', j # job, j \notin done PROVE Past(j)
      BY <2>2 DEF Past
    <3> QED
      BY <1>0, <2>3, <2>4, PastReplaced
  <2> QED
    BY <1>4, <2>5, JobInvKept DEF EvalEnds
<1>5. CASE Take(p)
  <2>1. PICK i \in 1..Len(queue) : SetTop(p, Frame("subtract", queue[i])) /\ queue' = Without(i)
    BY <1>5 DEF Take
  <2>2. queue[i] \in Jobs
    BY <2>1, ElementOfSeq DEF Typed, QueueType
  <2>3. PICK job \in Jobs : job = queue[i]
    BY <2>2
  <2>4. stack[p] # <<>> /\ stack' = [stack EXCEPT ![p] = <<Frame("subtract", job)>> \o Tail(@)]
        /\ UNCHANGED <<done, pc, sent, n, side>>
    BY <1>5, <2>1, <2>3 DEF Take, In, SetTop, handlerVars
  <2>5. Frame("subtract", job) \in Frames /\ Frame("subtract", job).job = job
    BY FramesTyped DEF Frame
  <2>6. /\ Unique' /\ \A k \in 1..Len(queue') : queue'[k] # job
        /\ \A k \in 1..Len(queue') : \E m \in 1..Len(queue) : queue'[k] = queue[m]
    BY <1>0, <2>1, <2>3, Erased
  <2>7. \A c \in Clients : Job(c)' = Job(c)
    BY <2>4 DEF Job
  <2>8. QueuedIsAwaited' /\ Numbered'
    BY <1>0, <2>4, <2>6, <2>7 DEF QueuedIsAwaited, Numbered
  <2>9. PICK c \in Clients : job = Job(c) /\ pc[c] \in {"count", "wait", "expired"}
    BY <1>0, <2>3 DEF QueuedIsAwaited
  <2>10. job.nth <= sent /\ \A d \in Clients : pc[d] = "push" => job # Job(d)
    <3>1. job.nth = n[c] /\ job.from = c
      BY <2>9 DEF Job
    <3>2. \A d \in Clients : Job(d).from = d
      BY DEF Job
    <3> QED
      BY <1>0, <2>9, <3>1, <3>2 DEF Numbered
  <2>11. Gone'
    <3> SUFFICES ASSUME NEW j \in Jobs, Past(j)'
                 PROVE  /\ j.nth <= sent /\ ~Queued(j)'
                        /\ \A d \in Clients : pc[d] = "push" => j # Job(d)
      BY <2>4, <2>7 DEF Gone
    <3>1. CASE j = job
      BY <2>6, <2>10, <3>1 DEF Queued
    <3>2. CASE j # job
      <4>1. Past(j)
        <5>1. CASE j \in done
          BY <5>1 DEF Past
        <5>2. CASE j \notin done
          BY <1>0, <2>4, <2>5, <3>2, <5>2, PastReplaced
        <5> QED
          BY <5>1, <5>2
      <4> QED
        BY <1>0, <2>6, <4>1 DEF Gone, Queued
    <3> QED
      BY <3>1, <3>2
  <2> QED
    BY <2>6, <2>8, <2>11 DEF JobInv
<1> QED
  BY <1>1, <1>2, <1>3, <1>4, <1>5

(* Every step keeps JobInv.                                                 *)
LEMMA StepJobs == Typed /\ JobInv /\ [Next]_vars => JobInv'
<1> SUFFICES ASSUME Typed, JobInv, [Next]_vars PROVE JobInv'
  OBVIOUS
<1>1. CASE PumpClient
  <2>1. CASE pending = 0
    <3>1. UNCHANGED <<handlerVars, queueVars, stack>>
      BY <1>1, <2>1 DEF PumpClient
    <3>2. \A j \in Jobs : Past(j)' => Past(j)
      BY <3>1 DEF Past, Busy, queueVars
    <3> QED
      BY <3>1, <3>2, JobInvKept DEF queueVars
  <2>2. CASE pending # 0
    <3>1. \A j \in Jobs : Past(j)' => Past(j)
      BY <1>1, <2>2, PumpClientPushes, PastPushed DEF PumpClient, queueVars, Typed
    <3> QED
      BY <1>1, <3>1, JobInvKept DEF PumpClient, queueVars
  <2> QED
    BY <2>1, <2>2
<1>2. CASE StoryChanges \/ UNCHANGED vars
  <2>1. UNCHANGED <<handlerVars, queueVars, stack>>
    BY <1>2 DEF StoryChanges, vars
  <2>2. \A j \in Jobs : Past(j)' => Past(j)
    BY <2>1 DEF Past, Busy, queueVars
  <2> QED
    BY <2>1, <2>2, JobInvKept DEF queueVars
<1> QED
  BY <1>1, <1>2, HandlerJobs, PumpJobs DEF Next

(* A pump is called from an evaluation, and goes on there when it ends.     *)
LEMMA StepNested == Typed /\ Nested /\ [Next]_vars => Nested'
<1> SUFFICES ASSUME Typed, Nested, [Next]_vars PROVE Nested'
  OBVIOUS
<1>0. StackInv
  BY DEF Typed
<1>1. ASSUME NEW p \in Pumps, stack[p] = <<>> \/ In(p, "eval"),
             stack' = [stack EXCEPT ![p] = <<Looking>> \o @]
      PROVE  Nested'
  <2>1. /\ \A q \in Pumps \ {p} : stack'[q] = stack[q]
        /\ Len(stack'[p]) = Len(stack[p]) + 1 /\ Len(stack[p]) \in Nat
        /\ \A i \in 2..Len(stack'[p]) : i - 1 \in 1..Len(stack[p]) /\ stack'[p][i] = stack[p][i - 1]
    BY <1>0, <1>1, Pushed, FramesTyped, LenProperties DEF StackInv
  <2>2. \A i \in 1..Len(stack[p]) : stack[p][i].at = "eval"
    <3>1. CASE stack[p] = <<>>
      BY <3>1
    <3>2. CASE In(p, "eval")
      <4>1. stack[p][1].at = "eval"
        BY <1>0, <3>2, TopFrame
      <4> QED
        BY <2>1, <4>1 DEF Nested
    <3> QED
      BY <1>1, <3>1, <3>2
  <2>3. ASSUME NEW q \in Pumps, NEW i \in 2..Len(stack'[q]) PROVE stack'[q][i].at = "eval"
    <3>1. CASE q = p
      BY <2>1, <2>2, <3>1
    <3>2. CASE q # p
      BY <2>1, <3>2 DEF Nested
    <3> QED
      BY <3>1, <3>2
  <2> QED
    BY <2>3 DEF Nested
<1>2. ASSUME NEW p \in Pumps, PumpEnds(p) PROVE Nested'
  <2>1. /\ \A q \in Pumps \ {p} : stack'[q] = stack[q]
        /\ \A i \in 1..Len(stack'[p]) : i + 1 \in 1..Len(stack[p]) /\ stack'[p][i] = stack[p][i + 1]
    BY <1>0, <1>2, Popped DEF PumpEnds, In
  <2>2. \A i \in 2..Len(stack'[p]) : i \in 1..Len(stack'[p]) /\ i + 1 \in 2..Len(stack[p])
    <3>1. Len(stack'[p]) \in Nat /\ Len(stack[p]) \in Nat
      BY <1>0, <1>2, Popped, LenProperties DEF StackInv, PumpEnds, In
    <3> QED
      BY <2>1, <3>1
  <2>3. \A i \in 2..Len(stack'[p]) : stack'[p][i].at = "eval"
    BY <2>1, <2>2 DEF Nested
  <2>4. \A q \in Pumps \ {p} : \A i \in 2..Len(stack'[q]) : stack'[q][i].at = "eval"
    BY <2>1 DEF Nested
  <2> QED
    BY <2>3, <2>4 DEF Nested
<1>3. ASSUME NEW p \in Pumps, NEW f \in Frames, stack[p] # <<>>,
             stack' = [stack EXCEPT ![p] = <<f>> \o Tail(@)]
      PROVE  Nested'
  BY <1>0, <1>3, Replaced DEF Nested
<1>4. ASSUME NEW p \in Pumps, Take(p) PROVE Nested'
  <2>1. PICK i \in 1..Len(queue) : SetTop(p, Frame("subtract", queue[i]))
    BY <1>4 DEF Take
  <2>2. queue[i] \in Jobs
    BY <2>1, ElementOfSeq DEF Typed, QueueType
  <2>3. PICK job \in Jobs : job = queue[i]
    BY <2>2
  <2> QED
    BY <1>3, <1>4, <2>1, <2>3, FramesTyped DEF Take, In, SetTop
<1>5. ASSUME NEW p \in Pumps, Subtract(p) PROVE Nested'
  <2>1. PICK job \in Jobs : job = Top(p).job
    BY <1>0, <1>5, TopFrame DEF Subtract
  <2> QED
    BY <1>3, <1>5, <2>1, FramesTyped DEF Subtract, In, SetTop
<1>6. ASSUME NEW p \in Pumps, EvalEnds(p) PROVE Nested'
  BY <1>3, <1>6, FramesTyped DEF EvalEnds, In, SetTop
<1>7. ASSUME NEW p \in Pumps, PumpServer(p) PROVE Nested'
  BY <1>1, <1>7 DEF PumpServer
<1>8. CASE UNCHANGED stack
  BY <1>8 DEF Nested
<1>9. CASE PumpClient
  <2>1. CASE pending # 0
    BY <1>1, <1>9, <2>1, PumpClientPushes DEF PumpClient
  <2>2. CASE pending = 0
    BY <1>8, <1>9, <2>2 DEF PumpClient
  <2> QED
    BY <2>1, <2>2
<1> QED
  BY <1>2, <1>4, <1>5, <1>6, <1>7, <1>8, <1>9
  DEF Next, Handler, Evaluate, Push, Count, Finished, Timeout, Withdraw, Reply, Detach,
      StoryChanges, vars

-----------------------------------------------------------------------------
(* A member that joins or leaves Counting or Subtracting changes the number *)
(* by one.                                                                  *)
LEMMA CountsMove ==
  ASSUME NEW S, NEW T, NEW x, IsFiniteSet(S)
  PROVE  /\ Cardinality(S) \in Nat
         /\ (x \notin S /\ T = S \cup {x} => Cardinality(T) = Cardinality(S) + 1)
         /\ (x \in S /\ T = S \ {x} => Cardinality(T) = Cardinality(S) - 1)
  BY FS_CardinalityType, FS_AddElement, FS_RemoveElement

(* There are finitely many of each.                                         *)
LEMMA CountsFinite == IsFiniteSet(Counting) /\ IsFiniteSet(Subtracting)
<1>1. IsFiniteSet(Counting)
  BY ConstantsAssumption, FS_Subset DEF Counting
<1>2. IsFiniteSet(Subtracting)
  BY PumpsFinite, FS_Subset DEF Subtracting
<1> QED
  BY <1>1, <1>2

(* The innermost frame, as In sees it.                                      *)
LEMMA InTop ==
  ASSUME NEW F, NEW s \in Seq(F), s # <<>>
  PROVE  Head(s) = s[1]
  BY EmptySeq

(* A connection's step keeps the counter and the queue apart by Counting.   *)
LEMMA HandlerCounts ==
  ASSUME Inv, NEW c \in Clients,
         Handler(c) \/ Timeout(c) \/ Detach(c) \/ \E s \in Contexts : Evaluate(c, s)
  PROVE  CountInv'
<1>0. /\ HandlerType /\ queue \in Seq(Jobs) /\ Len(queue) \in Nat /\ pending \in Int
      /\ pending = Len(queue) + Cardinality(Subtracting) - Cardinality(Counting)
  BY LenProperties DEF Inv, Typed, QueueType, CountInv
<1>1. Subtracting' = Subtracting
  BY DEF Subtracting, In, Top, Evaluate, Handler, Push, Count, Finished, Timeout, Withdraw, Reply,
         Detach
<1>2. Cardinality(Subtracting) \in Nat /\ Cardinality(Counting) \in Nat /\ IsFiniteSet(Counting)
  BY CountsFinite, FS_CardinalityType
<1>3. CASE Push(c)
  <2>1. c \notin Counting /\ Counting' = Counting \cup {c}
    BY <1>0, <1>3 DEF Push, Goto, HandlerType, Counting
  <2>2. Cardinality(Counting') = Cardinality(Counting) + 1
    BY <1>2, <2>1, CountsMove
  <2>3. Job(c) \in Jobs
    BY <1>0 DEF HandlerType, Job, Jobs
  <2>4. Len(queue') = Len(queue) + 1 /\ pending' = pending
    BY <1>0, <1>3, <2>3 DEF Push
  <2>5. pending = (Len(queue) + 1) + Cardinality(Subtracting) - (Cardinality(Counting) + 1)
    BY <1>0, <1>2
  <2> QED
    BY <1>1, <2>2, <2>4, <2>5, Zenon DEF CountInv
<1>4. CASE Count(c)
  <2>1. c \in Counting /\ Counting' = Counting \ {c}
    BY <1>0, <1>4 DEF Count, Goto, HandlerType, Counting
  <2>2. Cardinality(Counting') = Cardinality(Counting) - 1
    BY <1>2, <2>1, CountsMove
  <2>3. queue' = queue /\ pending' = pending + 1
    BY <1>4 DEF Count
  <2> QED
    BY <1>0, <1>1, <1>2, <2>2, <2>3 DEF CountInv
<1>5. CASE Withdraw(c)
  <2>1. Counting' = Counting
    BY <1>0, <1>5 DEF Withdraw, Goto, HandlerType, Counting
  <2>2. queue' = Withdrawn(c) /\ pending' = CountedOut(c)
    BY <1>5 DEF Withdraw
  <2>3. CASE Queued(Job(c))
    <3>1. Position(Job(c)) \in 1..Len(queue)
      BY <2>3 DEF Queued, Position
    <3>2. Len(queue') = Len(queue) - 1
      BY <1>0, <2>2, <2>3, <3>1, WithoutProperties DEF Withdrawn
    <3>3. pending' = pending - 1
      BY <2>2, <2>3 DEF CountedOut
    <3> QED
      BY <1>0, <1>1, <1>2, <2>1, <3>2, <3>3 DEF CountInv
  <2>4. CASE ~Queued(Job(c))
    BY <1>0, <1>1, <2>1, <2>2, <2>4 DEF CountInv, Withdrawn, CountedOut
  <2> QED
    BY <2>3, <2>4
<1>6. CASE Finished(c) \/ Timeout(c) \/ Reply(c) \/ Detach(c) \/ \E s \in Contexts : Evaluate(c, s)
  <2>1. pc[c] # "count" /\ pc'[c] # "count" /\ \A d \in Clients \ {c} : pc'[d] = pc[d]
    BY <1>0, <1>6 DEF Finished, Timeout, Reply, Detach, Evaluate, Goto, HandlerType
  <2>2. Counting' = Counting
    BY <2>1 DEF Counting
  <2>3. UNCHANGED queueVars
    BY <1>6 DEF Finished, Timeout, Reply, Detach, Evaluate
  <2> QED
    BY <1>0, <1>1, <2>2, <2>3 DEF CountInv, queueVars
<1> QED
  BY <1>3, <1>4, <1>5, <1>6 DEF Handler

(* A pump's step, by Subtracting.                                           *)
LEMMA PumpCounts ==
  ASSUME Inv, NEW p \in Pumps,
         PumpServer(p) \/ Take(p) \/ PumpEnds(p) \/ Subtract(p) \/ EvalEnds(p)
  PROVE  CountInv'
<1>0. /\ StackInv /\ Nested /\ queue \in Seq(Jobs) /\ Len(queue) \in Nat /\ pending \in Int
      /\ pending = Len(queue) + Cardinality(Subtracting) - Cardinality(Counting)
  BY LenProperties DEF Inv, Typed, QueueType, CountInv
<1>1. Counting' = Counting
  BY DEF Counting, PumpServer, Take, PumpEnds, Subtract, EvalEnds, handlerVars
<1>2. /\ Cardinality(Subtracting) \in Nat /\ Cardinality(Counting) \in Nat
      /\ IsFiniteSet(Subtracting)
  BY CountsFinite, FS_CardinalityType
<1>3. ASSUME NEW f \in Frames, stack[p] # <<>>, stack' = [stack EXCEPT ![p] = <<f>> \o Tail(@)]
      PROVE  /\ (In(p, "subtract"))' <=> f.at = "subtract"
             /\ \A q \in Pumps \ {p} : (In(q, "subtract"))' <=> In(q, "subtract")
  <2>1. /\ \A q \in Pumps \ {p} : stack'[q] = stack[q] /\ stack'[p] # <<>> /\ stack'[p][1] = f
        /\ StackInv' /\ stack'[p] # <<>> /\ stack'[p][1] = f
    BY <1>0, <1>3, Replaced
  <2>2. Head(stack'[p]) = f
    BY <2>1, InTop DEF StackInv
  <2> QED
    BY <2>1, <2>2 DEF In, Top
<1>4. CASE Take(p)
  <2>1. PICK i \in 1..Len(queue) : SetTop(p, Frame("subtract", queue[i])) /\ queue' = Without(i)
    BY <1>4 DEF Take
  <2>2. queue[i] \in Jobs
    BY <1>0, <2>1, ElementOfSeq
  <2>3. PICK job \in Jobs : job = queue[i]
    BY <2>2
  <2>4. stack[p] # <<>> /\ stack' = [stack EXCEPT ![p] = <<Frame("subtract", job)>> \o Tail(@)]
        /\ ~In(p, "subtract") /\ pending' = pending
    BY <1>4, <2>1, <2>3 DEF Take, In, SetTop
  <2>5. Frame("subtract", job) \in Frames /\ Frame("subtract", job).at = "subtract"
    BY FramesTyped DEF Frame
  <2>6. p \notin Subtracting /\ Subtracting' = Subtracting \cup {p}
    BY <1>3, <2>4, <2>5 DEF Subtracting
  <2>7. Cardinality(Subtracting') = Cardinality(Subtracting) + 1
    BY <1>2, <2>6, CountsMove
  <2>8. Len(queue') = Len(queue) - 1
    BY <1>0, <2>1, WithoutProperties
  <2> QED
    BY <1>0, <1>1, <1>2, <2>4, <2>7, <2>8 DEF CountInv
<1>5. CASE Subtract(p)
  <2>1. PICK job \in Jobs : job = Top(p).job
    BY <1>0, <1>5, TopFrame DEF Subtract
  <2>2. stack[p] # <<>> /\ stack' = [stack EXCEPT ![p] = <<Frame("eval", job)>> \o Tail(@)]
        /\ In(p, "subtract") /\ pending' = pending - 1 /\ queue' = queue
    BY <1>5, <2>1 DEF Subtract, In, SetTop
  <2>3. Frame("eval", job) \in Frames /\ Frame("eval", job).at = "eval"
    BY FramesTyped DEF Frame
  <2>4. p \in Subtracting /\ Subtracting' = Subtracting \ {p}
    BY <1>3, <2>2, <2>3 DEF Subtracting
  <2>5. Cardinality(Subtracting') = Cardinality(Subtracting) - 1
    BY <1>2, <2>4, CountsMove
  <2> QED
    BY <1>0, <1>1, <1>2, <2>2, <2>5 DEF CountInv
<1>6. CASE EvalEnds(p)
  <2>1. stack[p] # <<>> /\ stack' = [stack EXCEPT ![p] = <<Looking>> \o Tail(@)]
        /\ ~In(p, "subtract") /\ pending' = pending /\ queue' = queue
    BY <1>6 DEF EvalEnds, In, SetTop
  <2>2. Looking \in Frames /\ Looking.at = "look"
    BY FramesTyped DEF Looking
  <2>3. Subtracting' = Subtracting
    BY <1>3, <2>1, <2>2 DEF Subtracting
  <2> QED
    BY <1>0, <1>1, <2>1, <2>3 DEF CountInv
<1>7. CASE PumpServer(p)
  <2>1. /\ ~In(p, "subtract") /\ stack' = [stack EXCEPT ![p] = <<Looking>> \o @]
        /\ pending' = pending /\ queue' = queue
    BY <1>7 DEF PumpServer, In, queueVars
  <2>2. /\ \A q \in Pumps \ {p} : stack'[q] = stack[q]
        /\ StackInv' /\ Len(stack'[p]) = Len(stack[p]) + 1 /\ stack'[p][1] = Looking
    BY <1>0, <2>1, Pushed, FramesTyped
  <2>3. Len(stack[p]) \in Nat /\ stack'[p] # <<>>
    <3>1. Len(stack[p]) \in Nat
      BY <1>0, LenProperties DEF StackInv
    <3>2. Len(stack'[p]) # 0 /\ Len(<<>>) = 0
      BY <2>2, <3>1
    <3> QED
      BY <3>1, <3>2, Zenon
  <2>4. Head(stack'[p]) = Looking /\ Looking.at = "look"
    BY <2>2, <2>3, InTop DEF StackInv, Looking
  <2>5. Subtracting' = Subtracting
    BY <2>1, <2>2, <2>4 DEF Subtracting, In, Top
  <2> QED
    BY <1>0, <1>1, <2>1, <2>5 DEF CountInv
<1>8. CASE PumpEnds(p)
  <2>1. /\ ~In(p, "subtract") /\ stack[p] # <<>> /\ stack' = [stack EXCEPT ![p] = Tail(@)]
        /\ pending' = pending /\ queue' = queue
    BY <1>8 DEF PumpEnds, In, queueVars
  <2>2. /\ \A q \in Pumps \ {p} : stack'[q] = stack[q]
        /\ StackInv' /\ Len(stack'[p]) = Len(stack[p]) - 1
        /\ \A i \in 1..Len(stack'[p]) : i + 1 \in 1..Len(stack[p]) /\ stack'[p][i] = stack[p][i + 1]
    BY <1>0, <2>1, Popped
  <2>3. ~(In(p, "subtract"))'
    <3> SUFFICES ASSUME stack'[p] # <<>> PROVE Head(stack'[p]).at # "subtract"
      BY DEF In, Top
    <3>1. Len(stack'[p]) \in Nat \ {0}
      BY <2>2, EmptySeq DEF StackInv
    <3>2. 2 \in 2..Len(stack[p]) /\ stack'[p][1] = stack[p][2]
      BY <2>2, <3>1
    <3>3. Head(stack'[p]) = stack'[p][1]
      BY <2>2, InTop DEF StackInv
    <3> QED
      BY <1>0, <3>2, <3>3 DEF Nested
  <2>4. Subtracting' = Subtracting
    BY <2>1, <2>2, <2>3 DEF Subtracting, In, Top
  <2> QED
    BY <1>0, <1>1, <2>1, <2>4 DEF CountInv
<1> QED
  BY <1>4, <1>5, <1>6, <1>7, <1>8

(* Inv is inductive.                                                        *)
LEMMA StepInv == Inv /\ [Next]_vars => Inv'
<1> SUFFICES ASSUME Inv, [Next]_vars PROVE CountInv'
  BY StepTyped, StepJobs, StepNested DEF Inv
<1>1. CASE PumpClient
  <2>1. Counting' = Counting /\ UNCHANGED <<pending, queue>>
    BY <1>1 DEF PumpClient, handlerVars, queueVars, Counting
  <2>2. Subtracting' = Subtracting
    <3>1. CASE pending = 0
      BY <1>1, <3>1 DEF PumpClient, Subtracting, In, Top
    <3>2. CASE pending # 0
      <4>1. stack["client"] = <<>> /\ stack' = [stack EXCEPT !["client"] = <<Looking>>]
        BY <1>1, <3>2 DEF PumpClient
      <4>2. stack'["client"] = <<Looking>> /\ \A q \in Pumps \ {"client"} : stack'[q] = stack[q]
        BY <4>1 DEF Inv, Typed, StackInv, Pumps
      <4>3. Head(<<Looking>>).at = "look"
        BY DEF Looking
      <4>4. ~In("client", "subtract") /\ ~(In("client", "subtract"))'
        BY <4>1, <4>2, <4>3 DEF In, Top
      <4> QED
        BY <4>2, <4>4 DEF Subtracting, In, Top
    <3> QED
      BY <3>1, <3>2
  <2> QED
    BY <2>1, <2>2 DEF Inv, CountInv
<1>2. CASE StoryChanges \/ UNCHANGED vars
  BY <1>2 DEF StoryChanges, vars, handlerVars, queueVars, Inv, CountInv, Counting, Subtracting, In,
              Top
<1> QED
  BY <1>1, <1>2, HandlerCounts, PumpCounts DEF Next

(* Inv always holds.                                                        *)
LEMMA Inductive == Spec => []Inv
  BY InitInv, StepInv, PTL DEF Spec

(* Once nobody is between the queue and the counter, g_pending is the       *)
(* number of jobs queued, so the client's pump passes none by.              *)
THEOREM PendingCounts == Spec => []PendingCountsQueue
<1>1. Inv => PendingCountsQueue
  <2> SUFFICES ASSUME Inv, Settled PROVE pending = Len(queue)
    BY DEF PendingCountsQueue
  <2>1. Counting = {} /\ Subtracting = {}
    BY DEF Settled, Counting, Subtracting
  <2>2. Len(queue) \in Nat
    BY LenProperties DEF Inv, Typed, QueueType
  <2> QED
    BY <2>1, <2>2, FS_EmptySet DEF Inv, CountInv
<1> QED
  BY <1>1, Inductive, PTL

(* A job in the queue has a caller that still waits for it: what timed out  *)
(* was withdrawn or had been taken before.                                  *)
THEOREM QueuedAwaited == Spec => []QueuedIsAwaited
<1>1. Inv => QueuedIsAwaited
  BY DEF Inv, JobInv
<1> QED
  BY <1>1, Inductive, PTL
-----------------------------------------------------------------------------
(* The service that the queue and the pumps implement.  A frame that has a  *)
(* job is the only one that has it, until the job is done.  A number is the *)
(* number of one evaluation, of one connection, and no evaluation was       *)
(* answered while its connection is at it.                                  *)
On(p, i, j) == Busy(p, i) /\ stack[p][i].job = j
OnceInv ==
    \A p \in Pumps : \A i, j : On(p, i, j) =>
        j \notin done /\ \A q \in Pumps : \A k : On(q, k, j) => p = q /\ i = k
AtIt(c) == pc[c] \notin {"idle", "gone"}
NumberInv ==
    /\ \A j : Past(j) => j.nth \in 1..sent
    /\ \A j, k : Past(j) /\ Past(k) /\ j.nth = k.nth => j = k
    /\ \A j : \A c \in Clients : Past(j) /\ j.nth = n[c] => j = Job(c) /\ pc[c] # "refuse"
    /\ \A c, d \in Clients : n[c] = n[d] /\ n[c] # 0 => c = d
    /\ \A c \in Clients : AtIt(c) => n[c] # 0
AnswerInv ==
    /\ \A c \in Clients : pc[c] = "result" => Job(c) \in done
    /\ \A a \in answers : a.to \in 1..sent /\ \A c \in Clients : AtIt(c) => a.to # n[c]
SentInv == sent <= MaxEvals
ServiceInv == OnceInv /\ NumberInv /\ AnswerInv /\ SentInv

(* What was taken is what frames have or had.                               *)
LEMMA PastIs ==
  ASSUME Typed
  PROVE  /\ \A j : Past(j) <=> j \in done \cup Taken
         /\ \A j : Past(j) => j \in Jobs
         /\ \A j : Past(j) <=> j \in done \/ \E p \in Pumps : \E i : On(p, i, j)
  <1>1. StackInv /\ done \subseteq Jobs BY DEF Typed, QueueType
  <1>2. ASSUME NEW p \in Pumps, NEW i \in 1..Len(stack[p]) PROVE stack[p][i] \in Frames
    BY <1>1, ElementOfSeq DEF StackInv
  <1>3. \A j \in Jobs : j # NoJob
    <2>. SUFFICES ASSUME NEW j \in Jobs, j = NoJob PROVE FALSE OBVIOUS
    <2>1. "nth" \in DOMAIN j BY DEF Jobs
    <2>2. "nth" \notin DOMAIN NoJob BY DEF NoJob
    <2>. QED BY <2>1, <2>2
  <1>4. \A p \in Pumps : \A i \in 1..Len(stack[p]) :
           /\ stack[p][i].at # "look" => stack[p][i].job \in Jobs
           /\ stack[p][i].at = "look" => stack[p][i].job = NoJob
    BY <1>2 DEF Frames
  <1>5. \A j : j \in Taken <=> \E p \in Pumps : \E i \in 1..Len(stack[p]) : stack[p][i].job = j /\ j # NoJob
    BY DEF Taken
  <1>6. \A j : j \in Taken <=> \E p \in Pumps : \E i : On(p, i, j)
    BY <1>3, <1>4, <1>5 DEF On, Busy
  <1>7. \A j : Past(j) <=> j \in done \/ \E p \in Pumps : \E i : On(p, i, j)
    BY DEF Past, On, Busy
  <1>8. \A p \in Pumps : \A i, j : On(p, i, j) => j \in Jobs BY <1>4 DEF On, Busy
  <1>. QED BY <1>1, <1>6, <1>7, <1>8

(* Where the frames are after one is put on top, one ends, and the top one  *)
(* is replaced.                                                             *)
LEMMA OnPushed ==
  ASSUME StackInv, NEW p \in Pumps, stack' = [stack EXCEPT ![p] = <<Looking>> \o @]
  PROVE  \A q \in Pumps : \A i, j : On(q, i, j)' <=> \/ q # p /\ On(q, i, j)
                                                     \/ q = p /\ i \in 2..(Len(stack[p]) + 1) /\ On(q, i - 1, j)
  <1>1. /\ \A q \in Pumps \ {p} : stack'[q] = stack[q]
        /\ Len(stack'[p]) = Len(stack[p]) + 1 /\ stack'[p][1] = Looking
        /\ \A i \in 2..Len(stack'[p]) : i - 1 \in 1..Len(stack[p]) /\ stack'[p][i] = stack[p][i - 1]
    BY Pushed, FramesTyped
  <1>2. Len(stack[p]) \in Nat BY LenProperties DEF StackInv
  <1>3. Looking.at = "look" BY DEF Looking
  <1>. TAKE q \in Pumps
  <1>. TAKE i, j
  <1>4. CASE q # p BY <1>1, <1>4 DEF On, Busy
  <1>5. CASE q = p
    <2>1. CASE i \in 2..(Len(stack[p]) + 1)
      <3>1. i \in 1..Len(stack'[p]) /\ i - 1 \in 1..Len(stack[p]) /\ stack'[p][i] = stack[p][i - 1]
        BY <1>1, <1>2, <2>1
      <3>. QED BY <1>5, <2>1, <3>1 DEF On, Busy
    <2>2. CASE i \notin 2..(Len(stack[p]) + 1)
      <3>1. i \in 1..Len(stack'[p]) => i = 1 BY <1>1, <1>2, <2>2
      <3>2. ~On(p, i, j)' BY <1>1, <1>3, <3>1 DEF On, Busy
      <3>. QED BY <1>5, <2>2, <3>2
    <2>. QED BY <2>1, <2>2
  <1>. QED BY <1>4, <1>5

(* A pump that ends: the frames below it move up.                           *)
LEMMA OnPopped ==
  ASSUME StackInv, NEW p \in Pumps, In(p, "look"), stack' = [stack EXCEPT ![p] = Tail(@)]
  PROVE  /\ ~\E j : On(p, 1, j)
         /\ \A q \in Pumps : \A i, j : On(q, i, j)' <=> \/ q # p /\ On(q, i, j)
                                                        \/ q = p /\ i \in 1..(Len(stack[p]) - 1) /\ On(q, i + 1, j)
  <1>1. stack[p] # <<>> /\ stack[p] \in Seq(Frames) BY DEF In, StackInv
  <1>2. /\ \A q \in Pumps \ {p} : stack'[q] = stack[q]
        /\ Len(stack'[p]) = Len(stack[p]) - 1
        /\ \A i \in 1..Len(stack'[p]) : i + 1 \in 1..Len(stack[p]) /\ stack'[p][i] = stack[p][i + 1]
    BY <1>1, Popped
  <1>3. ~\E j : On(p, 1, j)
    <2>1. Top(p) = stack[p][1] BY <1>1 DEF Top
    <2>. QED BY <2>1 DEF In, On, Busy
  <1>4. ASSUME NEW q \in Pumps, NEW i, NEW j
        PROVE On(q, i, j)' <=> \/ q # p /\ On(q, i, j)
                               \/ q = p /\ i \in 1..(Len(stack[p]) - 1) /\ On(q, i + 1, j)
    BY <1>2 DEF On, Busy
  <1>. QED BY <1>3, <1>4

(* The top frame goes on to its next step.                                  *)
LEMMA OnReplaced ==
  ASSUME StackInv, NEW p \in Pumps, stack[p] # <<>>, NEW f \in Frames,
         stack' = [stack EXCEPT ![p] = <<f>> \o Tail(@)]
  PROVE  \A q \in Pumps : \A i, j : On(q, i, j)' <=> IF q = p /\ i = 1 THEN f.at # "look" /\ f.job = j
                                                                       ELSE On(q, i, j)
  <1>1. /\ \A q \in Pumps \ {p} : stack'[q] = stack[q]
        /\ Len(stack'[p]) = Len(stack[p]) /\ Len(stack[p]) \in Nat \ {0}
        /\ stack'[p][1] = f
        /\ \A i \in 2..Len(stack[p]) : stack'[p][i] = stack[p][i]
    BY Replaced
  <1>. TAKE q \in Pumps
  <1>. TAKE i, j
  <1>2. CASE q # p BY <1>1, <1>2 DEF On, Busy
  <1>3. CASE q = p /\ i = 1
    <2>1. 1 \in 1..Len(stack'[p]) BY <1>1
    <2>. QED BY <1>1, <1>3, <2>1 DEF On, Busy
  <1>4. CASE q = p /\ i # 1
    <2>1. i \in 1..Len(stack[p]) => i \in 2..Len(stack[p]) BY <1>1, <1>4
    <2>. QED BY <1>1, <1>4, <2>1 DEF On, Busy
  <1>. QED BY <1>2, <1>3, <1>4

(* A connection's step moves no frame.                                      *)
LEMMA StacksKept ==
  ASSUME UNCHANGED <<stack, done>>
  PROVE  /\ \A j : Past(j)' <=> Past(j)
         /\ OnceInv => OnceInv'
         /\ Taken' = Taken
  BY DEF Past, Busy, OnceInv, On, Taken

(* A new evaluation has a number of its own.                                *)
LEMMA EvaluateServes ==
  ASSUME Inv, ServiceInv, NEW c \in Clients, NEW s \in Contexts, Evaluate(c, s)
  PROVE  ServiceInv'
  <1>1. Typed /\ OnceInv /\ NumberInv /\ AnswerInv /\ SentInv BY DEF Inv, ServiceInv
  <1>2. /\ pc[c] = "idle" /\ sent < MaxEvals /\ sent' = sent + 1
        /\ n' = [n EXCEPT ![c] = sent + 1]
        /\ side' = [side EXCEPT ![c] = s]
        /\ pc' = [pc EXCEPT ![c] = IF s = "Server" /\ ~storyReady THEN "refuse" ELSE "push"]
        /\ UNCHANGED <<queue, pending, done, stack, answers>>
    BY DEF Evaluate, Goto, queueVars
  <1>3. /\ sent \in Nat /\ n \in [Clients -> Nat] /\ side \in [Clients -> Contexts]
        /\ pc \in [Clients -> {"idle", "refuse", "push", "count", "wait", "expired",
                               "result", "timeout", "gone"}]
    BY <1>1 DEF Typed, HandlerType
  <1>4. \A d \in Clients : n[d] \in Nat /\ n[d] <= sent BY <1>3 DEF Inv, JobInv, Numbered
  <1>5. /\ n'[c] = sent + 1 /\ pc'[c] \in {"refuse", "push"}
        /\ \A d \in Clients : d # c => n'[d] = n[d] /\ pc'[d] = pc[d] /\ side'[d] = side[d]
    BY <1>2, <1>3
  <1>6. \A d \in Clients : d # c => Job(d)' = Job(d) BY <1>5 DEF Job
  <1>7. /\ \A j : Past(j)' <=> Past(j)
        /\ OnceInv'
    BY <1>1, <1>2, StacksKept
  <1>8. \A j : Past(j) => j.nth \in 1..sent /\ j.nth \in 1..sent' /\ j.nth # sent + 1
    <2>1. \A x \in 1..sent : x \in 1..(sent + 1) /\ x # sent + 1 BY <1>3
    <2>. QED BY <1>1, <1>2, <2>1 DEF NumberInv
  <1>9. NumberInv'
    <2>1. \A j : Past(j)' => j.nth \in 1..sent' BY <1>7, <1>8
    <2>2. \A j, k : Past(j)' /\ Past(k)' /\ j.nth = k.nth => j = k
      BY <1>1, <1>7 DEF NumberInv
    <2>3. ASSUME NEW j, NEW d \in Clients, Past(j)', j.nth = n'[d] PROVE j = Job(d)' /\ pc'[d] # "refuse"
      <3>1. d # c BY <1>5, <1>7, <1>8, <2>3
      <3>. QED BY <1>1, <1>5, <1>6, <1>7, <2>3, <3>1 DEF NumberInv
    <2>4. ASSUME NEW d \in Clients, NEW e \in Clients, n'[d] = n'[e], n'[d] # 0 PROVE d = e
      <3>1. \A b \in Clients : n[b] # sent + 1 BY <1>3, <1>4
      <3>. QED BY <1>1, <1>5, <2>4, <3>1 DEF NumberInv
    <2>5. sent + 1 # 0 BY <1>3
    <2>6. \A d \in Clients : AtIt(d)' => n'[d] # 0 BY <1>1, <1>5, <2>5 DEF NumberInv, AtIt
    <2>. QED BY <2>1, <2>2, <2>3, <2>4, <2>6 DEF NumberInv
  <1>10. AnswerInv'
    <2>1. \A d \in Clients : pc'[d] = "result" => Job(d)' \in done'
      BY <1>1, <1>2, <1>5, <1>6 DEF AnswerInv
    <2>2. \A x \in 1..sent : x \in 1..sent' /\ x # sent + 1 BY <1>2, <1>3
    <2>3. \A a \in answers' : a.to \in 1..sent' /\ a.to # sent + 1 BY <1>1, <1>2, <2>2 DEF AnswerInv
    <2>4. \A a \in answers' : \A d \in Clients : AtIt(d)' => a.to # n'[d]
      BY <1>1, <1>2, <1>5, <2>3 DEF AnswerInv, AtIt
    <2>. QED BY <2>1, <2>3, <2>4 DEF AnswerInv
  <1>11. SentInv' BY <1>2, <1>3, ConstantsAssumption DEF SentInv
  <1>. QED BY <1>7, <1>9, <1>10, <1>11 DEF ServiceInv

(* Nobody is at an evaluation that was not at it before.                    *)
LEMMA HandlerServes ==
  ASSUME Inv, ServiceInv, NEW c \in Clients, Handler(c) \/ Timeout(c) \/ Detach(c)
  PROVE  ServiceInv'
  <1>1. Typed /\ OnceInv /\ NumberInv /\ AnswerInv /\ SentInv BY DEF Inv, ServiceInv
  <1>2. /\ UNCHANGED <<sent, n, side, done, stack>>
        /\ AtIt(c) \/ pc[c] = "idle"
        /\ \E to \in {"count", "wait", "result", "timeout", "expired", "idle", "gone"} :
              /\ pc' = [pc EXCEPT ![c] = to]
              /\ to \in {"idle", "gone"} \/ AtIt(c)
              /\ to = "result" => Job(c) \in done
        /\ \/ answers' = answers
           \/ AtIt(c) /\ pc' = [pc EXCEPT ![c] = "idle"]
              /\ answers' = answers \cup {[to |-> n[c], how |-> Outcome(c)]}
    BY DEF Handler, Push, Count, Finished, Timeout, Withdraw, Reply, Detach, Goto, Answer, AtIt, queueVars
  <1>3. pc \in [Clients -> {"idle", "refuse", "push", "count", "wait", "expired",
                            "result", "timeout", "gone"}]
    BY <1>1 DEF Typed, HandlerType
  <1>4. PICK to \in {"count", "wait", "result", "timeout", "expired", "idle", "gone"} :
          /\ pc' = [pc EXCEPT ![c] = to]
          /\ to \in {"idle", "gone"} \/ AtIt(c)
          /\ to = "result" => Job(c) \in done
    BY <1>2
  <1>5. /\ pc'[c] = to /\ \A d \in Clients : d # c => pc'[d] = pc[d]
        /\ \A d \in Clients : Job(d)' = Job(d) /\ n'[d] = n[d]
    BY <1>2, <1>3, <1>4 DEF Job
  <1>6. \A d \in Clients : (AtIt(d)' => AtIt(d)) /\ (pc'[d] = "refuse" => pc[d] = "refuse")
    BY <1>4, <1>5 DEF AtIt
  <1>7. /\ \A j : Past(j)' <=> Past(j)
        /\ OnceInv'
    BY <1>1, <1>2, StacksKept
  <1>8. NumberInv' BY <1>1, <1>2, <1>5, <1>6, <1>7 DEF NumberInv
  <1>9. AnswerInv'
    <2>1. \A d \in Clients : pc'[d] = "result" => Job(d)' \in done'
      BY <1>1, <1>2, <1>4, <1>5 DEF AnswerInv
    <2>2. \A a \in answers : a.to \in 1..sent' /\ \A d \in Clients : AtIt(d)' => a.to # n'[d]
      BY <1>1, <1>2, <1>5, <1>6 DEF AnswerInv
    <2>3. CASE answers' = answers BY <2>1, <2>2, <2>3 DEF AnswerInv
    <2>4. CASE AtIt(c) /\ pc' = [pc EXCEPT ![c] = "idle"]
               /\ answers' = answers \cup {[to |-> n[c], how |-> Outcome(c)]}
      <3>1. n[c] # 0 /\ n[c] \in 1..sent
        <4>1. n[c] # 0 /\ n[c] <= sent /\ n[c] \in Nat /\ sent \in Nat
          BY <1>1, <2>4 DEF NumberInv, Inv, JobInv, Numbered, Typed, HandlerType
        <4>. QED BY <4>1
      <3>2. ~AtIt(c)' BY <1>3, <2>4 DEF AtIt
      <3>3. \A d \in Clients : AtIt(d)' => n'[d] # n[c]
        BY <1>1, <1>5, <3>1, <3>2 DEF NumberInv
      <3>4. \A a \in answers' : a \in answers \/ a.to = n[c] BY <2>4
      <3>5. n[c] \in 1..sent' BY <1>2, <3>1
      <3>. QED BY <2>1, <2>2, <3>3, <3>4, <3>5 DEF AnswerInv
    <2>. QED BY <1>2, <2>3, <2>4
  <1>10. SentInv' BY <1>1, <1>2 DEF SentInv
  <1>. QED BY <1>7, <1>8, <1>9, <1>10 DEF ServiceInv

(* A pump's step: what it takes was queued, and is somebody's.              *)
LEMMA PumpServes ==
  ASSUME Inv, ServiceInv, UNCHANGED <<pc, sent, n, side, answers>>, done \subseteq done', OnceInv',
         NEW taken, \A j : Past(j)' => Past(j) \/ (j = taken /\ Queued(taken))
  PROVE  ServiceInv'
  <1>1. Typed /\ NumberInv /\ AnswerInv /\ SentInv BY DEF Inv, ServiceInv
  <1>2. \A c \in Clients : Job(c)' = Job(c) /\ (AtIt(c)' <=> AtIt(c)) BY DEF Job, AtIt
  <1>3. Queued(taken) => \E c \in Clients : /\ taken = Job(c) /\ taken.nth = n[c] /\ AtIt(c)
                                            /\ pc[c] # "refuse" /\ n[c] # 0 /\ n[c] \in 1..sent
    <2>. SUFFICES ASSUME Queued(taken)
                  PROVE  \E c \in Clients : /\ taken = Job(c) /\ taken.nth = n[c] /\ AtIt(c)
                                            /\ pc[c] # "refuse" /\ n[c] # 0 /\ n[c] \in 1..sent
      OBVIOUS
    <2>1. PICK c \in Clients : taken = Job(c) /\ pc[c] \in {"count", "wait", "expired"}
      BY DEF Inv, JobInv, QueuedIsAwaited, Queued
    <2>2. taken.nth = n[c] /\ AtIt(c) BY <2>1 DEF Job, AtIt
    <2>3. n[c] # 0 /\ n[c] <= sent /\ n[c] \in Nat /\ sent \in Nat
      BY <1>1, <2>2 DEF NumberInv, Inv, JobInv, Numbered, Typed, HandlerType
    <2>4. n[c] \in 1..sent BY <2>3
    <2>. QED BY <2>1, <2>2, <2>3, <2>4
  <1>4. NumberInv'
    <2>1. \A j : Past(j)' => j.nth \in 1..sent' BY <1>1, <1>3 DEF NumberInv
    <2>2. ASSUME NEW j, NEW c \in Clients, Past(j)', j.nth = n'[c] PROVE j = Job(c)' /\ pc'[c] # "refuse"
      <3>1. CASE Past(j) BY <1>1, <1>2, <2>2, <3>1 DEF NumberInv
      <3>2. CASE j = taken /\ Queued(taken)
        <4>1. PICK d \in Clients : taken = Job(d) /\ taken.nth = n[d] /\ pc[d] # "refuse" /\ n[d] # 0
          BY <1>3, <3>2
        <4>2. d = c BY <1>1, <2>2, <3>2, <4>1 DEF NumberInv
        <4>. QED BY <1>2, <3>2, <4>1, <4>2
      <3>. QED BY <2>2, <3>1, <3>2
    <2>3. ASSUME NEW j, NEW k, Past(j)', Past(k)', j.nth = k.nth PROVE j = k
      <3>1. CASE Past(j) /\ Past(k) BY <1>1, <2>3, <3>1 DEF NumberInv
      <3>2. CASE j = taken /\ Queued(taken)
        <4>1. PICK d \in Clients : taken = Job(d) /\ taken.nth = n[d] BY <1>3, <3>2
        <4>. QED BY <1>2, <2>2, <2>3, <3>2, <4>1
      <3>3. CASE k = taken /\ Queued(taken)
        <4>1. PICK d \in Clients : taken = Job(d) /\ taken.nth = n[d] BY <1>3, <3>3
        <4>. QED BY <1>2, <2>2, <2>3, <3>3, <4>1
      <3>. QED BY <2>3, <3>1, <3>2, <3>3
    <2>. QED BY <1>1, <1>2, <2>1, <2>2, <2>3 DEF NumberInv
  <1>5. AnswerInv' BY <1>1, <1>2 DEF AnswerInv
  <1>6. SentInv' BY <1>1 DEF SentInv
  <1>. QED BY <1>4, <1>5, <1>6 DEF ServiceInv

(* The frames a pump's step moves, and what it adds to what was taken.      *)
LEMMA LookMoves ==
  ASSUME Typed, OnceInv, NEW p \in Pumps, stack' = [stack EXCEPT ![p] = <<Looking>> \o @], done' = done
  PROVE  OnceInv' /\ \A j : Past(j)' <=> Past(j)
  <1>1. \A q \in Pumps : \A i, j : On(q, i, j)' <=> \/ q # p /\ On(q, i, j)
                                                    \/ q = p /\ i \in 2..(Len(stack[p]) + 1) /\ On(q, i - 1, j)
    BY OnPushed DEF Typed
  <1>2. /\ \A i \in 2..(Len(stack[p]) + 1) : i - 1 \in 1..Len(stack[p])
        /\ \A i, k \in 2..(Len(stack[p]) + 1) : i - 1 = k - 1 => i = k
        /\ \A i \in 1..Len(stack[p]) : i + 1 \in 2..(Len(stack[p]) + 1) /\ (i + 1) - 1 = i
    <2>1. Len(stack[p]) \in Nat BY LenProperties DEF Typed, StackInv
    <2>2. \A i \in 2..(Len(stack[p]) + 1) : i - 1 \in 1..Len(stack[p]) BY <2>1
    <2>3. \A i, k \in 2..(Len(stack[p]) + 1) : i - 1 = k - 1 => i = k BY <2>1
    <2>4. \A i \in 1..Len(stack[p]) : i + 1 \in 2..(Len(stack[p]) + 1) /\ (i + 1) - 1 = i BY <2>1
    <2>. QED BY <2>2, <2>3, <2>4
  <1>3. OnceInv'
    <2>. SUFFICES ASSUME NEW q \in Pumps, NEW i, NEW j, On(q, i, j)'
                  PROVE  j \notin done' /\ \A r \in Pumps : \A k : On(r, k, j)' => q = r /\ i = k
      BY DEF OnceInv
    <2>1. j \notin done' BY <1>1 DEF OnceInv
    <2>2. ASSUME NEW r \in Pumps, NEW k, On(r, k, j)' PROVE q = r /\ i = k
      <3>1. CASE q = p BY <1>1, <1>2, <2>2, <3>1 DEF OnceInv
      <3>2. CASE q # p BY <1>1, <2>2, <3>2 DEF OnceInv
      <3>. QED BY <3>1, <3>2
    <2>. QED BY <2>1, <2>2
  <1>5. ASSUME NEW j PROVE (\E q \in Pumps : \E i : On(q, i, j)') <=> \E q \in Pumps : \E i : On(q, i, j)
    <2>1. ASSUME NEW q \in Pumps, NEW i, On(q, i, j)' PROVE \E r \in Pumps : \E k : On(r, k, j)
      BY <1>1, <2>1
    <2>2. ASSUME NEW q \in Pumps, NEW i, On(q, i, j) PROVE \E r \in Pumps : \E k : On(r, k, j)'
      <3>1. CASE q # p BY <1>1, <2>2, <3>1
      <3>2. CASE q = p
        <4>1. i \in 1..Len(stack[p]) BY <2>2, <3>2 DEF On, Busy
        <4>2. On(p, i + 1, j)' BY <1>1, <1>2, <2>2, <3>2, <4>1
        <4>. QED BY <4>2
      <3>. QED BY <3>1, <3>2
    <2>. QED BY <2>1, <2>2
  <1>6. \A j : Past(j) <=> j \in done \/ \E q \in Pumps : \E i : On(q, i, j) BY PastIs
  <1>7. \A j : Past(j)' <=> j \in done' \/ \E q \in Pumps : \E i : On(q, i, j)'
    BY DEF Past, On, Busy
  <1>. QED BY <1>3, <1>5, <1>6, <1>7

(* A pump that finds nothing more ends, and takes no job with it.           *)
LEMMA EndMoves ==
  ASSUME Typed, OnceInv, NEW p \in Pumps, PumpEnds(p)
  PROVE  OnceInv' /\ \A j : Past(j)' <=> Past(j)
  <1>0. In(p, "look") /\ stack' = [stack EXCEPT ![p] = Tail(@)] /\ done' = done
    BY DEF PumpEnds, queueVars
  <1>1. /\ ~\E j : On(p, 1, j)
        /\ \A q \in Pumps : \A i, j : On(q, i, j)' <=> \/ q # p /\ On(q, i, j)
                                                       \/ q = p /\ i \in 1..(Len(stack[p]) - 1) /\ On(q, i + 1, j)
    BY <1>0, OnPopped DEF Typed
  <1>2. /\ \A i, k \in 1..(Len(stack[p]) - 1) : i + 1 = k + 1 => i = k
        /\ \A i \in 1..Len(stack[p]) : i # 1 => i - 1 \in 1..(Len(stack[p]) - 1) /\ (i - 1) + 1 = i
    <2>1. Len(stack[p]) \in Nat BY LenProperties DEF Typed, StackInv
    <2>2. \A i, k \in 1..(Len(stack[p]) - 1) : i + 1 = k + 1 => i = k BY <2>1
    <2>3. \A i \in 1..Len(stack[p]) : i # 1 => i - 1 \in 1..(Len(stack[p]) - 1) /\ (i - 1) + 1 = i BY <2>1
    <2>. QED BY <2>2, <2>3
  <1>3. OnceInv'
    <2>. SUFFICES ASSUME NEW q \in Pumps, NEW i, NEW j, On(q, i, j)'
                  PROVE  j \notin done' /\ \A r \in Pumps : \A k : On(r, k, j)' => q = r /\ i = k
      BY DEF OnceInv
    <2>1. j \notin done' BY <1>0, <1>1 DEF OnceInv
    <2>2. ASSUME NEW r \in Pumps, NEW k, On(r, k, j)' PROVE q = r /\ i = k
      <3>1. CASE q = p BY <1>1, <1>2, <2>2, <3>1 DEF OnceInv
      <3>2. CASE q # p BY <1>1, <2>2, <3>2 DEF OnceInv
      <3>. QED BY <3>1, <3>2
    <2>. QED BY <2>1, <2>2
  <1>5. ASSUME NEW j PROVE (\E q \in Pumps : \E i : On(q, i, j)') <=> \E q \in Pumps : \E i : On(q, i, j)
    <2>1. ASSUME NEW q \in Pumps, NEW i, On(q, i, j)' PROVE \E r \in Pumps : \E k : On(r, k, j)
      BY <1>1, <2>1
    <2>2. ASSUME NEW q \in Pumps, NEW i, On(q, i, j) PROVE \E r \in Pumps : \E k : On(r, k, j)'
      <3>1. CASE q # p BY <1>1, <2>2, <3>1
      <3>2. CASE q = p
        <4>1. i \in 1..Len(stack[p]) /\ i # 1 BY <1>1, <2>2, <3>2 DEF On, Busy
        <4>2. On(p, i - 1, j)' BY <1>1, <1>2, <2>2, <3>2, <4>1
        <4>. QED BY <4>2
      <3>. QED BY <3>1, <3>2
    <2>. QED BY <2>1, <2>2
  <1>6. \A j : Past(j) <=> j \in done \/ \E q \in Pumps : \E i : On(q, i, j) BY PastIs
  <1>7. \A j : Past(j)' <=> j \in done' \/ \E q \in Pumps : \E i : On(q, i, j)'
    BY DEF Past, On, Busy
  <1>. QED BY <1>0, <1>3, <1>5, <1>6, <1>7

(* A pump takes a queued job, which nobody had taken.                       *)
LEMMA TakeMoves ==
  ASSUME Inv, OnceInv, NEW p \in Pumps, Take(p)
  PROVE  \E taken : /\ Queued(taken) /\ taken \in Jobs /\ OnceInv' /\ done' = done
                    /\ \A j : Past(j)' <=> Past(j) \/ j = taken
  <1>1. Typed /\ StackInv /\ Gone BY DEF Inv, Typed, JobInv
  <1>2. PICK i \in 1..Len(queue) : SetTop(p, Frame("subtract", queue[i])) BY DEF Take
  <1>3. PICK taken \in Jobs : taken = queue[i]
    BY <1>1, ElementOfSeq DEF Typed, QueueType
  <1>4. PICK f \in Frames : f = Frame("subtract", taken) BY FramesTyped
  <1>5. /\ In(p, "look") /\ stack[p] # <<>> /\ done' = done
        /\ stack' = [stack EXCEPT ![p] = <<f>> \o Tail(@)]
        /\ f.at = "subtract" /\ f.job = taken
    BY <1>2, <1>3, <1>4 DEF Take, In, SetTop, Frame
  <1>6. \A q \in Pumps : \A k, j : On(q, k, j)' <=> IF q = p /\ k = 1 THEN taken = j ELSE On(q, k, j)
    BY <1>1, <1>5, OnReplaced
  <1>7. Queued(taken) BY <1>3 DEF Queued
  <1>8. ~Past(taken) BY <1>1, <1>7 DEF Gone
  <1>9. \A j : ~On(p, 1, j)
    <2>1. Top(p) = stack[p][1] BY <1>5 DEF Top
    <2>. QED BY <1>5, <2>1 DEF In, On, Busy
  <1>10. taken \notin done /\ \A q \in Pumps : \A k : ~On(q, k, taken)
    BY <1>1, <1>8, PastIs
  <1>11. OnceInv' BY <1>5, <1>6, <1>10 DEF OnceInv
  <1>12. \A j : Past(j) <=> j \in done \/ \E q \in Pumps : \E k : On(q, k, j) BY <1>1, PastIs
  <1>13. \A j : Past(j)' <=> j \in done' \/ \E q \in Pumps : \E k : On(q, k, j)'
    BY DEF Past, On, Busy
  <1>14. \A j : Past(j)' <=> Past(j) \/ j = taken BY <1>5, <1>6, <1>9, <1>12, <1>13
  <1>. QED BY <1>5, <1>7, <1>11, <1>14

(* A pump that counts its job out keeps it.                                 *)
LEMMA SubtractMoves ==
  ASSUME Inv, OnceInv, NEW p \in Pumps, Subtract(p)
  PROVE  OnceInv' /\ done' = done /\ \A j : Past(j)' <=> Past(j)
  <1>1. Typed /\ StackInv BY DEF Inv, Typed
  <1>2. /\ In(p, "subtract") /\ stack[p] # <<>> /\ SetTop(p, Frame("eval", Top(p).job)) /\ done' = done
    BY DEF Subtract, In
  <1>3. Top(p) = stack[p][1] /\ Top(p).job \in Jobs /\ Busy(p, 1) BY <1>1, <1>2, TopFrame
  <1>4. PICK job \in Jobs : job = Top(p).job BY <1>3
  <1>5. PICK f \in Frames : f = Frame("eval", job) BY FramesTyped
  <1>6. stack' = [stack EXCEPT ![p] = <<f>> \o Tail(@)] /\ f.at = "eval" /\ f.job = job
    BY <1>2, <1>4, <1>5 DEF SetTop, Frame
  <1>7. \A q \in Pumps : \A i, j : On(q, i, j)' <=> On(q, i, j)
    <2>1. \A j : On(p, 1, j) <=> job = j BY <1>3, <1>4 DEF On
    <2>. QED BY <1>1, <1>2, <1>6, <2>1, OnReplaced
  <1>8. OnceInv' BY <1>2, <1>7 DEF OnceInv
  <1>9. \A j : Past(j) <=> j \in done \/ \E q \in Pumps : \E i : On(q, i, j) BY <1>1, PastIs
  <1>10. \A j : Past(j)' <=> j \in done' \/ \E q \in Pumps : \E i : On(q, i, j)'
    BY DEF Past, On, Busy
  <1>. QED BY <1>2, <1>7, <1>8, <1>9, <1>10

(* A job is done when its frame lets go of it.                              *)
LEMMA EvalMoves ==
  ASSUME Inv, OnceInv, NEW p \in Pumps, EvalEnds(p)
  PROVE  \E job \in Jobs : /\ Past(job) /\ job \notin done /\ done' = done \cup {job}
                           /\ OnceInv' /\ \A j : Past(j)' <=> Past(j)
  <1>1. Typed /\ StackInv BY DEF Inv, Typed
  <1>2. In(p, "eval") /\ stack[p] # <<>> /\ SetTop(p, Looking) /\ done' = done \cup {Top(p).job}
    BY DEF EvalEnds, In
  <1>3. Top(p) = stack[p][1] /\ Top(p).job \in Jobs /\ Busy(p, 1) BY <1>1, <1>2, TopFrame
  <1>4. PICK job \in Jobs : job = Top(p).job BY <1>3
  <1>5. On(p, 1, job) /\ \A j : On(p, 1, j) => j = job BY <1>3, <1>4 DEF On
  <1>6. stack' = [stack EXCEPT ![p] = <<Looking>> \o Tail(@)] /\ Looking \in Frames /\ Looking.at = "look"
    BY <1>2, FramesTyped DEF SetTop, Looking
  <1>7. \A q \in Pumps : \A i, j : On(q, i, j)' <=> ~(q = p /\ i = 1) /\ On(q, i, j)
    BY <1>1, <1>2, <1>6, OnReplaced
  <1>8. job \notin done /\ \A q \in Pumps : \A i : On(q, i, job) => q = p /\ i = 1
    BY <1>5 DEF OnceInv
  <1>9. done' = done \cup {job} BY <1>2, <1>4
  <1>10. OnceInv' BY <1>7, <1>8, <1>9 DEF OnceInv
  <1>11. \A j : Past(j) <=> j \in done \/ \E q \in Pumps : \E i : On(q, i, j) BY <1>1, PastIs
  <1>12. \A j : Past(j)' <=> j \in done' \/ \E q \in Pumps : \E i : On(q, i, j)'
    BY DEF Past, On, Busy
  <1>13. \A j : Past(j)' <=> Past(j) BY <1>5, <1>7, <1>9, <1>11, <1>12
  <1>. QED BY <1>5, <1>8, <1>9, <1>10, <1>11, <1>13

(* The invariant holds at the start: nothing was taken or answered.         *)
LEMMA ServiceStarts == ASSUME Init PROVE ServiceInv
  <1>1. /\ pc = [c \in Clients |-> "idle"] /\ n = [c \in Clients |-> 0] /\ sent = 0
        /\ done = {} /\ stack = [p \in Pumps |-> <<>>] /\ answers = {}
    BY DEF Init
  <1>2. \A p \in Pumps : \A i : ~Busy(p, i) BY <1>1 DEF Busy
  <1>3. \A j : ~Past(j) BY <1>1, <1>2 DEF Past
  <1>4. OnceInv BY <1>2 DEF OnceInv, On
  <1>5. NumberInv BY <1>1, <1>3 DEF NumberInv, AtIt
  <1>6. AnswerInv BY <1>1 DEF AnswerInv
  <1>7. SentInv BY <1>1, ConstantsAssumption DEF SentInv
  <1>. QED BY <1>4, <1>5, <1>6, <1>7 DEF ServiceInv

(* What the service's started stands for, before a step and after it.       *)
Begun == {j.nth : j \in done \cup Taken}
(* The numbers that were begun are those of the jobs that were.             *)
LEMMA BegunIs == Typed => Begun = {j.nth : j \in {k \in Jobs : Past(k)}}
  <1>. SUFFICES ASSUME Typed PROVE Begun = {j.nth : j \in {k \in Jobs : Past(k)}} OBVIOUS
  <1>1. done \cup Taken = {k \in Jobs : Past(k)} BY PastIs
  <1>. QED BY <1>1 DEF Begun
(* The same, once the step is taken.                                         *)
LEMMA BegunNext == Typed' => (Begun = {j.nth : j \in {k \in Jobs : Past(k)}})'
  BY BegunIs, PTL

(* A step of the queue that the service does not see.                       *)
LEMMA ServiceQuiet ==
  ASSUME Typed, Typed', UNCHANGED <<sent, done, answers>>, \A j : Past(j)' <=> Past(j)
  PROVE  UNCHANGED Service!vars
  <1>1. {k \in Jobs : Past(k)'} = {k \in Jobs : Past(k)} OBVIOUS
  <1>2. Begun' = Begun BY <1>1, BegunIs, BegunNext
  <1>. QED BY <1>2 DEF Service!vars, Begun

(* An evaluation sent is asked for.                                         *)
LEMMA EvaluateAsks ==
  ASSUME Inv, ServiceInv, NEW c \in Clients, NEW s \in Contexts, Evaluate(c, s)
  PROVE  \E r \in 1..MaxEvals : Service!Ask(r)
  <1>1. /\ sent \in Nat /\ sent < MaxEvals /\ sent' = sent + 1
        /\ UNCHANGED <<stack, done, answers>>
    BY DEF Inv, Typed, HandlerType, Evaluate, queueVars
  <1>2. sent + 1 \in 1..MaxEvals /\ sent + 1 \notin 1..sent /\ 1..sent' = (1..sent) \cup {sent + 1}
    BY <1>1, ConstantsAssumption
  <1>3. Taken' = Taken BY <1>1 DEF Taken
  <1>4. Service!Ask(sent + 1) BY <1>1, <1>2, <1>3 DEF Service!Ask
  <1>. QED BY <1>2, <1>4

(* What a connection is told is told once, of the evaluation it is at.      *)
LEMMA ReplyAnswers ==
  ASSUME Inv, ServiceInv, NEW c \in Clients, Reply(c)
  PROVE  \E r \in 1..MaxEvals : \E w \in Service!Ways : Service!Answer(r, w)
  <1>1. /\ pc[c] \in {"refuse", "result", "timeout"} /\ AtIt(c)
        /\ answers' = answers \cup {[to |-> n[c], how |-> Outcome(c)]}
        /\ UNCHANGED <<sent, n, stack, done>>
    BY DEF Reply, Answer, AtIt, queueVars
  <1>2. Typed /\ NumberInv /\ AnswerInv /\ SentInv BY DEF Inv, ServiceInv
  <1>3. n[c] \in 1..sent /\ n[c] \in 1..MaxEvals
    <2>1. n[c] # 0 /\ n[c] <= sent /\ n[c] \in Nat /\ sent \in Nat /\ sent <= MaxEvals
      BY <1>1, <1>2 DEF NumberInv, SentInv, Inv, JobInv, Numbered, Typed, HandlerType
    <2>. QED BY <2>1, ConstantsAssumption
  <1>4. ~Service!Answered(n[c])
    <2>1. \A a \in answers : a.to # n[c] BY <1>1, <1>2 DEF AnswerInv
    <2>. QED BY <2>1 DEF Service!Answered
  <1>5. Outcome(c) \in Service!Ways BY <1>1 DEF Outcome, Service!Ways
  <1>6. Outcome(c) = "result" => n[c] \in {j.nth : j \in done}
    <2>1. Outcome(c) = "result" => Job(c) \in done BY <1>1, <1>2 DEF Outcome, AnswerInv
    <2>2. Job(c).nth = n[c] BY DEF Job
    <2>. QED BY <2>1, <2>2
  <1>7. Outcome(c) = "refused" => n[c] \notin Begun
    <2>1. Outcome(c) = "refused" => pc[c] = "refuse" BY <1>1 DEF Outcome
    <2>2. \A j : Past(j) /\ j.nth = n[c] => pc[c] # "refuse" BY <1>2 DEF NumberInv
    <2>. QED BY <1>2, <2>1, <2>2, BegunIs
  <1>8. Taken' = Taken BY <1>1 DEF Taken
  <1>9. Service!Answer(n[c], Outcome(c))
    BY <1>1, <1>3, <1>4, <1>6, <1>7, <1>8 DEF Service!Answer, Begun
  <1>. QED BY <1>3, <1>5, <1>9

(* What is taken from the queue was never taken and is not answered.        *)
LEMMA TakeStarts ==
  ASSUME Inv, Inv', ServiceInv, UNCHANGED <<sent, done, answers>>,
         NEW taken \in Jobs, Queued(taken), \A j : Past(j)' <=> Past(j) \/ j = taken
  PROVE  \E r \in 1..MaxEvals : Service!Start(r)
  <1>1. Typed /\ Typed' /\ NumberInv /\ AnswerInv /\ SentInv /\ Gone /\ QueuedIsAwaited
    BY DEF Inv, JobInv, ServiceInv
  <1>2. PICK c \in Clients : taken = Job(c) /\ pc[c] \in {"count", "wait", "expired"}
    BY <1>1 DEF QueuedIsAwaited, Queued
  <1>3. taken.nth = n[c] /\ AtIt(c) BY <1>2 DEF Job, AtIt
  <1>4. taken.nth \in 1..sent /\ taken.nth \in 1..MaxEvals
    <2>1. n[c] # 0 /\ n[c] <= sent /\ n[c] \in Nat /\ sent \in Nat /\ sent <= MaxEvals
      BY <1>1, <1>3 DEF NumberInv, SentInv, Inv, JobInv, Numbered, Typed, HandlerType
    <2>. QED BY <1>3, <2>1, ConstantsAssumption
  <1>5. ~Service!Answered(taken.nth)
    <2>1. \A a \in answers : a.to # taken.nth BY <1>1, <1>3 DEF AnswerInv
    <2>. QED BY <2>1 DEF Service!Answered
  <1>6. taken.nth \notin Begun
    <2>1. \A j : Past(j) /\ j.nth = taken.nth => j = taken BY <1>1, <1>2, <1>3 DEF NumberInv
    <2>2. ~Past(taken) BY <1>1 DEF Gone
    <2>. QED BY <1>1, <2>1, <2>2, BegunIs
  <1>7. Begun' = Begun \cup {taken.nth}
    <2>1. {k \in Jobs : Past(k)'} = {k \in Jobs : Past(k)} \cup {taken} OBVIOUS
    <2>2. Begun' = {j.nth : j \in {k \in Jobs : Past(k)} \cup {taken}} BY <1>1, <2>1, BegunNext
    <2>3. Begun = {j.nth : j \in {k \in Jobs : Past(k)}} BY <1>1, BegunIs
    <2>. QED BY <2>2, <2>3
  <1>8. Service!Start(taken.nth) BY <1>4, <1>5, <1>6, <1>7 DEF Service!Start, Begun
  <1>. QED BY <1>4, <1>8

(* An evaluation that ends was started, and ends for the first time.        *)
LEMMA EvalFinishes ==
  ASSUME Inv, Inv', ServiceInv, UNCHANGED <<sent, answers>>,
         NEW job \in Jobs, Past(job), job \notin done, done' = done \cup {job},
         \A j : Past(j)' <=> Past(j)
  PROVE  \E r \in 1..MaxEvals : Service!Finish(r)
  <1>1. Typed /\ Typed' /\ NumberInv /\ SentInv BY DEF Inv, ServiceInv
  <1>2. job.nth \in 1..MaxEvals
    <2>1. job.nth \in 1..sent /\ sent \in Nat /\ sent <= MaxEvals
      BY <1>1 DEF NumberInv, SentInv, Typed, HandlerType
    <2>. QED BY <2>1, ConstantsAssumption
  <1>3. job.nth \in Begun BY <1>1, BegunIs
  <1>4. job.nth \notin {j.nth : j \in done}
    <2>1. \A j \in done : Past(j) BY DEF Past
    <2>. QED BY <1>1, <2>1 DEF NumberInv
  <1>5. Begun' = Begun
    <2>1. {k \in Jobs : Past(k)'} = {k \in Jobs : Past(k)} OBVIOUS
    <2>. QED BY <1>1, <2>1, BegunIs, BegunNext
  <1>6. {j.nth : j \in done'} = {j.nth : j \in done} \cup {job.nth} OBVIOUS
  <1>7. Service!Finish(job.nth) BY <1>3, <1>4, <1>5, <1>6 DEF Service!Finish, Begun
  <1>. QED BY <1>2, <1>7

(* Every step keeps the invariant and is a step of the service or none.     *)
LEMMA StepServes ==
  ASSUME Inv, Inv', ServiceInv, [Next]_vars
  PROVE  ServiceInv' /\ (Service!Next \/ UNCHANGED Service!vars)
  <1>1. Typed /\ Typed' /\ OnceInv BY DEF Inv, ServiceInv
  <1>2. ASSUME UNCHANGED <<pc, sent, n, side, answers, done>>, OnceInv', \A j : Past(j)' <=> Past(j)
        PROVE  ServiceInv' /\ UNCHANGED Service!vars
    <2>1. ServiceInv' BY <1>2, PumpServes
    <2>2. UNCHANGED Service!vars BY <1>1, <1>2, ServiceQuiet
    <2>. QED BY <2>1, <2>2
  <1>3. ASSUME NEW c \in Clients, NEW s \in Contexts, Evaluate(c, s)
        PROVE  ServiceInv' /\ Service!Next
    BY <1>3, EvaluateServes, EvaluateAsks DEF Service!Next
  <1>4. ASSUME NEW c \in Clients, Reply(c) PROVE ServiceInv' /\ Service!Next
    <2>1. ServiceInv' BY <1>4, HandlerServes DEF Handler
    <2>2. Service!Next BY <1>4, ReplyAnswers DEF Service!Next
    <2>. QED BY <2>1, <2>2
  <1>5. ASSUME NEW c \in Clients, Push(c) \/ Count(c) \/ Finished(c) \/ Withdraw(c) \/ Timeout(c) \/ Detach(c)
        PROVE  ServiceInv' /\ UNCHANGED Service!vars
    <2>1. ServiceInv' BY <1>5, HandlerServes DEF Handler
    <2>2. UNCHANGED <<sent, answers, stack, done>>
      BY <1>5 DEF Push, Count, Finished, Withdraw, Timeout, Detach, queueVars
    <2>3. \A j : Past(j)' <=> Past(j) BY <2>2, StacksKept
    <2>. QED BY <1>1, <2>1, <2>2, <2>3, ServiceQuiet
  <1>6. ASSUME NEW p \in Pumps, PumpServer(p) \/ PumpEnds(p) \/ Subtract(p)
        PROVE  ServiceInv' /\ UNCHANGED Service!vars
    <2>1. UNCHANGED <<pc, sent, n, side, answers, done>>
      BY <1>6 DEF PumpServer, PumpEnds, Subtract, handlerVars, queueVars
    <2>2. OnceInv' /\ \A j : Past(j)' <=> Past(j)
      <3>1. CASE PumpServer(p) BY <1>1, <2>1, <3>1, LookMoves DEF PumpServer
      <3>2. CASE PumpEnds(p) BY <1>1, <3>2, EndMoves
      <3>3. CASE Subtract(p) BY <1>1, <3>3, SubtractMoves
      <3>. QED BY <1>6, <3>1, <3>2, <3>3
    <2>. QED BY <1>2, <2>1, <2>2
  <1>7. ASSUME NEW p \in Pumps, Take(p) PROVE ServiceInv' /\ Service!Next
    <2>1. UNCHANGED <<pc, sent, n, side, answers, done>> BY <1>7 DEF Take, handlerVars
    <2>2. PICK taken : /\ Queued(taken) /\ taken \in Jobs /\ OnceInv'
                       /\ \A j : Past(j)' <=> Past(j) \/ j = taken
      BY <1>1, <1>7, TakeMoves
    <2>3. ServiceInv' BY <2>1, <2>2, PumpServes
    <2>4. Service!Next BY <2>1, <2>2, TakeStarts DEF Service!Next
    <2>. QED BY <2>3, <2>4
  <1>8. ASSUME NEW p \in Pumps, EvalEnds(p) PROVE ServiceInv' /\ Service!Next
    <2>1. UNCHANGED <<pc, sent, n, side, answers>> BY <1>8 DEF EvalEnds, handlerVars
    <2>2. PICK job \in Jobs : /\ Past(job) /\ job \notin done /\ done' = done \cup {job}
                              /\ OnceInv' /\ \A j : Past(j)' <=> Past(j)
      BY <1>1, <1>8, EvalMoves
    <2>3. ServiceInv' BY <2>1, <2>2, PumpServes
    <2>4. Service!Next BY <2>1, <2>2, EvalFinishes DEF Service!Next
    <2>. QED BY <2>3, <2>4
  <1>9. ASSUME PumpClient PROVE ServiceInv' /\ UNCHANGED Service!vars
    <2>1. UNCHANGED <<pc, sent, n, side, answers, done>> BY <1>9 DEF PumpClient, handlerVars, queueVars
    <2>2. OnceInv' /\ \A j : Past(j)' <=> Past(j)
      <3>1. CASE stack' = stack BY <1>1, <2>1, <3>1, StacksKept
      <3>2. CASE stack' # stack
        <4>1. "client" \in Pumps BY DEF Pumps
        <4>2. stack' = [stack EXCEPT !["client"] = <<Looking>> \o @]
          BY <1>1, <1>9, <3>2, PumpClientPushes DEF PumpClient, Typed
        <4>. QED BY <1>1, <2>1, <4>1, <4>2, LookMoves
      <3>. QED BY <3>1, <3>2
    <2>. QED BY <1>2, <2>1, <2>2
  <1>10. ASSUME StoryChanges \/ UNCHANGED vars PROVE ServiceInv' /\ UNCHANGED Service!vars
    <2>1. UNCHANGED <<pc, sent, n, side, answers, done, stack>>
      BY <1>10 DEF StoryChanges, vars, handlerVars, queueVars
    <2>. QED BY <1>1, <1>2, <2>1, StacksKept
  <1>. QED
    BY <1>3, <1>4, <1>5, <1>6, <1>7, <1>8, <1>9, <1>10 DEF Next, Handler

(* Connections, queue, counter and pumps implement the service: whatever    *)
(* the threads' order, an evaluation is run at most once, not after its     *)
(* caller was told of a timeout or refused (src/src/debug_server.cpp:238),  *)
(* and is answered once, with a result only when it ran.                    *)
THEOREM ServiceImplemented == Spec => ImplementsService
  <1>1. Init => Service!Init
    <2>. SUFFICES ASSUME Init PROVE Service!Init OBVIOUS
    <2>1. sent = 0 /\ done = {} /\ stack = [p \in Pumps |-> <<>>] /\ answers = {} BY DEF Init
    <2>2. Taken = {}
      <3>1. \A p \in Pumps : {stack[p][i] : i \in 1..Len(stack[p])} = {} BY <2>1
      <3>. QED BY <3>1 DEF Taken
    <2>3. 1..sent = {} BY <2>1
    <2>. QED BY <2>1, <2>2, <2>3 DEF Service!Init
  <1>2. Init => ServiceInv BY ServiceStarts
  <1>3. Inv /\ Inv' /\ ServiceInv /\ [Next]_vars => ServiceInv' /\ [Service!Next]_(Service!vars)
    BY StepServes
  <1>. QED BY <1>1, <1>2, <1>3, Inductive, PTL DEF Spec, ImplementsService, Service!Spec
-----------------------------------------------------------------------------
(* What the debugger shows its clients (DebugOutput).  Sequences with       *)
(* nothing in them twice, which keep that when they lose an element or gain *)
(* one that they have not.                                                  *)
Distinct(s) == \A i, k \in 1..Len(s) : s[i] = s[k] => i = k

(* A descriptor taken off the front is in the list no more.                 *)
LEMMA TailOnce ==
  ASSUME NEW S, NEW s \in Seq(S), s # <<>>, Distinct(s)
  PROVE  /\ Tail(s) \in Seq(S) /\ Head(s) \in S /\ Len(Tail(s)) = Len(s) - 1
         /\ Distinct(Tail(s)) /\ ~Contains(Tail(s), Head(s))
         /\ \A x : Contains(s, x) <=> x = Head(s) \/ Contains(Tail(s), x)
  <1>. DEFINE len == Len(s)
              t == Tail(s)
              h == Head(s)
  <1>1. /\ len \in Nat \ {0} /\ t \in Seq(S) /\ h = s[1] /\ Len(t) = len - 1
        /\ \A i \in 1..(len - 1) : t[i] = s[i + 1]
    BY EmptySeq, LenProperties, HeadTailProperties
  <1>2. h \in S BY <1>1, ElementOfSeq
  <1>3. \A i, k \in 1..len : s[i] = s[k] => i = k BY DEF Distinct
  <1>. HIDE DEF len, t, h
  <1>4. /\ 1 \in 1..len
        /\ \A i \in 1..(len - 1) : i + 1 \in 1..len /\ i + 1 # 1
        /\ \A i, k \in 1..(len - 1) : i + 1 = k + 1 => i = k
        /\ \A i \in 1..len : i = 1 \/ (i - 1 \in 1..(len - 1) /\ (i - 1) + 1 = i)
    <2>0. len \in Nat \ {0} BY <1>1
    <2>1. 1 \in 1..len BY <2>0
    <2>2. \A i \in 1..(len - 1) : i + 1 \in 1..len /\ i + 1 # 1 BY <2>0
    <2>3. \A i, k \in 1..(len - 1) : i + 1 = k + 1 => i = k BY <2>0
    <2>4. \A i \in 1..len : i = 1 \/ (i - 1 \in 1..(len - 1) /\ (i - 1) + 1 = i) BY <2>0
    <2>. QED BY <2>1, <2>2, <2>3, <2>4
  <1>5. Distinct(t)
    <2>. SUFFICES ASSUME NEW i \in 1..(len - 1), NEW k \in 1..(len - 1), t[i] = t[k] PROVE i = k
      BY <1>1 DEF Distinct
    <2>1. s[i + 1] = s[k + 1] BY <1>1
    <2>. QED BY <1>3, <1>4, <2>1
  <1>6. ~Contains(t, h) BY <1>1, <1>3, <1>4 DEF Contains
  <1>7. ASSUME NEW x PROVE Contains(s, x) <=> x = h \/ Contains(t, x)
    <2>1. Contains(s, x) <=> \E i \in 1..len : s[i] = x BY DEF Contains, len
    <2>2. Contains(t, x) <=> \E i \in 1..(len - 1) : t[i] = x BY <1>1 DEF Contains
    <2>3. ASSUME NEW i \in 1..len, s[i] = x PROVE x = h \/ \E k \in 1..(len - 1) : t[k] = x
      <3>1. CASE i = 1 BY <1>1, <2>3, <3>1
      <3>2. CASE i # 1
        <4>1. i - 1 \in 1..(len - 1) /\ t[i - 1] = x BY <1>1, <1>4, <2>3, <3>2
        <4>. QED BY <4>1
      <3>. QED BY <3>1, <3>2
    <2>4. ASSUME NEW i \in 1..(len - 1), t[i] = x PROVE \E k \in 1..len : s[k] = x
      <3>1. i + 1 \in 1..len /\ s[i + 1] = x BY <1>1, <1>4, <2>4
      <3>. QED BY <3>1
    <2>. QED BY <1>1, <1>4, <2>1, <2>2, <2>3, <2>4
  <1>. QED BY <1>1, <1>2, <1>5, <1>6, <1>7 DEF len, t, h

(* A new descriptor is in the list once.                                    *)
LEMMA AppendOnce ==
  ASSUME NEW S, NEW s \in Seq(S), NEW x \in S
  PROVE  /\ Append(s, x) \in Seq(S) /\ Len(Append(s, x)) = Len(s) + 1 /\ Append(s, x) # <<>>
         /\ Distinct(s) /\ ~Contains(s, x) => Distinct(Append(s, x))
         /\ \A y : Contains(Append(s, x), y) <=> y = x \/ Contains(s, y)
  <1>. DEFINE len == Len(s)
              q == Append(s, x)
  <1>1. /\ len \in Nat /\ q \in Seq(S) /\ Len(q) = len + 1 /\ q[len + 1] = x /\ q # <<>>
        /\ \A i \in 1..len : q[i] = s[i]
    BY AppendProperties, LenProperties, EmptySeq
  <1>. HIDE DEF q
  <1>2. /\ len + 1 \in 1..(len + 1) /\ \A i \in 1..len : i \in 1..(len + 1)
        /\ \A i \in 1..(len + 1) : i = len + 1 \/ i \in 1..len
    BY <1>1
  <1>3. ASSUME Distinct(s), ~Contains(s, x) PROVE Distinct(q)
    <2>1. \A i, k \in 1..len : s[i] = s[k] => i = k BY <1>3 DEF Distinct
    <2>2. \A i \in 1..len : s[i] # x BY <1>3 DEF Contains
    <2>. HIDE DEF len
    <2>. QED BY <1>1, <1>2, <2>1, <2>2 DEF Distinct
  <1>4. ASSUME NEW y PROVE Contains(q, y) <=> y = x \/ Contains(s, y)
    <2>1. Contains(s, y) <=> \E i \in 1..len : s[i] = y BY DEF Contains
    <2>2. Contains(q, y) <=> \E i \in 1..(len + 1) : q[i] = y BY <1>1 DEF Contains
    <2>. HIDE DEF len
    <2>. QED BY <1>1, <1>2, <2>1, <2>2
  <1>. QED BY <1>1, <1>3, <1>4 DEF q

(* A descriptor that is erased is in the list no more.                      *)
LEMMA RemoveOnce ==
  ASSUME NEW S, NEW s \in Seq(S), Distinct(s), NEW i \in 1..Len(s)
  PROVE  /\ RemoveAt(s, i) \in Seq(S) /\ Distinct(RemoveAt(s, i))
         /\ \A x : Contains(RemoveAt(s, i), x) <=> x # s[i] /\ Contains(s, x)
  <1>. DEFINE a == SubSeq(s, 1, i - 1)
              b == SubSeq(s, i + 1, Len(s))
              len == Len(s)
  <1>1. len \in Nat /\ \A k \in 1..len : s[k] \in S BY LenProperties, ElementOfSeq
  <1>2. /\ a \in Seq(S) /\ Len(a) = i - 1 /\ \A k \in 1..(i - 1) : a[k] = s[k]
    <2>1. /\ \A k \in 1..(i - 1) : s[k] \in S /\ 1 + k - 1 = k
          /\ i - 1 \in Int /\ (i - 1) - 1 + 1 = i - 1 /\ (1 <= i - 1 \/ i - 1 = 0)
      BY <1>1
    <2>. QED BY <2>1, SubSeqProperties
  <1>3. /\ b \in Seq(S) /\ Len(b) = len - i /\ \A k \in 1..(len - i) : b[k] = s[i + k]
    <2>1. \A k \in (i + 1)..len : s[k] \in S BY <1>1
    <2>2. i + 1 \in Int /\ len \in Int BY <1>1
    <2>3. len - (i + 1) + 1 = len - i BY <1>1
    <2>4. \A k \in 1..(len - i) : (i + 1) + k - 1 = i + k BY <1>1
    <2>5. len - i = IF i + 1 <= len THEN len - i ELSE 0 BY <1>1
    <2>6. /\ b \in Seq(S) /\ Len(b) = IF i + 1 <= len THEN len - (i + 1) + 1 ELSE 0
          /\ \A k \in 1..(len - (i + 1) + 1) : b[k] = s[(i + 1) + k - 1]
      BY <2>1, <2>2, SubSeqProperties
    <2>. HIDE DEF b, len
    <2>7. Len(b) = len - i BY <2>3, <2>5, <2>6
    <2>. QED BY <2>3, <2>4, <2>6, <2>7
  <1>4. RemoveAt(s, i) = a \o b BY DEF RemoveAt
  <1>. HIDE DEF a, b
  <1>. DEFINE q == a \o b
              m == len - 1
              from(k) == IF k <= i - 1 THEN k ELSE k + 1
  <1>5. q \in Seq(S) /\ Len(q) = m /\ \A k \in 1..m : q[k] = s[from(k)]
    <2>1. /\ q \in Seq(S) /\ Len(q) = Len(a) + Len(b)
          /\ \A k \in 1..(Len(a) + Len(b)) : q[k] = IF k <= Len(a) THEN a[k] ELSE b[k - Len(a)]
      BY <1>2, <1>3, ConcatProperties
    <2>2. Len(a) + Len(b) = m BY <1>1, <1>2, <1>3
    <2>3. ASSUME NEW k \in 1..m PROVE q[k] = s[from(k)]
      <3>1. CASE k <= i - 1
        <4>1. k \in 1..(i - 1) BY <3>1
        <4>2. q[k] = a[k] BY <1>2, <2>1, <2>2, <3>1
        <4>. QED BY <1>2, <3>1, <4>1, <4>2
      <3>2. CASE ~(k <= i - 1)
        <4>1. k - (i - 1) \in 1..(len - i) /\ i + (k - (i - 1)) = k + 1 BY <1>1, <3>2
        <4>2. q[k] = b[k - (i - 1)] BY <1>2, <2>1, <2>2, <3>2
        <4>. QED BY <1>3, <3>2, <4>1, <4>2
      <3>. QED BY <3>1, <3>2
    <2>. QED BY <2>1, <2>2, <2>3
  <1>6. /\ \A k \in 1..m : from(k) \in 1..len /\ from(k) # i
        /\ \A j, k \in 1..m : from(j) = from(k) => j = k
        /\ \A k \in 1..len : k = i \/ \E j \in 1..m : from(j) = k
    <2>1. \A k \in 1..m : from(k) \in 1..len /\ from(k) # i BY <1>1
    <2>2. \A j, k \in 1..m : from(j) = from(k) => j = k BY <1>1
    <2>3. ASSUME NEW k \in 1..len, k # i PROVE \E j \in 1..m : from(j) = k
      <3>1. CASE k <= i - 1
        <4>1. k \in 1..m /\ from(k) = k BY <1>1, <3>1
        <4>. QED BY <4>1
      <3>2. CASE ~(k <= i - 1)
        <4>1. k - 1 \in 1..m /\ from(k - 1) = k BY <1>1, <2>3, <3>2
        <4>. QED BY <4>1
      <3>. QED BY <3>1, <3>2
    <2>. QED BY <2>1, <2>2, <2>3
  <1>7. \A j, k \in 1..len : s[j] = s[k] => j = k BY DEF Distinct
  <1>8. \A x : Contains(s, x) <=> \E k \in 1..len : s[k] = x BY DEF Contains
  <1>. HIDE DEF q, m, len, from
  <1>9. \A x : Contains(q, x) <=> \E k \in 1..m : q[k] = x BY <1>5 DEF Contains
  <1>10. Distinct(q)
    <2>. SUFFICES ASSUME NEW j \in 1..m, NEW k \in 1..m, q[j] = q[k] PROVE j = k
      BY <1>5 DEF Distinct
    <2>1. s[from(j)] = s[from(k)] BY <1>5
    <2>2. from(j) = from(k) BY <1>6, <1>7, <2>1
    <2>. QED BY <1>6, <2>2
  <1>11. ASSUME NEW x PROVE Contains(q, x) <=> x # s[i] /\ Contains(s, x)
    <2>1. ASSUME NEW k \in 1..m, q[k] = x PROVE x # s[i] /\ Contains(s, x)
      <3>1. s[from(k)] = x /\ from(k) \in 1..len /\ from(k) # i BY <1>5, <1>6, <2>1
      <3>2. i \in 1..len BY DEF len
      <3>. QED BY <1>7, <1>8, <3>1, <3>2
    <2>2. ASSUME x # s[i], NEW k \in 1..len, s[k] = x PROVE Contains(q, x)
      <3>1. PICK j \in 1..m : from(j) = k BY <1>6, <2>2
      <3>. QED BY <1>5, <1>9, <2>2, <3>1
    <2>. QED BY <1>8, <1>9, <2>1, <2>2
  <1>. QED BY <1>4, <1>5, <1>10, <1>11 DEF q

-----------------------------------------------------------------------------
(* A connection's phases, and what is left to replay to it.                 *)
Phase(c) ==
    /\ outputAt[c] = "new" => stages[c] = <<>> /\ fd[c] = NoFd
    /\ outputAt[c] = "setup" => stages[c] \in {Stages, <<"replay">>, <<>>} /\ fd[c] \in Fds
    /\ outputAt[c] \in {"replaying", "lost"} => stages[c] = <<"replay">> /\ fd[c] \in Fds
    /\ outputAt[c] \in {"serve", "close"} => stages[c] = <<>> /\ fd[c] \in Fds
    /\ outputAt[c] = "gone" => fd[c] = NoFd
    /\ replay[c] # <<>> => outputAt[c] = "replaying"
    /\ Distinct(replay[c]) /\ since[c] <= lines

Attached(c) == \/ outputAt[c] \in {"replaying", "lost", "serve"}
               \/ outputAt[c] = "setup" /\ stages[c] # Stages
AttachedInv ==
    /\ Distinct(clients)
    /\ \A i \in 1..Len(clients) : \E c \in Connections : Attached(c) /\ clients[i] = fd[c]
    /\ \A c \in Connections : Attached(c) => Contains(clients, fd[c])
OpenInv == \A c, d \in Connections : fd[c] = fd[d] /\ fd[c] # NoFd => c = d

(* A report under way: no two are of one line, none goes twice to one.      *)
UnderWay(e) == emission[e].at # "idle"
ReportInv ==
    /\ \A e \in Emitters : /\ ~UnderWay(e) => emission[e] = NotReading
                           /\ UnderWay(e) => emission[e].line \in 1..lines
                           /\ Distinct(emission[e].to)
    /\ \A e, g \in Emitters : UnderWay(e) /\ UnderWay(g) /\ emission[e].line = emission[g].line => e = g
    /\ Distinct(status) /\ \A i \in 1..Len(status) : status[i] <= lines

(* A line is still to be replayed to a connection, and it is still coming   *)
(* from the thread that reports it: together with what was sent, two.       *)
Coming(c, line) == \E e \in Emitters : /\ UnderWay(e) /\ emission[e].line = line
                                       /\ \/ emission[e].at = "output"
                                          \/ Contains(emission[e].to, fd[c])
ToCome(c, line) == line > lines \/ Coming(c, line)
Due(c, line) == \/ outputAt[c] = "new" \/ (outputAt[c] = "setup" /\ stages[c] # <<>>)
                \/ Contains(replay[c], line)
AsOne(b) == IF b THEN 1 ELSE 0
Twice(c) ==
    /\ \A line \in 1..MaxLines : got[c][line] + AsOne(Due(c, line)) + AsOne(ToCome(c, line)) <= 2
    /\ outputAt[c] = "new" => \A line \in 1..MaxLines : got[c][line] = 0

(* What was reported since it attached was sent to it or is coming; what    *)
(* was kept before was sent to it or is still to be replayed.               *)
Heard(c) ==
    up[c] /\ Attached(c) =>
        \A line \in (since[c] + 1)..lines : got[c][line] > 0 \/ Coming(c, line)
Replayed(c) ==
    up[c] /\ (outputAt[c] \in {"replaying", "serve"} \/ (outputAt[c] = "setup" /\ stages[c] = <<>>)) =>
        \A i \in 1..Len(status) : \/ status[i] > since[c] \/ got[c][status[i]] > 0
                                  \/ Contains(replay[c], status[i])

ConnOk(c) == Phase(c) /\ Twice(c) /\ Heard(c) /\ Replayed(c)
ConnInv == \A c \in Connections : ConnOk(c)

OutputInv == OutputTypeOK /\ AttachedInv /\ OpenInv /\ ReportInv /\ ConnInv

-----------------------------------------------------------------------------
(* Nothing is attached or reported at first.                                *)
LEMMA OutputStarts == ASSUME OutputInit PROVE OutputInv
  <1>1. OutputTypeOK
    <2>1. \A S : <<>> \in Seq(S) OBVIOUS
    <2>2. /\ emission \in [Emitters -> [at : {"idle", "output", "sending"}, line : 0..MaxLines,
                                       to : Seq(Fds)]]
          /\ got \in [Connections -> [1..MaxLines -> Nat]]
      BY <2>1, DebugOutputAssumption DEF OutputInit, NotReading
    <2>3. /\ outputAt \in [Connections -> {"new", "setup", "replaying", "lost", "serve", "close", "gone"}]
          /\ stages \in [Connections -> Seq({"attach", "replay"})]
          /\ fd \in [Connections -> Fds \cup {NoFd}] /\ up \in [Connections -> BOOLEAN]
          /\ replay \in [Connections -> Seq(1..MaxLines)]
      BY <2>1 DEF OutputInit
    <2>4. /\ clients \in Seq(Fds) /\ status \in Seq(1..MaxLines) /\ statusLock \in BOOLEAN
          /\ Len(status) <= kStatusHistory /\ lines \in 0..MaxLines
          /\ since \in [Connections -> 0..MaxLines]
      <3>1. Len(<<>>) = 0 /\ 0 <= kStatusHistory /\ 0 \in 0..MaxLines BY DebugOutputAssumption
      <3>. QED BY <2>1, <3>1 DEF OutputInit
    <2>. QED BY <2>2, <2>3, <2>4 DEF OutputTypeOK
  <1>2. \A S : ~\E x : Contains(<<>>, x) BY DEF Contains
  <1>3. Distinct(<<>>) BY DEF Distinct
  <1>4. /\ \A c \in Connections : /\ outputAt[c] = "new" /\ stages[c] = <<>> /\ fd[c] = NoFd
                                  /\ replay[c] = <<>> /\ since[c] = 0
                                  /\ \A line \in 1..MaxLines : got[c][line] = 0
        /\ clients = <<>> /\ status = <<>> /\ lines = 0
        /\ \A e \in Emitters : emission[e] = NotReading
    BY DEF OutputInit
  <1>5. AttachedInv BY <1>3, <1>4 DEF AttachedInv, Attached
  <1>6. OpenInv BY <1>4 DEF OpenInv
  <1>7. ReportInv BY <1>3, <1>4 DEF ReportInv, UnderWay, NotReading
  <1>8. ASSUME NEW c \in Connections PROVE ConnOk(c)
    <2>1. Phase(c) BY <1>3, <1>4 DEF Phase
    <2>2. Twice(c) BY <1>4 DEF Twice, AsOne
    <2>3. Heard(c) /\ Replayed(c) BY <1>4 DEF Heard, Replayed, Attached
    <2>. QED BY <2>1, <2>2, <2>3 DEF ConnOk
  <1>. QED BY <1>1, <1>5, <1>6, <1>7, <1>8 DEF OutputInv, ConnInv

(* A connection that nothing happens to.                                    *)
Still(d) == /\ outputAt'[d] = outputAt[d] /\ stages'[d] = stages[d] /\ fd'[d] = fd[d]
            /\ up'[d] = up[d] /\ replay'[d] = replay[d] /\ since'[d] = since[d]
Quiet == UNCHANGED <<status, emission, lines>>

(* A connection of which nothing changed is as it was.                      *)
LEMMA StillOk ==
  ASSUME OutputInv, NEW d \in Connections, Still(d), Quiet, got'[d] = got[d]
  PROVE  ConnOk(d)'
  <1>. USE DEF Still, Quiet
  <1>1. ConnOk(d) BY DEF OutputInv, ConnInv
  <1>2. \A line : (Coming(d, line) <=> Coming(d, line)') /\ (Due(d, line) <=> Due(d, line)')
    BY DEF Coming, Due, UnderWay
  <1>3. Phase(d)' BY <1>1 DEF ConnOk, Phase
  <1>4. Twice(d)' BY <1>1, <1>2 DEF ConnOk, Twice, ToCome, AsOne
  <1>5. Heard(d)' BY <1>1, <1>2 DEF ConnOk, Heard, Attached
  <1>6. Replayed(d)' BY <1>1 DEF ConnOk, Replayed
  <1>. QED BY <1>3, <1>4, <1>5, <1>6 DEF ConnOk

(* What two sums have in common: a line sent is a line less to come.        *)
LEMMA TwiceHolds ==
  ASSUME OutputInv, NEW c \in Connections, OutputTypeOK',
         \A line \in 1..MaxLines :
            \/ /\ got'[c][line] = got[c][line]
               /\ Due(c, line)' => Due(c, line)
               /\ ToCome(c, line)' => ToCome(c, line)
            \/ /\ got'[c][line] = got[c][line] + 1
               /\ \/ Due(c, line) /\ ~Due(c, line)' /\ (ToCome(c, line)' => ToCome(c, line))
                  \/ ToCome(c, line) /\ ~ToCome(c, line)' /\ (Due(c, line)' => Due(c, line)),
         outputAt'[c] = "new" => \A line \in 1..MaxLines : got'[c][line] = 0
  PROVE  Twice(c)'
  <1>1. Twice(c) BY DEF OutputInv, ConnInv, ConnOk
  <1>2. \A line \in 1..MaxLines : got[c][line] \in Nat /\ got'[c][line] \in Nat
    <2>1. \A line \in 1..MaxLines : got[c][line] \in Nat BY DEF OutputInv, OutputTypeOK
    <2>2. \A line \in 1..MaxLines : got'[c][line] \in Nat BY DEF OutputTypeOK
    <2>. QED BY <2>1, <2>2
  <1>. SUFFICES ASSUME NEW line \in 1..MaxLines
                PROVE got'[c][line] + AsOne(Due(c, line)') + AsOne(ToCome(c, line)') <= 2
    BY DEF Twice, AsOne
  <1>3. got[c][line] + AsOne(Due(c, line)) + AsOne(ToCome(c, line)) <= 2 BY <1>1 DEF Twice
  <1>. QED BY <1>2, <1>3 DEF AsOne

(* The numbers that lines have, and how often one was sent.                 *)
LEMMA Numbers ==
  ASSUME OutputTypeOK, NEW c \in Connections
  PROVE  /\ MaxLines \in Nat /\ lines \in Nat /\ lines <= MaxLines /\ since[c] \in Nat
         /\ \A line \in (since[c] + 1)..lines : line \in 1..MaxLines
         /\ \A line \in 1..MaxLines : got[c][line] \in Nat
         /\ \A i \in 1..Len(status) : status[i] \in 1..MaxLines
  <1>1. MaxLines \in Nat BY DebugOutputAssumption
  <1>2. since[c] \in 0..MaxLines /\ lines \in 0..MaxLines /\ status \in Seq(1..MaxLines)
        /\ \A line \in 1..MaxLines : got[c][line] \in Nat
    BY DEF OutputTypeOK
  <1>3. \A i \in 1..Len(status) : status[i] \in 1..MaxLines BY <1>2, ElementOfSeq
  <1>. QED BY <1>1, <1>2, <1>3

(* What a step of a connection's leaves to the others, and the types of     *)
(* what it changes.                                                         *)
Others(c) == \A d \in Connections : d # c => Still(d) /\ got'[d] = got[d]

(* The phases change, the rest for c is as the caller shows.                *)
LEMMA OthersOk ==
  ASSUME OutputInv, NEW c \in Connections, Others(c), Quiet, ConnOk(c)'
  PROVE  ConnInv'
  <1>. SUFFICES ASSUME NEW d \in Connections PROVE ConnOk(d)' BY DEF ConnInv
  <1>. QED BY StillOk DEF Others

(* Reports that nothing happens to.                                         *)
LEMMA ReportsKept == ASSUME OutputInv, Quiet PROVE ReportInv'
  BY DEF OutputInv, ReportInv, Quiet, UnderWay

(* The list of those attached, when nobody comes or goes.                   *)
LEMMA AttachedKept ==
  ASSUME OutputInv, UNCHANGED <<clients, fd>>,
         \A d \in Connections : Attached(d)' <=> Attached(d)
  PROVE  AttachedInv' /\ OpenInv'
  BY DEF OutputInv, AttachedInv, OpenInv

(* A client connects.                                                       *)
LEMMA AcceptHolds == ASSUME OutputInv, NEW c \in Connections, Accept(c) PROVE OutputInv'
  <1>1. PICK f \in Fds : (\A d \in Connections : fd[d] # f) /\ fd' = [fd EXCEPT ![c] = f]
    BY DEF Accept
  <1>2. /\ outputAt[c] = "new" /\ outputAt' = [outputAt EXCEPT ![c] = "setup"]
        /\ stages' = [stages EXCEPT ![c] = Stages]
        /\ UNCHANGED <<up, replay, clients, status, statusLock, emission, lines, got, since>>
    BY DEF Accept, GotoStep
  <1>3. OutputTypeOK BY DEF OutputInv
  <1>4. Stages \in Seq({"attach", "replay"}) /\ Stages # <<>> BY DEF Stages
  <1>5. OutputTypeOK' BY <1>1, <1>2, <1>3, <1>4 DEF OutputTypeOK
  <1>6. /\ outputAt'[c] = "setup" /\ stages'[c] = Stages /\ fd'[c] = f
        /\ Others(c) /\ Quiet
    BY <1>1, <1>2, <1>3 DEF OutputTypeOK, Others, Still, Quiet
  <1>7. ConnOk(c) /\ AttachedInv /\ OpenInv BY DEF OutputInv, ConnInv
  <1>8. replay[c] = <<>> /\ since[c] <= lines /\ Distinct(replay[c]) /\ fd[c] = NoFd
    BY <1>2, <1>7 DEF ConnOk, Phase
  <1>9. \A d \in Connections : Attached(d)' <=> Attached(d) /\ d # c
    BY <1>2, <1>6 DEF Attached, Others, Still
  <1>10. ~Attached(c) BY <1>2 DEF Attached
  <1>11. AttachedInv'
    <2>1. \A d \in Connections : d # c => fd'[d] = fd[d] BY <1>6 DEF Others, Still
    <2>. QED BY <1>2, <1>7, <1>9, <1>10, <2>1 DEF AttachedInv
  <1>12. OpenInv' BY <1>1, <1>3, <1>7 DEF OpenInv, OutputTypeOK
  <1>13. Phase(c)' BY <1>2, <1>6, <1>8 DEF Phase
  <1>14. Twice(c)'
    <2>1. \A line \in 1..MaxLines : got'[c][line] = 0 BY <1>2, <1>7 DEF ConnOk, Twice
    <2>. QED BY <1>6, <2>1 DEF Twice, AsOne
  <1>15. Heard(c)' /\ Replayed(c)' BY <1>4, <1>6 DEF Heard, Replayed, Attached
  <1>16. ConnInv' BY <1>6, <1>13, <1>14, <1>15, OthersOk DEF ConnOk
  <1>17. ReportInv' BY <1>6, ReportsKept
  <1>. QED BY <1>5, <1>11, <1>12, <1>16, <1>17 DEF OutputInv

(* A client is put among those that hear.                                   *)
LEMMA AttachHolds == ASSUME OutputInv, NEW c \in Connections, Attach(c) PROVE OutputInv'
  <1>1. /\ outputAt[c] = "setup" /\ stages[c] # <<>> /\ Head(stages[c]) = "attach"
        /\ clients' = Append(clients, fd[c])
        /\ since' = [since EXCEPT ![c] = lines]
        /\ stages' = [stages EXCEPT ![c] = Tail(stages[c])]
        /\ UNCHANGED <<outputAt, fd, up, replay, status, statusLock, emission, lines, got>>
    BY DEF Attach, AtStage, StageDone
  <1>2. OutputTypeOK /\ ConnOk(c) /\ AttachedInv /\ OpenInv BY DEF OutputInv, ConnInv
  <1>3. stages[c] = Stages /\ Tail(stages[c]) = <<"replay">> /\ fd[c] \in Fds /\ fd[c] # NoFd
    <2>1. Phase(c) BY <1>2 DEF ConnOk
    <2>2. Head(<<"replay">>) # "attach" OBVIOUS
    <2>3. stages[c] = Stages BY <1>1, <2>1, <2>2 DEF Phase
    <2>4. Tail(Stages) = <<"replay">> BY DEF Stages
    <2>. QED BY <1>1, <2>1, <2>3, <2>4, DebugOutputAssumption DEF Phase
  <1>4. <<"replay">> \in Seq({"attach", "replay"}) /\ <<"replay">> # <<>> /\ <<"replay">> # Stages
    BY DEF Stages
  <1>5. clients \in Seq(Fds) /\ lines \in 0..MaxLines BY <1>2 DEF OutputTypeOK
  <1>6. /\ clients' \in Seq(Fds) /\ Len(clients') = Len(clients) + 1
        /\ Distinct(clients) /\ ~Contains(clients, fd[c]) => Distinct(clients')
        /\ \A y : Contains(clients', y) <=> y = fd[c] \/ Contains(clients, y)
    BY <1>1, <1>3, <1>5, AppendOnce
  <1>7. OutputTypeOK' BY <1>1, <1>2, <1>3, <1>4, <1>5, <1>6 DEF OutputTypeOK
  <1>8. /\ stages'[c] = <<"replay">> /\ since'[c] = lines /\ Others(c) /\ Quiet
    BY <1>1, <1>2, <1>3 DEF OutputTypeOK, Others, Still, Quiet
  <1>9. /\ \A d \in Connections : Attached(d)' <=> Attached(d) \/ d = c
        /\ ~Attached(c)
    BY <1>1, <1>3, <1>4, <1>8 DEF Attached, Others, Still
  <1>10. ~Contains(clients, fd[c])
    <2>. SUFFICES ASSUME NEW i \in 1..Len(clients), clients[i] = fd[c] PROVE FALSE
      BY DEF Contains
    <2>1. PICK d \in Connections : Attached(d) /\ clients[i] = fd[d] BY <1>2 DEF AttachedInv
    <2>. QED BY <1>2, <1>3, <1>9, <2>1 DEF OpenInv
  <1>11. AttachedInv'
    <2>1. Distinct(clients') BY <1>2, <1>6, <1>10 DEF AttachedInv
    <2>2. ASSUME NEW y, Contains(clients', y) PROVE \E d \in Connections : Attached(d)' /\ y = fd'[d]
      <3>1. CASE y = fd[c] BY <1>1, <1>9, <3>1
      <3>2. CASE Contains(clients, y)
        <4>1. PICK d \in Connections : Attached(d) /\ y = fd[d]
          BY <1>2, <3>2 DEF AttachedInv, Contains
        <4>. QED BY <1>1, <1>9, <4>1
      <3>. QED BY <1>6, <2>2, <3>1, <3>2
    <2>3. \A i \in 1..Len(clients') : Contains(clients', clients'[i]) BY DEF Contains
    <2>4. \A d \in Connections : Attached(d)' => Contains(clients', fd'[d])
      BY <1>1, <1>2, <1>6, <1>9 DEF AttachedInv
    <2>. QED BY <2>1, <2>2, <2>3, <2>4 DEF AttachedInv
  <1>12. OpenInv' BY <1>1, <1>2 DEF OpenInv
  <1>13. Phase(c) /\ replay[c] = <<>> BY <1>1, <1>2 DEF ConnOk, Phase
  <1>14. Phase(c)' BY <1>1, <1>3, <1>5, <1>8, <1>13 DEF Phase
  <1>15. Twice(c)'
    <2>1. \A line \in 1..MaxLines : /\ got'[c][line] = got[c][line]
                                    /\ Due(c, line)' => Due(c, line)
                                    /\ ToCome(c, line)' => ToCome(c, line)
      BY <1>1 DEF Due, ToCome, Coming, UnderWay
    <2>. QED BY <1>1, <1>7, <2>1, TwiceHolds
  <1>16. Heard(c)' BY <1>1, <1>5, <1>8 DEF Heard
  <1>17. Replayed(c)' BY <1>1, <1>4, <1>8 DEF Replayed
  <1>18. ConnInv' BY <1>8, <1>14, <1>15, <1>16, <1>17, OthersOk DEF ConnOk
  <1>19. ReportInv' BY <1>8, ReportsKept
  <1>. QED BY <1>7, <1>11, <1>12, <1>18, <1>19 DEF OutputInv

(* The replay of the history begins.                                        *)
LEMMA ReplayBeginsHolds ==
  ASSUME OutputInv, NEW c \in Connections, ReplayBegins(c) PROVE OutputInv'
  <1>1. /\ outputAt[c] = "setup" /\ stages[c] # <<>> /\ Head(stages[c]) = "replay"
        /\ statusLock' = TRUE /\ replay' = [replay EXCEPT ![c] = status]
        /\ outputAt' = [outputAt EXCEPT ![c] = "replaying"]
        /\ UNCHANGED <<stages, fd, up, clients, status, emission, lines, got, since>>
    BY DEF ReplayBegins, AtStage, GotoStep
  <1>2. OutputTypeOK /\ ConnOk(c) /\ AttachedInv /\ OpenInv /\ ReportInv BY DEF OutputInv, ConnInv
  <1>3. stages[c] = <<"replay">> /\ fd[c] \in Fds
    <2>1. Phase(c) BY <1>2 DEF ConnOk
    <2>2. Head(Stages) # "replay" BY DEF Stages
    <2>. QED BY <1>1, <2>1, <2>2 DEF Phase
  <1>4. <<"replay">> # Stages BY DEF Stages
  <1>5. OutputTypeOK' BY <1>1, <1>2 DEF OutputTypeOK
  <1>6. outputAt'[c] = "replaying" /\ replay'[c] = status /\ Others(c) /\ Quiet
    BY <1>1, <1>2 DEF OutputTypeOK, Others, Still, Quiet
  <1>7. \A d \in Connections : Attached(d)' <=> Attached(d)
    BY <1>1, <1>3, <1>4, <1>6 DEF Attached, Others, Still
  <1>8. AttachedInv' /\ OpenInv' BY <1>1, <1>7, AttachedKept
  <1>9. Phase(c)' BY <1>1, <1>2, <1>3, <1>6 DEF ConnOk, Phase, ReportInv
  <1>10. Twice(c)'
    <2>1. \A line \in 1..MaxLines : /\ got'[c][line] = got[c][line] /\ Due(c, line)
                                    /\ ToCome(c, line)' => ToCome(c, line)
      BY <1>1 DEF Due, ToCome, Coming, UnderWay
    <2>. QED BY <1>1, <1>5, <1>6, <2>1, TwiceHolds
  <1>11. Heard(c)'
    <2>1. Attached(c) BY <1>1, <1>3, <1>4 DEF Attached
    <2>. QED BY <1>1, <1>2, <2>1 DEF ConnOk, Heard, Coming, UnderWay
  <1>12. Replayed(c)' BY <1>1, <1>6 DEF Replayed, Contains
  <1>13. ConnInv' BY <1>6, <1>9, <1>10, <1>11, <1>12, OthersOk DEF ConnOk
  <1>14. ReportInv' BY <1>6, ReportsKept
  <1>. QED BY <1>5, <1>8, <1>13, <1>14 DEF OutputInv

(* A packet that is sent reaches the connection whose descriptor it is.     *)
LEMMA Reaches ==
  ASSUME OutputTypeOK, OpenInv, NEW f \in Fds, NEW line \in 1..MaxLines
  PROVE  /\ SentTo(f, line) \in [Connections -> [1..MaxLines -> Nat]]
         /\ \A c \in Connections, l \in 1..MaxLines :
               SentTo(f, line)[c][l] = IF fd[c] = f /\ up[c] /\ l = line THEN got[c][l] + 1
                                        ELSE got[c][l]
         /\ \A c \in Connections : ~(fd[c] = f /\ up[c]) => SentTo(f, line)[c] = got[c]
  <1>1. \A c \in Connections : got[c] \in [1..MaxLines -> Nat] BY DEF OutputTypeOK
  <1>. DEFINE next(c) == [got[c] EXCEPT ![line] = @ + 1]
  <1>2. ASSUME NEW c \in Connections
        PROVE  /\ next(c) \in [1..MaxLines -> Nat]
               /\ \A l \in 1..MaxLines :
                     next(c)[l] = IF l = line THEN got[c][l] + 1 ELSE got[c][l]
    <2>1. PICK g \in [1..MaxLines -> Nat] : g = got[c] BY <1>1
    <2>2. g[line] \in Nat BY <2>1, DebugOutputAssumption
    <2>3. next(c) = [g EXCEPT ![line] = g[line] + 1] BY <2>1
    <2>4. g[line] + 1 \in Nat BY <2>2
    <2>. QED BY <2>1, <2>2, <2>3, <2>4
  <1>3. \A c \in Connections : SentTo(f, line)[c] = IF fd[c] = f /\ up[c] THEN next(c) ELSE got[c]
    BY DEF SentTo
  <1>4. SentTo(f, line) = [c \in Connections |-> SentTo(f, line)[c]] BY DEF SentTo
  <1>. HIDE DEF next
  <1>. QED BY <1>1, <1>2, <1>3, <1>4

(* The replay sends a line.                                                 *)
LEMMA ReplaySendsHolds ==
  ASSUME OutputInv, NEW c \in Connections, ReplaySends(c) PROVE OutputInv'
  <1>. DEFINE head == Head(replay[c])
              rest == Tail(replay[c])
  <1>1. /\ outputAt[c] = "replaying" /\ replay[c] # <<>> /\ up[c]
        /\ got' = SentTo(fd[c], head)
        /\ replay' = [replay EXCEPT ![c] = rest]
        /\ UNCHANGED <<outputAt, stages, fd, up, clients, status, statusLock, emission, lines, since>>
    BY DEF ReplaySends
  <1>2. OutputTypeOK /\ ConnOk(c) /\ AttachedInv /\ OpenInv /\ ReportInv BY DEF OutputInv, ConnInv
  <1>3. Phase(c) /\ fd[c] \in Fds /\ Distinct(replay[c]) /\ fd[c] # NoFd
    BY <1>1, <1>2, DebugOutputAssumption DEF ConnOk, Phase
  <1>4. replay[c] \in Seq(1..MaxLines) BY <1>2 DEF OutputTypeOK
  <1>5. /\ rest \in Seq(1..MaxLines) /\ head \in 1..MaxLines
        /\ Distinct(rest) /\ ~Contains(rest, head)
        /\ \A x : Contains(replay[c], x) <=> x = head \/ Contains(rest, x)
    BY <1>1, <1>3, <1>4, TailOnce
  <1>. HIDE DEF head, rest
  <1>6. /\ got' \in [Connections -> [1..MaxLines -> Nat]]
        /\ \A l \in 1..MaxLines : got'[c][l] = IF l = head THEN got[c][l] + 1 ELSE got[c][l]
        /\ \A d \in Connections : d # c => got'[d] = got[d]
    BY <1>1, <1>2, <1>3, <1>5, Reaches DEF OpenInv
  <1>7. OutputTypeOK' BY <1>1, <1>2, <1>5, <1>6 DEF OutputTypeOK
  <1>8. replay'[c] = rest /\ Others(c) /\ Quiet
    BY <1>1, <1>2, <1>6 DEF OutputTypeOK, Others, Still, Quiet
  <1>9. \A d \in Connections : Attached(d)' <=> Attached(d) BY <1>1 DEF Attached
  <1>10. AttachedInv' /\ OpenInv' BY <1>1, <1>9, AttachedKept
  <1>11. Phase(c)' BY <1>1, <1>3, <1>5, <1>8 DEF Phase
  <1>12. Twice(c)'
    <2>1. \A line \in 1..MaxLines : ToCome(c, line)' <=> ToCome(c, line)
      BY <1>1 DEF ToCome, Coming, UnderWay
    <2>2. \A line \in 1..MaxLines : /\ Due(c, line) <=> line = head \/ Contains(rest, line)
                                    /\ Due(c, line)' <=> Contains(rest, line)
      BY <1>1, <1>5, <1>8 DEF Due
    <2>3. \A line \in 1..MaxLines :
            \/ got'[c][line] = got[c][line] /\ (Due(c, line)' => Due(c, line))
            \/ got'[c][line] = got[c][line] + 1 /\ Due(c, line) /\ ~Due(c, line)'
      BY <1>5, <1>6, <2>2
    <2>. QED BY <1>1, <1>7, <2>1, <2>3, TwiceHolds
  <1>13. \A line \in 1..MaxLines : got[c][line] > 0 => got'[c][line] > 0
    <2>1. \A line \in 1..MaxLines : got[c][line] \in Nat BY <1>2, Numbers
    <2>. QED BY <1>6, <2>1
  <1>14. Heard(c)'
    <2>1. Heard(c) /\ Attached(c) BY <1>1, <1>2 DEF ConnOk, Attached
    <2>3. \A line \in (since[c] + 1)..lines : line \in 1..MaxLines BY <1>2, Numbers
    <2>4. \A line : Coming(c, line)' <=> Coming(c, line) BY <1>1 DEF Coming, UnderWay
    <2>. QED BY <1>1, <1>13, <2>1, <2>3, <2>4 DEF Heard
  <1>15. Replayed(c)'
    <2>1. \A i \in 1..Len(status) : /\ status[i] \in 1..MaxLines
                                    /\ \/ status[i] > since[c] \/ got[c][status[i]] > 0
                                       \/ Contains(replay[c], status[i])
      BY <1>1, <1>2, Numbers DEF ConnOk, Replayed
    <2>2. got[c][head] \in Nat /\ got'[c][head] = got[c][head] + 1 BY <1>2, <1>5, <1>6 DEF OutputTypeOK
    <2>3. got'[c][head] > 0 BY <2>2
    <2>. QED BY <1>1, <1>5, <1>8, <1>13, <2>1, <2>3 DEF Replayed
  <1>16. ConnInv' BY <1>8, <1>11, <1>12, <1>14, <1>15, OthersOk, StillOk DEF ConnOk
  <1>17. ReportInv' BY <1>8, ReportsKept
  <1>. QED BY <1>7, <1>10, <1>16, <1>17 DEF OutputInv

(* The replay finds its client gone.                                        *)
LEMMA ReplayFailsHolds ==
  ASSUME OutputInv, NEW c \in Connections, ReplayFails(c) PROVE OutputInv'
  <1>1. /\ outputAt[c] = "replaying" /\ ~up[c] /\ statusLock' = FALSE
        /\ replay' = [replay EXCEPT ![c] = <<>>]
        /\ outputAt' = [outputAt EXCEPT ![c] = "lost"]
        /\ UNCHANGED <<stages, fd, up, clients, status, emission, lines, got, since>>
    BY DEF ReplayFails, GotoStep
  <1>2. OutputTypeOK /\ ConnOk(c) BY DEF OutputInv, ConnInv
  <1>3. <<>> \in Seq(1..MaxLines) /\ Distinct(<<>>) /\ \A x : ~Contains(<<>>, x)
    BY DEF Distinct, Contains
  <1>4. OutputTypeOK' BY <1>1, <1>2, <1>3 DEF OutputTypeOK
  <1>5. outputAt'[c] = "lost" /\ replay'[c] = <<>> /\ Others(c) /\ Quiet
    BY <1>1, <1>2 DEF OutputTypeOK, Others, Still, Quiet
  <1>6. \A d \in Connections : Attached(d)' <=> Attached(d)
    BY <1>1, <1>5 DEF Attached, Others, Still
  <1>7. AttachedInv' /\ OpenInv' BY <1>1, <1>6, AttachedKept
  <1>8. Phase(c)' BY <1>1, <1>2, <1>3, <1>5 DEF ConnOk, Phase
  <1>9. Twice(c)'
    <2>1. \A line \in 1..MaxLines : /\ got'[c][line] = got[c][line] /\ ~Due(c, line)'
                                    /\ ToCome(c, line)' => ToCome(c, line)
      BY <1>1, <1>3, <1>5 DEF Due, ToCome, Coming, UnderWay
    <2>. QED BY <1>1, <1>4, <1>5, <2>1, TwiceHolds
  <1>10. Heard(c)' /\ Replayed(c)' BY <1>1 DEF Heard, Replayed
  <1>11. ConnInv' BY <1>5, <1>8, <1>9, <1>10, OthersOk DEF ConnOk
  <1>12. ReportInv' BY <1>5, ReportsKept
  <1>. QED BY <1>4, <1>7, <1>11, <1>12 DEF OutputInv

(* The replay is over.                                                      *)
LEMMA ReplayEndsHolds ==
  ASSUME OutputInv, NEW c \in Connections, ReplayEnds(c) PROVE OutputInv'
  <1>1. /\ outputAt[c] = "replaying" /\ replay[c] = <<>> /\ statusLock' = FALSE
        /\ outputAt' = [outputAt EXCEPT ![c] = "setup"]
        /\ stages' = [stages EXCEPT ![c] = Tail(stages[c])]
        /\ UNCHANGED <<fd, up, replay, clients, status, emission, lines, got, since>>
    BY DEF ReplayEnds, GotoStep, StageDone
  <1>2. OutputTypeOK /\ ConnOk(c) BY DEF OutputInv, ConnInv
  <1>3. stages[c] = <<"replay">> /\ Tail(stages[c]) = <<>> /\ fd[c] \in Fds
    <2>1. stages[c] = <<"replay">> /\ fd[c] \in Fds BY <1>1, <1>2 DEF ConnOk, Phase
    <2>2. Tail(<<"replay">>) = <<>> OBVIOUS
    <2>. QED BY <2>1, <2>2
  <1>4. <<>> \in Seq({"attach", "replay"}) /\ <<>> # Stages BY DEF Stages
  <1>5. OutputTypeOK' BY <1>1, <1>2, <1>3, <1>4 DEF OutputTypeOK
  <1>6. outputAt'[c] = "setup" /\ stages'[c] = <<>> /\ Others(c) /\ Quiet
    BY <1>1, <1>2, <1>3 DEF OutputTypeOK, Others, Still, Quiet
  <1>7. Attached(c) /\ \A d \in Connections : Attached(d)' <=> Attached(d)
    BY <1>1, <1>4, <1>6 DEF Attached, Others, Still
  <1>8. AttachedInv' /\ OpenInv' BY <1>1, <1>7, AttachedKept
  <1>9. Phase(c)' BY <1>1, <1>2, <1>3, <1>6 DEF ConnOk, Phase
  <1>10. Twice(c)'
    <2>1. \A line \in 1..MaxLines : /\ got'[c][line] = got[c][line]
                                    /\ Due(c, line)' => Due(c, line)
                                    /\ ToCome(c, line)' => ToCome(c, line)
      BY <1>1, <1>6 DEF Due, ToCome, Coming, UnderWay
    <2>. QED BY <1>1, <1>5, <1>6, <2>1, TwiceHolds
  <1>11. Heard(c)' BY <1>1, <1>2, <1>7 DEF ConnOk, Heard, Coming, UnderWay
  <1>12. Replayed(c)' BY <1>1, <1>2 DEF ConnOk, Replayed
  <1>13. ConnInv' BY <1>6, <1>9, <1>10, <1>11, <1>12, OthersOk DEF ConnOk
  <1>14. ReportInv' BY <1>6, ReportsKept
  <1>. QED BY <1>5, <1>8, <1>13, <1>14 DEF OutputInv

(* A client is served.                                                      *)
LEMMA ServeHolds == ASSUME OutputInv, NEW c \in Connections, Serve(c) PROVE OutputInv'
  <1>1. /\ outputAt[c] = "setup" /\ stages[c] = <<>>
        /\ outputAt' = [outputAt EXCEPT ![c] = "serve"]
        /\ UNCHANGED <<stages, fd, up, replay, clients, status, statusLock, emission, lines,
                       got, since>>
    BY DEF Serve, GotoStep
  <1>2. OutputTypeOK /\ ConnOk(c) BY DEF OutputInv, ConnInv
  <1>3. <<>> # Stages BY DEF Stages
  <1>4. OutputTypeOK' BY <1>1, <1>2 DEF OutputTypeOK
  <1>5. outputAt'[c] = "serve" /\ Others(c) /\ Quiet
    BY <1>1, <1>2 DEF OutputTypeOK, Others, Still, Quiet
  <1>6. Attached(c) /\ \A d \in Connections : Attached(d)' <=> Attached(d)
    BY <1>1, <1>3, <1>5 DEF Attached, Others, Still
  <1>7. AttachedInv' /\ OpenInv' BY <1>1, <1>6, AttachedKept
  <1>8. Phase(c)' BY <1>1, <1>2, <1>5 DEF ConnOk, Phase
  <1>9. Twice(c)'
    <2>1. \A line \in 1..MaxLines : /\ got'[c][line] = got[c][line]
                                    /\ Due(c, line)' => Due(c, line)
                                    /\ ToCome(c, line)' => ToCome(c, line)
      BY <1>1, <1>5 DEF Due, ToCome, Coming, UnderWay
    <2>. QED BY <1>1, <1>4, <1>5, <2>1, TwiceHolds
  <1>10. Heard(c)' BY <1>1, <1>2, <1>6 DEF ConnOk, Heard, Coming, UnderWay
  <1>11. Replayed(c)' BY <1>1, <1>2 DEF ConnOk, Replayed
  <1>12. ConnInv' BY <1>5, <1>8, <1>9, <1>10, <1>11, OthersOk DEF ConnOk
  <1>13. ReportInv' BY <1>5, ReportsKept
  <1>. QED BY <1>4, <1>7, <1>12, <1>13 DEF OutputInv

(* The list without the one that leaves.                                    *)
LEMMA DetachedProperties ==
  ASSUME OutputTypeOK, AttachedInv, NEW c \in Connections, Attached(c)
  PROVE  /\ Detached(c) \in Seq(Fds) /\ Distinct(Detached(c))
         /\ \A f : Contains(Detached(c), f) <=> f # fd[c] /\ Contains(clients, f)
  <1>. DEFINE at == {i \in DOMAIN clients : clients[i] = fd[c]}
              i == CHOOSE i \in at : TRUE
  <1>1. clients \in Seq(Fds) BY DEF OutputTypeOK
  <1>2. DOMAIN clients = 1..Len(clients) BY <1>1, LenProperties
  <1>3. at # {} BY <1>2 DEF AttachedInv, Contains
  <1>4. i \in 1..Len(clients) /\ clients[i] = fd[c] BY <1>2, <1>3
  <1>5. Detached(c) = RemoveAt(clients, i) BY <1>3 DEF Detached
  <1>. HIDE DEF i, at
  <1>. QED BY <1>1, <1>4, <1>5, RemoveOnce DEF AttachedInv

(* A client is taken out of those that hear.                                *)
LEMMA DetachClientHolds ==
  ASSUME OutputInv, NEW c \in Connections, DetachClient(c) PROVE OutputInv'
  <1>1. /\ outputAt[c] = "serve" /\ clients' = Detached(c)
        /\ outputAt' = [outputAt EXCEPT ![c] = "close"]
        /\ UNCHANGED <<stages, fd, up, replay, status, statusLock, emission, lines, got, since>>
    BY DEF DetachClient, GotoStep
  <1>2. OutputTypeOK /\ ConnOk(c) /\ AttachedInv /\ OpenInv BY DEF OutputInv, ConnInv
  <1>3. Attached(c) /\ Phase(c) /\ fd[c] \in Fds /\ fd[c] # NoFd
    BY <1>1, <1>2, DebugOutputAssumption DEF Attached, ConnOk, Phase
  <1>4. /\ clients' \in Seq(Fds) /\ Distinct(clients')
        /\ \A f : Contains(clients', f) <=> f # fd[c] /\ Contains(clients, f)
    BY <1>1, <1>2, <1>3, DetachedProperties
  <1>5. OutputTypeOK' BY <1>1, <1>2, <1>4 DEF OutputTypeOK
  <1>6. outputAt'[c] = "close" /\ Others(c) /\ Quiet
    BY <1>1, <1>2 DEF OutputTypeOK, Others, Still, Quiet
  <1>7. ~Attached(c)' /\ \A d \in Connections : Attached(d)' <=> Attached(d) /\ d # c
    BY <1>1, <1>6 DEF Attached, Others, Still
  <1>8. AttachedInv'
    <2>1. ASSUME NEW f, Contains(clients', f) PROVE \E d \in Connections : Attached(d)' /\ f = fd'[d]
      <3>1. f # fd[c] /\ Contains(clients, f) BY <1>4, <2>1
      <3>2. PICK d \in Connections : Attached(d) /\ f = fd[d]
        BY <1>2, <3>1 DEF AttachedInv, Contains
      <3>. QED BY <1>1, <1>7, <3>1, <3>2
    <2>2. \A i \in 1..Len(clients') : Contains(clients', clients'[i]) BY DEF Contains
    <2>3. ASSUME NEW d \in Connections, Attached(d)' PROVE Contains(clients', fd'[d])
      <3>1. Attached(d) /\ d # c BY <1>7, <2>3
      <3>2. fd[d] # fd[c] BY <1>2, <1>3, <3>1 DEF OpenInv
      <3>. QED BY <1>1, <1>2, <1>4, <3>1, <3>2 DEF AttachedInv
    <2>. QED BY <1>4, <2>1, <2>2, <2>3 DEF AttachedInv
  <1>9. OpenInv' BY <1>1, <1>2 DEF OpenInv
  <1>10. Phase(c)' BY <1>1, <1>3, <1>6 DEF Phase
  <1>11. Twice(c)'
    <2>1. \A line \in 1..MaxLines : /\ got'[c][line] = got[c][line]
                                    /\ Due(c, line)' => Due(c, line)
                                    /\ ToCome(c, line)' => ToCome(c, line)
      BY <1>1, <1>6 DEF Due, ToCome, Coming, UnderWay
    <2>. QED BY <1>1, <1>5, <1>6, <2>1, TwiceHolds
  <1>12. Heard(c)' /\ Replayed(c)' BY <1>6, <1>7 DEF Heard, Replayed
  <1>13. ConnInv' BY <1>6, <1>10, <1>11, <1>12, OthersOk DEF ConnOk
  <1>14. ReportInv' BY <1>6, ReportsKept
  <1>. QED BY <1>5, <1>8, <1>9, <1>13, <1>14 DEF OutputInv

(* A descriptor is closed.                                                  *)
LEMMA CloseHolds == ASSUME OutputInv, NEW c \in Connections, Close(c) PROVE OutputInv'
  <1>1. /\ outputAt[c] = "close" /\ fd' = [fd EXCEPT ![c] = NoFd]
        /\ outputAt' = [outputAt EXCEPT ![c] = "gone"]
        /\ UNCHANGED <<stages, up, replay, clients, status, statusLock, emission, lines, got, since>>
    BY DEF Close, GotoStep
  <1>2. OutputTypeOK /\ ConnOk(c) /\ AttachedInv /\ OpenInv /\ ReportInv BY DEF OutputInv, ConnInv
  <1>3. OutputTypeOK' BY <1>1, <1>2 DEF OutputTypeOK
  <1>4. outputAt'[c] = "gone" /\ fd'[c] = NoFd /\ Others(c) /\ Quiet
    BY <1>1, <1>2 DEF OutputTypeOK, Others, Still, Quiet
  <1>5. ~Attached(c) /\ \A d \in Connections : Attached(d)' <=> Attached(d)
    BY <1>1, <1>4 DEF Attached, Others, Still
  <1>6. \A d \in Connections : d # c => fd'[d] = fd[d] BY <1>4 DEF Others, Still
  <1>7. AttachedInv'
    <2>1. \A d \in Connections : Attached(d) => fd'[d] = fd[d] BY <1>5, <1>6
    <2>. QED BY <1>1, <1>2, <1>5, <2>1 DEF AttachedInv
  <1>8. OpenInv' BY <1>2, <1>4, <1>6 DEF OpenInv
  <1>9. Phase(c)' BY <1>1, <1>2, <1>4 DEF ConnOk, Phase
  <1>10. Twice(c)'
    <2>1. \A e \in Emitters : ~Contains(emission[e].to, NoFd)
      <3>1. \A e \in Emitters : emission[e].to \in Seq(Fds) BY <1>2 DEF OutputTypeOK
      <3>2. \A e \in Emitters : \A i \in 1..Len(emission[e].to) : emission[e].to[i] \in Fds
        BY <3>1, ElementOfSeq
      <3>. QED BY <3>2, DebugOutputAssumption DEF Contains
    <2>2. \A line \in 1..MaxLines : /\ got'[c][line] = got[c][line]
                                    /\ Due(c, line)' => Due(c, line)
                                    /\ ToCome(c, line)' => ToCome(c, line)
      BY <1>1, <1>4, <2>1 DEF Due, ToCome, Coming, UnderWay
    <2>. QED BY <1>1, <1>3, <1>4, <2>2, TwiceHolds
  <1>11. Heard(c)' /\ Replayed(c)' BY <1>4, <1>5 DEF Heard, Replayed
  <1>12. ConnInv' BY <1>4, <1>9, <1>10, <1>11, OthersOk DEF ConnOk
  <1>13. ReportInv' BY <1>4, ReportsKept
  <1>. QED BY <1>3, <1>7, <1>8, <1>12, <1>13 DEF OutputInv

(* A client hangs up.                                                       *)
LEMMA HangUpHolds == ASSUME OutputInv, NEW c \in Connections, HangUp(c) PROVE OutputInv'
  <1>1. /\ fd[c] # NoFd /\ up' = [up EXCEPT ![c] = FALSE]
        /\ UNCHANGED <<outputAt, stages, fd, replay, clients, status, statusLock, emission, lines,
                       got, since>>
    BY DEF HangUp
  <1>2. OutputTypeOK /\ ConnOk(c) BY DEF OutputInv, ConnInv
  <1>3. OutputTypeOK' BY <1>1, <1>2 DEF OutputTypeOK
  <1>4. ~up'[c] /\ Others(c) /\ Quiet BY <1>1, <1>2 DEF OutputTypeOK, Others, Still, Quiet
  <1>5. AttachedInv' /\ OpenInv'
    <2>1. \A d \in Connections : Attached(d)' <=> Attached(d) BY <1>1 DEF Attached
    <2>. QED BY <1>1, <2>1, AttachedKept
  <1>6. Phase(c)' BY <1>1, <1>2 DEF ConnOk, Phase
  <1>7. Twice(c)' BY <1>1, <1>2 DEF ConnOk, Twice, Due, ToCome, Coming, UnderWay, AsOne
  <1>8. Heard(c)' /\ Replayed(c)' BY <1>4 DEF Heard, Replayed
  <1>9. ConnInv' BY <1>4, <1>6, <1>7, <1>8, OthersOk DEF ConnOk
  <1>10. ReportInv' BY <1>4, ReportsKept
  <1>. QED BY <1>3, <1>5, <1>9, <1>10 DEF OutputInv

-----------------------------------------------------------------------------
(* What the threads that report leave alone.                                *)
LEMMA ReportKeeps ==
  ASSUME OutputInv, UNCHANGED <<connVars, clients, since>>
  PROVE  /\ AttachedInv' /\ OpenInv'
         /\ \A c \in Connections : Attached(c)' <=> Attached(c)
         /\ \A c \in Connections : lines <= lines' /\ lines' \in Int => Phase(c)'
         /\ \A c \in Connections, line \in 1..MaxLines : Due(c, line)' <=> Due(c, line)
  <1>1. \A c \in Connections : Attached(c)' <=> Attached(c) BY DEF connVars, Attached
  <1>2. AttachedInv' /\ OpenInv' BY <1>1, AttachedKept DEF connVars
  <1>3. ASSUME NEW c \in Connections, lines <= lines', lines' \in Int PROVE Phase(c)'
    <2>1. Phase(c) /\ since[c] \in Nat /\ lines \in Nat
      BY Numbers DEF OutputInv, ConnInv, ConnOk
    <2>2. since[c] <= lines' BY <1>3, <2>1 DEF Phase
    <2>. QED BY <2>1, <2>2 DEF Phase, connVars
  <1>4. \A c \in Connections, line \in 1..MaxLines : Due(c, line)' <=> Due(c, line)
    BY DEF connVars, Due
  <1>. QED BY <1>1, <1>2, <1>3, <1>4

(* The history with a line more, which forgets its oldest when it is full.  *)
LEMMA KeptProperties ==
  ASSUME OutputInv, lines < MaxLines
  PROVE  /\ Kept \in Seq(1..MaxLines) /\ Len(Kept) <= kStatusHistory /\ Distinct(Kept)
         /\ \A x : Contains(Kept, x) => x = lines + 1 \/ Contains(status, x)
  <1>1. /\ status \in Seq(1..MaxLines) /\ Len(status) <= kStatusHistory /\ lines \in Nat
        /\ lines + 1 \in 1..MaxLines /\ kStatusHistory \in Nat /\ Len(status) \in Nat
    <2>1. status \in Seq(1..MaxLines) /\ Len(status) <= kStatusHistory /\ lines \in 0..MaxLines
      BY DEF OutputInv, OutputTypeOK
    <2>. QED BY <2>1, DebugOutputAssumption, LenProperties
  <1>2. Distinct(status) /\ ~Contains(status, lines + 1)
    <2>1. \A i \in 1..Len(status) : status[i] \in 1..MaxLines /\ status[i] <= lines
      BY <1>1, ElementOfSeq DEF OutputInv, ReportInv
    <2>. QED BY <1>1, <2>1 DEF OutputInv, ReportInv, Contains
  <1>3. /\ AllKept \in Seq(1..MaxLines) /\ Len(AllKept) = Len(status) + 1 /\ AllKept # <<>>
        /\ Distinct(AllKept) /\ \A y : Contains(AllKept, y) <=> y = lines + 1 \/ Contains(status, y)
    BY <1>1, <1>2, AppendOnce DEF AllKept
  <1>4. /\ Tail(AllKept) \in Seq(1..MaxLines) /\ Len(Tail(AllKept)) = Len(AllKept) - 1
        /\ Distinct(Tail(AllKept))
        /\ \A x : Contains(AllKept, x) <=> x = Head(AllKept) \/ Contains(Tail(AllKept), x)
    BY <1>3, TailOnce
  <1>5. CASE Len(status) < kStatusHistory
    <2>1. Kept = AllKept /\ Len(AllKept) <= kStatusHistory BY <1>1, <1>3, <1>5 DEF Kept
    <2>. QED BY <1>3, <2>1
  <1>6. CASE ~(Len(status) < kStatusHistory)
    <2>1. Kept = Tail(AllKept) /\ Len(Tail(AllKept)) <= kStatusHistory
      BY <1>1, <1>3, <1>4, <1>6 DEF Kept
    <2>. QED BY <1>3, <1>4, <2>1
  <1>. QED BY <1>5, <1>6

(* A line more, on its way to everybody, and in the history or not.         *)
LEMMA ReportBegins ==
  ASSUME OutputInv, NEW e \in Emitters, emission[e] = NotReading, lines < MaxLines,
         lines' = lines + 1,
         emission' = [emission EXCEPT ![e] = [at |-> "output", line |-> lines + 1, to |-> <<>>]],
         UNCHANGED <<connVars, clients, statusLock, got, since>>,
         status' \in Seq(1..MaxLines), Len(status') <= kStatusHistory, Distinct(status'),
         \A x : Contains(status', x) => x = lines + 1 \/ Contains(status, x)
  PROVE  OutputInv'
  <1>1. OutputTypeOK /\ ReportInv BY DEF OutputInv
  <1>2. lines \in Nat /\ lines + 1 \in 1..MaxLines /\ lines' \in 0..MaxLines
    <2>1. lines \in 0..MaxLines BY <1>1 DEF OutputTypeOK
    <2>. QED BY <2>1, DebugOutputAssumption
  <1>. DEFINE new == [at |-> "output", line |-> lines + 1, to |-> <<>>]
  <1>3. /\ new \in [at : {"idle", "output", "sending"}, line : 0..MaxLines, to : Seq(Fds)]
        /\ new.at = "output" /\ new.line = lines + 1 /\ new.to = <<>>
    <2>1. <<>> \in Seq(Fds) /\ lines + 1 \in 0..MaxLines BY <1>2
    <2>. QED BY <2>1
  <1>4. /\ emission' \in [Emitters -> [at : {"idle", "output", "sending"}, line : 0..MaxLines,
                                       to : Seq(Fds)]]
        /\ emission'[e] = new /\ \A g \in Emitters : g # e => emission'[g] = emission[g]
    <2>. HIDE DEF new
    <2>1. emission' = [emission EXCEPT ![e] = new] BY DEF new
    <2>. QED BY <1>1, <1>3, <2>1 DEF OutputTypeOK
  <1>. HIDE DEF new
  <1>5. OutputTypeOK' BY <1>1, <1>2, <1>4 DEF OutputTypeOK, connVars
  <1>6. UnderWay(e)' /\ emission'[e].line = lines + 1 /\ ~UnderWay(e)
        /\ \A g \in Emitters : g # e => (UnderWay(g)' <=> UnderWay(g)) /\ emission'[g] = emission[g]
    BY <1>3, <1>4 DEF UnderWay, NotReading
  <1>7. \A i \in 1..Len(status') : status'[i] <= lines'
    <2>1. \A i \in 1..Len(status) : status[i] \in 1..MaxLines /\ status[i] <= lines
      BY <1>1, ElementOfSeq DEF ReportInv, OutputTypeOK
    <2>2. \A x : Contains(status, x) => x \in 1..MaxLines /\ x <= lines BY <2>1 DEF Contains
    <2>3. \A i \in 1..Len(status') : Contains(status', status'[i]) BY DEF Contains
    <2>. QED BY <1>2, <2>2, <2>3, DebugOutputAssumption
  <1>8. ReportInv'
    <2>1. Distinct(<<>>) BY DEF Distinct
    <2>2. \A g \in Emitters : UnderWay(g) => emission[g].line \in 1..lines BY <1>1 DEF ReportInv
    <2>3. \A g \in Emitters : UnderWay(g)' => emission'[g].line \in 1..lines'
      BY <1>2, <1>6, <2>2
    <2>4. \A g \in Emitters : Distinct(emission'[g].to) BY <1>1, <1>3, <1>4, <2>1 DEF ReportInv
    <2>5. \A g \in Emitters : ~UnderWay(g)' => emission'[g] = NotReading BY <1>1, <1>6 DEF ReportInv
    <2>6. \A g \in Emitters : UnderWay(g) => emission[g].line # lines + 1 BY <1>2, <2>2
    <2>7. \A g, h \in Emitters : UnderWay(g)' /\ UnderWay(h)' /\ emission'[g].line = emission'[h].line => g = h
      BY <1>1, <1>6, <2>6 DEF ReportInv
    <2>. QED BY <1>7, <2>3, <2>4, <2>5, <2>7 DEF ReportInv
  <1>9. \A c \in Connections : Phase(c)' BY <1>2, ReportKeeps
  <1>12. PICK num : num = lines + 1 OBVIOUS
  <1>10. \A c \in Connections, line \in 1..MaxLines :
            /\ ToCome(c, line)' => ToCome(c, line)
            /\ Coming(c, line) => Coming(c, line)'
            /\ Coming(c, num)'
    <2>. TAKE c \in Connections, line \in 1..MaxLines
    <2>0. fd' = fd BY DEF connVars
    <2>1. Coming(c, num)' BY <1>3, <1>4, <1>6, <1>12 DEF Coming
    <2>2. Coming(c, line) => Coming(c, line)' BY <1>6, <2>0 DEF Coming
    <2>3. Coming(c, line)' => line = lines + 1 \/ Coming(c, line) BY <1>6, <2>0 DEF Coming
    <2>4. line > lines' => line > lines BY <1>2
    <2>5. lines + 1 > lines BY <1>2
    <2>. QED BY <2>1, <2>2, <2>3, <2>4, <2>5 DEF ToCome
  <1>11. ASSUME NEW c \in Connections PROVE ConnOk(c)'
    <2>1. ConnOk(c) /\ since[c] \in Nat /\ since[c] <= lines
      BY <1>1, Numbers DEF OutputInv, ConnInv, ConnOk, Phase
    <2>2. Twice(c)'
      <3>1. outputAt'[c] = "new" => \A line \in 1..MaxLines : got'[c][line] = 0
        BY <2>1 DEF ConnOk, Twice, connVars
      <3>. QED BY <1>5, <1>10, <3>1, ReportKeeps, TwiceHolds
    <2>3. Heard(c)'
      <3>. SUFFICES ASSUME up'[c], Attached(c)', NEW line \in (since'[c] + 1)..lines'
                    PROVE  got'[c][line] > 0 \/ Coming(c, line)'
        BY DEF Heard
      <3>1. Heard(c) /\ up[c] /\ Attached(c) /\ since'[c] = since[c] /\ got' = got
        BY <2>1, ReportKeeps DEF ConnOk, connVars
      <3>2. line \in 1..MaxLines /\ (line = lines + 1 \/ line \in (since[c] + 1)..lines)
        BY <1>2, <2>1, <3>1, DebugOutputAssumption
      <3>3. CASE line = lines + 1 BY <1>10, <1>12, <3>2, <3>3
      <3>4. CASE line \in (since[c] + 1)..lines BY <1>10, <3>1, <3>2, <3>4 DEF Heard
      <3>. QED BY <3>2, <3>3, <3>4
    <2>4. Replayed(c)'
      <3>1. ASSUME NEW x, Contains(status', x),
                   Replayed(c), up[c], outputAt[c] \in {"replaying", "serve"} \/ (outputAt[c] = "setup" /\ stages[c] = <<>>)
            PROVE x > since[c] \/ got[c][x] > 0 \/ Contains(replay[c], x)
        <4>1. CASE x = lines + 1 BY <1>2, <2>1, <4>1
        <4>2. CASE Contains(status, x) BY <3>1, <4>2 DEF Replayed, Contains
        <4>. QED BY <3>1, <4>1, <4>2
      <3>2. \A i \in 1..Len(status') : Contains(status', status'[i]) BY DEF Contains
      <3>. QED BY <2>1, <3>1, <3>2 DEF ConnOk, Replayed, connVars
    <2>. QED BY <1>9, <2>2, <2>3, <2>4 DEF ConnOk
  <1>. QED BY <1>5, <1>8, <1>11, ReportKeeps DEF OutputInv, ConnInv

(* A status line is reported.                                               *)
LEMMA StatusfHolds == ASSUME OutputInv, NEW e \in Emitters, Statusf(e) PROVE OutputInv'
  BY ReportBegins, KeptProperties DEF Statusf

(* A line of output is reported.                                            *)
LEMMA OutputHolds == ASSUME OutputInv, NEW e \in Emitters, Output(e) PROVE OutputInv'
  <1>1. /\ status \in Seq(1..MaxLines) /\ Len(status) <= kStatusHistory /\ Distinct(status)
    BY DEF OutputInv, OutputTypeOK, ReportInv
  <1>. QED BY <1>1, ReportBegins DEF Output

(* A report under way that takes its list, or a name off it, or ends: what  *)
(* others report does not change.                                           *)
LEMMA ReportGoesOn ==
  ASSUME OutputInv, NEW e \in Emitters, NEW then, UnderWay(e),
         then \in [at : {"idle", "output", "sending"}, line : 0..MaxLines, to : Seq(Fds)],
         emission' = [emission EXCEPT ![e] = then],
         \/ then = NotReading
         \/ then.at # "idle" /\ then.line = emission[e].line /\ Distinct(then.to),
         UNCHANGED <<connVars, clients, status, statusLock, lines, since>>,
         got' \in [Connections -> [1..MaxLines -> Nat]]
  PROVE  /\ OutputTypeOK' /\ ReportInv' /\ emission'[e] = then
         /\ emission[e].line \in 1..lines
         /\ \A g \in Emitters : g # e => emission'[g] = emission[g]
         /\ \A g \in Emitters : UnderWay(g) /\ emission[g].line = emission[e].line => g = e
  <1>1. OutputTypeOK /\ ReportInv BY DEF OutputInv
  <1>2. /\ emission' \in [Emitters -> [at : {"idle", "output", "sending"}, line : 0..MaxLines,
                                       to : Seq(Fds)]]
        /\ emission'[e] = then /\ \A g \in Emitters : g # e => emission'[g] = emission[g]
    BY <1>1 DEF OutputTypeOK
  <1>3. OutputTypeOK' BY <1>1, <1>2 DEF OutputTypeOK, connVars
  <1>4. \A g \in Emitters : g # e => (UnderWay(g)' <=> UnderWay(g)) BY <1>2 DEF UnderWay
  <1>5. UnderWay(e)' => then.line = emission[e].line BY <1>2 DEF UnderWay, NotReading
  <1>6. Distinct(then.to) BY DEF Distinct, NotReading
  <1>7. ReportInv'
    <2>1. \A g \in Emitters : ~UnderWay(g)' => emission'[g] = NotReading
      BY <1>1, <1>2, <1>4 DEF ReportInv, UnderWay
    <2>2. \A g \in Emitters : UnderWay(g)' => UnderWay(g) /\ emission'[g].line = emission[g].line
      BY <1>2, <1>4, <1>5
    <2>3. \A g \in Emitters : Distinct(emission'[g].to) BY <1>1, <1>2, <1>6 DEF ReportInv
    <2>. QED BY <1>1, <2>1, <2>2, <2>3 DEF ReportInv
  <1>. QED BY <1>1, <1>2, <1>3, <1>7 DEF ReportInv

(* What was coming still is, or was sent.                                   *)
LEMMA StillComing ==
  ASSUME OutputInv, OutputTypeOK', UNCHANGED <<connVars, clients, status, lines, since>>,
         NEW c \in Connections,
         outputAt[c] = "new" => got'[c] = got[c],
         \A line \in 1..MaxLines :
            \/ got'[c][line] = got[c][line] /\ (ToCome(c, line)' => ToCome(c, line))
            \/ got'[c][line] = got[c][line] + 1 /\ ToCome(c, line) /\ ~ToCome(c, line)',
         up[c] /\ Attached(c) =>
            \A line \in 1..MaxLines : Coming(c, line) => Coming(c, line)' \/ got'[c][line] > 0
  PROVE  ConnOk(c)'
  <1>1. /\ ConnOk(c) /\ OutputTypeOK /\ lines \in Int /\ lines <= lines
        /\ \A line \in 1..MaxLines : got[c][line] \in Nat
        /\ \A line \in (since[c] + 1)..lines : line \in 1..MaxLines
        /\ \A i \in 1..Len(status) : status[i] \in 1..MaxLines
    BY Numbers DEF OutputInv, ConnInv
  <1>2. \A line \in 1..MaxLines : got[c][line] > 0 => got'[c][line] > 0 BY <1>1
  <1>3. Phase(c)' BY <1>1, ReportKeeps
  <1>4. \A line \in 1..MaxLines : Due(c, line)' <=> Due(c, line) BY ReportKeeps
  <1>5. Twice(c)'
    <2>1. outputAt'[c] = "new" => \A line \in 1..MaxLines : got'[c][line] = 0
      BY <1>1 DEF ConnOk, Twice, connVars
    <2>. QED BY <1>4, <2>1, TwiceHolds
  <1>6. Heard(c)'
    <2>1. Attached(c)' <=> Attached(c) BY ReportKeeps
    <2>. QED BY <1>1, <1>2, <2>1 DEF ConnOk, Heard, connVars
  <1>7. Replayed(c)' BY <1>1, <1>2 DEF ConnOk, Replayed, connVars
  <1>. QED BY <1>3, <1>5, <1>6, <1>7 DEF ConnOk

(* A report with other fields.                                              *)
LEMMA FieldsSet ==
  ASSUME NEW m \in [at : {"idle", "output", "sending"}, line : 0..MaxLines, to : Seq(Fds)],
         NEW v \in Seq(Fds)
  PROVE  /\ [m EXCEPT !.to = v] \in [at : {"idle", "output", "sending"}, line : 0..MaxLines, to : Seq(Fds)]
         /\ [m EXCEPT !.to = v].at = m.at /\ [m EXCEPT !.to = v].line = m.line
         /\ [m EXCEPT !.to = v].to = v
         /\ [m EXCEPT !.at = "sending", !.to = v]
                \in [at : {"idle", "output", "sending"}, line : 0..MaxLines, to : Seq(Fds)]
         /\ [m EXCEPT !.at = "sending", !.to = v].at = "sending"
         /\ [m EXCEPT !.at = "sending", !.to = v].line = m.line
         /\ [m EXCEPT !.at = "sending", !.to = v].to = v
  OBVIOUS

(* A report copies the list of those that hear.                             *)
LEMMA SnapshotHolds == ASSUME OutputInv, NEW e \in Emitters, Snapshot(e) PROVE OutputInv'
  <1>1. OutputTypeOK /\ ReportInv /\ AttachedInv BY DEF OutputInv
  <1>2. /\ emission[e].at = "output"
        /\ UNCHANGED <<connVars, clients, status, statusLock, lines, got, since>>
    BY DEF Snapshot
  <1>. DEFINE then == [emission[e] EXCEPT !.at = "sending", !.to = clients]
  <1>3. emission[e] \in [at : {"idle", "output", "sending"}, line : 0..MaxLines, to : Seq(Fds)]
        /\ clients \in Seq(Fds) /\ got \in [Connections -> [1..MaxLines -> Nat]]
    BY <1>1 DEF OutputTypeOK
  <1>4. then \in [at : {"idle", "output", "sending"}, line : 0..MaxLines, to : Seq(Fds)]
    BY <1>3, FieldsSet
  <1>5. emission' = [emission EXCEPT ![e] = then] BY DEF Snapshot
  <1>6. then.at = "sending" /\ then.line = emission[e].line /\ then.to = clients
    BY <1>3, FieldsSet
  <1>. HIDE DEF then
  <1>7. UnderWay(e) /\ Distinct(then.to) BY <1>1, <1>2, <1>6 DEF UnderWay, AttachedInv
  <1>8. /\ OutputTypeOK' /\ ReportInv' /\ emission'[e] = then
        /\ \A g \in Emitters : g # e => emission'[g] = emission[g]
    BY <1>2, <1>3, <1>4, <1>5, <1>6, <1>7, ReportGoesOn
  <1>9. ASSUME NEW c \in Connections PROVE ConnOk(c)'
    <2>1. fd' = fd BY <1>2 DEF connVars
    <2>2. \A line \in 1..MaxLines : Coming(c, line)' => Coming(c, line)
      BY <1>2, <1>6, <1>7, <1>8, <2>1 DEF Coming, UnderWay
    <2>3. Attached(c) => \A line \in 1..MaxLines : Coming(c, line) => Coming(c, line)'
      <3>1. Attached(c) => Contains(clients, fd[c]) BY <1>1 DEF AttachedInv
      <3>. QED BY <1>6, <1>8, <2>1, <3>1 DEF Coming, UnderWay
    <2>. QED BY <1>2, <1>8, <2>2, <2>3, StillComing DEF ToCome
  <1>10. AttachedInv' /\ OpenInv' BY <1>2, ReportKeeps
  <1>. QED BY <1>8, <1>9, <1>10 DEF OutputInv, ConnInv

(* A report sends to the next of them.                                      *)
LEMMA SendNextHolds == ASSUME OutputInv, NEW e \in Emitters, SendNext(e) PROVE OutputInv'
  <1>1. OutputTypeOK /\ ReportInv /\ OpenInv BY DEF OutputInv
  <1>. DEFINE to == emission[e].to
              f == Head(to)
              rest == Tail(to)
              line0 == emission[e].line
              then == [emission[e] EXCEPT !.to = rest]
  <1>2. /\ emission[e].at = "sending" /\ to # <<>> /\ got' = SentTo(f, line0)
        /\ UNCHANGED <<connVars, clients, status, statusLock, lines, since>>
    BY DEF SendNext
  <1>3. /\ emission[e] \in [at : {"idle", "output", "sending"}, line : 0..MaxLines, to : Seq(Fds)]
        /\ to \in Seq(Fds) /\ Distinct(to) /\ UnderWay(e)
    BY <1>1, <1>2 DEF OutputTypeOK, ReportInv, UnderWay
  <1>4. /\ rest \in Seq(Fds) /\ f \in Fds /\ Distinct(rest) /\ ~Contains(rest, f)
        /\ \A x : Contains(to, x) <=> x = f \/ Contains(rest, x)
    BY <1>2, <1>3, TailOnce
  <1>5. line0 \in 1..lines /\ line0 \in 1..MaxLines
    <2>1. line0 \in 1..lines /\ lines \in 0..MaxLines BY <1>1, <1>3 DEF ReportInv, OutputTypeOK
    <2>. QED BY <2>1, DebugOutputAssumption
  <1>6. emission' = [emission EXCEPT ![e] = then] BY DEF SendNext
  <1>7. /\ then \in [at : {"idle", "output", "sending"}, line : 0..MaxLines, to : Seq(Fds)]
        /\ then.at = "sending" /\ then.line = line0 /\ then.to = rest
    BY <1>2, <1>3, <1>4, FieldsSet
  <1>8. to = emission[e].to /\ line0 = emission[e].line OBVIOUS
  <1>. HIDE DEF then, to, f, rest, line0
  <1>9. /\ got' \in [Connections -> [1..MaxLines -> Nat]]
        /\ \A c \in Connections, l \in 1..MaxLines :
               got'[c][l] = IF fd[c] = f /\ up[c] /\ l = line0 THEN got[c][l] + 1 ELSE got[c][l]
        /\ \A c \in Connections : ~(fd[c] = f /\ up[c]) => got'[c] = got[c]
    BY <1>1, <1>2, <1>4, <1>5, Reaches
  <1>10. /\ OutputTypeOK' /\ ReportInv' /\ emission'[e] = then
         /\ \A g \in Emitters : g # e => emission'[g] = emission[g]
         /\ \A g \in Emitters : UnderWay(g) /\ emission[g].line = line0 => g = e
    <2>1. then.at # "idle" /\ then.line = emission[e].line /\ Distinct(then.to) BY <1>4, <1>7, <1>8
    <2>. QED BY <1>2, <1>3, <1>6, <1>7, <1>8, <1>9, <2>1, ReportGoesOn
  <1>11. ASSUME NEW c \in Connections PROVE ConnOk(c)'
    <2>1. fd' = fd /\ outputAt' = outputAt /\ up' = up BY <1>2 DEF connVars
    <2>2. outputAt[c] = "new" => got'[c] = got[c]
      <3>1. outputAt[c] = "new" => fd[c] = NoFd BY DEF OutputInv, ConnInv, ConnOk, Phase
      <3>. QED BY <1>4, <1>9, <3>1, DebugOutputAssumption
    <2>3. \A line \in 1..MaxLines : Coming(c, line)' => Coming(c, line)
      BY <1>2, <1>4, <1>7, <1>8, <1>10, <2>1 DEF Coming, UnderWay
    <2>4. fd[c] = f => Coming(c, line0)
      BY <1>3, <1>4, <1>8 DEF Coming
    <2>5. PICK num \in 1..MaxLines : num = line0 BY <1>5
    <2>6. fd[c] = f => ~Coming(c, num)'
      <3>1. ASSUME fd[c] = f, NEW g \in Emitters, UnderWay(g)', emission'[g].line = num PROVE g = e
        BY <1>10, <2>5, <3>1 DEF UnderWay
      <3>. QED BY <1>4, <1>7, <1>10, <2>1, <3>1 DEF Coming
    <2>7. \A line \in 1..MaxLines : Coming(c, line) /\ ~(fd[c] = f /\ line = line0) => Coming(c, line)'
      BY <1>2, <1>4, <1>7, <1>8, <1>10, <2>1 DEF Coming, UnderWay
    <2>8. lines' = lines /\ ~(num > lines) BY <1>2, <1>5, <2>5, Numbers, <1>1
    <2>9. ASSUME NEW line \in 1..MaxLines
          PROVE  \/ got'[c][line] = got[c][line] /\ (ToCome(c, line)' => ToCome(c, line))
                 \/ got'[c][line] = got[c][line] + 1 /\ ToCome(c, line) /\ ~ToCome(c, line)'
      <3>1. CASE fd[c] = f /\ up[c] /\ line = line0
        BY <1>9, <2>4, <2>5, <2>6, <2>8, <3>1 DEF ToCome
      <3>2. CASE ~(fd[c] = f /\ up[c] /\ line = line0)
        BY <1>9, <2>3, <2>8, <3>2 DEF ToCome
      <3>. QED BY <3>1, <3>2
    <2>10. ASSUME up[c], NEW line \in 1..MaxLines, Coming(c, line)
           PROVE  Coming(c, line)' \/ got'[c][line] > 0
      <3>1. CASE fd[c] = f /\ line = line0
        <4>1. got[c][line] \in Nat /\ got'[c][line] = got[c][line] + 1
          BY <1>1, <1>9, <2>10, <3>1, Numbers
        <4>. QED BY <4>1
      <3>2. CASE ~(fd[c] = f /\ line = line0) BY <2>7, <2>10, <3>2
      <3>. QED BY <3>1, <3>2
    <2>. QED BY <1>2, <1>10, <2>2, <2>9, <2>10, StillComing
  <1>12. AttachedInv' /\ OpenInv' BY <1>2, ReportKeeps
  <1>. QED BY <1>10, <1>11, <1>12 DEF OutputInv, ConnInv

(* A report is over.                                                        *)
LEMMA SentHolds == ASSUME OutputInv, NEW e \in Emitters, Sent(e) PROVE OutputInv'
  <1>1. OutputTypeOK /\ ReportInv BY DEF OutputInv
  <1>2. /\ emission[e].at = "sending" /\ emission[e].to = <<>>
        /\ emission' = [emission EXCEPT ![e] = NotReading]
        /\ UNCHANGED <<connVars, clients, status, statusLock, lines, got, since>>
    BY DEF Sent
  <1>3. /\ NotReading \in [at : {"idle", "output", "sending"}, line : 0..MaxLines, to : Seq(Fds)]
        /\ got' \in [Connections -> [1..MaxLines -> Nat]]
    <2>1. <<>> \in Seq(Fds) /\ 0 \in 0..MaxLines BY DebugOutputAssumption
    <2>. QED BY <1>1, <1>2, <2>1 DEF NotReading, OutputTypeOK
  <1>4. UnderWay(e) BY <1>2 DEF UnderWay
  <1>5. /\ OutputTypeOK' /\ ReportInv' /\ emission'[e] = NotReading
        /\ \A g \in Emitters : g # e => emission'[g] = emission[g]
    BY <1>2, <1>3, <1>4, ReportGoesOn
  <1>6. ASSUME NEW c \in Connections PROVE ConnOk(c)'
    <2>1. fd' = fd BY <1>2 DEF connVars
    <2>2. NotReading.at = "idle" /\ ~Contains(emission[e].to, fd[c])
      BY <1>2 DEF NotReading, Contains
    <2>3. \A line \in 1..MaxLines : Coming(c, line)' <=> Coming(c, line)
      BY <1>2, <1>5, <2>1, <2>2 DEF Coming, UnderWay
    <2>. QED BY <1>2, <1>5, <2>3, StillComing DEF ToCome
  <1>7. AttachedInv' /\ OpenInv' BY <1>2, ReportKeeps
  <1>. QED BY <1>5, <1>6, <1>7 DEF OutputInv, ConnInv

-----------------------------------------------------------------------------
(* Every step keeps the invariant.                                          *)
LEMMA OutputStep == ASSUME OutputInv, [OutputNext]_outputVars PROVE OutputInv'
  <1>1. ASSUME UNCHANGED outputVars PROVE OutputInv'
    <2>1. OutputTypeOK' BY <1>1 DEF outputVars, connVars, OutputInv, OutputTypeOK
    <2>2. ASSUME NEW c \in Connections PROVE ConnOk(c)'
      BY <1>1, StillOk DEF Still, Quiet, outputVars, connVars
    <2>3. ReportInv' BY <1>1, ReportsKept DEF Quiet, outputVars
    <2>4. AttachedInv' /\ OpenInv' BY <1>1, ReportKeeps DEF outputVars
    <2>. QED BY <2>1, <2>2, <2>3, <2>4 DEF OutputInv, ConnInv
  <1>2. ASSUME NEW c \in Connections,
               \/ Accept(c) \/ Attach(c) \/ ReplayBegins(c) \/ ReplaySends(c) \/ ReplayFails(c)
               \/ ReplayEnds(c) \/ Serve(c) \/ DetachClient(c) \/ Close(c) \/ HangUp(c)
        PROVE  OutputInv'
    BY <1>2, AcceptHolds, AttachHolds, ReplayBeginsHolds, ReplaySendsHolds, ReplayFailsHolds,
       ReplayEndsHolds, ServeHolds, DetachClientHolds, CloseHolds, HangUpHolds
  <1>3. ASSUME NEW e \in Emitters, Statusf(e) \/ Output(e) \/ Snapshot(e) \/ SendNext(e) \/ Sent(e)
        PROVE  OutputInv'
    BY <1>3, StatusfHolds, OutputHolds, SnapshotHolds, SendNextHolds, SentHolds
  <1>. QED BY <1>1, <1>2, <1>3 DEF OutputNext

(* Whence the property.                                                     *)
LEMMA OutputInvIsEnough == ASSUME OutputInv PROVE HeardAsReported
  <1>1. OutputTypeOK /\ AttachedInv /\ \A c \in Connections : ConnOk(c) BY DEF OutputInv, ConnInv
  <1>2. NothingMissed
    <2>. SUFFICES ASSUME NEW c \in Connections, outputAt[c] = "serve", up[c],
                         \A e \in Emitters : emission[e] = NotReading
                  PROVE  /\ \A i \in 1..Len(status) : got[c][status[i]] > 0
                         /\ \A line \in (since[c] + 1)..lines : got[c][line] > 0
      BY DEF NothingMissed
    <2>1. ~\E line : Coming(c, line) BY DEF Coming, UnderWay, NotReading
    <2>2. replay[c] = <<>> /\ Attached(c) BY <1>1 DEF ConnOk, Phase, Attached
    <2>3. ~\E x : Contains(replay[c], x) BY <2>2 DEF Contains
    <2>4. \A line \in (since[c] + 1)..lines : got[c][line] > 0 BY <1>1, <2>1, <2>2 DEF ConnOk, Heard
    <2>5. ASSUME NEW i \in 1..Len(status) PROVE got[c][status[i]] > 0
      <3>1. status[i] > since[c] \/ got[c][status[i]] > 0 BY <1>1, <2>3 DEF ConnOk, Replayed
      <3>2. status[i] <= lines /\ status[i] \in 1..MaxLines BY <1>1, Numbers DEF OutputInv, ReportInv
      <3>3. since[c] \in Nat /\ lines \in Nat /\ MaxLines \in Nat BY <1>1, Numbers
      <3>4. status[i] > since[c] => status[i] \in (since[c] + 1)..lines BY <3>2, <3>3
      <3>. QED BY <2>4, <3>1, <3>4
    <2>. QED BY <2>4, <2>5
  <1>3. AtMostTwice
    <2>1. ASSUME NEW c \in Connections, NEW line \in 1..MaxLines PROVE got[c][line] <= 2
      <3>1. got[c][line] + AsOne(Due(c, line)) + AsOne(ToCome(c, line)) <= 2
        BY <1>1 DEF ConnOk, Twice
      <3>2. got[c][line] \in Nat BY <1>1, Numbers
      <3>. QED BY <3>1, <3>2 DEF AsOne
    <2>. QED BY <2>1 DEF AtMostTwice
  <1>4. AttachedIsOpen
    <2>1. DOMAIN clients = 1..Len(clients) BY <1>1, LenProperties DEF OutputTypeOK
    <2>2. IsInjective(clients) BY <1>1, <2>1 DEF IsInjective, AttachedInv, Distinct
    <2>. QED BY <1>1, <2>2 DEF AttachedIsOpen, AttachedInv, Attached
  <1>. QED BY <1>2, <1>3, <1>4 DEF HeardAsReported

(* A client that is served has missed nothing that was kept when it came or *)
(* reported since, no line is shown to it more than twice, and who is       *)
(* attached is open, for any connections, threads, descriptors and lengths  *)
(* of the history (statusf, debug_server_output and handle_client,          *)
(* src/src/debug_server.cpp).                                               *)
THEOREM OutputHeard == OutputSpec => []HeardAsReported
  <1>1. OutputInit => OutputInv BY OutputStarts
  <1>2. OutputInv /\ [OutputNext]_outputVars => OutputInv' BY OutputStep
  <1>3. OutputInv => HeardAsReported BY OutputInvIsEnough
  <1>. QED BY <1>1, <1>2, <1>3, PTL DEF OutputSpec
=============================================================================
