---------------------------- MODULE DebugServer -----------------------------
(***************************************************************************)
(* The Lua debugger's evaluations (src/src/debug_server.cpp).  A thread    *)
(* per connection queues the Lua it is sent and waits ten seconds for a    *)
(* thread of the game to run it; the game's threads take jobs when they    *)
(* pass through a pump: the client's once a frame, the server's from its   *)
(* tick, from COsiris::Event and from COsiris::NoStoryLoaded, the last two *)
(* also from inside an evaluation that calls the story.                    *)
(*                                                                         *)
(* g_pending counts the queue without its lock, so that the client's pump  *)
(* can pass an empty queue by.  Packets, their parsing and what an         *)
(* evaluation prints are left out.                                         *)
(***************************************************************************)
EXTENDS Integers, Sequences, FiniteSets

CONSTANTS Clients,      (* connections                                      *)
          ServerPumps,  (* threads that call debug_server_pump              *)
          MaxEvals,     (* bound: evaluations sent                          *)
          MaxTimeouts,  (* bound: waits that time out                       *)
          MaxDepth      (* bound: pumps inside one another on one thread    *)

ASSUME ConstantsAssumption ==
    /\ IsFiniteSet(Clients) /\ IsFiniteSet(ServerPumps) /\ "client" \notin ServerPumps
    /\ MaxEvals \in Nat /\ MaxTimeouts \in Nat /\ MaxDepth \in Nat

Pumps == ServerPumps \cup {"client"}

VARIABLES
    pc,           (* where each connection's thread is in handle_client      *)
    sent,         (* how many evaluations were sent                          *)
    n,            (* which of them each connection sent last                 *)
    side,         (* the context the last one asked for                      *)
    queue,        (* g_queue                                                 *)
    pending,      (* g_pending                                               *)
    done,         (* the jobs whose done flag is set                         *)
    stack,        (* each game thread's pump_where frames, innermost first   *)
    clientPumps,  (* g_client_pumps                                          *)
    storyReady,   (* g_story_ready                                           *)
    timeouts,     (* how much of MaxTimeouts is used                         *)
    answers       (* history: what was sent back                             *)

handlerVars == <<pc, sent, n, side>>
queueVars   == <<queue, pending, done>>
vars == <<handlerVars, queueVars, stack, clientPumps, storyReady, timeouts, answers>>

Contexts == {"Client", "Server"}
Job(c)   == [from |-> c, nth |-> n[c], side |-> side[c]]
Jobs     == [from : Clients, nth : Nat, side : Contexts]

NoJob == [from |-> "nobody"]
Looking == [at |-> "look", job |-> NoJob]
Frame(at, job) == [at |-> at, job |-> job]
Top(p) == Head(stack[p])
In(p, at) == stack[p] # <<>> /\ Top(p).at = at
SetTop(p, frame) == stack' = [stack EXCEPT ![p] = <<frame>> \o Tail(@)]

Queued(job) == \E i \in 1..Len(queue) : queue[i] = job
Position(job) == CHOOSE i \in 1..Len(queue) : queue[i] = job
Without(i)  == SubSeq(queue, 1, i - 1) \o SubSeq(queue, i + 1, Len(queue))

Init ==
    /\ pc = [c \in Clients |-> "idle"] /\ sent = 0 /\ n = [c \in Clients |-> 0]
    /\ side \in [Clients -> {"Server"}]
    /\ queue = <<>> /\ pending = 0 /\ done = {}
    /\ stack = [p \in Pumps |-> <<>>]
    /\ clientPumps = FALSE /\ storyReady = FALSE /\ timeouts = 0
    /\ answers = {}

Goto(c, to) == pc' = [pc EXCEPT ![c] = to]
Answer(c, how) ==
    answers' = answers \cup {[to |-> n[c], how |-> how]}

-----------------------------------------------------------------------------
(* handle_client.  The server's context runs only once a save is loaded.    *)
Evaluate(c, s) ==
    /\ pc[c] = "idle" /\ sent < MaxEvals
    /\ sent' = sent + 1
    /\ n' = [n EXCEPT ![c] = sent + 1]
    /\ side' = [side EXCEPT ![c] = s]
    /\ Goto(c, IF s = "Server" /\ ~storyReady THEN "refuse" ELSE "push")
    /\ UNCHANGED <<queueVars, stack, clientPumps, storyReady, timeouts, answers>>

Push(c) ==
    /\ pc[c] = "push"
    /\ queue' = Append(queue, Job(c))
    /\ Goto(c, "count")
    /\ UNCHANGED <<sent, n, side, pending, done, stack, clientPumps, storyReady, timeouts, answers>>

(* g_pending.fetch_add, after the lock is gone.                             *)
Count(c) ==
    /\ pc[c] = "count"
    /\ pending' = pending + 1
    /\ Goto(c, "wait")
    /\ UNCHANGED <<sent, n, side, queue, done, stack, clientPumps, storyReady, timeouts, answers>>

Finished(c) ==
    /\ pc[c] = "wait" /\ Job(c) \in done
    /\ Goto(c, "result")
    /\ UNCHANGED <<sent, n, side, queueVars, stack, clientPumps, storyReady, timeouts, answers>>

(* wait_for gives up; the lock is let go before the queue is looked at.     *)
Timeout(c) ==
    /\ pc[c] = "wait" /\ Job(c) \notin done /\ timeouts < MaxTimeouts
    /\ timeouts' = timeouts + 1
    /\ Goto(c, "expired")
    /\ UNCHANGED <<sent, n, side, queueVars, stack, clientPumps, storyReady, answers>>

\* Mutant: gives up on a job without taking it off the queue.
LeftInQueue(c) == queue
Withdrawn(c) == IF Queued(Job(c)) THEN Without(Position(Job(c))) ELSE queue

\* Mutant: counts out a job a pump has taken and counted.
AlwaysCountedOut(c) == pending - 1
CountedOut(c) == IF Queued(Job(c)) THEN pending - 1 ELSE pending

Withdraw(c) ==
    /\ pc[c] = "expired"
    /\ queue' = Withdrawn(c)
    /\ pending' = CountedOut(c)
    /\ Goto(c, "timeout")
    /\ UNCHANGED <<sent, n, side, done, stack, clientPumps, storyReady, timeouts, answers>>

Outcome(c)  == IF pc[c] = "refuse" THEN "refused" ELSE pc[c]

Reply(c) ==
    /\ pc[c] \in {"refuse", "result", "timeout"}
    /\ Answer(c, Outcome(c))
    /\ Goto(c, "idle")
    /\ UNCHANGED <<sent, n, side, queueVars, stack, clientPumps, storyReady, timeouts>>

(* recv or send fails: the thread of the connection ends.                   *)
Detach(c) ==
    /\ pc[c] \in {"idle", "refuse", "result", "timeout"}
    /\ Goto(c, "gone")
    /\ UNCHANGED <<sent, n, side, queueVars, stack, clientPumps, storyReady, timeouts, answers>>

Handler(c) == Push(c) \/ Count(c) \/ Finished(c) \/ Withdraw(c) \/ Reply(c)

-----------------------------------------------------------------------------
(* debug_server_pump, also from inside an evaluation.                       *)
PumpServer(p) ==
    /\ p \in ServerPumps
    /\ stack[p] = <<>> \/ (In(p, "eval") /\ Len(stack[p]) < MaxDepth)
    /\ stack' = [stack EXCEPT ![p] = <<Looking>> \o @]
    /\ UNCHANGED <<handlerVars, queueVars, clientPumps, storyReady, timeouts, answers>>

(* debug_server_pump_client: a frame passes an empty queue by.              *)
PumpClient ==
    /\ stack["client"] = <<>>
    /\ clientPumps' = TRUE
    /\ stack' = IF pending = 0 THEN stack ELSE [stack EXCEPT !["client"] = <<Looking>>]
    /\ UNCHANGED <<handlerVars, queueVars, storyReady, timeouts, answers>>

Mine(p, job) == IF p = "client" THEN job.side = "Client"
                ELSE job.side = "Server" \/ ~clientPumps

(* pump_where: the first job that is this thread's, or the end of the loop. *)
Take(p) ==
    /\ In(p, "look")
    /\ \E i \in 1..Len(queue) :
          /\ Mine(p, queue[i]) /\ \A k \in 1..(i - 1) : ~Mine(p, queue[k])
          /\ SetTop(p, Frame("subtract", queue[i]))
          /\ queue' = Without(i)
    /\ UNCHANGED <<handlerVars, pending, done, clientPumps, storyReady, timeouts, answers>>

PumpEnds(p) ==
    /\ In(p, "look") /\ \A i \in 1..Len(queue) : ~Mine(p, queue[i])
    /\ stack' = [stack EXCEPT ![p] = Tail(@)]
    /\ UNCHANGED <<handlerVars, queueVars, clientPumps, storyReady, timeouts, answers>>

(* g_pending.fetch_sub, after the lock is gone.                             *)
Subtract(p) ==
    /\ In(p, "subtract")
    /\ pending' = pending - 1
    /\ SetTop(p, Frame("eval", Top(p).job))
    /\ UNCHANGED <<handlerVars, queue, done, clientPumps, storyReady, timeouts, answers>>

(* lua_eval_in has returned: the result is stored and the waiters are woken. *)
EvalEnds(p) ==
    /\ In(p, "eval")
    /\ done' = done \cup {Top(p).job}
    /\ SetTop(p, Looking)
    /\ UNCHANGED <<handlerVars, queue, pending, clientPumps, storyReady, timeouts, answers>>

(* A session's story is worked, or a session ends.                          *)
StoryChanges ==
    /\ storyReady' = ~storyReady
    /\ UNCHANGED <<handlerVars, queueVars, stack, clientPumps, timeouts, answers>>

Next ==
    \/ \E c \in Clients : \/ \E s \in Contexts : Evaluate(c, s)
                          \/ Handler(c) \/ Timeout(c) \/ Detach(c)
    \/ \E p \in Pumps : PumpServer(p) \/ Take(p) \/ PumpEnds(p) \/ Subtract(p) \/ EvalEnds(p)
    \/ PumpClient \/ StoryChanges

(* Threads run; frames and pumps keep coming; an evaluation ends, whatever  *)
(* is pumped inside it.  Nothing makes a wait time out.                     *)
Fairness ==
    /\ \A c \in Clients : WF_vars(Handler(c))
    /\ \A p \in Pumps : /\ WF_vars(Take(p) \/ PumpEnds(p) \/ Subtract(p))
                        /\ SF_vars(EvalEnds(p)) /\ WF_vars(PumpServer(p))
    /\ WF_vars(PumpClient)

Spec == Init /\ [][Next]_vars
FairSpec == Spec /\ Fairness
-----------------------------------------------------------------------------
(* Types of the variables.                                                  *)
TypeOK ==
    /\ pc \in [Clients -> {"idle", "refuse", "push", "count", "wait", "expired",
                           "result", "timeout", "gone"}]
    /\ sent \in Nat /\ n \in [Clients -> Nat] /\ side \in [Clients -> Contexts]
    /\ queue \in Seq(Jobs) /\ pending \in Int /\ done \subseteq Jobs
    /\ stack \in [Pumps -> Seq([at : {"look", "subtract", "eval"}, job : Jobs \cup {NoJob}])]
    /\ clientPumps \in BOOLEAN /\ storyReady \in BOOLEAN /\ timeouts \in Nat
    /\ answers \subseteq [to : Nat, how : {"refused", "result", "timeout"}]

(* Once nobody is between the queue and the counter, g_pending is the       *)
(* number of jobs queued, whatever was taken, withdrawn or timed out:       *)
(* an error here would make the client's pump pass a job by for ever.       *)
Settled == /\ \A c \in Clients : pc[c] # "count"
           /\ \A p \in Pumps : ~In(p, "subtract")
PendingCountsQueue == Settled => pending = Len(queue)

(* A job that waits in the queue has a caller that waits for it: "Not left  *)
(* queued: it would run whenever the thread next came round, long after the *)
(* caller stopped waiting for it" (src/src/debug_server.cpp:238).           *)
QueuedIsAwaited ==
    \A i \in 1..Len(queue) :
        \E c \in Clients : queue[i] = Job(c) /\ pc[c] \in {"count", "wait", "expired"}

(* Every evaluation handed to the game's threads is answered by them, even  *)
(* if nothing ever times out from here on: no step passes a job by for good. *)
EvaluateAnswered == \A c \in Clients : pc[c] = "wait" ~> pc[c] # "wait"

(* The queue, the counter and the pumps implement the service.              *)
Taken == {f.job : f \in UNION {{stack[p][i] : i \in 1..Len(stack[p])} : p \in Pumps}} \ {NoJob}

Service == INSTANCE EvalService WITH
    Requests <- 1..MaxEvals,
    asked    <- 1..sent,
    started  <- {j.nth : j \in done \cup Taken},
    finished <- {j.nth : j \in done}
ImplementsService == Service!Spec
=============================================================================
