---------------------------- MODULE EvalService -----------------------------
(***************************************************************************)
(* What the debug server promises to whoever sends it Lua to evaluate      *)
(* (src/src/debug_server.cpp): an evaluation runs at most once, never      *)
(* starts once its caller has been answered ("long after the caller        *)
(* stopped waiting for it"), and an answer that carries a result comes     *)
(* after the run that made it.  No queue, no locks, no pumps.              *)
(***************************************************************************)
CONSTANT Requests   (* the evaluations that can be sent *)

VARIABLES asked,     (* the evaluations sent so far                          *)
          started,   (* those a thread of the game has taken                 *)
          finished,  (* those that have run to the end                       *)
          answers    (* [to, how] for each answer sent                       *)

vars == <<asked, started, finished, answers>>

Ways == {"refused", "result", "timeout"}
Answered(r) == \E w \in Ways : [to |-> r, how |-> w] \in answers

Init == asked = {} /\ started = {} /\ finished = {} /\ answers = {}

Ask(r) == /\ r \notin asked
          /\ asked' = asked \cup {r}
          /\ UNCHANGED <<started, finished, answers>>

Start(r) == /\ r \in asked \ started /\ ~Answered(r)
            /\ started' = started \cup {r}
            /\ UNCHANGED <<asked, finished, answers>>

Finish(r) == /\ r \in started \ finished
             /\ finished' = finished \cup {r}
             /\ UNCHANGED <<asked, started, answers>>

Answer(r, w) == /\ r \in asked /\ ~Answered(r)
                /\ w = "result" => r \in finished
                /\ w = "refused" => r \notin started
                /\ answers' = answers \cup {[to |-> r, how |-> w]}
                /\ UNCHANGED <<asked, started, finished>>

Next == \E r \in Requests : \/ Ask(r) \/ Start(r) \/ Finish(r)
                            \/ \E w \in Ways : Answer(r, w)

Spec == Init /\ [][Next]_vars
=============================================================================
