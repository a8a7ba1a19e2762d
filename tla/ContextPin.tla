----------------------------- MODULE ContextPin -----------------------------
(***************************************************************************)
(* What InContext promises to every caller (src/src/lua_host.cpp,          *)
(* "The state is read only once its lock is held"): a thread that has      *)
(* pinned a Lua context runs in one incarnation of it from the first line  *)
(* to the last, alone, and a context is torn down or rebuilt only while    *)
(* nobody else is in it.  Nothing here says how: no locks, no handlers, no *)
(* story.                                                                  *)
(***************************************************************************)
CONSTANTS Threads,  (* whoever may run Lua                               *)
          Sides,    (* the Lua contexts                                  *)
          Names,    (* what tells one incarnation from another           *)
          Null      (* no incarnation                                    *)

VARIABLES current,  (* the live incarnation of each context, or Null      *)
          pinned    (* the incarnation each thread runs in, or Null       *)

vars == <<current, pinned>>

Init == /\ current \in [Sides -> Names \cup {Null}]
        /\ pinned = [t \in Threads |-> [s \in Sides |-> Null]]

Free(s) == \A t \in Threads : pinned[t][s] = Null

(* A thread starts running in the incarnation that is live now.            *)
Pin(t, s) == /\ Free(s)
             /\ pinned' = [pinned EXCEPT ![t][s] = current[s]]
             /\ UNCHANGED current

Unpin(t, s) == /\ pinned' = [pinned EXCEPT ![t][s] = Null]
               /\ UNCHANGED current

(* The incarnations of the contexts in S change: closed (Null) or rebuilt.    *)
Replace(S) == /\ \A s \in S : Free(s)
              /\ current' \in [Sides -> Names \cup {Null}]
              /\ \A s \in Sides \ S : current'[s] = current[s]
              /\ UNCHANGED pinned

Next == \/ \E t \in Threads, s \in Sides : Pin(t, s) \/ Unpin(t, s)
        \/ \E S \in SUBSET Sides : Replace(S)

Spec == Init /\ [][Next]_vars
=============================================================================
