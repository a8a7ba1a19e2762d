---------------------------- MODULE Pathfinding -----------------------------
(* Ext.Level's path requests.  A request takes a path of the grid's pool,   *)
(* the engine searches the grid's list, and a tick hands the complete ones  *)
(* to their callbacks.  Scripts keep a path as a view of its place in the   *)
(* pool, whatever that place holds by then.                                 *)
(* Goals, bounds and costs are left out: a path is what became of it.  The  *)
(* list of requests is a set: they are in the order of their IDs.           *)
EXTENDS Integers, Sequences, SequencesExt, FiniteSets

CONSTANTS
    PoolSize,       \* paths in the grid's pool
    MaxRequests     \* requests made

ASSUME PathAssumption == PoolSize \in Nat /\ MaxRequests \in Nat

NoRequest == [id |-> 0, at |-> 0, immediate |-> FALSE]

VARIABLES
    pool,           \* PathPool: place -> path
    paths,          \* the grid's Paths: the places to search, in order
    requests,       \* path_requests
    finished,       \* finished: the callbacks a tick still has to call
    calling,        \* the request whose callback runs
    made            \* number of requests made

pathVars == <<pool, paths, requests, finished, calling, made>>

PathInit ==
    /\ pool = [at \in 1..PoolSize |->
                 [InUse |-> FALSE, SearchComplete |-> FALSE, of |-> 0]]
    /\ paths = <<>>
    /\ requests = {}
    /\ finished = {}
    /\ calling = NoRequest
    /\ made = 0

PathScriptRuns == calling # NoRequest \/ finished = {}

-----------------------------------------------------------------------------
(* The engine's side: vendor/level.cpp and the grid it works on.            *)

\* bg3le_ai_path_create takes the first path that is not in use.
FirstFree(p, at) ==
    /\ at \in DOMAIN p
    /\ ~p[at].InUse
    /\ \A b \in 1..(at - 1) : p[b].InUse

\* bg3le_ai_path_free, of a path in use.
Freed(p, at) == [p EXCEPT ![at].InUse = FALSE]

\* The grid's own step searches the head of its list and takes it off.
EngineSearches ==
    /\ calling = NoRequest /\ finished = {}
    /\ paths # <<>>
    /\ pool' = [pool EXCEPT ![Head(paths)].SearchComplete = TRUE]
    /\ paths' = Tail(paths)
    /\ UNCHANGED <<requests, finished, calling, made>>

-----------------------------------------------------------------------------
(* Scripts: between ticks, and in callbacks.                                *)

\* path_request.  What follows the request's entry only fills in the path,
\* and raises an error when the source or the target cannot be used: the
\* request is made all the same.
BeginPathfinding(immediate) ==
    /\ PathScriptRuns
    /\ made < MaxRequests
    /\ \E at \in DOMAIN pool :
          /\ FirstFree(pool, at)
          /\ paths' = Append(paths, at)
          /\ pool' = [pool EXCEPT ![at] =
                        [InUse |-> TRUE, SearchComplete |-> FALSE, of |-> made + 1]]
          /\ requests' = requests \cup {[id |-> made + 1, at |-> at, immediate |-> immediate]}
    /\ made' = made + 1
    /\ UNCHANGED <<finished, calling>>

\* Ext.Level.FindPath, of a view that may be of a released path.
FindPath(at) ==
    /\ PathScriptRuns
    /\ pool[at].InUse /\ ~pool[at].SearchComplete
    /\ pool' = [pool EXCEPT ![at].SearchComplete = TRUE]
    /\ UNCHANGED <<paths, requests, finished, calling, made>>

\* Ext.Level.ReleasePath: the requests that have the path's place.
ReleasePath(at) ==
    /\ PathScriptRuns
    /\ pool[at].InUse
    /\ \E r \in requests : r.at = at
    /\ pool' = Freed(pool, at)
    /\ paths' = SelectSeq(paths, LAMBDA p : p # at)
    /\ requests' = {r \in requests : r.at # at}
    /\ UNCHANGED <<finished, calling, made>>

-----------------------------------------------------------------------------
(* The tick.                                                                *)

\* Mutant: an update that releases only what it does not hand to a callback.
PathfindingUpdateForgetsFinished ==
    /\ calling = NoRequest /\ finished = {}
    /\ requests # {}
    /\ LET Complete(r) == pool[r.at].SearchComplete
           released == {r.at : r \in {q \in requests : q.immediate}}
       IN  /\ pool' = [at \in DOMAIN pool |->
                         IF at \in released THEN Freed(pool, at)[at] ELSE pool[at]]
           /\ paths' = SelectSeq(paths, LAMBDA at : at \notin released)
           /\ requests' = {r \in requests : ~r.immediate /\ ~Complete(r)}
           /\ finished' = {r \in requests : ~r.immediate /\ Complete(r)}
    /\ UNCHANGED <<calling, made>>

\* PathfindingUpdate up to the callbacks: a complete request and every
\* immediate one, searched or not, is released and off the list.
PathfindingUpdate ==
    /\ calling = NoRequest /\ finished = {}
    /\ requests # {}
    /\ LET Complete(r) == pool[r.at].SearchComplete
           Ended(r) == r.immediate \/ Complete(r)
           released == {r.at : r \in {q \in requests : Ended(q)}}
       IN  /\ pool' = [at \in DOMAIN pool |->
                         IF at \in released THEN Freed(pool, at)[at] ELSE pool[at]]
           /\ paths' = SelectSeq(paths, LAMBDA at : at \notin released)
           /\ requests' = {r \in requests : ~Ended(r)}
           /\ finished' = {r \in requests : Ended(r) /\ ~r.immediate}
    /\ UNCHANGED <<calling, made>>

\* pcall(req.callback, path_view(req.at))
CallPathCallback ==
    /\ calling = NoRequest
    /\ \E req \in finished :
          /\ \A other \in finished : req.id <= other.id
          /\ calling' = req
          /\ finished' = finished \ {req}
    /\ UNCHANGED <<pool, paths, requests, made>>

PathCallbackReturns ==
    /\ calling # NoRequest
    /\ calling' = NoRequest
    /\ UNCHANGED <<pool, paths, requests, finished, made>>

PathNext ==
    \/ EngineSearches
    \/ \E immediate \in BOOLEAN : BeginPathfinding(immediate)
    \/ \E at \in 1..PoolSize : FindPath(at) \/ ReleasePath(at)
    \/ PathfindingUpdate \/ CallPathCallback \/ PathCallbackReturns

PathSpec == PathInit /\ [][PathNext]_pathVars

-----------------------------------------------------------------------------
(* Properties                                                               *)

\* A path of the pool is in use exactly when one request has it: whatever
\* callbacks begin and release, no path is lost to the pool and no two
\* requests share one (path_request, path_release, PathfindingUpdate).
OneRequestPerPath ==
    \A at \in DOMAIN pool :
        Cardinality({r \in requests : r.at = at})
          = IF pool[at].InUse THEN 1 ELSE 0

\* The path a callback is given is the one that was searched for its request
\* (path_requests: finished paths "are handed to their callbacks and released").
CallbackSeesItsPath ==
    calling # NoRequest => pool[calling.at].of = calling.id
=============================================================================
