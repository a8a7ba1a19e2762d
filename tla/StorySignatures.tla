--------------------------- MODULE StorySignatures --------------------------
(***************************************************************************)
(* What osi.cpp knows of the story's functions: the signatures read from   *)
(* the store of an earlier run or by walking Osiris' database, the store   *)
(* written line by line over the one before, and the function objects      *)
(* bound on the first call.  The store's name holds the story's version,   *)
(* which is the same for every set of mods.                                *)
(*                                                                         *)
(* A signature is one value: its types and its outputs.  A crash while the *)
(* store is written leaves the lines so far; the last may be cut in its    *)
(* types ("short"), or before them ("bare": the outputs alone).            *)
(***************************************************************************)
EXTENDS Naturals, FiniteSets, Functions

CONSTANTS
    StoryKeys,   \* functions, each a name with its arity
    EngineKeys,  \* those of them the engine maps: it lists them itself
    Stories,     \* the stories a set of mods can give: key -> signature
    MaxRuns      \* bound on the stories loaded and on the crashes

ASSUME SignatureAssumption ==
    /\ EngineKeys \subseteq StoryKeys
    /\ \A s \in Stories : EngineKeys \subseteq DOMAIN s

NoSignature == [k \in {} |-> 0]

VARIABLES
    compiled,   \* the story the engine has loaded
    store,      \* the lines of the store; none before it is first written
    unwritten,  \* the lines save_cached_signatures has still to write
    database,   \* key -> [sig, def]; def says that the object is known
    defsBound,  \* g_defs_bound
    outs,       \* the engine's functions' outputs, "unknown" or a signature
    worked,     \* the session's story work has read the signatures
    runs,       \* stories loaded and crashes so far
    foreign     \* another story was compiled, or a write was cut short

signatureVars == <<compiled, store, unwritten, database, defsBound, outs,
                   worked, runs, foreign>>

SignatureInit ==
    /\ compiled \in Stories
    /\ store = NoSignature /\ unwritten = NoSignature
    /\ database = NoSignature /\ defsBound = FALSE
    /\ outs = [k \in EngineKeys |-> "unknown"]
    /\ worked = FALSE /\ runs = 0 /\ foreign = FALSE

Walked == [k \in DOMAIN compiled |-> [sig |-> compiled[k], def |-> TRUE]]

\* Mutant: only functions whose object is known get their outputs.
OutsFromBound(db) == [k \in EngineKeys |->
                    IF k \in DOMAIN db /\ db[k].def THEN db[k].sig ELSE "unknown"]

\* The outputs a read database gives the engine's functions.
OutsFrom(db) == [k \in EngineKeys |->
                    IF k \in DOMAIN db THEN db[k].sig ELSE "unknown"]

\* save_cached_signatures: the file is emptied, then a line for each entry.
SaveCachedSignatures(db) ==
    /\ store' = NoSignature
    /\ unwritten' = [k \in DOMAIN db |-> db[k].sig]

\* The next line reaches the file.
WriteSignature(k) ==
    /\ k \in DOMAIN unwritten
    /\ store' = [j \in DOMAIN store \cup {k} |->
                    IF j = k THEN unwritten[k] ELSE store[j]]
    /\ unwritten' = Restrict(unwritten, DOMAIN unwritten \ {k})
    /\ UNCHANGED <<compiled, database, defsBound, outs, worked, runs, foreign>>

\* load_cached_signatures: what a stored line gives back.  The store is used
\* when a line of it is one of the engine's functions.
CachedSignature == [k \in DOMAIN store |-> [sig |-> store[k], def |-> FALSE]]
StoreServes == DOMAIN store \cap EngineKeys # {}

\* load_out_param_counts, once per session: from the store, or by the walk,
\* which writes the store.
LoadOutParamCounts ==
    /\ ~worked /\ unwritten = NoSignature
    /\ worked' = TRUE
    /\ defsBound' = FALSE
    /\ IF StoreServes
       THEN /\ database' = CachedSignature
            /\ UNCHANGED <<store, unwritten>>
       ELSE /\ database' = Walked
            /\ SaveCachedSignatures(Walked)
    /\ outs' = OutsFrom(database')
    /\ UNCHANGED <<compiled, runs, foreign>>

\* What the walk adds to a signature from the store: the types it lacks.
\* Types that are there win.
Completed(k) ==
    IF database[k].sig = "bare" THEN compiled[k] ELSE database[k].sig

\* bind_defs, on the first use of a story function: nothing to do when the
\* walk ran; else the objects of what the story has, what the store did not
\* have, and without what the story lacks.  A changed set is stored again.
BindDefs ==
    /\ worked /\ ~defsBound /\ unwritten = NoSignature
    /\ defsBound' = TRUE
    /\ IF \E k \in DOMAIN database : database[k].def
       THEN UNCHANGED <<database, store, unwritten>>
       ELSE /\ database' = [k \in DOMAIN compiled |->
                    [sig |-> IF k \in DOMAIN database THEN Completed(k)
                             ELSE compiled[k], def |-> TRUE]]
            /\ IF DOMAIN compiled # DOMAIN database
               THEN SaveCachedSignatures(database')
               ELSE UNCHANGED <<store, unwritten>>
    /\ UNCHANGED <<compiled, outs, worked, runs, foreign>>

\* Another session: the story of the same mods or of others.
NextStory(s) ==
    /\ worked /\ unwritten = NoSignature /\ runs < MaxRuns
    /\ compiled' = s
    /\ runs' = runs + 1
    /\ worked' = FALSE
    /\ foreign' = (foreign \/ s # compiled)
    /\ UNCHANGED <<store, unwritten, database, defsBound, outs>>

\* The process ends, perhaps in the middle of a write.  The store keeps what
\* was written; the line at the cut is lost, "bare" or "short".
Crash ==
    /\ runs < MaxRuns
    /\ runs' = runs + 1
    /\ IF unwritten = NoSignature
       THEN UNCHANGED <<store, foreign>>
       ELSE /\ \/ UNCHANGED store
               \/ \E k \in DOMAIN unwritten, cut \in {"bare", "short"} :
                    store' = [j \in DOMAIN store \cup {k} |->
                                IF j = k THEN cut ELSE store[j]]
            /\ foreign' = TRUE
    /\ unwritten' = NoSignature
    /\ database' = NoSignature /\ defsBound' = FALSE
    /\ outs' = [k \in EngineKeys |-> "unknown"]
    /\ worked' = FALSE
    /\ UNCHANGED compiled

SignatureNext ==
    \/ LoadOutParamCounts \/ BindDefs \/ Crash
    \/ \E k \in StoryKeys : WriteSignature(k)
    \/ \E s \in Stories : NextStory(s)

SignatureSpec == SignatureInit /\ [][SignatureNext]_signatureVars

-----------------------------------------------------------------------------

\* Once bound, the database holds exactly the functions of the story that is
\* loaded, each with its object, whatever store it began with: another set of
\* mods', or one a crash cut short.  Nothing a past story had stays callable.
BoundToThisStory ==
    worked /\ defsBound =>
        /\ DOMAIN database = DOMAIN compiled
        /\ \A k \in DOMAIN database : database[k].def

\* As long as the mods stay the same and no write was cut short, every
\* signature in use is the story's own, on the runs that walk and on those
\* that read the store.
SignaturesRightUnlessForeign ==
    worked /\ ~foreign =>
        /\ \A k \in DOMAIN database \cap DOMAIN compiled :
                database[k].sig = compiled[k]
        /\ \A k \in EngineKeys : outs[k] = compiled[k]

\* The database is of the story that is loaded: its functions, and unless the
\* store was another's its signatures.
DatabaseIsTheStorys ==
    BoundToThisStory /\ SignaturesRightUnlessForeign
=============================================================================
