------------------------------ MODULE Searches ------------------------------
(* The searches for the engine structures Ext.* reads (warm_stats_search    *)
(* and run_searches_now of preload.cpp): a thread that tries one of them a  *)
(* round, and the story thread, which tries those a mod needs on load.      *)
EXTENDS Integers, Sequences, SequencesExt, FiniteSets

CONSTANTS
    Rounds,        \* rounds before the thread gives up
    MinRounds      \* rounds it keeps up at least

ASSUME SearchesAssumption == Rounds \in Nat /\ MinRounds \in Nat

\* In their order; the last asks the stats what its names are.
WarmSearches == <<"stats", "mods", "origins", "loca", "templates", "prototypes">>
NowSteps == <<"loca", "stats", "mods", "origins">>
NeedsStats == {"prototypes"}

VARIABLES
    exists,      \* structures the engine has built
    cached,      \* structures some search has found
    searched,    \* search.Done of each of the thread's searches
    statsReady,  \* statsReady
    attempt,     \* rounds begun
    warm,        \* "rounds", "stopped" or "gaveUp"
    now,         \* steps of run_searches_now done, by the story thread
    late         \* note: structures built with too few rounds left

searchVars == <<exists, cached, searched, statsReady, attempt, warm, now, late>>

SearchInit ==
    /\ exists = {} /\ cached = {} /\ searched = {}
    /\ statsReady = FALSE /\ attempt = 0
    /\ warm \in {"rounds", "skipped"}
    /\ now = 0 /\ late = {}

\* External: the engine builds a structure while it loads.
EngineBuilds(s) ==
    /\ s \notin exists
    /\ exists' = exists \cup {s}
    /\ late' = IF attempt + Len(WarmSearches) > Rounds THEN late \cup {s} ELSE late
    /\ UNCHANGED <<cached, searched, statsReady, attempt, warm, now>>

\* A search's Ready(): it finds what is there, and keeps it.
Ready(s) == s \in exists \cup cached

\* Mutant: the round goes to the next search that can run, and is over though
\* an earlier one was passed over.
RoundOfSkips ==
    LET open == {i \in DOMAIN WarmSearches : WarmSearches[i] \notin searched}
    IN  IF open = {} THEN 0
        ELSE LET i == CHOOSE i \in open : \A j \in open : i <= j
             IN  IF WarmSearches[i] \in NeedsStats THEN 0 ELSE i

\* The search a round runs: the first that is not done, but for one that
\* waits for the stats; 0 if there is none.
RoundOf ==
    LET open == {i \in DOMAIN WarmSearches :
                    /\ WarmSearches[i] \notin searched
                    /\ WarmSearches[i] \in NeedsStats => statsReady}
    IN  IF open = {} THEN 0 ELSE CHOOSE i \in open : \A j \in open : i <= j

\* One round of the thread.  A search that does not succeed keeps its turn.
WarmRound ==
    LET i == RoundOf
        found == IF i # 0 /\ Ready(WarmSearches[i]) THEN {WarmSearches[i]} ELSE {}
    IN  /\ warm = "rounds" /\ attempt < Rounds
        /\ attempt' = attempt + 1
        /\ searched' = searched \cup found
        /\ cached' = cached \cup found
        /\ statsReady' = IF i # 0 /\ WarmSearches[i] = "stats"
                         THEN found # {} ELSE statsReady
        /\ warm' = IF searched' = ToSet(WarmSearches) /\ attempt > MinRounds
                   THEN "stopped" ELSE warm
        /\ UNCHANGED <<exists, now, late>>

\* What is not done after the last round is given up.
WarmGivesUp ==
    /\ warm = "rounds" /\ attempt = Rounds
    /\ warm' = "gaveUp"
    /\ UNCHANGED <<exists, cached, searched, statsReady, attempt, now, late>>

\* run_searches_now, one step: whatever it finds, the next one is tried.
SearchNow ==
    /\ now < Len(NowSteps)
    /\ now' = now + 1
    /\ cached' = IF Ready(NowSteps[now + 1]) THEN cached \cup {NowSteps[now + 1]} ELSE cached
    /\ UNCHANGED <<exists, searched, statsReady, attempt, warm, late>>

SearchNext ==
    \/ \E s \in ToSet(WarmSearches) : EngineBuilds(s)
    \/ WarmRound \/ WarmGivesUp \/ SearchNow

SearchSpec == SearchInit /\ [][SearchNext]_searchVars

-----------------------------------------------------------------------------
Before(s) == LET at == CHOOSE i \in DOMAIN WarmSearches : WarmSearches[i] = s
             IN  {WarmSearches[i] : i \in 1..at - 1}

\* "Enough rounds for every search to get several turns": what the engine had
\* built with a round to spare for each search is found before the thread
\* gives up, unless a structure an earlier search waits for came too late
\* itself: that search has kept every turn.
FoundUnlessBehindMissing ==
    warm = "gaveUp" => \A s \in exists \ (searched \cup late) :
        \E b \in Before(s) : b \notin exists \/ b \in late
=============================================================================
