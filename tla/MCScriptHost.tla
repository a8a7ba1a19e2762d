---------------------------- MODULE MCScriptHost ----------------------------
(* Two scenes: sessions one after another, so that a story is worked a      *)
(* second time; and, as long as none was started and no reset asked for, the *)
(* menu, with a scheduler thread beside the three of the game.               *)
EXTENDS ScriptHost

AtMenu   == session = 0 /\ requests = 0
JobsIdle == \A j \in Jobs : todo[j] = <<>>

MCNext ==
    \/ StoryStep \/ ClientStep \/ WorkerStep \/ StatsLoad
    \/ ServerTick \/ StoryEvent \/ ClientFrame \/ EndStory \/ FindModules
    \/ JobsIdle /\ StartSession
    \/ JobsIdle /\ \E t \in Threads \ Jobs : RequestReset(t)
    \/ AtMenu /\ \E j \in Jobs : Step(j) \/ \E s \in Sides : JobEvent(j, s)

MCSpec == Init /\ [][MCNext]_vars
=============================================================================
