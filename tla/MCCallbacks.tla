----------------------------- MODULE MCCallbacks -----------------------------
(* What a Lua state hears of and when, each kind of callback on its own     *)
(* (part): subscriptions, timers, synced variables, entity events, paths,   *)
(* the mods' files, widgets, the interface, and the engine's events with    *)
(* the console's.                                                           *)
EXTENDS LuaEvents, LuaTimers, UserVars, EntityEvents, Pathfinding, ModLoading,
        ImGui, NoesisUi

(* LuaTimers.                                                               *)
MCDelays == {-1, 0, 2}
MCPeriods == {0, 1}

(* UserVars: one variable each way a mod registers them, sent with the tick,*)
(* sent by hand, and sent when written, in both directions.                 *)
MCOptions ==
    [tick |-> [SyncToClient |-> TRUE, SyncToServer |-> FALSE, SyncOnTick |-> TRUE,
               SyncOnWrite |-> FALSE, WriteableOnServer |-> TRUE,
               WriteableOnClient |-> FALSE],
     hand |-> [SyncToClient |-> TRUE, SyncToServer |-> FALSE, SyncOnTick |-> FALSE,
               SyncOnWrite |-> FALSE, WriteableOnServer |-> TRUE,
               WriteableOnClient |-> TRUE],
     both |-> [SyncToClient |-> TRUE, SyncToServer |-> TRUE, SyncOnTick |-> TRUE,
               SyncOnWrite |-> TRUE, WriteableOnServer |-> TRUE,
               WriteableOnClient |-> TRUE]]

(* ModLoading: no order, and either of two mods alone.                      *)
MCOrders == {<<>>, <<"m1">>, <<"m2">>}

VARIABLE part

MCVars == <<part, eventVars, timerVars, varVars, entityVars, pathVars,
            modVars, uiVars, noesisVars, engineEventVars>>

MCPartNames == {"events", "timers", "variables", "entities", "paths", "mods",
          "widgets", "interface", "engine"}

MCInit ==
    /\ part \in MCPartNames
    /\ EventsInit /\ TimersInit /\ VarsInit /\ EntityInit /\ PathInit
    /\ ModInit /\ (part # "mods" => settings = <<>>)
    /\ UiInit /\ (part # "widgets" => state = CHOOSE a \in Addresses : TRUE)
    /\ NoesisInit /\ (part # "interface" => hooked)
    /\ EngineEventsInit /\ (part # "engine" => clientSide)

MCNext ==
    /\ UNCHANGED part
    /\ \/ /\ part = "events" /\ EventsNext
          /\ UNCHANGED <<timerVars, varVars, entityVars, pathVars, modVars,
                         uiVars, noesisVars, engineEventVars>>
       \/ /\ part = "timers" /\ TimersNext
          /\ UNCHANGED <<eventVars, varVars, entityVars, pathVars, modVars,
                         uiVars, noesisVars, engineEventVars>>
       \/ /\ part = "variables" /\ VarsNext
          /\ UNCHANGED <<eventVars, timerVars, entityVars, pathVars, modVars,
                         uiVars, noesisVars, engineEventVars>>
       \/ /\ part = "entities" /\ EntityNext
          /\ UNCHANGED <<eventVars, timerVars, varVars, pathVars, modVars,
                         uiVars, noesisVars, engineEventVars>>
       \/ /\ part = "paths" /\ PathNext
          /\ UNCHANGED <<eventVars, timerVars, varVars, entityVars, modVars,
                         uiVars, noesisVars, engineEventVars>>
       \/ /\ part = "mods" /\ ModNext
          /\ UNCHANGED <<eventVars, timerVars, varVars, entityVars, pathVars,
                         uiVars, noesisVars, engineEventVars>>
       \/ /\ part = "widgets" /\ UiNext
          /\ UNCHANGED <<eventVars, timerVars, varVars, entityVars, pathVars,
                         modVars, noesisVars, engineEventVars>>
       \/ /\ part = "interface" /\ NoesisNext
          /\ UNCHANGED <<eventVars, timerVars, varVars, entityVars, pathVars,
                         modVars, uiVars, engineEventVars>>
       \/ /\ part = "engine" /\ EngineEventsNext
          /\ UNCHANGED <<eventVars, timerVars, varVars, entityVars, pathVars,
                         modVars, uiVars, noesisVars>>

MCSpec == MCInit /\ [][MCNext]_MCVars
==============================================================================
