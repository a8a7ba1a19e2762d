---------------------------- MODULE EntityEvents ----------------------------
(* Ext.Entity's subscriptions to a component's creation, destruction and    *)
(* replication.  The engine's callbacks queue what happened; the tick takes *)
(* the queue and fires each event to a table of subscriptions, which the    *)
(* handlers change while it is being traversed.                             *)
(* The bridge that queues (entity_bridge.cpp) is external: one component    *)
(* type, whose events of this world it hands over in order.                 *)
EXTENDS Integers, Sequences, SequencesExt, FiniteSets

CONSTANTS
    Entities,
    SubKinds,         \* the kinds of events that are subscribed to
    MaxEntitySubs,    \* subscriptions made
    MaxHappenings     \* things the engine and scripts do to components

Anybody == "any"
NoSub == 0

VARIABLES
    subs,             \* entity_subs: id -> subscription
    nextSub,          \* next_sub
    watch,            \* the type's events: "no", "wanted" (Unwatched), "yes"
    present,          \* the entities that have the component
    happened,         \* the bridge's queue: [kind, entity], oldest first
    changes,          \* entities whose replicated fields changed
    created,          \* created: entities given the component immediately
    deferredEvents,         \* deferred: the same, in order
    deliver,          \* what the delivery under way still has to fire
    firing,           \* the events being fired, the innermost last
    happenings

entityVars == <<subs, nextSub, watch, present, happened, changes, created,
                deferredEvents, deliver, firing, happenings>>

Matches(sub, kind, e) == sub.kind = kind /\ sub.entity \in {Anybody, e}

EntityInit ==
    /\ subs = <<>>
    /\ nextSub = 1
    /\ watch = "no"
    /\ present = {}
    /\ happened = <<>>
    /\ changes = {}
    /\ created = {}
    /\ deferredEvents = <<>>
    /\ deliver = <<>>
    /\ firing = <<>>
    /\ happenings = 0

\* Scripts run between deliveries and in handlers.
HandlerRuns == IF firing = <<>> THEN deliver = <<>> ELSE Last(firing).cur # NoSub

-----------------------------------------------------------------------------
(* The table.  pairs(entity_subs) has no order, and what is left of the     *)
(* traversals under way after a new key was set is not defined: the table   *)
(* may be rehashed, so that any of the subscriptions may still come.        *)

\* subscribe: a type whose world is not there yet is watched later.
SubscribeEntity(kind, e, once, world) ==
    /\ HandlerRuns
    /\ nextSub <= MaxEntitySubs
    /\ subs' = [i \in DOMAIN subs \cup {nextSub} |->
                  IF i = nextSub THEN [kind |-> kind, entity |-> e, once |-> once]
                  ELSE subs[i]]
    /\ nextSub' = nextSub + 1
    /\ watch' = IF kind = "change" \/ watch = "yes" THEN watch
                ELSE IF world THEN "yes" ELSE "wanted"
    /\ \E left \in [DOMAIN firing -> SUBSET (1..nextSub)] :
          firing' = [i \in DOMAIN firing |->
                       [firing[i] EXCEPT !.rest = left[i], !.added = TRUE]]
    /\ UNCHANGED <<present, happened, changes, created, deferredEvents, deliver,
                   happenings>>

\* Ext.Entity.Unsubscribe.
UnsubscribeEntity(id) ==
    /\ HandlerRuns
    /\ id \in DOMAIN subs
    /\ subs' = [i \in DOMAIN subs \ {id} |-> subs[i]]
    /\ UNCHANGED <<nextSub, watch, present, happened, changes, created, deferredEvents,
                   deliver, firing, happenings>>

-----------------------------------------------------------------------------
(* What happens to components.                                              *)

EntityFrame(kind, e) ==
    [kind |-> kind, entity |-> e, rest |-> DOMAIN subs, cur |-> NoSub,
     from |-> {i \in DOMAIN subs : Matches(subs[i], kind, e)},
     called |-> {}, added |-> FALSE]

Noted(kind, e) ==
    IF watch = "yes" THEN Append(happened, [kind |-> kind, entity |-> e])
    ELSE happened

\* The engine constructs, destroys or replicates the component.
EngineCreates(e) ==
    /\ e \notin present
    /\ happenings < MaxHappenings
    /\ present' = present \cup {e}
    /\ happened' = Noted("create", e)
    /\ happenings' = happenings + 1
    /\ UNCHANGED <<subs, nextSub, watch, changes, created, deferredEvents, deliver, firing>>

EngineDestroys(e) ==
    /\ e \in present
    /\ happenings < MaxHappenings
    /\ present' = present \ {e}
    /\ happened' = Noted("destroy", e)
    /\ happenings' = happenings + 1
    /\ UNCHANGED <<subs, nextSub, watch, changes, created, deferredEvents, deliver, firing>>

EngineChanges(e) ==
    /\ e \in present
    /\ happenings < MaxHappenings
    /\ changes' = changes \cup {e}
    /\ happenings' = happenings + 1
    /\ UNCHANGED <<subs, nextSub, watch, present, happened, created, deferredEvents,
                   deliver, firing>>

\* entity:CreateComponentImmediate: OnCreate handlers are called before it
\* returns, the deferred ones with the next delivery.
CreateComponentImmediate(e) ==
    /\ HandlerRuns
    /\ Len(firing) < 2
    /\ e \notin present
    /\ happenings < MaxHappenings
    /\ present' = present \cup {e}
    /\ happened' = Noted("create", e)
    /\ created' = created \cup {e}
    /\ deferredEvents' = Append(deferredEvents, e)
    /\ firing' = Append(firing, EntityFrame("create", e))
    /\ happenings' = happenings + 1
    /\ UNCHANGED <<subs, nextSub, watch, changes, deliver>>

-----------------------------------------------------------------------------
(* DeliverComponentEvents.                                                  *)

EntityEvent(kind, e) == [kind |-> kind, entity |-> e, now |-> FALSE]

\* One queued event is fired to the immediate, then to the deferred handlers;
\* the copy of one that was fired immediately is dropped.
Delivered(h) ==
    IF h.kind = "create" /\ h.entity \in created THEN <<>>
    ELSE <<EntityEvent(h.kind, h.entity), EntityEvent(h.kind \o "-deferred", h.entity)>>

DeliverComponentEvents ==
    /\ firing = <<>> /\ deliver = <<>>
    /\ happened # <<>> \/ deferredEvents # <<>> \/ changes # {} \/ watch = "wanted"
    /\ watch' \in IF watch = "wanted" THEN {"wanted", "yes"} ELSE {watch}
    /\ deliver' =
          FoldLeft(LAMBDA s, h : s \o Delivered(h), <<>>, happened)
          \o [i \in DOMAIN deferredEvents |->
                [EntityEvent("create-deferred", deferredEvents[i]) EXCEPT !.now = TRUE]]
          \o SetToSeq({EntityEvent("change", e) : e \in changes})
    /\ created' = {} /\ deferredEvents' = <<>> /\ happened' = <<>> /\ changes' = {}
    /\ UNCHANGED <<subs, nextSub, present, firing, happenings>>

\* FireEntityEvent begins; a deferred creation only if the component is there.
FireEntityEvent ==
    LET event == Head(deliver)
    IN  /\ deliver # <<>> /\ firing = <<>>
        /\ deliver' = Tail(deliver)
        /\ firing' = IF event.now /\ event.entity \notin present THEN firing
                     ELSE <<EntityFrame(event.kind, event.entity)>>
        /\ UNCHANGED <<subs, nextSub, watch, present, happened, changes, created,
                       deferredEvents, happenings>>

\* The next subscription of the traversal that matches is called; one to be
\* called once is removed first.
CallHandler(id) ==
    LET f == Last(firing)
    IN  /\ firing # <<>> /\ f.cur = NoSub
        /\ id \in f.rest \cap DOMAIN subs
        /\ Matches(subs[id], f.kind, f.entity)
        /\ firing' = [firing EXCEPT ![Len(firing)] =
                        [f EXCEPT !.cur = id, !.rest = @ \ {id},
                                  !.called = @ \cup {id}]]
        /\ subs' = IF subs[id].once THEN [i \in DOMAIN subs \ {id} |-> subs[i]]
                   ELSE subs
        /\ UNCHANGED <<nextSub, watch, present, happened, changes, created,
                       deferredEvents, deliver, happenings>>

\* Mutant: the handler is not called in protected mode, and may fail.
EntityHandlerMayFail ==
    /\ firing # <<>> /\ Last(firing).cur # NoSub
    /\ firing' \in {[firing EXCEPT ![Len(firing)].cur = NoSub], Front(firing)}
    /\ UNCHANGED <<subs, nextSub, watch, present, happened, changes, created,
                   deferredEvents, deliver, happenings>>

EntityHandlerReturns ==
    /\ firing # <<>> /\ Last(firing).cur # NoSub
    /\ firing' = [firing EXCEPT ![Len(firing)].cur = NoSub]
    /\ UNCHANGED <<subs, nextSub, watch, present, happened, changes, created,
                   deferredEvents, deliver, happenings>>

\* next() cannot go on from a key that is gone when the table was rehashed:
\* the error ends the delivery or, inside a handler, that handler.
TraversalFails ==
    LET f == Last(firing)
    IN  /\ firing # <<>> /\ f.cur # NoSub
        /\ f.cur \notin DOMAIN subs /\ f.added
        /\ IF Len(firing) = 1 THEN firing' = <<>> /\ deliver' = <<>>
           ELSE /\ firing' = [Front(firing) EXCEPT ![Len(firing) - 1].cur = NoSub]
                /\ UNCHANGED deliver
        /\ UNCHANGED <<subs, nextSub, watch, present, happened, changes, created,
                       deferredEvents, happenings>>

FiringEnds ==
    LET f == Last(firing)
    IN  /\ firing # <<>> /\ f.cur = NoSub
        /\ \A id \in f.rest \cap DOMAIN subs : ~ Matches(subs[id], f.kind, f.entity)
        /\ firing' = Front(firing)
        /\ UNCHANGED <<subs, nextSub, watch, present, happened, changes, created,
                       deferredEvents, deliver, happenings>>

EntityNext ==
    \/ \E k \in SubKinds, e \in Entities \cup {Anybody}, once, world \in BOOLEAN :
          SubscribeEntity(k, e, once, world)
    \/ \E id \in DOMAIN subs : UnsubscribeEntity(id)
    \/ \E e \in Entities : \/ EngineCreates(e) \/ EngineDestroys(e)
                           \/ EngineChanges(e) \/ CreateComponentImmediate(e)
    \/ DeliverComponentEvents
    \/ FireEntityEvent
    \/ \E id \in DOMAIN subs : CallHandler(id)
    \/ EntityHandlerReturns
    \/ TraversalFails
    \/ FiringEnds

EntitySpec == EntityInit /\ [][EntityNext]_entityVars
-----------------------------------------------------------------------------
\* "Nothing is dropped silently": when the firing of an event is over, whoever
\* was subscribed to it then and still is has been called.
NothingDropped ==
    [][Len(firing') < Len(firing) =>
         Last(firing).from \cap DOMAIN subs \subseteq Last(firing).called]_firing

\* The same for every event whose handlers subscribe to nothing while it is
\* fired, whatever they unsubscribe, create at once or fire inside: then the
\* delivery also never breaks off.
NothingDroppedUnlessAdded ==
    [][Len(firing') < Len(firing) =>
         \/ Last(firing).added
         \/ /\ Last(firing).from \cap DOMAIN subs \subseteq Last(firing).called
            /\ deliver' = deliver]_firing
=============================================================================
