----------------------------- MODULE LuaTimers ------------------------------
(* Ext.Timer of one Lua state: the timers, the clock of the last update and *)
(* one pass of RunTimers over those that are due.  Callbacks are any mod's  *)
(* code: they start, cancel, pause and resume timers, the one that is       *)
(* running and those still to come in the same pass included.  Persistent   *)
(* timers go into a save and come back from it.                             *)
EXTENDS Integers, Sequences, FiniteSets, FiniteSetsExt

CONSTANTS
    NoTimer,
    Delays,       \* milliseconds a timer is asked to wait; negative ones too
    Periods,      \* repeat intervals, 0 for none
    MaxTimers,    \* timers started or restored
    MaxTime       \* the clock

ASSUME TimersAssumption ==
    /\ NoTimer \notin Nat
    /\ Delays \subseteq Int /\ Periods \subseteq Nat
    /\ MaxTimers \in Nat /\ MaxTime \in Nat

VARIABLES
    timers,       \* handle -> timer
    nextHandle,
    gameClock,        \* clock.ms
    due,          \* what the pass collected and has not looked at yet, with
                  \* the queue and the time it was collected for
    runningTimers,      \* the handle whose callback runs
    saved         \* what CollectSaveExtras last answered

timerVars == <<timers, nextHandle, gameClock, due, runningTimers, saved>>

\* What a pass collected is the past of it: `waited` is the time a timer has
\* been running, not counting pauses; `asked` what it was to wait.
Timer(ms, every, realtime, persistent) ==
    [due |-> gameClock + Max({0, ms}), every |-> every, realtime |-> realtime,
     persistent |-> persistent, paused |-> FALSE, remaining |-> 0,
     asked |-> Max({0, ms}), waited |-> 0]

With(ts, h, t) == [x \in DOMAIN ts \cup {h} |-> IF x = h THEN t ELSE ts[x]]
Without(ts, hs) == [x \in DOMAIN ts \ hs |-> ts[x]]

-----------------------------------------------------------------------------
TimersInit ==
    /\ timers = <<>>
    /\ nextHandle = 1
    /\ gameClock = 0
    /\ due = {}
    /\ runningTimers = NoTimer
    /\ saved = <<>>

\* add_timer, for WaitFor, WaitForRealtime and WaitForPersistent: a negative
\* delay is 0, a repeat of 0 is none.
WaitFor(ms, every, realtime, persistent) ==
    /\ nextHandle <= MaxTimers
    /\ timers' = With(timers, nextHandle,
                      Timer(ms, every, realtime, persistent))
    /\ nextHandle' = nextHandle + 1
    /\ UNCHANGED <<gameClock, due, runningTimers, saved>>

\* Ext.Timer.Cancel.
Cancel(h) ==
    /\ h \in DOMAIN timers
    /\ timers' = Without(timers, {h})
    /\ UNCHANGED <<nextHandle, gameClock, due, runningTimers, saved>>

\* Ext.Timer.Pause: the time left is kept, none when the timer is overdue.
Pause(h) ==
    /\ h \in DOMAIN timers
    /\ ~ timers[h].paused
    /\ timers' = [timers EXCEPT ![h].paused = TRUE,
                                ![h].remaining = Max({0, timers[h].due - gameClock})]
    /\ UNCHANGED <<nextHandle, gameClock, due, runningTimers, saved>>

\* Mutant: the due time of before the pause stays.
ResumeKeepsDue(h) ==
    /\ h \in DOMAIN timers
    /\ timers[h].paused
    /\ timers' = [timers EXCEPT ![h].paused = FALSE, ![h].remaining = 0]
    /\ UNCHANGED <<nextHandle, gameClock, due, runningTimers, saved>>

\* Ext.Timer.Resume.
Resume(h) ==
    /\ h \in DOMAIN timers
    /\ timers[h].paused
    /\ timers' = [timers EXCEPT ![h].paused = FALSE,
                                ![h].due = gameClock + timers[h].remaining,
                                ![h].remaining = 0]
    /\ UNCHANGED <<nextHandle, gameClock, due, runningTimers, saved>>

-----------------------------------------------------------------------------
(* RunTimers.                                                               *)

\* The order of a pass: the realtime queue first, each soonest first, and
\* the older handle first among those due at the same moment.
Before(a, b) ==
    \/ a.realtime /\ ~ b.realtime
    \/ /\ a.realtime = b.realtime
       /\ a.at < b.at \/ (a.at = b.at /\ a.h < b.h)

DueAt(now) ==
    {h \in DOMAIN timers : ~ timers[h].paused /\ now >= timers[h].due}

\* The clock takes the engine's time and the due timers are collected.  An
\* update returns before that only when it has both the time and the ticks of
\* the last one: the same time comes again with other ticks.
BeginPass(now) ==
    /\ now >= gameClock
    /\ gameClock' = now
    /\ due' = {[h |-> h, realtime |-> timers[h].realtime, at |-> timers[h].due] : h \in DueAt(now)}
    /\ timers' = [h \in DOMAIN timers |->
                    [timers[h] EXCEPT !.waited =
                        IF timers[h].paused THEN @ ELSE @ + now - gameClock]]
    /\ UNCHANGED <<nextHandle, runningTimers, saved>>

\* The next due of a timer that repeats: a period after the last, and now
\* when that is more than two periods ago.
NextDue(t) ==
    IF t.due + t.every < gameClock - 2 * t.every THEN gameClock ELSE t.due + t.every

\* The next handle of the pass: rescheduled or removed, then called.  One that
\* is gone by now is passed over; a pause is not looked at again.
Fire ==
    /\ runningTimers = NoTimer
    /\ \E first \in due :
          LET h == first.h
          IN  /\ \A other \in due \ {first} : Before(first, other)
              /\ due' = due \ {first}
              /\ IF h \notin DOMAIN timers
                 THEN UNCHANGED <<timers, runningTimers>>
                 ELSE /\ runningTimers' = h
                      /\ timers' = IF timers[h].every = 0
                                   THEN Without(timers, {h})
                                   ELSE [timers EXCEPT ![h].due = NextDue(timers[h])]
    /\ UNCHANGED <<nextHandle, gameClock, saved>>

\* The callback is done, or failed and was reported.
CallbackReturns ==
    /\ runningTimers # NoTimer
    /\ runningTimers' = NoTimer
    /\ UNCHANGED <<timers, nextHandle, gameClock, due, saved>>

-----------------------------------------------------------------------------
(* Persistent timers in a save.                                             *)

Persistent == {h \in DOMAIN timers : timers[h].persistent}

\* A timer's node in the save: time left, period, paused.
Frozen(t) ==
    [left |-> IF t.paused THEN t.remaining ELSE Max({0, t.due - gameClock}),
     every |-> t.every, paused |-> t.paused]

\* The timers' part of CollectSaveExtras: pairs(timers) has no order.
CollectSaveExtras ==
    /\ \E order \in [1..Cardinality(Persistent) -> Persistent] :
          /\ \A i, j \in DOMAIN order : i # j => order[i] # order[j]
          /\ saved' = [i \in DOMAIN order |-> Frozen(timers[order[i]])]
    /\ UNCHANGED <<timers, nextHandle, gameClock, due, runningTimers>>

\* A timer started from its node.
Thawed(node) ==
    [Timer(node.left, node.every, FALSE, TRUE) EXCEPT
        !.paused = node.paused, !.remaining = IF node.paused THEN node.left ELSE 0]

\* The timers' part of RestoreSaveExtras: the persistent ones are cleared and
\* the save's are started anew, under new handles.
RestoreSaveExtras ==
    LET first == nextHandle
    IN  /\ nextHandle + Len(saved) <= MaxTimers + 1
        /\ saved # <<>>
        /\ nextHandle' = nextHandle + Len(saved)
        /\ timers' = [h \in (DOMAIN timers \ Persistent)
                              \cup (first .. nextHandle' - 1) |->
                        IF h >= first THEN Thawed(saved[h - first + 1])
                        ELSE timers[h]]
        /\ UNCHANGED <<gameClock, due, runningTimers, saved>>

\* Mods' code runs in a callback, and between passes in whatever else enters
\* the state; the savegame is visited between passes.
Scripts == runningTimers # NoTimer \/ due = {}

TimersNext ==
    \/ /\ Scripts
       /\ \/ \E ms \in Delays, every \in Periods, kind \in {"game", "real", "saved"} :
               WaitFor(ms, every, kind = "real", kind = "saved")
          \/ \E h \in DOMAIN timers : Cancel(h) \/ Pause(h) \/ Resume(h)
    \/ /\ due = {} /\ runningTimers = NoTimer
       /\ \/ \E now \in 0..MaxTime : BeginPass(now)
          \/ CollectSaveExtras
          \/ RestoreSaveExtras
    \/ Fire
    \/ CallbackReturns

TimersSpec == TimersInit /\ [][TimersNext]_timerVars

-----------------------------------------------------------------------------
\* A timer is called only after it has run for the time it was asked to wait,
\* however it was paused, resumed, saved and restored on the way, only if it
\* was started before the pass, and not once it is cancelled.  What a pause
\* does not do is hold back a timer the pass has collected already.
FiresAfterItsDelay ==
    [][runningTimers' \notin {NoTimer, runningTimers} =>
         /\ runningTimers' \in DOMAIN timers
         /\ timers[runningTimers'].waited >= timers[runningTimers'].asked
         /\ timers[runningTimers'].due <= gameClock]_timerVars

\* A timer that repeats neither drifts from its first schedule nor falls more
\* than two periods behind the clock: its next time is a whole number of
\* periods after the one before, or now.
RepeatsInStep ==
    [][\A h \in DOMAIN timers :
         runningTimers' = h /\ runningTimers # h /\ timers[h].every > 0 =>
           LET t == timers[h] next == timers'[h].due
           IN  /\ next >= gameClock - 2 * t.every
               /\ next <= gameClock + t.every
               /\ next = gameClock \/ next = t.due + t.every]_timerVars

\* A timer is neither early nor, when it repeats, out of step.
TimersKeepTime ==
    FiresAfterItsDelay /\ RepeatsInStep
=============================================================================
