----------------------------- MODULE HotReload -----------------------------
(***************************************************************************)
(* The file watcher of the development server:                             *)
(* internal/core/services/watch_service.go.                                *)
(*                                                                         *)
(* A session lasts from StartWatching to StopWatching and has a context, a *)
(* broadcast hub and an fsnotify watcher of its own; here all three are    *)
(* the number of the session, and 0 is nil.  A change of a watched file    *)
(* (re)arms a debounce timer; the timer's callback, the start of a session *)
(* and Trigger run the hot reload commands, each in a goroutine.  Goroutines*)
(* outlive the session that started them.                                  *)
(***************************************************************************)
EXTENDS Naturals, FiniteSets, Sequences

CONSTANTS Builds,       \* the hot reload commands, in order
          Goroutines,   \* that may be in runHotReloadCommand at the same time
          MaxSessions, MaxChanges, MaxTriggers,
          MaxCloseFaults \* bounds: failures of the watcher to open or to close

VARIABLES isWatching,
          session,            \* uds.ctx
          watcher,            \* uds.watcher
          sessions,           \* StartWatching calls that made a context
          handling,           \* sessions whose processEvents is in handleFileEvent
          changes,            \* file changes handled; numbers the timers
          timers,             \* armed timers: <<number, session it captured>>
          hotReloadTimer,     \* the number of the timer the service knows, or 0
          runs,               \* the goroutines
          buildActive,
          changeAfterBuild,
          hotReloadCommands,
          triggers,
          closeFaults,
          unbuilt             \* history: a change no build has started after

watchVars == <<isWatching, session, watcher, sessions, handling, closeFaults>>
buildVars == <<runs, buildActive, changeAfterBuild, unbuilt>>
timerVars == <<changes, timers, hotReloadTimer>>
reloadVars == <<watchVars, buildVars, timerVars, hotReloadCommands, triggers>>

Free == [at |-> "free", session |-> 0, left |-> <<>>, commands |-> <<>>]
Unused == {g \in Goroutines : runs[g].at = "free"}

ReloadInit ==
    /\ isWatching = FALSE /\ session = 0 /\ watcher = 0 /\ sessions = 0
    /\ handling = {} /\ closeFaults = 0
    /\ changes = 0 /\ timers = {} /\ hotReloadTimer = 0
    /\ runs = [g \in Goroutines |-> Free]
    /\ buildActive = FALSE /\ changeAfterBuild = FALSE /\ unbuilt = FALSE
    /\ hotReloadCommands \in {<<>>, Builds}
    /\ triggers = 0

\* A goroutine that is about to enter runHotReloadCommand.
Spawn(g, s) == /\ g \in Unused
               /\ runs' = [runs EXCEPT ![g] = [Free EXCEPT !.at = "entered", !.session = s]]

-----------------------------------------------------------------------------
(* StartWatching and StopWatching hold the mutex from end to end.          *)

\* Already watching, also when the watcher of the session failed to close.
StartAgain == isWatching /\ UNCHANGED reloadVars

\* fsnotify.NewWatcher fails: the context is made, and nothing runs.
StartFails ==
    /\ ~isWatching /\ sessions < MaxSessions /\ closeFaults < MaxCloseFaults
    /\ sessions' = sessions + 1 /\ session' = sessions'
    /\ closeFaults' = closeFaults + 1
    /\ UNCHANGED <<isWatching, watcher, handling, buildVars, timerVars,
                   hotReloadCommands, triggers>>

\* The session starts with a run of the commands.
StartWatching ==
    /\ ~isWatching /\ sessions < MaxSessions
    /\ sessions' = sessions + 1 /\ session' = sessions' /\ watcher' = sessions'
    /\ isWatching' = TRUE
    /\ \E g \in Goroutines : Spawn(g, session')
    /\ UNCHANGED <<handling, buildActive, changeAfterBuild, unbuilt, timerVars,
                   hotReloadCommands, triggers, closeFaults>>

StopWatching ==
    /\ isWatching
    /\ watcher' = 0 /\ isWatching' = FALSE /\ session' = 0
    /\ timers' = {t \in timers : t[1] # hotReloadTimer}
    /\ hotReloadTimer' = 0
    /\ unbuilt' = FALSE
    /\ UNCHANGED <<sessions, handling, runs, buildActive, changeAfterBuild, changes,
                   hotReloadCommands, triggers, closeFaults>>

\* The watcher fails to close: the service still counts as watching.
StopFails ==
    /\ isWatching /\ watcher # 0 /\ closeFaults < MaxCloseFaults
    /\ watcher' = 0 /\ closeFaults' = closeFaults + 1
    /\ UNCHANGED <<isWatching, session, sessions, handling, buildVars, timerVars,
                   hotReloadCommands, triggers>>

StopIdle == ~isWatching /\ UNCHANGED reloadVars

\* SetHotReloadCommands: a running build keeps the commands it copied.
SetHotReloadCommands(commands) ==
    /\ commands # hotReloadCommands
    /\ hotReloadCommands' = commands
    /\ UNCHANGED <<watchVars, buildVars, timerVars, triggers>>

-----------------------------------------------------------------------------
(* processEvents                                                           *)

\* An event that is not a chmod; one goroutine per session handles them.
FileChange ==
    /\ watcher # 0 /\ watcher \notin handling /\ changes + Cardinality(handling) < MaxChanges
    /\ handling' = handling \cup {watcher}
    /\ UNCHANGED <<isWatching, session, watcher, sessions, closeFaults, buildVars, timerVars,
                   hotReloadCommands, triggers>>

\* The end of handleFileEvent: the timer captures the context of now, which
\* may be that of a later session than the one the event came from.
ScheduleHotReload(s) ==
    /\ s \in handling
    /\ handling' = handling \ {s}
    /\ changes' = changes + 1
    /\ IF isWatching
       THEN /\ timers' = {t \in timers : t[1] # hotReloadTimer} \cup {<<changes', session>>}
            /\ hotReloadTimer' = changes'
            /\ unbuilt' = (hotReloadCommands # <<>>)
       ELSE UNCHANGED <<timers, hotReloadTimer, unbuilt>>
    /\ UNCHANGED <<isWatching, session, watcher, sessions, closeFaults, runs, buildActive,
                   changeAfterBuild, hotReloadCommands, triggers>>

\* A timer that fired can no longer be stopped.
TimerFires(t, g) ==
    /\ t \in timers /\ g \in Unused
    /\ timers' = timers \ {t}
    /\ runs' = [runs EXCEPT ![g] = [Free EXCEPT !.at = "timer", !.session = t[2]]]
    /\ UNCHANGED <<watchVars, buildActive, changeAfterBuild, unbuilt, changes, hotReloadTimer,
                   hotReloadCommands, triggers>>

\* The callback of a timer of an ended session does nothing; any other
\* forgets the timer the service knows, also when that is a newer one.
TimerCallback(g) ==
    /\ runs[g].at = "timer"
    /\ IF isWatching /\ session = runs[g].session
       THEN /\ hotReloadTimer' = 0
            /\ runs' = [runs EXCEPT ![g].at = "entered"]
       ELSE /\ runs' = [runs EXCEPT ![g] = Free]
            /\ UNCHANGED hotReloadTimer
    /\ UNCHANGED <<watchVars, buildActive, changeAfterBuild, unbuilt, changes, timers,
                   hotReloadCommands, triggers>>

Trigger(g) ==
    /\ triggers < MaxTriggers /\ triggers' = triggers + 1
    /\ Spawn(g, 0)
    /\ UNCHANGED <<watchVars, buildActive, changeAfterBuild, unbuilt, timerVars, hotReloadCommands>>

-----------------------------------------------------------------------------
(* runHotReloadCommand                                                     *)

\* Another build runs: it is asked to go round once more.
AskAgain(g) ==
    /\ runs[g].at = "entered" /\ buildActive
    /\ changeAfterBuild' = TRUE
    /\ runs' = [runs EXCEPT ![g] = Free]
    /\ UNCHANGED <<watchVars, buildActive, unbuilt, timerVars, hotReloadCommands, triggers>>

NothingToBuild(g) ==
    /\ runs[g].at = "entered" /\ ~buildActive /\ hotReloadCommands = <<>>
    /\ runs' = [runs EXCEPT ![g] = Free]
    /\ unbuilt' = FALSE
    /\ UNCHANGED <<watchVars, buildActive, changeAfterBuild, timerVars,
                   hotReloadCommands, triggers>>

BuildStarts(g) ==
    /\ runs[g].at = "entered" /\ ~buildActive /\ hotReloadCommands # <<>>
    /\ buildActive' = TRUE
    /\ unbuilt' = FALSE
    /\ runs' = [runs EXCEPT ![g] = [at |-> "building", session |-> session,
                                    left |-> hotReloadCommands, commands |-> hotReloadCommands]]
    /\ UNCHANGED <<watchVars, changeAfterBuild, timerVars, hotReloadCommands, triggers>>

\* One command, without the lock.  A failed one is reported like a good one.
BuildCommand(g) ==
    /\ runs[g].at = "building" /\ runs[g].left # <<>>
    /\ runs' = [runs EXCEPT ![g].left = Tail(@)]
    /\ UNCHANGED <<watchVars, buildActive, changeAfterBuild, unbuilt, timerVars,
                   hotReloadCommands, triggers>>

\* Mutant: the build ends without looking at changeAfterBuild.
BuildEndsAnyway(g) ==
    /\ runs[g].at = "building" /\ runs[g].left = <<>>
    /\ buildActive' = FALSE
    /\ runs' = [runs EXCEPT ![g] = Free]
    /\ UNCHANGED <<watchVars, changeAfterBuild, unbuilt, timerVars, hotReloadCommands, triggers>>

BuildEnds(g) ==
    /\ runs[g].at = "building" /\ runs[g].left = <<>>
    /\ ~changeAfterBuild
    /\ buildActive' = FALSE
    /\ runs' = [runs EXCEPT ![g] = Free]
    /\ UNCHANGED <<watchVars, changeAfterBuild, unbuilt, timerVars, hotReloadCommands, triggers>>

BuildsAgain(g) ==
    /\ runs[g].at = "building" /\ runs[g].left = <<>>
    /\ changeAfterBuild
    /\ changeAfterBuild' = FALSE
    /\ unbuilt' = FALSE
    /\ runs' = [runs EXCEPT ![g].left = runs[g].commands]
    /\ UNCHANGED <<watchVars, buildActive, timerVars, hotReloadCommands, triggers>>

\* What the service does by itself.
ReloadInternal ==
    \/ FileChange
    \/ \E s \in handling : ScheduleHotReload(s)
    \/ \E g \in Goroutines : \/ \E t \in timers : TimerFires(t, g)
                             \/ TimerCallback(g)
                             \/ AskAgain(g) \/ NothingToBuild(g) \/ BuildStarts(g)
                             \/ BuildCommand(g) \/ BuildEnds(g) \/ BuildsAgain(g)

-----------------------------------------------------------------------------
Sessions == 0 .. MaxSessions

ReloadTypeOK ==
    /\ isWatching \in BOOLEAN /\ buildActive \in BOOLEAN /\ changeAfterBuild \in BOOLEAN
    /\ session \in Sessions /\ watcher \in Sessions /\ sessions \in Sessions
    /\ handling \subseteq Sessions
    /\ timers \subseteq (1 .. MaxChanges) \X Sessions
    /\ changes \in 0 .. MaxChanges /\ hotReloadTimer \in 0 .. MaxChanges
    /\ \A g \in Goroutines : runs[g].at \in {"free", "timer", "entered", "building"}

\* Timers, triggers and new sessions never run two builds at a time, although
\* a build outlives the session that started it, and no change is lost over
\* that: while the session lasts there is a timer, a goroutine on its way or a
\* mark on the active build that makes the commands run once more after it
\* (watch_service.go:349-424).
ChangeBuilt ==
    /\ Cardinality({g \in Goroutines : runs[g].at = "building"}) <= 1
    /\ unbuilt =>
        \/ \E t \in timers : t[2] = session
        \/ \E g \in Goroutines : \/ runs[g].at = "timer" /\ runs[g].session = session
                                 \/ runs[g].at = "entered"
        \/ changeAfterBuild /\ \E g \in Goroutines : runs[g].at = "building"
=============================================================================
