-------------------------------- MODULE Clock --------------------------------
(***************************************************************************)
(* The clock (darkos-clock.py): alarms, a timer and a stopwatch over one   *)
(* tick a second.  Ticks may be late; alarms compare the time of day, and  *)
(* timer and stopwatch subtract times.                                     *)
(*                                                                         *)
(* The unit is a minute for alarms, of which a day has few; it is as long  *)
(* as one likes for timer and stopwatch.                                   *)
(***************************************************************************)
EXTENDS Naturals, Sequences, SequencesExt

CONSTANTS
    Day,        \* minutes of a day
    MaxTime,    \* bound
    MaxAlarms,  \* bound
    Spans       \* what the timer may be set to

ASSUME ClockConstants ==
    Day \in Nat \ {0} /\ MaxTime \in Nat \ {0} /\ MaxAlarms \in Nat /\ Spans \subseteq Nat \ {0}

VARIABLES
    clockTab,             \* the tab that is used
    time,
    ticked,               \* whether a tick has come since the time or an alarm changed
    alarms,               \* [minute, enabled] each
    fired,                \* _fired_today
    rings,                \* notifications of alarms in each minute
    remaining, deadline,  \* of the timer; no deadline is 0
    elapsed, startedAt,   \* of the stopwatch; not running is 0
    finished,             \* whether "Timer finished" was the last of the timer's news
    goal, ran             \* history: what the timer was set to, and time it or the stopwatch ran

clockVars == <<clockTab, time, ticked, alarms, fired, rings, remaining, deadline, elapsed, startedAt,
               finished, goal, ran>>
alarmVars == <<alarms, fired, rings>>
timerVars == <<remaining, deadline, finished, goal>>
watchVars == <<elapsed, startedAt>>

Minutes == 0..(Day - 1)
Times == 1..MaxTime

ClockTypeOK ==
    /\ clockTab \in {"alarms", "timer", "stopwatch"} /\ time \in Times /\ ticked \in {"no", "yes"}
    /\ alarms \in Seq([minute : Minutes, enabled : BOOLEAN]) /\ Len(alarms) <= MaxAlarms
    /\ fired \subseteq Times /\ rings \in [Times -> Nat]
    /\ remaining \in Nat /\ deadline \in Nat /\ elapsed \in Nat /\ startedAt \in 0..MaxTime
    /\ finished \in {"no", "yes"} /\ goal \in {0} \cup Spans /\ ran \in Nat

ClockInit ==
    /\ clockTab \in {"alarms", "timer", "stopwatch"} /\ time = 1 /\ ticked = "yes"
    /\ alarms = <<>> /\ fired = {} /\ rings = [t \in Times |-> 0]
    /\ remaining = 0 /\ deadline = 0 /\ finished = "no" /\ goal = 0
    /\ elapsed = 0 /\ startedAt = 0 /\ ran = 0

Running == deadline # 0 \/ startedAt # 0

\* No minute passes without a tick.
TimePasses ==
    /\ time < MaxTime /\ time' = time + 1
    /\ clockTab = "alarms" => ticked = "yes"
    /\ ticked' = "no" /\ ran' = IF Running THEN ran + 1 ELSE ran
    /\ UNCHANGED <<clockTab, alarmVars, timerVars, watchVars>>

-----------------------------------------------------------------------------
(* Alarms.                                                                 *)

AddAlarm(m) ==
    /\ clockTab = "alarms" /\ Len(alarms) < MaxAlarms
    /\ alarms' = Append(alarms, [minute |-> m, enabled |-> TRUE]) /\ ticked' = "no"
    /\ UNCHANGED <<clockTab, time, fired, rings, timerVars, watchVars, ran>>

\* Switches and buttons carry an index into a list that every removal rebuilds.
ToggleAlarm(n) ==
    /\ alarms' = [alarms EXCEPT ![n].enabled = ~@] /\ ticked' = "no"
    /\ UNCHANGED <<clockTab, time, fired, rings, timerVars, watchVars, ran>>

RemoveAlarm(n) ==
    /\ alarms' = RemoveAt(alarms, n) /\ ticked' = "no"
    /\ UNCHANGED <<clockTab, time, fired, rings, timerVars, watchVars, ran>>

DueAt(t) == {n \in DOMAIN alarms : alarms[n].enabled /\ alarms[n].minute = t % Day}

FireId == time

\* The alarms of this minute share a fire_id: the first of them rings.
Rings ==
    IF DueAt(time) # {} /\ FireId \notin fired
    THEN fired' = fired \cup {FireId} /\ rings' = [rings EXCEPT ![time] = @ + 1]
    ELSE UNCHANGED <<fired, rings>>

-----------------------------------------------------------------------------
(* Timer and stopwatch.                                                    *)

\* _timer_toggle.
TimerStarts(span) ==
    /\ clockTab = "timer" /\ deadline = 0
    /\ remaining' = IF remaining = 0 THEN span ELSE remaining
    /\ IF remaining = 0 THEN goal' = span /\ ran' = 0 ELSE UNCHANGED <<goal, ran>>
    /\ remaining' > 0 /\ deadline' = time + remaining' /\ finished' = "no"
    /\ UNCHANGED <<clockTab, time, ticked, alarmVars, watchVars>>

\* Seeded bug: a pause keeps what was left at the last start.
LeftAtStart == remaining

Left == IF deadline > time THEN deadline - time ELSE 0

TimerPauses ==
    /\ deadline # 0
    /\ remaining' = Left /\ deadline' = 0
    /\ UNCHANGED <<clockTab, time, ticked, alarmVars, watchVars, finished, goal, ran>>

TimerResets ==
    /\ clockTab = "timer" /\ remaining' = 0 /\ deadline' = 0 /\ goal' = 0 /\ ran' = 0 /\ finished' = "no"
    /\ UNCHANGED <<clockTab, time, ticked, alarmVars, watchVars>>

TimerTicks ==
    IF deadline = 0 THEN UNCHANGED timerVars
    ELSE /\ remaining' = Left
         /\ IF Left = 0 THEN deadline' = 0 /\ finished' = "yes" ELSE UNCHANGED <<deadline, finished>>
         /\ UNCHANGED goal

\* _sw_toggle and _sw_reset; a lap is shown and forgotten.
StopwatchToggles ==
    /\ clockTab = "stopwatch"
    /\ IF startedAt = 0 THEN startedAt' = time - elapsed /\ UNCHANGED elapsed
                        ELSE startedAt' = 0 /\ elapsed' = time - startedAt
    /\ UNCHANGED <<clockTab, time, ticked, alarmVars, timerVars, ran>>

StopwatchResets ==
    /\ clockTab = "stopwatch" /\ startedAt' = 0 /\ elapsed' = 0 /\ ran' = 0
    /\ UNCHANGED <<clockTab, time, ticked, alarmVars, timerVars>>

\* _tick.
ClockTicks ==
    /\ ticked' = "yes" /\ Rings /\ TimerTicks
    /\ UNCHANGED <<clockTab, time, alarms, watchVars, ran>>

ClockNext ==
    \/ TimePasses \/ ClockTicks \/ TimerPauses \/ TimerResets \/ StopwatchToggles \/ StopwatchResets
    \/ \E m \in Minutes : AddAlarm(m)
    \/ \E n \in DOMAIN alarms : ToggleAlarm(n) \/ RemoveAlarm(n)
    \/ \E span \in Spans : TimerStarts(span)

ClockSpec == ClockInit /\ [][ClockNext]_clockVars

-----------------------------------------------------------------------------
\* Once the tick has come, a minute has rung once if an alarm is set for it,
\* on every day anew, and no minute ever rings twice: not for a second alarm
\* of the same minute either, which is marked with the first one.
AlarmsRingOnce ==
    /\ \A t \in Times : rings[t] <= 1
    /\ ticked = "yes" /\ DueAt(time) # {} => rings[time] = 1

\* However late ticks are and however often it is paused, the timer counts what
\* it was set to less the time it ran, says that it has finished only after
\* that, and the stopwatch shows the time it ran.
TimeIsKept ==
    /\ clockTab = "timer" /\ goal # 0 =>
         /\ (IF deadline = 0 THEN remaining ELSE Left) = IF goal > ran THEN goal - ran ELSE 0
         /\ finished = "yes" => ran >= goal
    /\ clockTab = "stopwatch" => (IF startedAt = 0 THEN elapsed ELSE time - startedAt) = ran
=============================================================================
