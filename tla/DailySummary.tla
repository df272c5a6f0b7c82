---------------------------- MODULE DailySummary ----------------------------
(***************************************************************************)
(* The task that posts a summary to the logging channel once a day         *)
(* (_daily_summary_loop in notifier/runner.py).  Time is a number of hours *)
(* since some midnight UTC; the task computes its next target from the     *)
(* calendar and sleeps until then.                                         *)
(***************************************************************************)
EXTENDS Naturals

CONSTANTS        \* natural numbers, and a set of them
    Hours,       \* hours of a day, at least 1
    When,        \* the hour daily_summary_utc names
    Days,        \* bound on the days
    MonthEnds,   \* days that are the last of their month
    MaxStarts    \* bound on the starts of the notifier

VARIABLES
    now,      \* hours since midnight of day 0
    task,     \* "none" without a process, "dead" after an exception
    target,   \* what a sleeping task waits for
    since,    \* when the process started
    starts,   \* starts so far
    tried     \* days whose summary was posted, or given up by the loop's own except

vars == <<now, task, target, since, starts, tried>>

Day(t) == t \div Hours
Due(day) == day * Hours + When

Init ==
    /\ now = 0 /\ task = "none" /\ target = 0
    /\ since = 0 /\ starts = 0 /\ tried = {}

\* Time passes while nothing is due: the task runs promptly, a sleep does not
\* outlast its delay.
Tick ==
    /\ task # "scheduling" /\ ~(task = "sleeping" /\ target <= now)
    /\ now < Days * Hours
    /\ now' = now + 1
    /\ UNCHANGED <<task, target, since, starts, tried>>

\* main creates the task, in a new process if there was one.
Start ==
    /\ starts < MaxStarts
    /\ starts' = starts + 1
    /\ task' = "scheduling" /\ since' = now
    /\ UNCHANGED <<now, target, tried>>

\* The process ends; a sleeping task is cancelled.
Stop ==
    /\ task # "none" /\ task' = "none"
    /\ UNCHANGED <<now, target, since, starts, tried>>

\* Today's time, or if that is past the same time of the day target.day + 1.
Schedule ==
    /\ task = "scheduling"
    /\ \/ Due(Day(now)) > now /\ target' = Due(Day(now))
       \/ Due(Day(now)) <= now /\ Day(now) \notin MonthEnds /\ target' = Due(Day(now) + 1)
    /\ task' = "sleeping"
    /\ UNCHANGED <<now, since, starts, tried>>

\* No month has such a day: replace raises, outside of any try.
ScheduleRaises ==
    /\ task = "scheduling" /\ Due(Day(now)) <= now /\ Day(now) \in MonthEnds
    /\ task' = "dead"
    /\ UNCHANGED <<now, target, since, starts, tried>>

\* The sleep is over: count the streams, build the summary, enqueue it.  If one of
\* these raises, this day has no summary and the loop goes on.
Post ==
    /\ task = "sleeping" /\ target <= now
    /\ tried' = tried \cup {Day(target)}
    /\ task' = "scheduling"
    /\ UNCHANGED <<now, target, since, starts>>

Next == Tick \/ Start \/ Stop \/ Schedule \/ ScheduleRaises \/ Post

Spec == Init /\ [][Next]_vars

\* What the settings and the test of _parse_hh_mm take for granted: a notifier that
\* runs when the time of a day comes does not skip that day.
NoDaySkipped ==
    \A day \in 0 .. Days :
        task # "none" /\ since < Due(day) /\ Due(day) < now => day \in tried
=============================================================================
