--------------------------- MODULE SubscriptionHours ---------------------------
(***************************************************************************)
(* Who hears of a change of level, and when: the series of ValueDrift, a   *)
(* clock, runs of the check, and a subscription with its days, its hours   *)
(* and the levels it ignores (Subscription.shouldNotify).                  *)
(*                                                                         *)
(* The check has one target and its runs do not overlap (CheckRuns has     *)
(* both).  A run asks the filter about the time at which it began.         *)
(***************************************************************************)
EXTENDS ValueDrift

CONSTANTS
    Week,           \* bound: days of a week (7)
    Minutes,        \* bound: minutes of a day (1440)
    Seconds,        \* bound: seconds of a minute (60)
    Subscriptions,  \* what users choose for the subscription
    NoRun           \* no run is under way

Times == [day : 1 .. Week, minute : 0 .. Minutes - 1, second : 0 .. Seconds - 1]

SubscriptionType ==
    [enabled : BOOLEAN, days : SUBSET (1 .. Week), from : 0 .. Minutes - 1,
     to : 0 .. Minutes - 1, ignores : SUBSET Level]

Run == [at : Times, level : Level]

ASSUME HoursAssumption ==
    /\ Week \in Nat \ {0} /\ Minutes \in Nat \ {0} /\ Seconds \in Nat \ {0}
    /\ Subscriptions \subseteq SubscriptionType
    /\ NoRun \notin Run

VARIABLES
    now,      \* the clock
    sub,      \* the subscription as stored
    state,    \* the check's state as stored
    run,      \* the run under way: when it began and the level it found
    heard,    \* the level of the last message
    excused   \* history: the subscriber could expect to miss the last change

hours == <<now, sub, state, run, heard, excused>>
hoursVars == <<vars, hours>>

HoursInit ==
    /\ Init
    /\ now = [day |-> 1, minute |-> 0, second |-> 0]
    /\ sub \in Subscriptions
    /\ state = "OK"
    /\ run = NoRun
    /\ heard = "OK"
    /\ excused = FALSE

------------------------------------------------------------------------------

\* MUTANT: days are counted from Sunday.
IsCorrectDayOfWeek_FromSunday(s, t) == (t.day % Week) + 1 \in s.days

IsCorrectDayOfWeek(s, t) == t.day \in s.days

\* MUTANT: one of the two comparisons is enough.
IsCorrectHourOfDay_Either(s, t) == t.minute > s.from \/ t.minute < s.to

\* Seconds are cut off, and both ends are exclusive.
IsCorrectHourOfDay(s, t) == t.minute > s.from /\ t.minute < s.to

ShouldNotify(s, t, level) ==
    /\ s.enabled
    /\ IsCorrectDayOfWeek(s, t) /\ IsCorrectHourOfDay(s, t)
    /\ level \notin s.ignores

\* From the beginning of the minute from to the beginning of the minute to.
WithinHours(s, t) ==
    /\ t.day \in s.days
    /\ s.from <= t.minute
    /\ t.minute < s.to \/ (t.minute = s.to /\ t.second = 0)

AtTheEdge(s, t) == t.minute \in {s.from, s.to}

\* Reasons to miss a change that a subscriber knows of, and the two minutes.
Excused(s, t, level) ==
    \/ ~s.enabled \/ level \in s.ignores
    \/ ~WithinHours(s, t)
    \/ AtTheEdge(s, t)

------------------------------------------------------------------------------

NextDay(d) == IF d = Week THEN 1 ELSE d + 1

After(t) ==
    IF t.second + 1 < Seconds
    THEN [t EXCEPT !.second = t.second + 1]
    ELSE IF t.minute + 1 < Minutes
         THEN [day |-> t.day, minute |-> t.minute + 1, second |-> 0]
         ELSE [day |-> NextDay(t.day), minute |-> 0, second |-> 0]

\* Bound: a run takes one tick of the clock at most.
Tick ==
    /\ run # NoRun => run.at = now
    /\ now' = After(now)
    /\ UNCHANGED <<vars, sub, state, run, heard, excused>>

SeriesMoves ==
    /\ Next
    /\ UNCHANGED hours

\* updateSubscription sets the whole element.
EditSubscription ==
    /\ sub' \in Subscriptions
    /\ UNCHANGED <<vars, now, state, run, heard, excused>>

\* The run takes the time, then fetches and judges the value.
Begin ==
    /\ run = NoRun
    /\ run' = [at |-> now, level |-> CheckValue(value, warn, error)]
    /\ UNCHANGED <<vars, now, sub, state, heard, excused>>

\* The run writes the state and, if it changed, tells the subscription as it
\* reads it then.  Nobody is told later what was not told now.
Tell ==
    /\ run # NoRun
    /\ state' = run.level
    /\ run' = NoRun
    /\ \/ /\ run.level = state
          /\ UNCHANGED <<heard, excused>>
       \/ /\ run.level # state
          /\ heard' = IF ShouldNotify(sub, run.at, run.level)
                      THEN run.level
                      ELSE heard
          /\ excused' = Excused(sub, run.at, run.level)
    /\ UNCHANGED <<vars, now, sub>>

HoursNext == Tick \/ SeriesMoves \/ EditSubscription \/ Begin \/ Tell

HoursSpec == HoursInit /\ [][HoursNext]_hoursVars

------------------------------------------------------------------------------

\* A subscriber has old news only if the last change came while the
\* subscription was switched off, ignored the level or was out of its hours, or
\* in one of the two minutes that begin with its ends.  So the hours that the
\* dialog proposes, 0000 to 2359, miss the first and the last minute of the
\* day, and nothing else.
MissedOnlyAtTheEdges == heard # state => excused

\* No message comes of a run that began outside the days and hours chosen.
\* Hours that span midnight, with from after to, are never within.
ToldOnlyWithinHours ==
    [][heard' # heard => WithinHours(sub, run.at) /\ sub.from < sub.to]_hoursVars
==============================================================================
