------------------------------ MODULE CheckRuns ------------------------------
(***************************************************************************)
(* The life of one check: CheckScheduler queues a run on every tick, each  *)
(* run (CheckRunner.run) works on the copy of the check that the tick      *)
(* read, and writes alerts and the check's new state to MongoDB and tells  *)
(* the subscribers, one database call or message at a time.  Browser pages *)
(* edit the same document through the API meanwhile.                       *)
(*                                                                         *)
(* Checks share nothing but the pool's threads, so one document is enough. *)
(* A run is named by the order in which it was queued.  The pool starts    *)
(* runs in that order, and the number also stands for the run's "now".     *)
(***************************************************************************)
EXTENDS AlertLevels, FiniteSets

CONSTANTS
    MaxRuns,    \* bound: ticks that queue a run of the check
    Threads,    \* SEYREN_THREADS: size of the scheduler's pool
    Targets,    \* series that the check's target expression expands to
    Settings,   \* the settings a check is created with or edited to
    Subs,       \* subscription ids
    Malformed,  \* subscriptions whose shouldNotify throws (no from/to time)
    Ignores,    \* the levels each subscription does not want to hear of
    Pages,      \* browser pages showing the check
    Faults,     \* which of "exception" and "restart" may happen
    NoDoc       \* what a query for a missing document returns

Runs == 1 .. MaxRuns

SettingsType ==
    [oneTime : BOOLEAN, allowNoData : BOOLEAN, disableSameStateAlerts : BOOLEAN]

ASSUME ConstantsAssumption ==
    /\ MaxRuns \in Nat
    /\ Threads \in Nat \ {0}
    /\ Settings \subseteq SettingsType
    /\ Malformed \subseteq Subs
    /\ Ignores \in [Subs -> SUBSET AlertType]
    /\ Faults \subseteq {"exception", "restart"}

VARIABLES
    doc,        \* the document in the "checks" collection
    alerts,     \* the "alerts" collection, restricted to this check
    deleting,   \* deleteCheck has removed the document, not yet the alerts
    page,       \* each page's copy of the check
    scheduled,  \* number of runs queued so far
    job,        \* each run's progress and local variables
    sent,       \* what the notification services were asked to deliver
    purged      \* history: alerts that a user deleted

vars == <<doc, alerts, deleting, page, scheduled, job, sent, purged>>
store == <<doc, alerts, deleting, purged>>

\* NONE: the target has no usable datapoint, or the series is missing.
Reading == Level \cup {"NONE"}

CheckDoc ==
    [settings : Settings, enabled : BOOLEAN, state : AlertType,
     lastCheck : 0 .. MaxRuns, lastValues : [Targets -> Reading],
     subs : SUBSET Subs]

ASSUME NoDocAssumption == NoDoc \notin CheckDoc

Alert == [run : Runs, target : Targets, from : AlertType, to : AlertType]

Notice ==
    [run : Runs, to : Subs, level : AlertType, shows : AlertType,
     alerts : SUBSET Alert, delivered : BOOLEAN]

Stages == {"unborn", "queued", "fetch", "evaluate", "update", "reread",
           "tell", "done"}
Active == {"fetch", "evaluate", "update", "reread", "tell"}

Job ==
    [stage : Stages, check : CheckDoc \cup {NoDoc},
     values : [Targets -> Reading], todo : SUBSET Targets, worst : AlertType,
     interesting : SUBSET Alert, toTell : SUBSET Subs, shown : AlertType]

NoValues == [t \in Targets |-> "NONE"]

\* A run that holds nothing: not queued yet, or over.
Blank(stage) ==
    [stage |-> stage, check |-> NoDoc, values |-> NoValues, todo |-> {},
     worst |-> "UNKNOWN", interesting |-> {}, toTell |-> {},
     shown |-> "UNKNOWN"]

TypeOK ==
    /\ doc \in CheckDoc \cup {NoDoc}
    /\ alerts \in SUBSET Alert
    /\ deleting \in BOOLEAN
    /\ page \in [Pages -> CheckDoc \cup {NoDoc}]
    /\ scheduled \in 0 .. MaxRuns
    /\ job \in [Runs -> Job]
    /\ sent \in SUBSET Notice
    /\ purged \in SUBSET Alert

\* POST /checks stores a check in state OK unless the request names another,
\* which the user interface never does; subscriptions are added afterwards.
Created(s, subs) ==
    [settings |-> s, enabled |-> TRUE, state |-> "OK", lastCheck |-> 0,
     lastValues |-> NoValues, subs |-> subs]

Init ==
    /\ \E s \in Settings, subs \in SUBSET Subs :
          doc = Created(s, subs)
    /\ alerts = {}
    /\ deleting = FALSE
    /\ page = [p \in Pages |-> NoDoc]
    /\ scheduled = 0
    /\ job = [r \in Runs |-> Blank("unborn")]
    /\ sent = {}
    /\ purged = {}

------------------------------------------------------------------------------
(* The runner's decisions about one value.  c is the check as the run saw it. *)

IsStillOk(last, current) == last = "OK" /\ current = "OK"

StateIsTheSame(last, current) == last = current

\* MUTANT: a value is also skipped when it is no worse than the check's state.
Skips_UnlessWorse(c, current) == ~IsWorseThan(current, c.state)

\* No alert is stored for this value.
Skips(c, current) ==
    \/ IsStillOk(c.state, current)
    \/ /\ ~c.settings.oneTime
       /\ c.settings.disableSameStateAlerts
       /\ StateIsTheSame(c.state, current)
    \/ c.settings.oneTime /\ current = "OK"

\* MUTANT: every stored alert is told.
IsInteresting_Always(c, current) == TRUE

\* MUTANT: recoveries are not told.
IsInteresting_IfWorse(c, current) ==
    c.settings.oneTime \/ IsWorseThan(current, c.state)

\* The stored alert is also worth telling the subscribers about.
IsInteresting(c, current) ==
    c.settings.oneTime \/ ~StateIsTheSame(c.state, current)

\* The level of a check none of whose targets has a value.
NoDataLevel(c) == IF c.settings.allowNoData THEN "OK" ELSE "UNKNOWN"

\* MUTANTS: every check is treated as a normal one, or as a one-time one.
NewState_AlwaysWorst(c, worst) == worst

NewState_NeverBetter(c, worst) ==
    IF IsWorseThan(worst, c.state) THEN worst ELSE c.state

\* Only a normal check, or a one-time check that got worse, changes state.
NewState(c, worst) ==
    IF ~c.settings.oneTime \/ IsWorseThan(worst, c.state)
    THEN worst
    ELSE c.state

------------------------------------------------------------------------------
(* The store. *)

\* MUTANT: the copy's subscriptions are saved with it.
SaveCheck_WithSubscriptions(copy) ==
    doc' = IF doc = NoDoc THEN NoDoc ELSE copy

\* saveCheck: a $set of every field but the subscriptions, without upsert.
SaveCheck(copy) ==
    doc' = IF doc = NoDoc THEN NoDoc ELSE [copy EXCEPT !.subs = doc.subs]

\* MUTANTS: the update is an upsert; the time written is the next run's.
SetState_Upsert(state, lastCheck, lastValues) ==
    doc' = IF doc = NoDoc
           THEN [Created(CHOOSE s \in Settings : TRUE, {}) EXCEPT
                    !.state = state, !.lastCheck = lastCheck,
                    !.lastValues = lastValues]
           ELSE [doc EXCEPT !.state = state, !.lastCheck = lastCheck,
                            !.lastValues = lastValues]

SetState_NextTime(state, lastCheck, lastValues) ==
    doc' = IF doc = NoDoc
           THEN NoDoc
           ELSE [doc EXCEPT !.state = state, !.lastCheck = lastCheck + 1,
                            !.lastValues = lastValues]

\* The update half of updateStateAndLastCheckAndLastValues.
SetStateAndLastCheckAndLastValues(state, lastCheck, lastValues) ==
    doc' = IF doc = NoDoc
           THEN NoDoc
           ELSE [doc EXCEPT !.state = state, !.lastCheck = lastCheck,
                            !.lastValues = lastValues]

\* MUTANT: the check's previous alerts are overwritten.
CreateAlert_Replaces(a) == alerts' = {a}

CreateAlert(a) == alerts' = alerts \cup {a}

\* deleteAlerts without a date: every alert of the check.
DeleteAlerts ==
    /\ alerts' = {}
    /\ purged' = purged \cup alerts

------------------------------------------------------------------------------
(* The scheduler and the runs. *)

\* A tick reads the enabled checks and queues a run for each, whether or not
\* an earlier run of the same check is over.
PerformChecks ==
    /\ doc # NoDoc
    /\ doc.enabled
    /\ scheduled < MaxRuns
    /\ scheduled' = scheduled + 1
    /\ job' = [job EXCEPT ![scheduled + 1] =
                  [Blank("queued") EXCEPT !.check = doc]]
    /\ UNCHANGED <<store, page, sent>>

\* A free thread takes the oldest run.  The early return for a disabled check
\* is never taken: the tick only copied enabled ones.
Begin(r) ==
    /\ job[r].stage = "queued"
    /\ \A q \in Runs : job[q].stage = "queued" => r <= q
    /\ Cardinality({q \in Runs : job[q].stage \in Active}) < Threads
    /\ job' = [job EXCEPT ![r].stage = "fetch"]
    /\ UNCHANGED <<store, page, scheduled, sent>>

\* TargetChecker.check answers.  Graphite's checker reports a failed request
\* as no data; the other checkers throw, which is Fails.
Fetch(r) ==
    /\ job[r].stage = "fetch"
    /\ \E vals \in [Targets -> Reading] :
          LET present == {t \in Targets : vals[t] # "NONE"}
          IN  job' = [job EXCEPT
                 ![r].stage  = IF present = {} THEN "update" ELSE "evaluate",
                 ![r].values = vals,
                 ![r].todo   = present,
                 ![r].worst  = NoDataLevel(job[r].check)]
    /\ UNCHANGED <<store, page, scheduled, sent>>

\* One turn of the loop over the values that are present.
Evaluate(r) ==
    /\ job[r].stage = "evaluate"
    /\ \E t \in job[r].todo :
          LET c       == job[r].check
              current == job[r].values[t]
              alert   == [run |-> r, target |-> t,
                          from |-> c.state, to |-> current]
              rest    == job[r].todo \ {t}
              told    == IF ~Skips(c, current) /\ IsInteresting(c, current)
                         THEN {alert}
                         ELSE {}
          IN  /\ IF Skips(c, current)
                 THEN UNCHANGED alerts
                 ELSE CreateAlert(alert)
              /\ job' = [job EXCEPT
                    ![r].stage = IF rest = {} THEN "update" ELSE "evaluate",
                    ![r].todo  = rest,
                    ![r].worst = WorseOf(current, job[r].worst),
                    ![r].interesting = job[r].interesting \cup told]
    /\ UNCHANGED <<doc, deleting, purged, page, scheduled, sent>>

\* The state is written whether or not it changed.
UpdateState(r) ==
    /\ job[r].stage = "update"
    /\ SetStateAndLastCheckAndLastValues(
          NewState(job[r].check, job[r].worst), r, job[r].values)
    /\ job' = [job EXCEPT ![r].stage = "reread"]
    /\ UNCHANGED <<alerts, deleting, purged, page, scheduled, sent>>

\* The same store method then reads the check back: its subscriptions and the
\* state the messages will show come from this read.  A deleted check reads
\* as null, which ends the run one way or the other.
Reread(r) ==
    /\ job[r].stage = "reread"
    /\ IF doc = NoDoc \/ job[r].interesting = {} \/ doc.subs = {}
       THEN job' = [job EXCEPT ![r] = Blank("done")]
       ELSE job' = [job EXCEPT ![r].stage = "tell", ![r].toTell = doc.subs,
                               ![r].shown = doc.state]
    /\ UNCHANGED <<store, page, scheduled, sent>>

\* MUTANTS: the loop ends after one subscription, or never moves on.
TellRest_StopsAfterFirst(r, s) == job' = [job EXCEPT ![r] = Blank("done")]

TellRest_Repeats(r, s) == UNCHANGED job

\* The run once subscription s is dealt with.
TellRest(r, s) ==
    IF job[r].toTell = {s}
    THEN job' = [job EXCEPT ![r] = Blank("done")]
    ELSE job' = [job EXCEPT ![r].toTell = job[r].toTell \ {s}]

\* One turn of the loop over the subscriptions.  A service that throws is
\* caught inside the loop; a filter that throws ends the run.
Tell(r, s) ==
    /\ job[r].stage = "tell"
    /\ s \in job[r].toTell
    /\ \/ /\ s \in Malformed
          /\ job' = [job EXCEPT ![r] = Blank("done")]
          /\ UNCHANGED sent
       \/ /\ s \notin Malformed
          /\ job[r].worst \in Ignores[s]
          /\ TellRest(r, s)
          /\ UNCHANGED sent
       \/ /\ s \notin Malformed
          /\ job[r].worst \notin Ignores[s]
          /\ \E ok \in BOOLEAN :
                sent' = sent \cup
                   {[run |-> r, to |-> s, level |-> job[r].worst,
                     shows |-> job[r].shown, alerts |-> job[r].interesting,
                     delivered |-> ok]}
          /\ TellRest(r, s)
    /\ UNCHANGED <<store, page, scheduled>>

\* MUTANT: a run that failed starts again with the copy it has.
Fails_Retries(r) ==
    /\ "exception" \in Faults
    /\ job[r].stage \in {"fetch", "evaluate", "update", "reread"}
    /\ job' = [job EXCEPT ![r].stage = "fetch", ![r].interesting = {}]
    /\ UNCHANGED <<store, page, scheduled, sent>>

\* A target checker or the database throws; the runner logs and gives up.
Fails(r) ==
    /\ "exception" \in Faults
    /\ job[r].stage \in {"fetch", "evaluate", "update", "reread"}
    /\ job' = [job EXCEPT ![r] = Blank("done")]
    /\ UNCHANGED <<store, page, scheduled, sent>>

\* The server stops: queued and running work is gone, and so is the second
\* half of a deletion.
Restart ==
    /\ "restart" \in Faults
    /\ \/ deleting
       \/ \E r \in Runs : job[r].stage \in Active \cup {"queued"}
    /\ deleting' = FALSE
    /\ job' = [r \in Runs |->
                  IF job[r].stage = "unborn" THEN job[r] ELSE Blank("done")]
    /\ UNCHANGED <<doc, alerts, purged, page, scheduled, sent>>

------------------------------------------------------------------------------
(* The users. *)

\* A page loads the check, as it also does every thirty seconds.
LoadCheck(p) ==
    /\ doc # NoDoc
    /\ page' = [page EXCEPT ![p] = doc]
    /\ UNCHANGED <<store, scheduled, job, sent>>

\* PUT /checks/id with a copy of the check that started as the page's.
PutCheck(copy) ==
    /\ SaveCheck(copy)
    /\ UNCHANGED <<alerts, deleting, purged, scheduled, job, sent>>

\* The buttons change the page's copy and send it whole.
SwapCheckEnabled(p) ==
    LET copy == [page[p] EXCEPT !.enabled = ~page[p].enabled]
    IN  page[p] # NoDoc /\ page' = [page EXCEPT ![p] = copy] /\ PutCheck(copy)

ResetCheckState(p) ==
    LET copy == [page[p] EXCEPT !.state = "OK"]
    IN  page[p] # NoDoc /\ page' = [page EXCEPT ![p] = copy] /\ PutCheck(copy)

SwapCheckAllowNoData(p) ==
    LET settings == [page[p].settings EXCEPT
                        !.allowNoData = ~page[p].settings.allowNoData]
        copy == [page[p] EXCEPT !.settings = settings]
    IN  /\ page[p] # NoDoc
        /\ settings \in Settings
        /\ page' = [page EXCEPT ![p] = copy]
        /\ PutCheck(copy)

\* The edit dialog works on a copy of the page's copy, which is as old as the
\* copy of a page that has not reloaded since.
UpdateCheck(p) ==
    /\ page[p] # NoDoc
    /\ \E s \in Settings : PutCheck([page[p] EXCEPT !.settings = s])
    /\ UNCHANGED page

\* POST, DELETE on a subscription.  Neither touches the rest of the check.
CreateSubscription(s) ==
    /\ doc # NoDoc
    /\ s \notin doc.subs
    /\ doc' = [doc EXCEPT !.subs = doc.subs \cup {s}]
    /\ UNCHANGED <<alerts, deleting, purged, page, scheduled, job, sent>>

DeleteSubscription(s) ==
    /\ doc # NoDoc
    /\ s \in doc.subs
    /\ doc' = [doc EXCEPT !.subs = doc.subs \ {s}]
    /\ UNCHANGED <<alerts, deleting, purged, page, scheduled, job, sent>>

\* DELETE /checks/id/alerts
DeleteAlertsForCheck ==
    /\ alerts # {}
    /\ DeleteAlerts
    /\ UNCHANGED <<doc, deleting, page, scheduled, job, sent>>

\* DELETE /checks/id is two database calls.
DeleteCheckDocument ==
    /\ doc # NoDoc
    /\ doc' = NoDoc
    /\ deleting' = TRUE
    /\ UNCHANGED <<alerts, purged, page, scheduled, job, sent>>

DeleteCheckAlerts ==
    /\ deleting
    /\ deleting' = FALSE
    /\ DeleteAlerts
    /\ UNCHANGED <<doc, page, scheduled, job, sent>>

UserStep ==
    \/ \E p \in Pages :
          \/ LoadCheck(p)
          \/ SwapCheckEnabled(p)
          \/ ResetCheckState(p)
          \/ SwapCheckAllowNoData(p)
          \/ UpdateCheck(p)
    \/ /\ Pages # {}
       /\ \/ \E s \in Subs : CreateSubscription(s) \/ DeleteSubscription(s)
          \/ DeleteAlertsForCheck
          \/ DeleteCheckDocument
          \/ DeleteCheckAlerts

\* What the thread that has run r does next.
Step(r) ==
    \/ Begin(r)
    \/ Fetch(r)
    \/ Evaluate(r)
    \/ UpdateState(r)
    \/ Reread(r)
    \/ \E s \in Subs : Tell(r, s)

Next ==
    \/ PerformChecks
    \/ \E r \in Runs : Step(r) \/ Fails(r)
    \/ Restart
    \/ UserStep

Spec == Init /\ [][Next]_vars

\* A thread that can take a step takes it.  For Fetch this says that the
\* datasource answers or its timeout expires: the timeouts are configurable
\* and off by default.  Ticks, faults and users owe nothing.
FairSpec == Spec /\ \A r \in Runs : WF_vars(Step(r))

\* The behaviours in which no tick finds a run of the check unfinished, which
\* is what GRAPHITE_REFRESH is meant to leave time for.  Nothing in the code
\* sees to it.
Quiet == \A r \in Runs : job[r].stage \in {"unborn", "done"}

PromptNext == Next /\ (scheduled' # scheduled => Quiet)

PromptSpec == Init /\ [][PromptNext]_vars

------------------------------------------------------------------------------
(* What must never be wrong, however runs, users and failures interleave. *)

\* Every alert that was ever stored.
Recorded == alerts \cup purged

\* A check shows WARN or ERROR only if an alert to that level has been stored:
\* CheckRunner inserts the alerts first and writes the state last, so a crash
\* between the two, a stale copy saved by a page or an overlapping run can
\* repeat an alert but never lose the reason for a state.
StateBackedByAlert ==
    doc # NoDoc /\ doc.state \in Problem =>
        \E a \in Recorded : a.to = doc.state

\* Whatever a subscriber is told of is on record, and the check was not worse
\* for that run than what the subscriber's filter was asked about.
NoticesAreOnRecord ==
    \A n \in sent : \A a \in n.alerts :
        a \in Recorded /\ ~IsWorseThan(a.to, n.level)

RecordedBy(r) == {a \in Recorded : a.run = r}

\* What run r makes of the values of the targets in S, in whatever order it
\* judges them: an alert for each that is not skipped, news of those that are
\* interesting, and the worst of their levels.  j is the run's job and own what
\* it has recorded.
Accounts(r, j, S, own) ==
    LET alert(t) == [run |-> r, target |-> t,
                     from |-> j.check.state, to |-> j.values[t]]
        stored   == {t \in S : ~Skips(j.check, j.values[t])}
        news     == {t \in stored : IsInteresting(j.check, j.values[t])}
        levels   == {NoDataLevel(j.check)} \cup {j.values[t] : t \in S}
    IN  /\ own = {alert(t) : t \in stored}
        /\ j.interesting = {alert(t) : t \in news}
        /\ j.worst \in levels
        /\ \A l \in levels : ~IsWorseThan(l, j.worst)

Present(j) == {t \in Targets : j.values[t] # "NONE"}

\* Once the loop over the values is over, what a run has recorded, what it is
\* going to tell and the level it is going to write are those that its values
\* and its copy of the check call for: no value is lost, judged twice or
\* judged by the outcome of another, whatever other runs and users do.
OutcomeFollowsFromValues ==
    \A r \in Runs :
        job[r].stage \in {"update", "reread", "tell"} =>
            Accounts(r, job[r], Present(job[r]), RecordedBy(r))

\* The messages of one run agree, though users and other runs write between
\* them, and no subscription gets two of them.
OneStoryPerRun ==
    \A n, m \in sent : n.run = m.run =>
        /\ n.level = m.level /\ n.shows = m.shows /\ n.alerts = m.alerts
        /\ n.to = m.to => n = m

StageRank ==
    [unborn |-> 0, queued |-> 1, fetch |-> 2, evaluate |-> 3, update |-> 4,
     reread |-> 5, tell |-> 6, done |-> 7]

NearerToItsEnd(j, k) ==
    \/ StageRank[j.stage] < StageRank[k.stage]
    \/ /\ j.stage = "evaluate" /\ k.stage = "evaluate"
       /\ k.todo \subseteq j.todo /\ k.todo # j.todo
    \/ /\ j.stage = "tell" /\ k.stage = "tell"
       /\ k.toTell \subseteq j.toTell /\ k.toTell # j.toTell

\* A run only gets nearer to its end, so it takes a bounded number of steps:
\* nothing that fails is tried again, no value and no subscription has a
\* second turn, and no tick or restart revives a run that is over.
RunsOnlyGoForward ==
    [][\A r \in Runs :
          job'[r] # job[r] => NearerToItsEnd(job[r], job'[r])]_vars

\* Runs and edits never touch the subscriptions, and a subscription change
\* touches nothing else of the check: saveCheck leaves the field out of its
\* $set, so a stale page cannot bring back or lose a subscription.
SubscriptionsAreWrittenApart ==
    [][doc # NoDoc /\ doc' # NoDoc /\ doc'.subs # doc.subs =>
          doc' = [doc EXCEPT !.subs = doc'.subs]]_vars

\* A run in flight or a page that still shows a deleted check does not bring
\* it back: neither update is an upsert.
DeletedStaysDeleted == [][doc = NoDoc => doc' = NoDoc]_vars

------------------------------------------------------------------------------
(* What holds while every run ends before the next tick and no page writes. *)

\* An alert tells of a change from the state that the check is in when the
\* alert is stored, never from one it has left already.
AlertsStartFromCurrentState ==
    [][\A a \in alerts' \ alerts : doc # NoDoc => a.from = doc.state]_vars

\* The state shown in a message is the level the filters were asked about.
NoticeShowsItsLevel ==
    doc # NoDoc /\ ~doc.settings.oneTime => \A n \in sent : n.shows = n.level

\* The state of a one-time check only gets worse.
OneTimeRatchet ==
    [][doc # NoDoc /\ doc' # NoDoc /\ doc.settings.oneTime =>
          ~IsWorseThan(doc.state, doc'.state)]_vars

\* "For normal checks notify only if the alert has changed state": the level
\* of a target that subscribers will be told about is not the one its last
\* value had.  True of a check with one target only.
ToldOnlyOfChanges ==
    \A r \in Runs :
        job[r].stage = "update" /\ ~job[r].check.settings.oneTime =>
            \A a \in job[r].interesting : doc.lastValues[a.target] # a.to

\* Between runs, the last message to each subscription is about the level that
\* the check is at, unless its filter drops that level: several targets moving
\* at once, data that stops and comes back, and a change to a level that is
\* filtered out and away from it again never leave a subscriber with old news.
\* Not so when allowNoData is set: a check that was in ERROR and has no data
\* is OK without an alert.
SubscribersAreUpToDate ==
    Quiet /\ doc # NoDoc /\ doc.state # "UNKNOWN" =>
        \A s \in doc.subs : doc.state \notin Ignores[s] =>
            LET told == {n \in sent : n.to = s}
            IN  IF told = {}
                THEN doc.state = "OK"
                ELSE \E n \in told : /\ n.level = doc.state
                                    /\ \A m \in told : m.run <= n.run

\* "Don't change the check state": a run of a one-time check whose values are
\* no worse than the state it saw leaves the stored state alone.
OneTimeKeepsState ==
    [][\A r \in Runs :
          /\ job[r].stage = "update" /\ job'[r].stage = "reread"
          /\ job[r].check.settings.oneTime
          /\ ~IsWorseThan(job[r].worst, job[r].check.state)
          => doc'.state = doc.state]_vars

------------------------------------------------------------------------------
(* What must happen in the end. *)

\* A queued run ends: it is done, whatever its values, the services and the
\* users do meanwhile.
EveryRunEnds ==
    \A r \in Runs : job[r].stage = "queued" ~> job[r].stage = "done"

\* If a run has news once all its values are judged, every subscription of the
\* check whose filter lets the level pass is tried, even when the delivery to
\* another one throws; but a filter that throws ends the run.
EverySubscriptionIsTried ==
    \A r \in Runs, s \in Subs :
        /\ job[r].stage = "update"
        /\ job[r].interesting # {}
        /\ doc # NoDoc /\ s \in doc.subs /\ doc.subs \cap Malformed = {}
        /\ job[r].worst \notin Ignores[s]
        ~> \E n \in sent : n.run = r /\ n.to = s
==============================================================================
