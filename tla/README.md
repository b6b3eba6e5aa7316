# Seyren in TLA+

Seyren is an alerting dashboard for Graphite, InfluxDB and Elasticsearch. It
keeps *checks* (a target expression, a warn and an error threshold, some
settings) in MongoDB, evaluates every enabled check once per
`GRAPHITE_REFRESH` or whenever metrics are pushed to it, records an *alert* for
every value that is worth one and notifies the check's *subscriptions* by mail,
chat or pager. Browser pages show and edit the same documents through a REST
API.

This directory specifies that logic in TLA+, checks it with TLC on small
instances and proves the main results with TLAPS for all instances.
Short paths below are relative to `src/seyren-core/src/main/java/com/seyren/core/`
unless they start with `mongo/`, `api/` or `js/`.

    tlc  -config CheckRunsOverlap.cfg MCCheckRuns.tla     # any run of PROJECT.json
    tlapm CheckRunsProofs.tla                             # any *Proofs module

## 1. Inventory

### Components, their state and their operations

| Component | Code | State | Operations |
|---|---|---|---|
| Check scheduler | `service/schedule/CheckScheduler`, `CheckRunnerFactory` | a thread pool of `SEYREN_THREADS` threads and its unbounded queue | a tick reads the enabled checks and queues a run of each; stop |
| Check runner | `service/schedule/CheckRunner` | the copy of the check it was given, the values, the worst level, the alerts worth telling | fetch, judge each value, store alerts, write the state, re-read the check, filter and tell each subscription |
| Value checker, alert levels | `service/checker/DefaultValueChecker`, `domain/AlertType` | none | value and thresholds to level; order of levels |
| Store | `mongo/MongoStore`, `mongo/MongoMapper` | collections `checks` (with embedded subscriptions) and `alerts` | create, save, update state, delete checks; create, page, delete alerts; push, pull, set subscriptions; migrations at start |
| REST beans | `api/bean/*` | none | one store call each, some after a test for existence |
| Web pages | `js/*` | each page's copy of what it shows, reloaded every 30 s | buttons and dialogs that change the copy and send it back whole |
| Live metrics | `service/live/**` | connections, a queue of handlers, a bounded thread pool | accept, read pickled batches, run the checks a batch has values for, stop |
| Target checkers, templates | `service/checker/**` | none | query a data source, take the latest usable value of each target; the time window of a query |
| Datasource clients | `util/graphite`, `util/influxdb`, `util/elasticsearch` | HTTP connections | request, parse |
| Notification services | `service/notification/*` | none; incidents at PagerDuty and OpsGenie | each sends, or throws; exactly one handles each subscription type |
| Configuration, templates, charts, pages' shell | `util/config`, `util/velocity`, `api/bean/ChartsBean` … | read-only | — |

### How they interact

A tick of the scheduler and a thread of the pool share nothing but the *copy* of
the check that the tick read: the run decides by the copy's state and settings,
and writes to the document, whatever has become of it. The document is also
written by other runs of the same check (nothing keeps two apart), by pages
(`saveCheck`, which writes all fields but the subscriptions from the page's
copy), by subscription changes (`$push`, `$pull` on one field) and by deletion.
Alerts are inserted one by one *before* the state is written; the check is
read back *after* it, and subscriptions and the level in messages come from that
second read. The live path uses the same runner, but its own threads: handlers
read connections and queue batches into a bounded pool, whose threads run the
checks one after the other.

### What is hard

* Runs of one check overlap or wait for each other, each with an old copy.
* A failure or a stop can fall between any two database calls, and between two
  messages; nothing is retried and no message is kept.
* Pages save old copies; two writes of a deletion; a re-read that finds nothing.
* Two filters look at two levels: subscriptions are asked about the run's
  worst level, messages show the stored one.
* The live pool starts a thread for the newest task when its queue is full, and
  rejects when it has all its threads; tasks may kill threads, and the server may
  stop with tasks queued.
* One-time checks must report each event once, out of windows computed from
  `lastCheck`.
* A page has several requests under way; answers overtake each other, come after
  the user has left and come back, or fail after the page's copy was changed.
* Alerts are addressed by their position from the newest while new ones come.

`PROJECT.json` lists every hazard with its line and the properties about it.

### What makes each component correct

* Runner and store: a state in trouble has its alert on record, a message tells
  of what is recorded and shows the level it is about, subscribers end up with
  the current level, nothing deleted comes back, a run always ends, and a failed
  delivery keeps nobody else from being told. A run's result follows from the values
  it read, and all it sends tells one story.
* Value checker: worse values never get better levels, in either direction.
* Live metrics: no hole in a relay's stream, what is taken on is run exactly once,
  also across a shutdown, and every connection is served some time.
* Windows: from the first one on no instant is passed over, and none is asked about
  twice. A shorter offset or a second first window may do the former, a longer
  offset, overlap or an old time saved back the latter.
* Subscription hours: what a subscriber misses, it was out of its hours for, and
  nothing comes out of its hours.
* Pages: what is typed and not saved is not stored, what was deleted does not come
  back, a button does not go on looking disabled without a reason, the page comes
  to show what is stored; walking pages of alerts while runs insert skips none.

## 2. Modules

| Module | Models | State |
|---|---|---|
| `AlertLevels` | `AlertType`, `DefaultValueChecker` | none: operators |
| `ValueDrift` | the value rule under a drifting series and edited thresholds | value, thresholds |
| `SubscriptionHours` | a subscription's days, hours and filter, on top of `ValueDrift` | clock, subscription, check's state, the run under way, the last message |
| `CheckRuns` | scheduler, runner, store, REST and page of one check | see below |
| `Announcements` | what a check promises its subscribers (abstract) | level, whom it is still to be told, what each heard last |
| `CheckRunsAnnounce` | the refinement mapping from `CheckRuns` to `Announcements` | — |
| `OneTimeWindows` | the time windows of a one-time check | clock, `lastCheck`, the offset, copies of both, instants asked about |
| `LiveMetrics` | listener, handlers and pool of the live path | connections, queues, threads, tasks |
| `LiveBatches` | what the live path promises (abstract) | batches taken, to be run and run |
| `CheckPage` | one browser tab on the page of a check, its dialogs and requests, and the server's part of them | see below |
| `AlertPages` | the alerts of a check by offset | stored alerts, the page's index, what is shown, requests |
| `MCCheckRuns`, `MCSubscriptionHours` | small instances for TLC | — |
| `CheckRunsProofs`, `CheckRunsNewsProofs`, `CheckRunsPromptProofs`, `OneTimeWindowsProofs`, `SubscriptionHoursProofs`, `LiveMetricsProofs`, `CheckPageProofs`, `AlertPagesProofs` | theorems and proofs | — |

### CheckRuns

One check, its alerts and its subscriptions. Checks share only threads, so one
document is enough; creating further checks concerns other documents, and a
deleted one cannot return under its id.

| Variable | In the code |
|---|---|
| `doc` | the document in `checks`, or `NoDoc` |
| `alerts`, `purged` | the documents in `alerts` for this check; those that were deleted (history) |
| `deleting` | `deleteCheck` is between its two calls |
| `page[p]` | `$scope.check` of a browser page |
| `scheduled` | how many runs were queued: `now` of a run is its number |
| `job[r]` | the local variables of `CheckRunner.run`, and where it is |
| `sent` | calls of `sendNotification`, with what they were given and whether they threw |

`PerformChecks` is a tick. `Begin`, `Fetch`, `Evaluate` (once per value),
`UpdateState`, `Reread` and `Tell` (once per subscription) are the steps of a
run: each makes at most one database call or sends one message, so other actors
come in between wherever they can. `Fails` is the `catch` around `run`,
`Restart` the end of the process. `LoadCheck` to `DeleteCheckAlerts` are the
users. `Skips`, `IsInteresting`, `NewState` are the conditions of the loop, in
the code's order.

Abstractions. A value is its level, for the runner uses it for nothing else
(`AlertLevels` says how it is computed). A subscription's filter is the set of
levels it ignores, or `Malformed` when `shouldNotify` throws for want of times;
its days and hours are in `SubscriptionHours`, `updateSubscription` is in
`CheckPage`. The
subscriptions of a run are told in any order. The early return for a disabled
check cannot be taken, since the tick only copies enabled ones. The `live` flag
selects who queues the run and is left out. A delivery may fail, whatever the
service. The page's edit dialog works on a copy of the page's copy; both are as
old as the last reload. Requests are one step here; `CheckPage` has their parts.

### Announcements

Members, a level, and for every change of level an audience that is told one by
one before the next assessment. The runner needs several database calls for one
assessment; `CheckRunsAnnounce` maps `doc.state` to the level, the subscriptions
that a run has still to tell to the audience, and each subscription's last
message to what it heard. The mapping is where the order of `UpdateState`,
`Reread` and `Tell` matters: the level changes at the first, and the audience is
fixed by conditions evaluated before it.

Two things are in its small print. `DataStops`: a check with `allowNoData` falls to
OK without a word when it finds no data. `GiveUp`, which only `UnreliableNext`
allows: a failure or a stop leaves whoever has not been told yet untold.
`ImplementsAnnouncements` says that undisturbed runs need no `GiveUp` and tell
everyone in the end; `FaultsLoseOnlyPending` that runs with exceptions, a filter that
throws and stops do nothing worse than `GiveUp`: they announce no wrong level, tell
nobody twice in one run, and the next change is announced as ever.

### OneTimeWindows

The runs of `CheckRuns` reduced to `lastCheck`, with a clock. The window of a run
is `lastCheck + until` to `now + until`, or reaches back by `from` the first
time. Instants are integers and a window is `start+1 .. end`: InfluxDB excludes
the start, Elasticsearch the end, and either way adjacent windows share nothing.
A run's window counts when the run has written its result; a run that fails
before that may have stored alerts already, which `CheckRuns` shows. A save may change
`until` (`lag`), also while a run with the old one is under way. A shorter
offset leaves a gap and a longer one asks twice: that is what the code does, and the
properties say that a shorter one only does the former and a longer one only the
latter. The first window's reach, `from`, is a constant.

`since` is where the first window that was written started; it is set once. A run whose
copy has no `lastCheck` asks for a first window again, which leaves out whatever
lies between the last window and its own start. That takes two runs that
are both queued before any has written, or a page that was loaded before the
first run and saves its null over a time (`saveCheck` writes all fields). Both
are in the model and set `restarted`, which `NothingSkipped` names as an exception
beside `shortened`. Without any one of the three TLC finds a hole, so each is needed; an
old time saved back, overlap later on and runs that fail or write late leave none.

### LiveMetrics

A batch is known by its connection and place. `Accept`, `StartHandler`,
`Handle`, `DecodeFails`, `EndOfStream` follow `CarbonPickleListener` and
`PickleHandler`; `Execute`, `Rejects`, `Take`, `Replace`, `Retire` are the
contract of `ThreadPoolExecutor` as `PickleHandlerFactory` configures it (core
size, maximum, bounded queue, default rejection), and `Write` and `HangUp` are the
relays: both are outside the repository and marked external. What a
batch does to a check is a run of `CheckRuns`; which of several datapoints of one
name survives in a batch is left out.

`LiveBatches` is what remains without connections, queue and threads: a stream's
batches are taken in order, one that is not taken on ends the stream, one that is
runs once. A task that throws has run: the code does not try again. The mapping
takes what is queued or running as yet to be run; it is where a thread that dies, a
replaced one and a shutdown could leave a batch out or repeat it.

### SubscriptionHours

`ShouldNotify` is `Subscription.shouldNotify` with its two private helpers: the
run's time is cut down to the minute and both ends are exclusive. `Begin` takes
the time and the level, `Tell` writes the state and asks the filter, as
`CheckRunner.run` does, for a check with one target and runs that do not overlap;
the clock ticks, the series moves and users edit the subscription in between.
`WithinHours` is not code: it is what a user means by hours from one time to
another, with seconds. `MissedOnlyAtTheEdges` says by how much the two differ: a
subscriber that is switched on and within its hours misses a change only in the
minutes of its two ends. With the dialog's proposal, 0000 to 2359 on all days,
that is two minutes a day. `ToldOnlyWithinHours` says that hours across midnight
are accepted and never hear anything. The clock is that of the server; time
zones and changes of daylight saving time are left out.

### CheckPage

| Variable | In the code |
|---|---|
| `doc` | the document in `checks`, with one subscription that comes and goes |
| `here`, `visit` | the tab shows the page; for how many times it has been opened |
| `shown` | `$scope.check` |
| `dialog`, `draft` | which dialog is open; `$scope.check` or `$scope.subscription` of its controller |
| `disabled` | buttons with the class `disabled` |
| `conn` | the requests under way: sent, answered, or failed |
| `saved`, `broken` | history: settings that were saved; visits in which a save from a dialog failed |

A click changes the page's copy and sends a request (`SwapField`,
`ResetCheckState`, `SwapSubscriptionEnabled`), or sends what is in a dialog
(`SaveDialog`), or asks for a deletion or a test. `Serve` is the REST call with its
store call, in any order among the requests under way, `Lose` a request or an
answer that does not get through, `Succeeds` and `Errs` the two callbacks. Runs and
other tabs are `Elsewhere`. A callback keeps the scope of its visit, but finds
buttons and dialogs by id, and `$rootScope` reaches whatever page is open:
`Reloads`, `ReloadFor` and `Closes` say which of the two each callback does.
`Broadcasts` and `Listens` are the names of the events as the files have them:
the one for a swapped subscription is said and listened to under different
names, so only polling brings that page up to date. Saving from a dialog that
fails leaves the button disabled until the page is opened again
(`EnabledAgain`); a toggle that fails stays in the page's copy until the next
load. The class `disabled` keeps the mouse off a button and not the keyboard, and no
handler looks at it, so it guards nothing here either: `SaveDialog` and `DeleteCheck` may
send again while a request is under way, and the first answer takes the class away. The page of a check that is deleted keeps showing its last copy, since
the load fails.

Abstractions. The dialog's fields are one value, `Settings`, and the fields with
a checkbox are `Fields`. The check has one subscription, once: the second of two
`createSub` requests would add another, which is outside the model. The reload when
the edit dialog is hidden is an instance of `LoadCheck`, which may come at any
time. `updateCheck` is one step but may report success on a check deleted
meanwhile; `CheckRuns` has its two store calls apart. A test of a subscription
changes nothing that is stored.

### AlertPages

`lo .. hi` are the alerts that are stored, in the order of their timestamps;
`index` is `$scope.alertStartIndex` and `shown` the answer that came last.
`GetAlerts` sorts, skips and limits. `LoadOlderAlerts` moves on only from a full
page, as far as the page can tell; the index moves when the user clicks, the page
when an answer comes, whichever request it answers. Abstractions: no two alerts
have the same timestamp, and none is stored out of order (runs that overlap may
do so); deletions take the oldest, up to an age the user chooses or all.

## 3. Runs

| Run | Question | States |
|---|---|---|
| `runs_overlap` | three runs of a check of any settings on two threads, exceptions and stops at every step: `TypeOK`, `NoticesAreOnRecord`, `RunsOnlyGoForward` | 470 000 |
| `runs_edited` | two runs and a page that reloads when it likes: `StateBackedByAlert` (its theorem adds exceptions and stops), `SubscriptionsAreWrittenApart`, `DeletedStaysDeleted` | 3.5 million |
| `runs_prompt` | three runs, one after the other, with exceptions and stops, two subscriptions, one of which throws: `NoticeShowsItsLevel`, `ToldOnlyOfChanges` (one target), `AlertsStartFromCurrentState`, `OneTimeRatchet`, `FaultsLoseOnlyPending` | 66 000 |
| `runs_told` | two overlapping runs, fair threads, a filter that ignores a level and one that throws: `EveryRunEnds`, `EverySubscriptionIsTried`, `OneStoryPerRun` | 37 000 |
| `runs_announce` | three undisturbed runs, two targets, two subscriptions: `SubscribersAreUpToDate`, `OutcomeFollowsFromValues`, `ImplementsAnnouncements` | 790 000 |
| `hours` | all values and thresholds from -2 to 2, runs at every second of a week of two days, five subscriptions: `MirrorImage`, `WorseningNeverImproves`, `MissedOnlyAtTheEdges`, `ToldOnlyWithinHours` | 840 000 |
| `one_time_windows` | two runs, a page that edits the offset, four times of the clock: `TypeOK`, `NothingSkipped`, `CountedOnce` | 4.9 million |
| `live` | two relays with three batches each, one handler thread, a pool of one to two threads that tasks kill, a queue of one: `TypeOK`, `OnlyTheLastIsLost`, `OvertakenOnlyWhenFull`, `TerminatedMeansDone`, `EveryConnectionIsServed`, `ShutdownDrains`, `ImplementsBatches` | 165 000 |
| `check_page` | two visits, two requests under way, three clicks or writes of others, one failure: `TypeOK`, `OnlySavedSettings`, `StuckOnlyAfterFailure`, `DeletedCheckStays`, `DeletedSubscriptionStays`, `EventuallyShown` | 2.4 million |
| `alert_pages` | four alerts in pages of two, two requests under way, one failure: `TypeOK`, `WalkSkipsNothing`, `PageSettles` | 1.9 million |
| `runs_targets` | finding: `ToldOnlyOfChanges` with two targets | violated |
| `runs_one_time` | finding: `OneTimeKeepsState` with two overlapping runs | violated |

### Bounds, and why they are enough

`MaxRuns` bounds ticks. A run is judged against the state an earlier one left, so
two runs show every pairwise race and the third a race with an effect: a wrong
state that the next run builds on. Two threads are enough for two runs to be
anywhere relative to each other while a third waits. Two targets show
every disagreement between the check's level and a target's, for the level of a
check is the worst one. Two subscriptions, one that ignores a level, show order
and partial delivery; the third of `runs_told` is the one that throws. One page is enough since
a page's copy is only ever written back over the document, and one old copy
already races with everything. For `ValueDrift` any order of a value and two
thresholds, with a value beyond each, fits in five numbers. A week of two days has
a right and a wrong day; of four minutes, a day has both ends, a minute within
and one outside; two seconds tell the beginning of a minute from the rest of it. In
`OneTimeWindows` the horizon exceeds the first window's reach, so holes could
occur, and two offsets are enough for one to be shorter; a page that loads and saves at any time
covers both an old time and the null of the beginning. In `LiveMetrics` queue and pool are small enough to fill, which the real
sizes (1000 and 8) would hide; all the proportions matter only through full or
not full. One handler serves two relays for the code's two that serve three, and a
pool that may grow by one thread shows starting, losing and replacing threads.
In `CheckPage` two requests are what it takes for one answer to overtake another,
two visits for an answer to come late, and three acts for a click, a write of
somebody else and a click on what is then stale, or for a dialog that is opened and
sent twice. In `AlertPages` two pages are full and
there is a place beyond, so that insertions and deletions move alerts across
both of the page's ends.

### Stopping

`hours`, `one_time_windows` and `alert_pages` are checked for deadlock: time passes, and
the page goes on polling. The others say `CHECK_DEADLOCK FALSE`: once `MaxRuns` runs are over,
all relays have hung up, or the user has left the page for the last time, nothing need happen
any more.

### Fairness

* `FairSpec` of `CheckRuns`: weak fairness of every run's steps. A pool thread
  runs when it can, and the queue is first in, first out. For `Fetch` this
  assumes that the data source answers or a timeout expires: timeouts are
  configurable and *off* by default, so it is an assumption about the
  installation. Likewise for MongoDB and the notification services. Ticks, users,
  exceptions and stops owe nothing.
* `PromptFairSpec`: the same, for runs that are over before the next tick.
* `FairSpec` of `LiveMetrics`: handlers, listener queue and pool run. Relays need
  neither write nor hang up; `EveryConnectionIsServed` makes hanging up its
  premise.
* `FairSpec` of `CheckPage` and of `AlertPages`: the timer set up with `setInterval`
  sends its load again and again, a request that was sent is answered or fails, and its
  callback runs. Users, runs and failures owe nothing; failures are bounded, so
  `EventuallyShown` and `PageSettles` speak of a page after its last failure.

### Prompt runs

`PromptSpec` restricts ticks to moments at which no run is queued or under way.
The code does not enforce this; with the default of a minute between ticks it
is the normal case and a slow data source or a small pool breaks it. What
holds only then is said so at each property: `runs_overlap` and `runs_edited`
show what holds regardless.

### Findings

1. *A value is compared with the state of the whole check* (`CheckRunner.java:97`).
   With several targets, every target that is OK while another is in ERROR
   produces an alert and a message on every run, although the comment at line
   116 says that only changes are notified and the tests still stub the
   per-target lookup. Run `runs_targets`.
2. *A one-time check that got no worse writes back the state of its copy*
   (`CheckRunner.java:131`), although the comment says "Don't change the check
   state": an overlapping run's state is lost. Run `runs_one_time`.

## 4. Theorems

All are about the specification for any constants that satisfy the modules'
assumptions (positive thread count, `Ignores` a function of the right type, `NoDoc`
is no check, …).

| Theorem | States | Argument |
|---|---|---|
| `TypeCorrect` | `TypeOK` | `TypeInv`, which adds that only queued and live runs hold a copy |
| `StateIsBacked` | `StateBackedByAlert` | `BackedInv` |
| `NoticesRecorded` | `NoticesAreOnRecord` | `NewsInv` |
| `DeletedForGood`, `SubscriptionsApart` | the two action properties of edits | per action, from `TypeOK` |
| `OnlyForward` | `RunsOnlyGoForward` | `OrderInv` |
| `OutcomeOfValues` | `OutcomeFollowsFromValues` | `OutcomeInv` |
| `OneStory` | `OneStoryPerRun` | `StoryInv` |
| `AlertsStartCurrent`, `OneTimeOnlyWorse` | prompt runs, no pages | `AloneInv` |
| `UpToDate` | `SubscribersAreUpToDate`, undisturbed runs | `UpInv` |
| `ImplementsSafely` | `Promise!Safety`, the safety half of `ImplementsAnnouncements`, undisturbed runs, missing data taken for OK included | `AnnounceInv` |
| `OnlyPendingIsLost` | `FaultsLoseOnlyPending`, prompt runs, no pages | `AnnounceInv` |
| `NoInstantSkipped` | `NothingSkipped` | `SkipInv` |
| `NoInstantTwice` | `CountedOnce` | `OnceInv` |
| `NoticesShowTheirLevel` | `NoticeShowsItsLevel`, prompt runs, no pages | `ShowInv` |
| `OnlyChangesAreTold` | `ToldOnlyOfChanges`, prompt runs, no pages, one target | `ChangeInv` |
| `TimesKeepTypes` | `TypeOK` of `OneTimeWindows` | directly |
| `Monotone`, `Mirrored` | `WorseningNeverImproves`, `MirrorImage` | arithmetic, by the direction of the thresholds |
| `HoursExactly`, `AllDayMissesTwoMinutes` | exactly when `shouldNotify` says yes, for every subscription, time and level | arithmetic |
| `OldNewsExcused`, `HoursKept` | `MissedOnlyAtTheEdges`, `ToldOnlyWithinHours` | `HoursInv` |
| `LiveTypes`, `OnlyTheLastLost`, `OvertakenOnly` | `TypeOK`, `OnlyTheLastIsLost`, `OvertakenOnlyWhenFull` | `LiveInv` |
| `DoneWhenTerminated` | `TerminatedMeansDone` | `ThreadsInv` of `LiveInv` |
| `RunOnce`, `NeverRunAgain` | `B!Safety`, the safety half of `ImplementsBatches`; what has run is not queued or running | `LiveInv`, `OnceInv` of `LiveMetricsProofs` |
| `PageTypes`, `OnlySaved`, `DeletedSubscription` | `TypeOK`, `OnlySavedSettings`, `DeletedSubscriptionStays` | `DataInv` |
| `DeletedCheck` | `DeletedCheckStays` | per action |
| `StuckOnly` | `StuckOnlyAfterFailure` | inductive, on the types of `DataInv` |
| `NothingSkipped`, `PageTypeCorrect` | `WalkSkipsNothing`, `TypeOK` of `AlertPages` | `WalkInv` |

* **BackedInv.** "The stored state has its alert" is not inductive: a page's
  copy and a run's copy are states that may be written again. The invariant says
  of *every* copy, on pages, in queued runs and in the document, that its
  state is backed by a recorded alert, and of a run's `worst` that it is backed
  too: either its alert has been stored or the run's copy already had that
  level (the only reason to skip a value in trouble). Deleting alerts moves them
  to `purged`, so nothing is unbacked by it.
* **NewsInv** says of a run's pending alerts what the property says of sent ones.
* **AloneInv.** Under `PromptSpec` with no pages at most one run is alive, and
  until it writes its copy equals the document. Exceptions and stops only
  end runs.
* **UpInv** (`Undisturbed`: no pages, no faults, no malformed subscription, no
  check that treats missing data as OK or is one-time) follows the run through its
  stages: before the write, the last message of everyone is about the state that
  is stored; after it, whoever is still to be told is in `toTell` or will be,
  because the alert of the changed level is in `interesting`.
* **AnnounceInv** follows the live run through its stages, on top of `AloneInv` alone, so
  that it holds with exceptions, malformed subscriptions and stops as well: the run has
  news only after it evaluated something, a worst level with news is one that a
  check can be at, and until the run tells somebody no message bears its number,
  so that a message it sends is the last one its subscription hears. The write of
  the state maps to the assessment, or to `DataStops`; each message to its telling; an
  exception or a stop to `GiveUp`; every other step to a stutter. `ImplementsSafely` adds that
  undisturbed runs take no step that needs `GiveUp`.
* **OrderInv** (`CheckRunsNewsProofs`). A number above the counter belongs to no run yet, so
  a tick finds an empty job to fill; and the job of a run that is over holds nothing, so
  neither a restart nor an exception can change it.
* **OutcomeInv.** In the middle of the loop the property holds of the values judged so
  far, those no longer in `todo`. A run that has not fetched has recorded nothing, so
  none of its alerts is older than its values. Alerts of other runs bear other numbers.
* **StoryInv.** A message carries the level and the alerts the run holds while it tells; a
  run that has sent something is past the steps that change them, and whoever it
  has told is no longer to be told. Numbers are not used again.
* **SkipInv** (`OneTimeWindowsProofs`). Unless the offset became shorter or a second first
  window was let in, no run starts from null once there is a time (`FirstInv`), and any value of
  `lastCheck` that may be written again, stored, on a page or in a run, has everything up
  to it, less the offset, asked about, so whichever is written last, the next window
  joins on. A run under way counts with the offset of its own copy, which is at most
  the stored one.
* **OnceInv** (`OneTimeWindowsProofs`). While undisturbed there is one run, it started from
  what is stored, and all that is counted lies before its window: its offset is at
  least the stored one, unless that became longer.
* **OnceInv** (`LiveMetricsProofs`). What the pool has taken on was read, so what is handed over
  next is new; and nothing is in two of queue, running and over. Ending a task then takes
  its batch out of what is to be run, as the mapping needs. That the queue holds nothing
  twice comes from its order in `QueueInv`.
* **ShowInv.** While the live run is at `reread`, what is stored is its worst level;
  while it tells, what it shows is. Only one run is alive, so nobody comes between.
* **ChangeInv.** A normal check's state is the level of the last value of its only
  target, if that had one; so an alert that differs from the state differs from the
  last value, and what is not different is not interesting.
* **HoursInv.** The property with the types: the filter is asked at the time at which the
  history variable was set, and arithmetic on minutes does the rest.
* **LiveInv.** `OnlyTheLastIsLost` needs nothing but itself; that a task overtakes only
  where a thread is started needs the order of the queue (`QueueInv`), that a
  connection waits in one place (`WaitingInv`), and that each running task has a
  thread (`ThreadsInv`), for the pool's counter, not the set of tasks, decides whether
  a thread is started.
* **DataInv.** A PUT may be served long after it was sent, so the property of the
  stored check is not inductive: every request under way, and every answer, carries
  settings that were saved, and so does the page's copy. The dialog's draft need not.
* **StuckOnlyAfterFailure** is inductive as it stands: a button gets the class only with a
  request, and whatever request of its kind ends takes the class away, or stays
  in `broken` for the visit that sent it.
* **WalkInv.** A patient user's only request will be answered with a page that reaches
  up to the end of the one shown, or overlaps it: alerts only ever move towards
  the places the user is walking to. A deletion takes the oldest, which is below.

Only checked by TLC: all liveness (`EveryRunEnds`, `EverySubscriptionIsTried`,
`ShutdownDrains`, `EveryConnectionIsServed`, `EventuallyShown`,
`PageSettles`), and the liveness halves of `ImplementsAnnouncements` and
`ImplementsBatches`, which are out of the prover's reach.

## 5. Not modelled

* The list of checks and the home page: they poll and show, with the buttons that
  `CheckPage` has. Chart links, previews and the count of metrics in the edit dialog.
* The libraries under `js/lib` (Bootstrap's widgets for Angular among them): third-party code
  that is served with the pages. They are most of the repository's JavaScript by
  lines; the application's own is about 760 lines.
* Incidents at PagerDuty and OpsGenie: what is open there is state of a service
  outside the repository that the code does not keep.
* Migrations and indexes at start, and the mapper: documents of older releases, and one that
  cannot be mapped, are listed as hazards.
* Several checks on the scheduler's pool: requests that hang hold its threads, which
  the fairness assumed for `Fetch` excludes.
* How checkers pick the latest usable datapoint, and Graphite's, InfluxDB's and
  Elasticsearch's query languages and parsers: their result is `Fetch`'s choice.
* Configuration, mail templates, page layout, HTTP clients: no state that the logic
  depends on.
* API calls the user interface never makes: a check created in another state
  than OK, a body whose id is not the path's.

## 6. What comes next

Done, in this order: `AlertLevels`, `CheckRuns` and its invariants, the prompt
properties, `Announcements` and the refinement, `LiveMetrics`, `ValueDrift`,
`OneTimeWindows`, `CheckPage`, `AlertPages`, `SubscriptionHours`, proofs beside each;
then `FaultsLoseOnlyPending`, the order and outcome of runs, `LiveBatches` and edits of the
offset, with their proofs.

Worth adding:

1. `StoreStart`: migrations interrupted and run again, documents of older
   releases, one unreadable document and the tick.
2. `LatestValue`: how each checker picks the value of a target, against a
   reference definition over bounded series.
3. `Pool`: several checks on the scheduler's pool, slow and hung requests.
