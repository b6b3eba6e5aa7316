---------------------------- MODULE OneTimeWindows ----------------------------
(***************************************************************************)
(* The stretches of time that the runs of a one-time check ask InfluxDB or *)
(* Elasticsearch about (CheckTemplateSupport).  A one-time check reports   *)
(* every event once, so each run is to ask about the time since the last:  *)
(* from lastCheck + until to now + until, where until is a negative offset *)
(* that leaves events time to arrive.  Both ends use the offset of the copy*)
(* the run was given, but the window before may have ended with another.   *)
(*                                                                         *)
(* Runs, pages and the store are as in CheckRuns, reduced to the field     *)
(* lastCheck and the offset.  An InfluxDB window leaves out its start and  *)
(* an Elasticsearch window its end; both are the instants start+1 .. end.  *)
(***************************************************************************)
EXTENDS Integers

CONSTANTS
    Runs,       \* runs that may be under way at a time
    Pages,      \* browser pages showing the check
    Lags,       \* what users choose for -until (1 minute)
    Back,       \* -from (11 minutes): how far the first window reaches back
    Horizon,    \* bound: the last instant
    Never       \* the null of a check that has not run yet

ASSUME ConstantsAssumption ==
    /\ Back \in Nat
    /\ Lags \subseteq 0 .. Back
    /\ Horizon \in Nat
    /\ Never \notin Int

VARIABLES
    now,        \* the server's clock
    lastCheck,  \* of the stored check
    lag,        \* -until of the stored check
    page,       \* lastCheck of each page's copy of the check
    job,        \* the copy and the clock of each run
    counted,    \* history: instants that written runs asked about
    twice,      \* history: instants that more than one of them asked about
    since,      \* history: where the first window that was written started
    disturbed,  \* history: runs have overlapped, or a page has saved an old copy
    restarted,  \* history: runs have overlapped before any had written, or a
                \* page has saved null over a time
    shortened,  \* history: somebody has made the offset shorter
    lengthened  \* history: or longer

history == <<counted, twice, since, disturbed, restarted, shortened, lengthened>>
vars == <<now, lastCheck, lag, page, job, history>>

Instants == -Back .. Horizon
Times == 0 .. Horizon
Idle == [stage |-> "idle", copy |-> Never, lag |-> 0, now |-> 0]

TypeOK ==
    /\ now \in Times
    /\ lastCheck \in Times \cup {Never}
    /\ lag \in Lags
    /\ page \in [Pages -> Times \cup {Never}]
    /\ job \in [Runs -> [stage : {"idle", "queued", "running"},
                         copy : Times \cup {Never}, lag : 0 .. Back, now : Times]]
    /\ counted \in SUBSET Instants
    /\ twice \in SUBSET Instants
    /\ since \in Instants \cup {Never}
    /\ disturbed \in BOOLEAN /\ restarted \in BOOLEAN
    /\ shortened \in BOOLEAN /\ lengthened \in BOOLEAN

\* MUTANT: every window reaches back the same way.
CheckFrom_FromNow(copy, l, t) == t - Back

CheckFrom(copy, l, t) == IF copy = Never THEN t - Back ELSE copy - l

\* MUTANTS: the offset is forgotten at the end of the window, or has the
\* wrong sign there.
CheckUntil_Now(l, t) == t

CheckUntil_Ahead(l, t) == t + l

CheckUntil(l, t) == t - l

\* What run r asks about.
Window(r) ==
    CheckFrom(job[r].copy, job[r].lag, job[r].now) + 1
        .. CheckUntil(job[r].lag, job[r].now)

Init ==
    /\ now = 0
    /\ lastCheck = Never
    /\ lag \in Lags
    /\ page = [p \in Pages |-> Never]
    /\ job = [r \in Runs |-> Idle]
    /\ counted = {}
    /\ twice = {}
    /\ since = Never
    /\ disturbed = FALSE /\ restarted = FALSE
    /\ shortened = FALSE /\ lengthened = FALSE

TimePasses ==
    /\ \E t \in now + 1 .. Horizon : now' = t
    /\ UNCHANGED <<lastCheck, lag, page, job, history>>

\* A tick copies the check and queues a run.
Queue(r) ==
    /\ job[r].stage = "idle"
    /\ job' = [job EXCEPT ![r] =
                  [stage |-> "queued", copy |-> lastCheck, lag |-> lag, now |-> 0]]
    /\ LET overlap == \E q \in Runs : job[q].stage # "idle"
       IN  /\ disturbed' = (disturbed \/ overlap)
           /\ restarted' = (restarted \/ (overlap /\ lastCheck = Never))
    /\ UNCHANGED <<now, lastCheck, lag, page, counted, twice, since, shortened,
                   lengthened>>

\* A thread takes the run, which looks at the clock and asks.
Begin(r) ==
    /\ job[r].stage = "queued"
    /\ job' = [job EXCEPT ![r].stage = "running", ![r].now = now]
    /\ UNCHANGED <<now, lastCheck, lag, page, history>>

\* The run writes its clock to the check.
Write(r) ==
    /\ job[r].stage = "running"
    /\ lastCheck' = job[r].now
    /\ counted' = counted \cup Window(r)
    /\ twice' = twice \cup (counted \cap Window(r))
    /\ since' = IF since = Never THEN job[r].now - Back ELSE since
    /\ job' = [job EXCEPT ![r] = Idle]
    /\ UNCHANGED <<now, lag, page, disturbed, restarted, shortened, lengthened>>

\* The request or the database fails, or the server stops.
Fail(r) ==
    /\ job[r].stage # "idle"
    /\ job' = [job EXCEPT ![r] = Idle]
    /\ UNCHANGED <<now, lastCheck, lag, page, history>>

LoadCheck(p) ==
    /\ page' = [page EXCEPT ![p] = lastCheck]
    /\ UNCHANGED <<now, lastCheck, lag, job, history>>

\* saveCheck writes every field of the page's copy, lastCheck included, with
\* what the user has made of the offset.
SaveCheck(p) ==
    /\ lastCheck' = page[p]
    /\ lag' \in Lags
    /\ disturbed' = (disturbed \/ page[p] # lastCheck)
    /\ restarted' = (restarted \/ (page[p] = Never /\ lastCheck # Never))
    /\ shortened' = (shortened \/ lag' < lag)
    /\ lengthened' = (lengthened \/ lag' > lag)
    /\ UNCHANGED <<now, page, job, counted, twice, since>>

Next ==
    \/ TimePasses
    \/ \E r \in Runs : Queue(r) \/ Begin(r) \/ Write(r) \/ Fail(r)
    \/ \E p \in Pages : LoadCheck(p) \/ SaveCheck(p)

Spec == Init /\ [][Next]_vars

------------------------------------------------------------------------------
\* Nothing is passed over: from the start of the first window to the place where
\* the next one starts every instant was asked about, although runs overlap, fail
\* and write out of order and pages save old times.  Two things open a gap.  One
\* is a shorter offset, also for a run that is under way when it is saved.  The
\* other is a second first window: two runs that were both queued before either
\* had written, or a page that saves a lastCheck of null over a time.
NothingSkipped ==
    lastCheck # Never /\ ~shortened /\ ~restarted =>
        \A i \in since + 1 .. lastCheck - lag : i \in counted

\* As long as runs follow one another and no page brings back an old lastCheck,
\* no two runs report the same event, even if runs fail in between; but a longer
\* offset has the next run report some again.
CountedOnce == ~disturbed /\ ~lengthened => twice = {}
==============================================================================
