------------------------- MODULE CheckRunsNewsProofs -------------------------
(***************************************************************************)
(* More proofs about CheckRuns: what subscribers are told is on record and *)
(* agrees with the rest they are told, a deleted check stays deleted,      *)
(* subscriptions are written apart, runs only go forward, and their outcome*)
(* follows from the values they read.                                      *)
(***************************************************************************)
EXTENDS CheckRunsProofs

(***************************************************************************)
(* NoticesAreOnRecord speaks of messages that were sent.  Inductive is the *)
(* same about the news a run still carries: it is on record, and the run's *)
(* verdict is at least as bad.  A run about to fetch carries no news,      *)
(* because Fetch sets the verdict anew.                                    *)
(***************************************************************************)
NewsIsSound(j, recorded) ==
    /\ \A a \in j.interesting : a \in recorded /\ ~IsWorseThan(a.to, j.worst)
    /\ j.stage \in {"queued", "fetch"} => j.interesting = {}

NewsInv ==
    /\ TypeInv
    /\ \A r \in Runs : NewsIsSound(job[r], Recorded)
    /\ NoticesAreOnRecord

\* The worse of two levels is at least as bad as either.
LEMMA WorseOfBounds ==
    ASSUME NEW a \in AlertType, NEW b \in AlertType, NEW c \in AlertType,
           ~IsWorseThan(c, b)
    PROVE  ~IsWorseThan(c, WorseOf(a, b)) /\ ~IsWorseThan(a, WorseOf(a, b))
<1>1. \A x \in AlertType : Severity[x] \in Int
  BY DEF Severity, AlertType
<1>2. QED
  BY <1>1 DEF IsWorseThan, WorseOf

LEMMA NotWorseThanItself ==
    ASSUME NEW a \in AlertType
    PROVE  ~IsWorseThan(a, a)
BY DEF IsWorseThan, Severity, AlertType

LEMMA SoundWithMore ==
    ASSUME NEW j, NEW A, NEW B, A \subseteq B, NewsIsSound(j, A)
    PROVE  NewsIsSound(j, B)
BY DEF NewsIsSound

LEMMA NoNewsIsSound ==
    ASSUME NEW j, NEW A, j.interesting = {}
    PROVE  NewsIsSound(j, A)
BY DEF NewsIsSound

LEMMA BlankHasNoNews == \A s : Blank(s).interesting = {}
BY DEF Blank

\* Nothing is sent: only the changed run has to be looked at.
LEMMA OneJobNews ==
    ASSUME NewsInv, [Next]_vars, NEW r \in Runs, NEW j,
           job' = [job EXCEPT ![r] = j], NewsIsSound(j, Recorded'),
           UNCHANGED sent
    PROVE  NewsInv'
<1>1. TypeInv' /\ Recorded \subseteq Recorded'
  BY NextTypeInv, RecordedGrows DEF NewsInv
<1>2. \A q \in Runs : job'[q] = j \/ job'[q] = job[q]
  BY DEF NewsInv, TypeInv, TypeOK
<1>3. \A q \in Runs : NewsIsSound(job'[q], Recorded')
  BY <1>1, <1>2, SoundWithMore DEF NewsInv
<1>4. NoticesAreOnRecord'
  BY <1>1 DEF NewsInv, NoticesAreOnRecord
<1>5. QED
  BY <1>1, <1>3, <1>4 DEF NewsInv

\* A stage change that keeps news and verdict, and does not go back.
LEMMA StageNews ==
    ASSUME NewsInv, [Next]_vars, NEW r \in Runs, NEW j,
           job' = [job EXCEPT ![r] = j], UNCHANGED sent,
           \/ /\ j.interesting = job[r].interesting
              /\ j.worst = job[r].worst
              /\ j.stage \notin {"queued", "fetch"}
           \/ j.interesting = {}
    PROVE  NewsInv'
<1>1. Recorded \subseteq Recorded'
  BY RecordedGrows DEF NewsInv
<1>2. NewsIsSound(j, Recorded')
  BY <1>1, NoNewsIsSound DEF NewsInv, NewsIsSound
<1>3. QED
  BY <1>2, OneJobNews

LEMMA EvaluateNews ==
    ASSUME NewsInv, [Next]_vars, NEW r \in Runs, Evaluate(r)
    PROVE  NewsInv'
<1> DEFINE c == job[r].check
           current(t) == job[r].values[t]
           alert(t) == [run |-> r, target |-> t,
                        from |-> c.state, to |-> current(t)]
           rest(t) == job[r].todo \ {t}
           told(t) == IF ~Skips(c, current(t)) /\ IsInteresting(c, current(t))
                      THEN {alert(t)} ELSE {}
           j(t) == [job[r] EXCEPT
                      !.stage = IF rest(t) = {} THEN "update" ELSE "evaluate",
                      !.todo = rest(t),
                      !.worst = WorseOf(current(t), job[r].worst),
                      !.interesting = job[r].interesting \cup told(t)]
<1>1. PICK t \in job[r].todo :
         /\ IF Skips(c, current(t)) THEN UNCHANGED alerts
                                    ELSE CreateAlert(alert(t))
         /\ job' = [job EXCEPT
               ![r].stage = IF rest(t) = {} THEN "update" ELSE "evaluate",
               ![r].todo = rest(t),
               ![r].worst = WorseOf(current(t), job[r].worst),
               ![r].interesting = job[r].interesting \cup told(t)]
  BY DEF Evaluate
<1>2. /\ job[r] \in Job
      /\ NewsIsSound(job[r], Recorded)
      /\ Recorded \subseteq Recorded'
  BY RecordedGrows DEF NewsInv, TypeInv, TypeOK
<1>3. job[r].worst \in AlertType /\ current(t) \in AlertType
  <2>1. t \in Targets /\ job[r].values[t] # "NONE"
    BY <1>1, <1>2 DEF NewsInv, TypeInv, JobsAreSound, JobIsSound, Job
  <2>2. QED
    BY <2>1, <1>2 DEF Job, Reading, Level, AlertType
<1>4. job' = [job EXCEPT ![r] = j(t)] /\ UNCHANGED sent
  BY <1>1 DEF Evaluate
<1>5. /\ j(t).stage \in {"update", "evaluate"}
      /\ j(t).worst = WorseOf(current(t), job[r].worst)
      /\ j(t).interesting = job[r].interesting \cup told(t)
  BY <1>2 DEF Job
<1>6. ASSUME NEW a \in job[r].interesting
      PROVE  a \in Recorded' /\ ~IsWorseThan(a.to, j(t).worst)
  <2>1. a \in Recorded /\ ~IsWorseThan(a.to, job[r].worst) /\ a.to \in AlertType
    BY <1>2, <1>6 DEF NewsIsSound, Job, Alert
  <2>2. QED
    BY <2>1, <1>2, <1>3, <1>5, WorseOfBounds
<1>7. ASSUME NEW a \in told(t)
      PROVE  a \in Recorded' /\ ~IsWorseThan(a.to, j(t).worst)
  <2>1. a = alert(t) /\ ~Skips(c, current(t)) /\ a.to = current(t)
    BY <1>7
  <2>2. a \in Recorded'
    BY <2>1, <1>1 DEF CreateAlert, Recorded
  <2>3. ~IsWorseThan(current(t), j(t).worst)
    BY <1>3, <1>5, WorseOfBounds, NotWorseThanItself
  <2>4. QED
    BY <2>1, <2>2, <2>3
<1>8. NewsIsSound(j(t), Recorded')
  BY <1>5, <1>6, <1>7 DEF NewsIsSound
<1> HIDE DEF j
<1>9. QED
  BY <1>4, <1>8, OneJobNews

\* The message carries the run's news and verdict.
LEMMA TellNews ==
    ASSUME NewsInv, [Next]_vars, NEW r \in Runs, NEW s \in Subs, Tell(r, s)
    PROVE  NewsInv'
<1> DEFINE j == [job[r] EXCEPT !.toTell = job[r].toTell \ {s}]
<1>1. /\ job[r] \in Job /\ job[r].stage = "tell"
      /\ NewsIsSound(job[r], Recorded)
      /\ Recorded \subseteq Recorded'
      /\ TypeInv'
  BY RecordedGrows, NextTypeInv DEF NewsInv, TypeInv, TypeOK, Tell
<1>2. job' = [job EXCEPT ![r] = Blank("done")] \/ job' = [job EXCEPT ![r] = j]
  BY DEF Tell, TellRest
<1>3. j.interesting = job[r].interesting /\ j.worst = job[r].worst
        /\ j.stage = "tell"
  BY <1>1 DEF Job
<1>4. NewsIsSound(j, Recorded') /\ NewsIsSound(Blank("done"), Recorded')
  BY <1>1, <1>3, BlankHasNoNews, NoNewsIsSound DEF NewsIsSound
<1> HIDE DEF j
<1>5. \A q \in Runs : job'[q] \in {j, Blank("done"), job[q]}
  BY <1>2 DEF NewsInv, TypeInv, TypeOK
<1>6. \A q \in Runs : NewsIsSound(job'[q], Recorded')
  BY <1>1, <1>4, <1>5, SoundWithMore DEF NewsInv
<1>7. \A n \in sent' : \/ n \in sent
                       \/ /\ n.level = job[r].worst
                          /\ n.alerts = job[r].interesting
  BY DEF Tell
<1>8. NoticesAreOnRecord'
  BY <1>1, <1>7 DEF NewsInv, NoticesAreOnRecord, NewsIsSound
<1>9. QED
  BY <1>1, <1>6, <1>8 DEF NewsInv

LEMMA NextNews == NewsInv /\ [Next]_vars => NewsInv'
<1> SUFFICES ASSUME NewsInv, [Next]_vars PROVE NewsInv'
  OBVIOUS
<1>1. CASE PerformChecks
  <2> DEFINE r == scheduled + 1
             j == [Blank("queued") EXCEPT !.check = doc]
  <2>1. r \in Runs
    BY <1>1, ConstantsAssumption
    DEF PerformChecks, NewsInv, TypeInv, TypeOK, Runs
  <2>2. job' = [job EXCEPT ![r] = j] /\ UNCHANGED sent
    BY <1>1 DEF PerformChecks
  <2>3. j.interesting = {}
    BY DEF Blank
  <2> HIDE DEF j, r
  <2>4. QED
    BY <2>1, <2>2, <2>3, StageNews
<1>2. ASSUME NEW r \in Runs, Begin(r) PROVE NewsInv'
  <2> DEFINE j == [job[r] EXCEPT !.stage = "fetch"]
  <2>1. j.interesting = {}
    BY <1>2 DEF Begin, NewsInv, NewsIsSound, TypeInv, TypeOK, Job
  <2>2. job' = [job EXCEPT ![r] = j] /\ UNCHANGED sent
    BY <1>2 DEF Begin
  <2> HIDE DEF j
  <2>3. QED
    BY <2>1, <2>2, StageNews
<1>3. ASSUME NEW r \in Runs, Fetch(r) PROVE NewsInv'
  <2>1. PICK vals \in [Targets -> Reading] :
           LET present == {t \in Targets : vals[t] # "NONE"}
           IN  job' = [job EXCEPT
                  ![r].stage  = IF present = {} THEN "update" ELSE "evaluate",
                  ![r].values = vals,
                  ![r].todo   = present,
                  ![r].worst  = NoDataLevel(job[r].check)]
    BY <1>3 DEF Fetch
  <2> DEFINE present == {t \in Targets : vals[t] # "NONE"}
             j == [job[r] EXCEPT
                     !.stage = IF present = {} THEN "update" ELSE "evaluate",
                     !.values = vals,
                     !.todo = present,
                     !.worst = NoDataLevel(job[r].check)]
  <2>2. job' = [job EXCEPT ![r] = j] /\ UNCHANGED sent
    BY <1>3, <2>1 DEF Fetch
  <2>3. j.interesting = job[r].interesting
    BY DEF NewsInv, TypeInv, TypeOK, Job
  <2>4. job[r].interesting = {}
    BY <1>3 DEF Fetch, NewsInv, NewsIsSound
  <2> HIDE DEF j
  <2>5. QED
    BY <2>2, <2>3, <2>4, StageNews
<1>4. ASSUME NEW r \in Runs, UpdateState(r) PROVE NewsInv'
  <2> DEFINE j == [job[r] EXCEPT !.stage = "reread"]
  <2>1. j.interesting = job[r].interesting /\ j.worst = job[r].worst
          /\ j.stage = "reread"
    BY DEF NewsInv, TypeInv, TypeOK, Job
  <2>2. job' = [job EXCEPT ![r] = j] /\ UNCHANGED sent
    BY <1>4 DEF UpdateState
  <2> HIDE DEF j
  <2>3. QED
    BY <2>1, <2>2, StageNews
<1>5. ASSUME NEW r \in Runs, Reread(r) PROVE NewsInv'
  <2> DEFINE j == [job[r] EXCEPT !.stage = "tell", !.toTell = doc.subs,
                                 !.shown = doc.state]
  <2>1. j.interesting = job[r].interesting /\ j.worst = job[r].worst
          /\ j.stage = "tell"
    BY DEF NewsInv, TypeInv, TypeOK, Job
  <2>2. /\ \/ job' = [job EXCEPT ![r] = Blank("done")]
           \/ job' = [job EXCEPT ![r] = j]
        /\ UNCHANGED sent
    BY <1>5 DEF Reread
  <2> HIDE DEF j
  <2>3. QED
    BY <2>1, <2>2, StageNews, BlankHasNoNews
<1>6. ASSUME NEW r \in Runs, Fails(r) PROVE NewsInv'
  BY <1>6, StageNews, BlankHasNoNews DEF Fails
<1>7. ASSUME NEW r \in Runs, Step(r) PROVE NewsInv'
  BY <1>2, <1>3, <1>4, <1>5, <1>7, EvaluateNews, TellNews DEF Step
<1>8. ASSUME UNCHANGED sent, \A r \in Runs : job'[r] \in {job[r], Blank("done")}
      PROVE  NewsInv'
  <2>1. TypeInv' /\ Recorded \subseteq Recorded'
    BY NextTypeInv, RecordedGrows DEF NewsInv
  <2>2. \A r \in Runs : NewsIsSound(job'[r], Recorded')
    BY <1>8, <2>1, SoundWithMore, NoNewsIsSound, BlankHasNoNews DEF NewsInv
  <2>3. QED
    BY <1>8, <2>1, <2>2 DEF NewsInv, NoticesAreOnRecord
<1>9. CASE Restart
  BY <1>8, <1>9 DEF Restart
<1>10. CASE UserStep
  <2>1. UNCHANGED <<sent, job>>
    BY <1>10
    DEF UserStep, LoadCheck, SwapCheckEnabled, ResetCheckState,
        SwapCheckAllowNoData, UpdateCheck,
        PutCheck, CreateSubscription, DeleteSubscription,
        DeleteAlertsForCheck, DeleteCheckDocument, DeleteCheckAlerts
  <2>2. QED
    BY <2>1, <1>8
<1>11. CASE UNCHANGED vars
  BY <1>8, <1>11 DEF vars
<1>12. QED
  BY <1>1, <1>6, <1>7, <1>9, <1>10, <1>11 DEF Next

\* Whatever a subscriber was told is in the alerts collection or was there
\* until a user deleted it, and the level its filter was asked about is at
\* least as bad: createAlert comes before the list of interesting alerts grows.
THEOREM NoticesRecorded == Spec => []NoticesAreOnRecord
<1>1. Init => NewsInv
  <2> SUFFICES ASSUME Init PROVE NewsInv
    OBVIOUS
  <2>1. \A r \in Runs : NewsIsSound(job[r], Recorded)
    BY BlankHasNoNews, NoNewsIsSound DEF Init
  <2>2. NoticesAreOnRecord
    BY DEF Init, NoticesAreOnRecord
  <2>3. QED
    BY <2>1, <2>2, InitTypeInv DEF NewsInv
<1>2. NewsInv => NoticesAreOnRecord
  BY DEF NewsInv
<1>3. QED
  BY <1>1, <1>2, NextNews, PTL DEF Spec
------------------------------------------------------------------------------
(* The two properties of the store's writes. *)

\* No step brings a deleted check back: every write to the document is either
\* guarded by its existence or an update without upsert.
THEOREM DeletedForGood == Spec => DeletedStaysDeleted
<1>1. ASSUME [Next]_vars, doc = NoDoc PROVE doc' = NoDoc
  <2>1. CASE \E r \in Runs : UpdateState(r)
    BY <1>1, <2>1 DEF UpdateState, SetStateAndLastCheckAndLastValues
  <2>2. ASSUME NEW p \in Pages,
               \/ SwapCheckEnabled(p) \/ ResetCheckState(p)
               \/ SwapCheckAllowNoData(p) \/ UpdateCheck(p)
        PROVE  doc' = NoDoc
    BY <1>1, <2>2
    DEF SwapCheckEnabled, ResetCheckState, SwapCheckAllowNoData, UpdateCheck,
        PutCheck, SaveCheck
  <2>3. QED
    BY <1>1, <2>1, <2>2
    DEF Next, Step, UserStep, PerformChecks, Begin, Fetch, Evaluate, Reread,
        Tell, Fails, Restart, LoadCheck, CreateSubscription,
        DeleteSubscription, DeleteAlertsForCheck, DeleteCheckDocument,
        DeleteCheckAlerts, store, vars
<1>2. [Next]_vars => [doc = NoDoc => doc' = NoDoc]_vars
  BY <1>1 DEF vars
<1>3. QED
  BY <1>2, PTL DEF Spec, DeletedStaysDeleted

\* A step that changes the subscriptions changes nothing else of the check:
\* a stale page cannot bring back a subscription, nor can a run lose one.
THEOREM SubscriptionsApart == Spec => SubscriptionsAreWrittenApart
<1> DEFINE Apart == doc # NoDoc /\ doc' # NoDoc /\ doc'.subs # doc.subs =>
                       doc' = [doc EXCEPT !.subs = doc'.subs]
<1>1. ASSUME TypeInv, [Next]_vars PROVE Apart
  <2> SUFFICES ASSUME doc # NoDoc, doc' # NoDoc, doc'.subs # doc.subs
               PROVE  doc' = [doc EXCEPT !.subs = doc'.subs]
    OBVIOUS
  <2>1. doc \in CheckDoc
    BY <1>1 DEF TypeInv, TypeOK
  <2>2. ASSUME NEW r \in Runs, UpdateState(r) PROVE doc'.subs = doc.subs
    BY <2>1, <2>2 DEF UpdateState, SetStateAndLastCheckAndLastValues, CheckDoc
  <2>3. ASSUME NEW copy \in CheckDoc, PutCheck(copy)
        PROVE  doc'.subs = doc.subs
    BY <2>3 DEF PutCheck, SaveCheck, CheckDoc
  <2>4. ASSUME NEW p \in Pages, page[p] # NoDoc
        PROVE  page[p] \in CheckDoc
    BY <1>1, <2>4 DEF TypeInv, TypeOK
  <2>5. ASSUME NEW p \in Pages, SwapCheckEnabled(p)
        PROVE  doc'.subs = doc.subs
    <3> DEFINE copy == [page[p] EXCEPT !.enabled = ~page[p].enabled]
    <3>1. copy \in CheckDoc
      BY <2>4, <2>5 DEF SwapCheckEnabled, CheckDoc
    <3>2. QED
      BY <2>3, <2>5, <3>1 DEF SwapCheckEnabled
  <2>6. ASSUME NEW p \in Pages, ResetCheckState(p)
        PROVE  doc'.subs = doc.subs
    <3> DEFINE copy == [page[p] EXCEPT !.state = "OK"]
    <3>1. copy \in CheckDoc
      BY <2>4, <2>6 DEF ResetCheckState, CheckDoc, AlertType
    <3>2. QED
      BY <2>3, <2>6, <3>1 DEF ResetCheckState
  <2>7. ASSUME NEW p \in Pages, UpdateCheck(p) \/ SwapCheckAllowNoData(p)
        PROVE  doc'.subs = doc.subs
    <3>1. PICK s \in Settings : PutCheck([page[p] EXCEPT !.settings = s])
      BY <2>7 DEF UpdateCheck, SwapCheckAllowNoData
    <3>2. [page[p] EXCEPT !.settings = s] \in CheckDoc
      BY <2>4, <2>7 DEF UpdateCheck, SwapCheckAllowNoData, CheckDoc
    <3>3. QED
      BY <2>3, <3>1, <3>2
  <2>8. ASSUME NEW s \in Subs, CreateSubscription(s) \/ DeleteSubscription(s)
        PROVE  doc' = [doc EXCEPT !.subs = doc'.subs]
    BY <2>1, <2>8 DEF CreateSubscription, DeleteSubscription, CheckDoc
  <2>9. doc' # doc
    OBVIOUS
  <2>10. QED
    BY <1>1, <2>2, <2>5, <2>6, <2>7, <2>8, <2>9
    DEF Next, Step, UserStep, PerformChecks, Begin, Fetch, Evaluate, Reread,
        Tell, Fails, Restart, LoadCheck, DeleteAlertsForCheck,
        DeleteCheckDocument, DeleteCheckAlerts, store, vars
<1>2. TypeInv /\ [Next]_vars => [Apart]_vars
  BY <1>1
<1>3. QED
  BY <1>2, SpecTypeInv, PTL DEF Spec, SubscriptionsAreWrittenApart

------------------------------------------------------------------------------
(***************************************************************************)
(* Runs only get nearer to their end.  A tick must not find the job it is  *)
(* about to fill in use, and a restart must not find anything in the job   *)
(* of a run that is over.                                                  *)
(***************************************************************************)
OrderInv ==
    /\ TypeInv
    /\ \A r \in Runs : r > scheduled => job[r].stage = "unborn"
    /\ \A r \in Runs : job[r].stage = "done" => job[r] = Blank("done")

\* What a step of run r leaves of it.
Advances(r) ==
    \E j : /\ job' = [job EXCEPT ![r] = j]
           /\ NearerToItsEnd(job[r], j)
           /\ job[r].stage \notin {"unborn", "done"} /\ j.stage # "unborn"
           /\ j.stage = "done" => j = Blank("done")

LEMMA StageOfBlank == \A s : Blank(s).stage = s
BY DEF Blank

LEMMA EndAdvances ==
    ASSUME NEW r \in Runs, job' = [job EXCEPT ![r] = Blank("done")],
           job[r].stage \in Active \cup {"queued"}
    PROVE  Advances(r)
<1>1. NearerToItsEnd(job[r], Blank("done"))
  BY StageOfBlank DEF NearerToItsEnd, StageRank, Active
<1>2. job[r].stage \notin {"unborn", "done"}
  BY DEF Active
<1>3. QED
  BY <1>1, <1>2, StageOfBlank DEF Advances

LEMMA EvaluateAdvances ==
    ASSUME TypeInv, NEW r \in Runs, Evaluate(r)
    PROVE  Advances(r)
<1> DEFINE c == job[r].check
           current(t) == job[r].values[t]
           alert(t) == [run |-> r, target |-> t,
                        from |-> c.state, to |-> current(t)]
           rest(t) == job[r].todo \ {t}
           told(t) == IF ~Skips(c, current(t)) /\ IsInteresting(c, current(t))
                      THEN {alert(t)} ELSE {}
           j(t) == [job[r] EXCEPT
                      !.stage = IF rest(t) = {} THEN "update" ELSE "evaluate",
                      !.todo = rest(t),
                      !.worst = WorseOf(current(t), job[r].worst),
                      !.interesting = job[r].interesting \cup told(t)]
<1>1. PICK t \in job[r].todo :
         job' = [job EXCEPT
            ![r].stage = IF rest(t) = {} THEN "update" ELSE "evaluate",
            ![r].todo = rest(t),
            ![r].worst = WorseOf(current(t), job[r].worst),
            ![r].interesting = job[r].interesting \cup told(t)]
  BY DEF Evaluate
<1>2. job' = [job EXCEPT ![r] = j(t)] /\ job[r].stage = "evaluate"
  BY <1>1 DEF Evaluate
<1>3. /\ j(t).stage = IF rest(t) = {} THEN "update" ELSE "evaluate"
      /\ j(t).todo = rest(t)
  BY DEF TypeInv, TypeOK, Job
<1> HIDE DEF j
<1>4. NearerToItsEnd(job[r], j(t))
  <2>1. CASE rest(t) = {}
    BY <1>2, <1>3, <2>1 DEF NearerToItsEnd, StageRank
  <2>2. CASE rest(t) # {}
    BY <1>1, <1>2, <1>3, <2>2 DEF NearerToItsEnd
  <2>3. QED
    BY <2>1, <2>2
<1>5. QED
  BY <1>2, <1>3, <1>4 DEF Advances

LEMMA TellAdvances ==
    ASSUME TypeInv, NEW r \in Runs, NEW s \in Subs, Tell(r, s)
    PROVE  Advances(r)
<1> DEFINE j == [job[r] EXCEPT !.toTell = job[r].toTell \ {s}]
<1>1. job[r].stage = "tell" /\ s \in job[r].toTell
  BY DEF Tell
<1>2. CASE job' = [job EXCEPT ![r] = Blank("done")]
  BY <1>1, <1>2, EndAdvances DEF Active
<1>3. CASE job' = [job EXCEPT ![r] = j]
  <2>1. j.stage = "tell" /\ j.toTell = job[r].toTell \ {s}
    BY <1>1 DEF TypeInv, TypeOK, Job
  <2> HIDE DEF j
  <2>2. NearerToItsEnd(job[r], j)
    BY <1>1, <2>1 DEF NearerToItsEnd
  <2>3. QED
    BY <1>1, <1>3, <2>1, <2>2 DEF Advances
<1>4. QED
  BY <1>2, <1>3 DEF Tell, TellRest

LEMMA StepAdvances ==
    ASSUME TypeInv, NEW r \in Runs, Step(r) \/ Fails(r)
    PROVE  Advances(r) /\ UNCHANGED scheduled
<1>1. job[r] \in Job
  BY DEF TypeInv, TypeOK
<1>2. CASE Begin(r)
  <2> DEFINE j == [job[r] EXCEPT !.stage = "fetch"]
  <2>1. /\ job' = [job EXCEPT ![r] = j] /\ job[r].stage = "queued"
        /\ UNCHANGED scheduled
    BY <1>2 DEF Begin
  <2>2. j.stage = "fetch"
    BY <1>1 DEF Job
  <2> HIDE DEF j
  <2>3. NearerToItsEnd(job[r], j)
    BY <2>1, <2>2 DEF NearerToItsEnd, StageRank
  <2>4. QED
    BY <2>1, <2>2, <2>3 DEF Advances
<1>3. CASE Fetch(r)
  <2>1. PICK vals \in [Targets -> Reading] :
           LET present == {t \in Targets : vals[t] # "NONE"}
           IN  job' = [job EXCEPT
                  ![r].stage  = IF present = {} THEN "update" ELSE "evaluate",
                  ![r].values = vals,
                  ![r].todo   = present,
                  ![r].worst  = NoDataLevel(job[r].check)]
    BY <1>3 DEF Fetch
  <2> DEFINE present == {t \in Targets : vals[t] # "NONE"}
             j == [job[r] EXCEPT
                     !.stage = IF present = {} THEN "update" ELSE "evaluate",
                     !.values = vals,
                     !.todo = present,
                     !.worst = NoDataLevel(job[r].check)]
  <2>2. /\ job' = [job EXCEPT ![r] = j] /\ job[r].stage = "fetch"
        /\ UNCHANGED scheduled
    BY <1>3, <2>1 DEF Fetch
  <2>3. j.stage \in {"update", "evaluate"}
    BY <1>1 DEF Job
  <2> HIDE DEF j
  <2>4. NearerToItsEnd(job[r], j)
    BY <2>2, <2>3 DEF NearerToItsEnd, StageRank
  <2>5. QED
    BY <2>2, <2>3, <2>4 DEF Advances
<1>4. CASE UpdateState(r)
  <2> DEFINE j == [job[r] EXCEPT !.stage = "reread"]
  <2>1. /\ job' = [job EXCEPT ![r] = j] /\ job[r].stage = "update"
        /\ UNCHANGED scheduled
    BY <1>4 DEF UpdateState
  <2>2. j.stage = "reread"
    BY <1>1 DEF Job
  <2> HIDE DEF j
  <2>3. NearerToItsEnd(job[r], j)
    BY <2>1, <2>2 DEF NearerToItsEnd, StageRank
  <2>4. QED
    BY <2>1, <2>2, <2>3 DEF Advances
<1>5. CASE Reread(r)
  <2> DEFINE j == [job[r] EXCEPT !.stage = "tell", !.toTell = doc.subs,
                                 !.shown = doc.state]
  <2>1. /\ \/ job' = [job EXCEPT ![r] = Blank("done")]
           \/ job' = [job EXCEPT ![r] = j]
        /\ job[r].stage = "reread" /\ UNCHANGED scheduled
    BY <1>5 DEF Reread
  <2>2. j.stage = "tell"
    BY <1>1 DEF Job
  <2> HIDE DEF j
  <2>3. NearerToItsEnd(job[r], j)
    BY <2>1, <2>2 DEF NearerToItsEnd, StageRank
  <2>4. job' = [job EXCEPT ![r] = j] => Advances(r)
    BY <2>1, <2>2, <2>3 DEF Advances
  <2>5. QED
    BY <2>1, <2>4, EndAdvances DEF Active
<1>6. CASE Fails(r)
  BY <1>6, EndAdvances DEF Fails, Active
<1>7. CASE Evaluate(r)
  BY <1>7, EvaluateAdvances DEF Evaluate
<1>8. ASSUME NEW s \in Subs, Tell(r, s) PROVE Advances(r) /\ UNCHANGED scheduled
  BY <1>8, TellAdvances DEF Tell
<1>9. QED
  BY <1>2, <1>3, <1>4, <1>5, <1>6, <1>7, <1>8 DEF Step

LEMMA UserStepsSpareRuns == UserStep => UNCHANGED <<sent, job, scheduled>>
BY DEF UserStep, LoadCheck, SwapCheckEnabled, ResetCheckState,
       SwapCheckAllowNoData, UpdateCheck, PutCheck, CreateSubscription,
       DeleteSubscription, DeleteAlertsForCheck, DeleteCheckDocument,
       DeleteCheckAlerts

LEMMA NextOrder ==
    ASSUME OrderInv, [Next]_vars
    PROVE  /\ OrderInv'
           /\ \A r \in Runs : job'[r] # job[r] => NearerToItsEnd(job[r], job'[r])
<1>1. TypeInv' /\ TypeInv /\ job \in [Runs -> Job] /\ scheduled \in Int
  BY NextTypeInv DEF OrderInv, TypeInv, TypeOK
<1>2. CASE PerformChecks
  <2> DEFINE q == scheduled + 1
             j == [Blank("queued") EXCEPT !.check = doc]
  <2>1. /\ job' = [job EXCEPT ![q] = j] /\ scheduled' = q
        /\ q \in Runs /\ job[q].stage = "unborn"
    BY <1>1, <1>2, ConstantsAssumption
    DEF PerformChecks, OrderInv, TypeInv, TypeOK, Runs
  <2>2. j.stage = "queued"
    BY DEF Blank
  <2> HIDE DEF j
  <2>3. \A r \in Runs : job'[r] = IF r = q THEN j ELSE job[r]
    BY <1>1, <2>1
  <2>4. NearerToItsEnd(job[q], j)
    BY <2>1, <2>2 DEF NearerToItsEnd, StageRank
  <2> HIDE DEF q
  <2>5. \A r \in Runs : r > scheduled' => r # q /\ r > scheduled
    BY <1>1, <2>1 DEF Runs, q
  <2>6. OrderInv'
    BY <1>1, <2>2, <2>3, <2>5 DEF OrderInv
  <2>7. QED
    BY <2>3, <2>4, <2>6
<1>3. ASSUME NEW q \in Runs, Step(q) \/ Fails(q)
      PROVE  /\ OrderInv'
             /\ \A r \in Runs : job'[r] # job[r] => NearerToItsEnd(job[r], job'[r])
  <2>1. Advances(q) /\ UNCHANGED scheduled
    BY <1>1, <1>3, StepAdvances
  <2>2. PICK j : /\ job' = [job EXCEPT ![q] = j]
                 /\ NearerToItsEnd(job[q], j)
                 /\ job[q].stage \notin {"unborn", "done"} /\ j.stage # "unborn"
                 /\ j.stage = "done" => j = Blank("done")
    BY <2>1 DEF Advances
  <2>3. \A r \in Runs : job'[r] = IF r = q THEN j ELSE job[r]
    BY <1>1, <2>2
  <2>4. OrderInv'
    BY <1>1, <2>1, <2>2, <2>3 DEF OrderInv
  <2>5. QED
    BY <2>2, <2>3, <2>4
<1>4. CASE Restart
  <2>1. /\ \A r \in Runs :
             job'[r] = IF job[r].stage = "unborn" THEN job[r] ELSE Blank("done")
        /\ UNCHANGED scheduled
    BY <1>4 DEF Restart
  <2>2. OrderInv'
    BY <1>1, <2>1, StageOfBlank DEF OrderInv
  <2>3. ASSUME NEW r \in Runs, job'[r] # job[r]
        PROVE  NearerToItsEnd(job[r], job'[r])
    <3>1. job[r].stage \in Stages \ {"unborn", "done"} /\ job'[r] = Blank("done")
      BY <1>1, <2>1, <2>3 DEF OrderInv, Job
    <3>2. QED
      BY <3>1, StageOfBlank DEF NearerToItsEnd, StageRank, Stages
  <2>4. QED
    BY <2>2, <2>3
<1>5. CASE UserStep \/ UNCHANGED vars
  <2>1. UNCHANGED <<job, scheduled>>
    BY <1>5, UserStepsSpareRuns DEF vars
  <2>2. QED
    BY <1>1, <2>1 DEF OrderInv
<1>6. QED
  BY <1>2, <1>3, <1>4, <1>5 DEF Next

LEMMA InitOrder == Init => OrderInv
BY InitTypeInv, StageOfBlank DEF Init, OrderInv

\* A run only gets nearer to its end, for any number of values, subscriptions
\* and runs, whatever fails: nothing in CheckRunner.run goes back or retries.
THEOREM OnlyForward == Spec => RunsOnlyGoForward
<1> DEFINE Forward ==
             \A r \in Runs : job'[r] # job[r] => NearerToItsEnd(job[r], job'[r])
<1>1. OrderInv /\ [Next]_vars => OrderInv' /\ [Forward]_vars
  BY NextOrder
<1>2. QED
  BY <1>1, InitOrder, PTL DEF Spec, RunsOnlyGoForward

------------------------------------------------------------------------------
(***************************************************************************)
(* The outcome of a run.  In the middle of the loop it accounts for the    *)
(* values that have been judged, and a run that has not fetched any values *)
(* has recorded nothing, so no alert of a run is older than its values.    *)
(***************************************************************************)
OutcomeSoFar(r, j, own) ==
    /\ j.stage \in {"unborn", "queued", "fetch"} => own = {} /\ j.interesting = {}
    /\ j.stage \in {"evaluate", "update", "reread", "tell"} =>
          Accounts(r, j, Present(j) \ j.todo, own)
    /\ j.stage \in {"update", "reread", "tell"} => j.todo = {}

OutcomeInv ==
    /\ OrderInv
    /\ \A r \in Runs : OutcomeSoFar(r, job[r], RecordedBy(r))

\* Only Evaluate adds to the record, and only to that of its own run.
LEMMA RecordOfOthers ==
    ASSUME TypeInv, [Next]_vars, NEW r \in Runs, ~Evaluate(r)
    PROVE  UNCHANGED RecordedBy(r)
<1>1. ASSUME NEW q \in Runs, Evaluate(q) PROVE UNCHANGED RecordedBy(r)
  <2>1. q # r
    BY <1>1
  <2>2. PICK t \in job[q].todo :
          \/ UNCHANGED alerts
          \/ alerts' = alerts \cup
               {[run |-> q, target |-> t, from |-> job[q].check.state,
                 to |-> job[q].values[t]]}
    BY <1>1 DEF Evaluate, CreateAlert
  <2>3. UNCHANGED purged
    BY <1>1 DEF Evaluate
  <2> DEFINE a == [run |-> q, target |-> t, from |-> job[q].check.state,
                   to |-> job[q].values[t]]
  <2>4. Recorded' = Recorded \/ Recorded' = Recorded \cup {a}
    BY <2>2, <2>3 DEF Recorded
  <2>5. a.run = q
    OBVIOUS
  <2> HIDE DEF a
  <2>6. QED
    BY <2>1, <2>4, <2>5 DEF RecordedBy
<1>2. CASE DeleteAlertsForCheck \/ DeleteCheckAlerts
  BY <1>2
  DEF DeleteAlertsForCheck, DeleteCheckAlerts, DeleteAlerts, Recorded, RecordedBy
<1>3. CASE UNCHANGED <<alerts, purged>>
  BY <1>3 DEF Recorded, RecordedBy
<1>4. QED
  BY <1>1, <1>2, <1>3
  DEF Next, vars, Step, UserStep, PerformChecks, Begin, Fetch, UpdateState,
      Reread, Tell, Fails, Restart, LoadCheck, SwapCheckEnabled,
      ResetCheckState, SwapCheckAllowNoData, UpdateCheck, PutCheck,
      CreateSubscription,
      DeleteSubscription, DeleteCheckDocument, store

\* A run that is over owes no account.
LEMMA OverAccounts == \A r, own : OutcomeSoFar(r, Blank("done"), own)
BY StageOfBlank DEF OutcomeSoFar

\* Only the job and the record of run r have to be looked at.
LEMMA OneJobOutcome ==
    ASSUME OutcomeInv, [Next]_vars, NEW r \in Runs, NEW j,
           job' = [job EXCEPT ![r] = j],
           \A q \in Runs : q # r => UNCHANGED RecordedBy(q),
           OutcomeSoFar(r, j, RecordedBy(r)')
    PROVE  OutcomeInv'
<1>1. OrderInv'
  BY NextOrder DEF OutcomeInv
<1>2. job'[r] = j /\ \A q \in Runs : q # r => job'[q] = job[q]
  BY DEF OutcomeInv, OrderInv, TypeInv, TypeOK
<1>3. \A q \in Runs : OutcomeSoFar(q, job'[q], RecordedBy(q)')
  BY <1>2 DEF OutcomeInv
<1>4. QED
  BY <1>1, <1>3 DEF OutcomeInv

\* A later stage with the same values and verdict.
LEMMA SameOutcome ==
    ASSUME NEW r, NEW j, NEW k, NEW own, OutcomeSoFar(r, j, own),
           j.stage \in {"update", "reread", "tell"},
           k.stage \in {"update", "reread", "tell"},
           k.check = j.check, k.values = j.values, k.todo = j.todo,
           k.worst = j.worst, k.interesting = j.interesting
    PROVE  OutcomeSoFar(r, k, own)
<1>1. Accounts(r, j, Present(j) \ j.todo, own) /\ j.todo = {}
  BY DEF OutcomeSoFar
<1>2. Present(k) = Present(j)
  BY DEF Present
<1>3. Accounts(r, k, Present(k) \ k.todo, own)
  BY <1>1, <1>2 DEF Accounts
<1>4. QED
  BY <1>1, <1>3 DEF OutcomeSoFar

LEMMA FetchOutcome ==
    ASSUME OutcomeInv, [Next]_vars, NEW r \in Runs, Fetch(r)
    PROVE  OutcomeInv'
<1>1. PICK vals \in [Targets -> Reading] :
         LET present == {t \in Targets : vals[t] # "NONE"}
         IN  job' = [job EXCEPT
                ![r].stage  = IF present = {} THEN "update" ELSE "evaluate",
                ![r].values = vals,
                ![r].todo   = present,
                ![r].worst  = NoDataLevel(job[r].check)]
  BY DEF Fetch
<1> DEFINE present == {t \in Targets : vals[t] # "NONE"}
           j == [job[r] EXCEPT
                   !.stage = IF present = {} THEN "update" ELSE "evaluate",
                   !.values = vals,
                   !.todo = present,
                   !.worst = NoDataLevel(job[r].check)]
<1>2. job' = [job EXCEPT ![r] = j]
  BY <1>1
<1>3. /\ job[r] \in Job /\ job[r].stage = "fetch"
      /\ OutcomeSoFar(r, job[r], RecordedBy(r)) /\ TypeInv
  BY DEF Fetch, OutcomeInv, OrderInv, TypeInv, TypeOK
<1>4. RecordedBy(r) = {} /\ job[r].interesting = {}
  BY <1>3 DEF OutcomeSoFar
<1>5. /\ j.stage = IF present = {} THEN "update" ELSE "evaluate"
      /\ j.values = vals /\ j.todo = present /\ j.check = job[r].check
      /\ j.worst = NoDataLevel(j.check) /\ j.interesting = {}
  BY <1>3, <1>4 DEF Job
<1>6. \A q \in Runs : UNCHANGED RecordedBy(q)
  BY <1>3 DEF Fetch, store, RecordedBy, Recorded
<1>7. Present(j) \ j.todo = {}
  BY <1>5 DEF Present
<1>8. ~IsWorseThan(j.worst, j.worst)
  <2>1. j.worst \in AlertType
    BY <1>5 DEF NoDataLevel, AlertType
  <2>2. QED
    BY <2>1, NotWorseThanItself
<1> HIDE DEF j
<1>9. Accounts(r, j, {}, {})
  BY <1>5, <1>8 DEF Accounts
<1>10. OutcomeSoFar(r, j, RecordedBy(r)')
  <2>1. RecordedBy(r)' = {}
    BY <1>4, <1>6
  <2>2. QED
    BY <1>5, <1>7, <1>9, <2>1 DEF OutcomeSoFar
<1>11. QED
  BY <1>2, <1>6, <1>10, OneJobOutcome

\* One more value is accounted for.
LEMMA EvaluateOutcome ==
    ASSUME OutcomeInv, [Next]_vars, NEW r \in Runs, Evaluate(r)
    PROVE  OutcomeInv'
<1> DEFINE c == job[r].check
           current(t) == job[r].values[t]
           alert(t) == [run |-> r, target |-> t,
                        from |-> c.state, to |-> current(t)]
           rest(t) == job[r].todo \ {t}
           told(t) == IF ~Skips(c, current(t)) /\ IsInteresting(c, current(t))
                      THEN {alert(t)} ELSE {}
           j(t) == [job[r] EXCEPT
                      !.stage = IF rest(t) = {} THEN "update" ELSE "evaluate",
                      !.todo = rest(t),
                      !.worst = WorseOf(current(t), job[r].worst),
                      !.interesting = job[r].interesting \cup told(t)]
<1>1. PICK t \in job[r].todo :
         /\ IF Skips(c, current(t)) THEN UNCHANGED alerts
                                    ELSE CreateAlert(alert(t))
         /\ job' = [job EXCEPT
               ![r].stage = IF rest(t) = {} THEN "update" ELSE "evaluate",
               ![r].todo = rest(t),
               ![r].worst = WorseOf(current(t), job[r].worst),
               ![r].interesting = job[r].interesting \cup told(t)]
  BY DEF Evaluate
<1>2. job' = [job EXCEPT ![r] = j(t)] /\ UNCHANGED purged
  BY <1>1 DEF Evaluate
<1>3. /\ job[r] \in Job /\ job[r].stage = "evaluate" /\ TypeInv
      /\ OutcomeSoFar(r, job[r], RecordedBy(r)) /\ JobIsSound(job[r])
  BY DEF Evaluate, OutcomeInv, OrderInv, TypeInv, TypeOK, JobsAreSound
<1>4. /\ j(t).stage = IF rest(t) = {} THEN "update" ELSE "evaluate"
      /\ j(t).todo = rest(t) /\ j(t).check = c
      /\ j(t).values = job[r].values
      /\ j(t).worst = WorseOf(current(t), job[r].worst)
      /\ j(t).interesting = job[r].interesting \cup told(t)
  BY <1>3 DEF Job
<1> DEFINE S == Present(job[r]) \ job[r].todo
<1>5. Accounts(r, job[r], S, RecordedBy(r))
  BY <1>3 DEF OutcomeSoFar
<1>6. Present(j(t)) \ j(t).todo = S \cup {t}
  BY <1>1, <1>3, <1>4 DEF Present, JobIsSound, Job
<1>7. RecordedBy(r)' = IF Skips(c, current(t)) THEN RecordedBy(r)
                                               ELSE RecordedBy(r) \cup {alert(t)}
  <2>1. CASE Skips(c, current(t))
    BY <1>1, <1>2, <2>1 DEF Recorded, RecordedBy
  <2>2. CASE ~Skips(c, current(t))
    <3>1. alert(t).run = r
      OBVIOUS
    <3> HIDE DEF alert
    <3>2. Recorded' = Recorded \cup {alert(t)}
      BY <1>1, <1>2, <2>2 DEF Recorded, CreateAlert
    <3>3. QED
      BY <2>2, <3>1, <3>2 DEF RecordedBy
  <2>3. QED
    BY <2>1, <2>2
<1>8. \A q \in Runs : q # r => UNCHANGED RecordedBy(q)
  <2>1. \A q \in Runs : q # r => ~Evaluate(q)
    <3> SUFFICES ASSUME NEW q \in Runs, q # r, Evaluate(q) PROVE FALSE
      OBVIOUS
    <3>1. job'[q] = job[q]
      BY <1>2, <1>3 DEF TypeInv, TypeOK
    <3>2. Advances(q)
      BY <1>3, EvaluateAdvances
    <3>3. PICK k : job' = [job EXCEPT ![q] = k] /\ NearerToItsEnd(job[q], k)
      BY <3>2 DEF Advances
    <3>4. k = job[q] /\ job[q] \in Job
      BY <1>3, <3>1, <3>3 DEF TypeInv, TypeOK
    <3>5. StageRank[job[q].stage] \in Int
      BY <3>4 DEF StageRank, Job, Stages
    <3>6. QED
      BY <3>3, <3>4, <3>5 DEF NearerToItsEnd
  <2>2. QED
    BY <1>3, <2>1, RecordOfOthers
<1>9. /\ t \in Targets /\ current(t) \in AlertType
      /\ job[r].worst \in AlertType
  <2>1. t \in Targets /\ current(t) # "NONE"
    BY <1>1, <1>3 DEF JobIsSound, Job
  <2>2. QED
    BY <1>3, <2>1 DEF Job, Reading, Level, AlertType
<1>10. Accounts(r, j(t), S \cup {t}, RecordedBy(r)')
  <2> DEFINE stored(A) == {u \in A : ~Skips(c, current(u))}
             news(A) == {u \in stored(A) : IsInteresting(c, current(u))}
             levels(A) == {NoDataLevel(c)} \cup {current(u) : u \in A}
  <2>1. /\ RecordedBy(r) = {alert(u) : u \in stored(S)}
        /\ job[r].interesting = {alert(u) : u \in news(S)}
        /\ job[r].worst \in levels(S)
        /\ \A l \in levels(S) : ~IsWorseThan(l, job[r].worst)
    BY <1>5 DEF Accounts
  <2> HIDE DEF alert, S, c, current
  <2>2. RecordedBy(r)' = {alert(u) : u \in stored(S \cup {t})}
    BY <1>7, <2>1
  <2>3. j(t).interesting = {alert(u) : u \in news(S \cup {t})}
    BY <1>4, <2>1
  <2>4. levels(S \cup {t}) = levels(S) \cup {current(t)}
    OBVIOUS
  <2>5. j(t).worst \in levels(S \cup {t})
    BY <1>4, <2>1, <2>4 DEF WorseOf
  <2>6. levels(S) \subseteq AlertType
    BY <1>3 DEF S, current, Present, NoDataLevel, AlertType, Level, Reading, Job
  <2>7. \A l \in levels(S \cup {t}) : ~IsWorseThan(l, j(t).worst)
    BY <1>4, <1>9, <2>1, <2>4, <2>6, WorseOfBounds, NotWorseThanItself
  <2>8. QED
    BY <1>4, <2>2, <2>3, <2>5, <2>7 DEF Accounts, alert, c, current
<1> HIDE DEF j, S
<1>11. OutcomeSoFar(r, j(t), RecordedBy(r)')
  BY <1>4, <1>6, <1>10 DEF OutcomeSoFar
<1>12. QED
  BY <1>2, <1>8, <1>11, OneJobOutcome

LEMMA NextOutcome == OutcomeInv /\ [Next]_vars => OutcomeInv'
<1> SUFFICES ASSUME OutcomeInv, [Next]_vars PROVE OutcomeInv'
  OBVIOUS
<1>1. TypeInv /\ OrderInv' /\ \A r \in Runs : job[r] \in Job
  BY NextOrder DEF OutcomeInv, OrderInv, TypeInv, TypeOK
<1>2. ASSUME NEW r \in Runs, NEW j, job' = [job EXCEPT ![r] = j],
             UNCHANGED <<alerts, purged>>,
             OutcomeSoFar(r, j, RecordedBy(r))
      PROVE  OutcomeInv'
  <2>1. \A q \in Runs : UNCHANGED RecordedBy(q)
    BY <1>2 DEF RecordedBy, Recorded
  <2>2. QED
    BY <1>2, <2>1, OneJobOutcome
<1>3. CASE PerformChecks
  <2> DEFINE r == scheduled + 1
             j == [Blank("queued") EXCEPT !.check = doc]
  <2>1. /\ job' = [job EXCEPT ![r] = j] /\ UNCHANGED <<alerts, purged>>
        /\ r \in Runs /\ r > scheduled
    BY <1>1, <1>3, ConstantsAssumption
    DEF PerformChecks, store, TypeInv, TypeOK, Runs
  <2>2. j.stage = "queued" /\ j.interesting = {}
    BY DEF Blank
  <2> HIDE DEF j, r
  <2>3. job[r].stage = "unborn"
    BY <2>1 DEF OutcomeInv, OrderInv
  <2>4. RecordedBy(r) = {}
    BY <2>1, <2>3 DEF OutcomeInv, OutcomeSoFar
  <2>5. OutcomeSoFar(r, j, RecordedBy(r))
    BY <2>2, <2>4 DEF OutcomeSoFar
  <2>6. QED
    BY <1>2, <2>1, <2>5
<1>4. ASSUME NEW r \in Runs, Begin(r) PROVE OutcomeInv'
  <2> DEFINE j == [job[r] EXCEPT !.stage = "fetch"]
  <2>1. /\ job' = [job EXCEPT ![r] = j] /\ UNCHANGED <<alerts, purged>>
        /\ job[r].stage = "queued"
    BY <1>4 DEF Begin, store
  <2>2. j.stage = "fetch" /\ j.interesting = job[r].interesting
    BY <1>1 DEF Job
  <2> HIDE DEF j
  <2>3. OutcomeSoFar(r, j, RecordedBy(r))
    BY <2>1, <2>2 DEF OutcomeInv, OutcomeSoFar
  <2>4. QED
    BY <1>2, <2>1, <2>3
<1>5. ASSUME NEW r \in Runs, job' = [job EXCEPT ![r] = Blank("done")],
             UNCHANGED <<alerts, purged>>
      PROVE  OutcomeInv'
  BY <1>2, <1>5, OverAccounts
<1>6. ASSUME NEW r \in Runs, UpdateState(r) PROVE OutcomeInv'
  <2> DEFINE j == [job[r] EXCEPT !.stage = "reread"]
  <2>1. /\ job' = [job EXCEPT ![r] = j] /\ UNCHANGED <<alerts, purged>>
        /\ job[r].stage = "update"
    BY <1>6 DEF UpdateState
  <2>2. /\ j.stage = "reread" /\ j.check = job[r].check
        /\ j.values = job[r].values /\ j.todo = job[r].todo
        /\ j.worst = job[r].worst /\ j.interesting = job[r].interesting
    BY <1>1 DEF Job
  <2> HIDE DEF j
  <2>3. OutcomeSoFar(r, j, RecordedBy(r))
    BY <2>1, <2>2, SameOutcome DEF OutcomeInv
  <2>4. QED
    BY <1>2, <2>1, <2>3
<1>7. ASSUME NEW r \in Runs, Reread(r) PROVE OutcomeInv'
  <2> DEFINE j == [job[r] EXCEPT !.stage = "tell", !.toTell = doc.subs,
                                 !.shown = doc.state]
  <2>1. /\ \/ job' = [job EXCEPT ![r] = Blank("done")]
           \/ job' = [job EXCEPT ![r] = j]
        /\ UNCHANGED <<alerts, purged>> /\ job[r].stage = "reread"
    BY <1>7 DEF Reread, store
  <2>2. /\ j.stage = "tell" /\ j.check = job[r].check
        /\ j.values = job[r].values /\ j.todo = job[r].todo
        /\ j.worst = job[r].worst /\ j.interesting = job[r].interesting
    BY <1>1 DEF Job
  <2> HIDE DEF j
  <2>3. OutcomeSoFar(r, j, RecordedBy(r))
    BY <2>1, <2>2, SameOutcome DEF OutcomeInv
  <2>4. QED
    BY <1>2, <1>5, <2>1, <2>3
<1>8. ASSUME NEW r \in Runs, NEW s \in Subs, Tell(r, s) PROVE OutcomeInv'
  <2> DEFINE j == [job[r] EXCEPT !.toTell = job[r].toTell \ {s}]
  <2>1. /\ \/ job' = [job EXCEPT ![r] = Blank("done")]
           \/ job' = [job EXCEPT ![r] = j]
        /\ UNCHANGED <<alerts, purged>> /\ job[r].stage = "tell"
    BY <1>8 DEF Tell, TellRest, store
  <2>2. /\ j.stage = "tell" /\ j.check = job[r].check
        /\ j.values = job[r].values /\ j.todo = job[r].todo
        /\ j.worst = job[r].worst /\ j.interesting = job[r].interesting
    BY <1>1, <2>1 DEF Job
  <2> HIDE DEF j
  <2>3. OutcomeSoFar(r, j, RecordedBy(r))
    BY <2>1, <2>2, SameOutcome DEF OutcomeInv
  <2>4. QED
    BY <1>2, <1>5, <2>1, <2>3
<1>9. ASSUME NEW r \in Runs, Fails(r) PROVE OutcomeInv'
  BY <1>5, <1>9 DEF Fails, store
<1>10. ASSUME NEW r \in Runs, Step(r) PROVE OutcomeInv'
  BY <1>4, <1>6, <1>7, <1>8, <1>10, FetchOutcome, EvaluateOutcome DEF Step
<1>11. ASSUME \A r \in Runs : /\ job'[r] \in {job[r], Blank("done")}
                              /\ UNCHANGED RecordedBy(r)
       PROVE  OutcomeInv'
  BY <1>1, <1>11, OverAccounts DEF OutcomeInv
<1>12. CASE Restart
  BY <1>11, <1>12 DEF Restart, RecordedBy, Recorded
<1>13. CASE UserStep
  <2>1. UNCHANGED job
    BY <1>13, UserStepsSpareRuns
  <2>2. \A r \in Runs : ~Evaluate(r)
    <3> SUFFICES ASSUME NEW r \in Runs, Evaluate(r) PROVE FALSE
      OBVIOUS
    <3>1. PICK k : job' = [job EXCEPT ![r] = k] /\ NearerToItsEnd(job[r], k)
      BY <1>1, EvaluateAdvances DEF Advances
    <3>2. k = job[r] /\ StageRank[job[r].stage] \in Int
      BY <1>1, <2>1, <3>1 DEF TypeInv, TypeOK, StageRank, Job, Stages
    <3>3. QED
      BY <3>1, <3>2 DEF NearerToItsEnd
  <2>3. QED
    BY <1>1, <1>11, <2>1, <2>2, RecordOfOthers
<1>14. CASE UNCHANGED vars
  BY <1>11, <1>14 DEF vars, RecordedBy, Recorded
<1>15. QED
  BY <1>3, <1>9, <1>10, <1>12, <1>13, <1>14 DEF Next

\* The record, the news and the verdict of a run are those that its values and
\* its copy of the check call for, in whatever order the loop of CheckRunner.run
\* takes them, for any number of targets, runs and users.
THEOREM OutcomeOfValues == Spec => []OutcomeFollowsFromValues
<1>1. Init => OutcomeInv
  <2> SUFFICES ASSUME Init PROVE OutcomeInv
    OBVIOUS
  <2>1. \A r \in Runs : RecordedBy(r) = {} /\ job[r] = Blank("unborn")
    BY DEF Init, RecordedBy, Recorded
  <2>2. QED
    BY <2>1, InitOrder, StageOfBlank, BlankHasNoNews DEF OutcomeInv, OutcomeSoFar
<1>2. OutcomeInv => OutcomeFollowsFromValues
  <2> SUFFICES ASSUME OutcomeInv, NEW r \in Runs,
                      job[r].stage \in {"update", "reread", "tell"}
               PROVE  Accounts(r, job[r], Present(job[r]), RecordedBy(r))
    BY DEF OutcomeFollowsFromValues
  <2>1. /\ job[r].todo = {}
        /\ Accounts(r, job[r], Present(job[r]) \ job[r].todo, RecordedBy(r))
    BY DEF OutcomeInv, OutcomeSoFar
  <2>2. Present(job[r]) \ job[r].todo = Present(job[r])
    BY <2>1
  <2>3. QED
    BY <2>1, <2>2
<1>3. QED
  BY <1>1, <1>2, NextOutcome, PTL DEF Spec

------------------------------------------------------------------------------
(***************************************************************************)
(* The messages of one run agree.  While the run still tells, each message *)
(* it has sent says what the run has in hand, and went to a subscription   *)
(* that the run is done with.                                              *)
(***************************************************************************)
SaysWhat(n, j) ==
    /\ n.level = j.worst /\ n.shows = j.shown /\ n.alerts = j.interesting
    /\ n.to \notin j.toTell

StoryInv ==
    /\ OrderInv
    /\ OneStoryPerRun
    /\ \A n \in sent : /\ job[n.run].stage \in {"tell", "done"}
                       /\ job[n.run].stage = "tell" => SaysWhat(n, job[n.run])

\* A step that sends nothing and leaves alone, or ends, the runs that tell.
LEMMA SilentStory ==
    ASSUME StoryInv, [Next]_vars, UNCHANGED sent,
           \A r \in Runs : \/ job'[r] = job[r]
                           \/ job'[r].stage = "done"
                           \/ job[r].stage \notin {"tell", "done"}
    PROVE  StoryInv'
<1>1. OrderInv' /\ OneStoryPerRun'
  BY NextOrder DEF StoryInv, OneStoryPerRun
<1>2. ASSUME NEW n \in sent
      PROVE  /\ job'[n.run].stage \in {"tell", "done"}
             /\ job'[n.run].stage = "tell" => SaysWhat(n, job'[n.run])
  <2>1. n.run \in Runs
    BY DEF StoryInv, OrderInv, TypeInv, TypeOK, Notice
  <2>2. QED
    BY <2>1 DEF StoryInv
<1>3. QED
  BY <1>1, <1>2 DEF StoryInv

LEMMA TellStory ==
    ASSUME StoryInv, [Next]_vars, NEW r \in Runs, NEW s \in Subs, Tell(r, s)
    PROVE  StoryInv'
<1> DEFINE j == [job[r] EXCEPT !.toTell = job[r].toTell \ {s}]
<1>1. /\ job[r] \in Job /\ job[r].stage = "tell" /\ s \in job[r].toTell
      /\ job \in [Runs -> Job] /\ \A n \in sent : n.run \in Runs
  BY DEF Tell, StoryInv, OrderInv, TypeInv, TypeOK, Notice
<1>2. /\ j.stage = "tell" /\ j.toTell = job[r].toTell \ {s}
      /\ j.worst = job[r].worst /\ j.shown = job[r].shown
      /\ j.interesting = job[r].interesting
  BY <1>1 DEF Job
<1>3. \/ job' = [job EXCEPT ![r] = j]
      \/ job' = [job EXCEPT ![r] = Blank("done")]
  BY DEF Tell, TellRest
<1> HIDE DEF j
<1>4. /\ job'[r] = j \/ job'[r].stage = "done"
      /\ \A q \in Runs : q # r => job'[q] = job[q]
  BY <1>1, <1>3, StageOfBlank
<1>5. \/ UNCHANGED sent
      \/ \E n : /\ sent' = sent \cup {n} /\ n.run = r /\ n.to = s
                /\ n.level = job[r].worst /\ n.shows = job[r].shown
                /\ n.alerts = job[r].interesting
  <2>1. CASE UNCHANGED sent
    BY <2>1
  <2>2. CASE ~UNCHANGED sent
    <3>1. PICK ok \in BOOLEAN :
            sent' = sent \cup
               {[run |-> r, to |-> s, level |-> job[r].worst,
                 shows |-> job[r].shown, alerts |-> job[r].interesting,
                 delivered |-> ok]}
      BY <2>2 DEF Tell
    <3> DEFINE n == [run |-> r, to |-> s, level |-> job[r].worst,
                     shows |-> job[r].shown, alerts |-> job[r].interesting,
                     delivered |-> ok]
    <3>2. /\ sent' = sent \cup {n} /\ n.run = r /\ n.to = s
          /\ n.level = job[r].worst /\ n.shows = job[r].shown
          /\ n.alerts = job[r].interesting
      BY <3>1
    <3> HIDE DEF n
    <3>3. QED
      BY <3>2
  <2>3. QED
    BY <2>1, <2>2
<1>6. \A n \in sent : n.run = r => SaysWhat(n, job[r]) /\ n.to # s
  BY <1>1 DEF StoryInv, SaysWhat
<1>7. \A n \in sent' :
         \/ n \in sent
         \/ /\ n.run = r /\ n.to = s
            /\ n.level = job[r].worst /\ n.shows = job[r].shown
            /\ n.alerts = job[r].interesting
  BY <1>5
<1>8. \A n, m \in sent' : n \notin sent /\ m \notin sent => n = m
  BY <1>5
<1>9. OneStoryPerRun'
  BY <1>6, <1>7, <1>8 DEF StoryInv, OneStoryPerRun, SaysWhat
<1>10. ASSUME NEW n \in sent'
       PROVE  /\ job'[n.run].stage \in {"tell", "done"}
              /\ job'[n.run].stage = "tell" => SaysWhat(n, job'[n.run])
  <2>1. CASE n.run = r
    BY <1>2, <1>4, <1>6, <1>7, <2>1 DEF SaysWhat
  <2>2. CASE n.run # r
    <3>1. n \in sent /\ n.run \in Runs
      BY <1>1, <1>7, <2>2
    <3>2. QED
      BY <1>4, <2>2, <3>1 DEF StoryInv
  <2>3. QED
    BY <2>1, <2>2
<1>11. QED
  BY <1>9, <1>10, NextOrder DEF StoryInv

LEMMA NextStory == StoryInv /\ [Next]_vars => StoryInv'
<1> SUFFICES ASSUME StoryInv, [Next]_vars PROVE StoryInv'
  OBVIOUS
<1>1. job \in [Runs -> Job] /\ TypeInv
  BY DEF StoryInv, OrderInv, TypeInv, TypeOK
<1>2. CASE PerformChecks
  <2> DEFINE q == scheduled + 1
             j == [Blank("queued") EXCEPT !.check = doc]
  <2>1. /\ job' = [job EXCEPT ![q] = j] /\ UNCHANGED sent
        /\ q \in Runs /\ q > scheduled
    BY <1>1, <1>2, ConstantsAssumption
    DEF PerformChecks, TypeInv, TypeOK, Runs
  <2> HIDE DEF j, q
  <2>2. job[q].stage = "unborn"
    BY <2>1 DEF StoryInv, OrderInv
  <2>3. QED
    BY <1>1, <2>1, <2>2, SilentStory
<1>3. ASSUME NEW r \in Runs, NEW j, job' = [job EXCEPT ![r] = j],
             UNCHANGED sent,
             job[r].stage \notin {"tell", "done"} \/ j.stage = "done"
      PROVE  StoryInv'
  BY <1>1, <1>3, SilentStory
<1>4. ASSUME NEW r \in Runs, Step(r) \/ Fails(r) PROVE StoryInv'
  <2>1. CASE \E s \in Subs : Tell(r, s)
    BY <2>1, TellStory
  <2>2. CASE ~ \E s \in Subs : Tell(r, s)
    <3>1. UNCHANGED sent /\ job[r].stage \notin {"tell", "done"}
      BY <1>4, <2>2
      DEF Step, Fails, Begin, Fetch, Evaluate, UpdateState, Reread
    <3>2. PICK j : job' = [job EXCEPT ![r] = j]
      BY <1>1, <1>4, StepAdvances DEF Advances
    <3>3. QED
      BY <1>3, <3>1, <3>2
  <2>3. QED
    BY <2>1, <2>2
<1>5. CASE Restart
  <2>1. \A r \in Runs : job'[r] = job[r] \/ job'[r].stage = "done"
    BY <1>5, StageOfBlank DEF Restart
  <2>2. QED
    BY <1>5, <2>1, SilentStory DEF Restart
<1>6. CASE UserStep \/ UNCHANGED vars
  BY <1>6, UserStepsSpareRuns, SilentStory DEF vars
<1>7. QED
  BY <1>2, <1>4, <1>5, <1>6 DEF Next

\* The messages of one run agree and no subscription gets two of them, for any
\* number of subscriptions, whatever is written between one message and the
\* next (CheckRunner.run keeps what it read).
THEOREM OneStory == Spec => []OneStoryPerRun
<1>1. Init => StoryInv
  BY InitOrder DEF Init, StoryInv, OneStoryPerRun
<1>2. StoryInv => OneStoryPerRun
  BY DEF StoryInv
<1>3. QED
  BY <1>1, <1>2, NextStory, PTL DEF Spec
==============================================================================
