--------------------------- MODULE CheckRunsProofs ---------------------------
(***************************************************************************)
(* Proofs about CheckRuns, for every number of runs, threads, targets,     *)
(* subscriptions and pages, and with all faults allowed.                   *)
(***************************************************************************)
EXTENDS CheckRuns, TLAPS

\* What the type invariant needs to be inductive: a run that is under way
\* holds a copy of the check, and only values that are present wait for
\* judgement.
JobIsSound(j) ==
    /\ j.stage \in Active \cup {"queued"} => j.check # NoDoc
    /\ \A t \in j.todo : j.values[t] # "NONE"

JobsAreSound == \A r \in Runs : JobIsSound(job[r])

TypeInv == TypeOK /\ JobsAreSound

------------------------------------------------------------------------------
(* Lemmas about the operators. *)

LEMMA BlankIsJob ==
    ASSUME NEW s \in Stages
    PROVE  /\ Blank(s) \in Job
           /\ s \in {"unborn", "done"} => JobIsSound(Blank(s))
BY DEF Blank, Job, NoValues, Reading, Level, AlertType, Stages, Active,
       JobIsSound

LEMMA LevelsAreAlertTypes == Level \subseteq AlertType /\ Problem \subseteq Level
BY DEF Level, AlertType, Problem

\* Replacing one run's job by a sound one keeps all jobs sound.
LEMMA JobUpdate ==
    ASSUME TypeInv, NEW r \in Runs, NEW j \in Job, JobIsSound(j),
           job' = [job EXCEPT ![r] = j]
    PROVE  job' \in [Runs -> Job] /\ JobsAreSound'
BY DEF TypeInv, TypeOK, JobsAreSound, JobIsSound

------------------------------------------------------------------------------

LEMMA InitTypeInv == Init => TypeInv
<1> SUFFICES ASSUME Init PROVE TypeInv
  OBVIOUS
<1>1. doc \in CheckDoc
  BY ConstantsAssumption
  DEF Init, Created, CheckDoc, NoValues, Reading, Level, AlertType
<1>2. Blank("unborn") \in Job /\ JobIsSound(Blank("unborn"))
  BY BlankIsJob DEF Stages
<1>3. job \in [Runs -> Job] /\ JobsAreSound
  BY <1>2 DEF Init, JobsAreSound
<1>4. scheduled \in 0 .. MaxRuns
  BY ConstantsAssumption DEF Init
<1>5. page \in [Pages -> CheckDoc \cup {NoDoc}]
  BY DEF Init
<1>6. alerts = {} /\ sent = {} /\ purged = {} /\ deleting = FALSE
  BY DEF Init
<1>7. QED
  BY <1>1, <1>3, <1>4, <1>5, <1>6 DEF TypeInv, TypeOK

LEMMA PerformChecksType ==
    ASSUME TypeInv, PerformChecks
    PROVE  TypeInv'
<1> DEFINE r == scheduled + 1
           j == [Blank("queued") EXCEPT !.check = doc]
<1>1. r \in Runs /\ scheduled' \in 0 .. MaxRuns
  BY ConstantsAssumption DEF PerformChecks, TypeInv, TypeOK, Runs
<1>2. doc \in CheckDoc /\ doc # NoDoc
  BY DEF PerformChecks, TypeInv, TypeOK
<1>3. Blank("queued") \in Job /\ Blank("queued").todo = {}
  BY BlankIsJob DEF Stages, Blank
<1>4. j \in Job /\ j.check = doc /\ j.todo = {}
  BY <1>2, <1>3 DEF Job
<1>5. JobIsSound(j)
  BY <1>2, <1>4 DEF JobIsSound
<1>6. job' = [job EXCEPT ![r] = j]
  BY DEF PerformChecks
<1> HIDE DEF j, r
<1>7. job' \in [Runs -> Job] /\ JobsAreSound'
  BY <1>1, <1>4, <1>5, <1>6, JobUpdate
<1>8. QED
  BY <1>1, <1>7 DEF PerformChecks, store, TypeInv, TypeOK

\* Moving a run on to another active stage without giving it new values.
LEMMA StageType ==
    ASSUME TypeInv, NEW r \in Runs, NEW s \in Active,
           job[r].stage \in Active \cup {"queued"},
           job' = [job EXCEPT ![r].stage = s]
    PROVE  job' \in [Runs -> Job] /\ JobsAreSound'
<1> DEFINE j == [job[r] EXCEPT !.stage = s]
<1>1. job[r] \in Job /\ JobIsSound(job[r])
  BY DEF TypeInv, TypeOK, JobsAreSound
<1>2. j \in Job /\ j.check = job[r].check /\ j.todo = job[r].todo
        /\ j.values = job[r].values
  BY <1>1 DEF Job, Active, Stages
<1>3. JobIsSound(j)
  BY <1>1, <1>2 DEF JobIsSound
<1>4. job' = [job EXCEPT ![r] = j]
  OBVIOUS
<1> HIDE DEF j
<1>5. QED
  BY <1>2, <1>3, <1>4, JobUpdate

\* The end of a run.
LEMMA DoneType ==
    ASSUME TypeInv, NEW r \in Runs, job' = [job EXCEPT ![r] = Blank("done")]
    PROVE  job' \in [Runs -> Job] /\ JobsAreSound'
<1>1. Blank("done") \in Job /\ JobIsSound(Blank("done"))
  BY BlankIsJob DEF Stages
<1>2. QED
  BY <1>1, JobUpdate

LEMMA BeginType ==
    ASSUME TypeInv, NEW r \in Runs, Begin(r)
    PROVE  TypeInv'
<1>1. job' \in [Runs -> Job] /\ JobsAreSound'
  BY StageType DEF Begin, Active
<1>2. QED
  BY <1>1 DEF Begin, store, TypeInv, TypeOK

LEMMA FetchType ==
    ASSUME TypeInv, NEW r \in Runs, Fetch(r)
    PROVE  TypeInv'
<1>1. PICK vals \in [Targets -> Reading] :
         LET present == {t \in Targets : vals[t] # "NONE"}
         IN  job' = [job EXCEPT
                ![r].stage  = IF present = {} THEN "update" ELSE "evaluate",
                ![r].values = vals,
                ![r].todo   = present,
                ![r].worst  = NoDataLevel(job[r].check)]
  BY DEF Fetch
<1> DEFINE present == {t \in Targets : vals[t] # "NONE"}
           j == [job[r] EXCEPT
                   !.stage = IF present = {} THEN "update" ELSE "evaluate",
                   !.values = vals,
                   !.todo = present,
                   !.worst = NoDataLevel(job[r].check)]
<1>2. job' = [job EXCEPT ![r] = j]
  BY <1>1
<1>a. job[r] \in Job
  BY DEF TypeInv, TypeOK
<1>b. NoDataLevel(job[r].check) \in AlertType
  BY DEF NoDataLevel, AlertType
<1>c. j \in Job
  BY <1>a, <1>b DEF Job, Stages
<1>d. job[r].check # NoDoc
  BY DEF Fetch, Active, TypeInv, JobsAreSound, JobIsSound
<1>e. j.check = job[r].check /\ j.values = vals /\ j.todo = present
  BY <1>a DEF Job
<1>f. JobIsSound(j)
  BY <1>d, <1>e DEF JobIsSound
<1>3. j \in Job /\ JobIsSound(j)
  BY <1>c, <1>f
<1> HIDE DEF j
<1>4. job' \in [Runs -> Job] /\ JobsAreSound'
  BY <1>2, <1>3, JobUpdate
<1>5. QED
  BY <1>4 DEF Fetch, store, TypeInv, TypeOK

LEMMA EvaluateType ==
    ASSUME TypeInv, NEW r \in Runs, Evaluate(r)
    PROVE  TypeInv'
<1> DEFINE c == job[r].check
           current(t) == job[r].values[t]
           alert(t) == [run |-> r, target |-> t,
                        from |-> c.state, to |-> current(t)]
           rest(t) == job[r].todo \ {t}
           told(t) == IF ~Skips(c, current(t)) /\ IsInteresting(c, current(t))
                      THEN {alert(t)} ELSE {}
           j(t) == [job[r] EXCEPT
                      !.stage = IF rest(t) = {} THEN "update" ELSE "evaluate",
                      !.todo = rest(t),
                      !.worst = WorseOf(current(t), job[r].worst),
                      !.interesting = job[r].interesting \cup told(t)]
<1>1. PICK t \in job[r].todo :
         /\ IF Skips(c, current(t)) THEN UNCHANGED alerts
                                    ELSE CreateAlert(alert(t))
         /\ job' = [job EXCEPT
               ![r].stage = IF rest(t) = {} THEN "update" ELSE "evaluate",
               ![r].todo = rest(t),
               ![r].worst = WorseOf(current(t), job[r].worst),
               ![r].interesting = job[r].interesting \cup told(t)]
  BY DEF Evaluate
<1>2. job[r] \in Job /\ JobIsSound(job[r])
  BY DEF TypeInv, TypeOK, JobsAreSound
<1>3. t \in Targets /\ current(t) \in Level
  BY <1>2 DEF Job, JobIsSound, Reading
<1>4. c \in CheckDoc /\ c # NoDoc
  BY <1>2 DEF Evaluate, Active, Job, JobIsSound
<1>5. alert(t) \in Alert
  BY <1>3, <1>4, LevelsAreAlertTypes DEF Alert, CheckDoc
<1>6. WorseOf(current(t), job[r].worst) \in AlertType
  BY <1>2, <1>3, LevelsAreAlertTypes DEF WorseOf, Job
<1>7. told(t) \in SUBSET Alert
  BY <1>5
<1> HIDE DEF told, alert, current
<1>8. j(t) \in Job
  BY <1>2, <1>6, <1>7 DEF Job, Stages
<1>9. j(t).check = c /\ j(t).values = job[r].values
        /\ j(t).todo = job[r].todo \ {t}
  BY <1>2 DEF Job
<1>10. JobIsSound(j(t))
  BY <1>2, <1>4, <1>9 DEF JobIsSound
<1>11. job' = [job EXCEPT ![r] = j(t)]
  BY <1>1
<1> HIDE DEF j
<1>12. job' \in [Runs -> Job] /\ JobsAreSound'
  BY <1>8, <1>10, <1>11, JobUpdate
<1>13. alerts' \in SUBSET Alert
  BY <1>1, <1>5 DEF CreateAlert, TypeInv, TypeOK
<1>14. QED
  BY <1>12, <1>13 DEF Evaluate, TypeInv, TypeOK

LEMMA UpdateStateType ==
    ASSUME TypeInv, NEW r \in Runs, UpdateState(r)
    PROVE  TypeInv'
<1>1. job[r] \in Job /\ job[r].check # NoDoc
  BY DEF UpdateState, Active, TypeInv, TypeOK, JobsAreSound, JobIsSound
<1>2. NewState(job[r].check, job[r].worst) \in AlertType
  BY <1>1 DEF NewState, Job, CheckDoc
<1>3. job[r].values \in [Targets -> Reading] /\ r \in 0 .. MaxRuns
  BY <1>1, ConstantsAssumption DEF Job, Runs
<1>4. doc' \in CheckDoc \cup {NoDoc}
  BY <1>2, <1>3 DEF UpdateState, SetStateAndLastCheckAndLastValues, CheckDoc,
                    TypeInv, TypeOK
<1>5. job' \in [Runs -> Job] /\ JobsAreSound'
  BY StageType DEF UpdateState, Active
<1>6. QED
  BY <1>4, <1>5 DEF UpdateState, TypeInv, TypeOK

LEMMA RereadType ==
    ASSUME TypeInv, NEW r \in Runs, Reread(r)
    PROVE  TypeInv'
<1>1. CASE doc = NoDoc \/ job[r].interesting = {} \/ doc.subs = {}
  <2>1. job' \in [Runs -> Job] /\ JobsAreSound'
    BY <1>1, DoneType DEF Reread
  <2>2. QED
    BY <2>1 DEF Reread, store, TypeInv, TypeOK
<1>2. CASE ~(doc = NoDoc \/ job[r].interesting = {} \/ doc.subs = {})
  <2> DEFINE j == [job[r] EXCEPT !.stage = "tell", !.toTell = doc.subs,
                                 !.shown = doc.state]
  <2>1. job[r] \in Job /\ JobIsSound(job[r])
    BY DEF TypeInv, TypeOK, JobsAreSound
  <2>2. doc.subs \in SUBSET Subs /\ doc.state \in AlertType
    BY <1>2 DEF TypeInv, TypeOK, CheckDoc
  <2>3. j \in Job /\ j.check = job[r].check /\ j.todo = job[r].todo
          /\ j.values = job[r].values
    BY <2>1, <2>2 DEF Job, Stages
  <2>4. JobIsSound(j)
    BY <2>1, <2>3 DEF Reread, JobIsSound, Active
  <2>5. job' = [job EXCEPT ![r] = j]
    BY <1>2 DEF Reread
  <2> HIDE DEF j
  <2>6. job' \in [Runs -> Job] /\ JobsAreSound'
    BY <2>3, <2>4, <2>5, JobUpdate
  <2>7. QED
    BY <2>6 DEF Reread, store, TypeInv, TypeOK
<1>3. QED
  BY <1>1, <1>2

LEMMA TellRestType ==
    ASSUME TypeInv, NEW r \in Runs, NEW s \in Subs, TellRest(r, s)
    PROVE  job' \in [Runs -> Job] /\ JobsAreSound'
<1>1. CASE job[r].toTell = {s}
  BY <1>1, DoneType DEF TellRest
<1>2. CASE job[r].toTell # {s}
  <2> DEFINE j == [job[r] EXCEPT !.toTell = job[r].toTell \ {s}]
  <2>1. job[r] \in Job /\ JobIsSound(job[r])
    BY DEF TypeInv, TypeOK, JobsAreSound
  <2>2. j \in Job /\ j.stage = job[r].stage /\ j.check = job[r].check
          /\ j.todo = job[r].todo /\ j.values = job[r].values
    BY <2>1 DEF Job
  <2>3. JobIsSound(j)
    BY <2>1, <2>2 DEF JobIsSound
  <2>4. job' = [job EXCEPT ![r] = j]
    BY <1>2 DEF TellRest
  <2> HIDE DEF j
  <2>5. QED
    BY <2>2, <2>3, <2>4, JobUpdate
<1>3. QED
  BY <1>1, <1>2

LEMMA TellType ==
    ASSUME TypeInv, NEW r \in Runs, NEW s \in Subs, Tell(r, s)
    PROVE  TypeInv'
<1>1. job' \in [Runs -> Job] /\ JobsAreSound'
  BY TellRestType, DoneType DEF Tell
<1>2. job[r] \in Job
  BY DEF TypeInv, TypeOK
<1>3. sent' \in SUBSET Notice
  <2>1. CASE UNCHANGED sent
    BY <2>1 DEF TypeInv, TypeOK
  <2>2. CASE sent' # sent
    <3>1. PICK ok \in BOOLEAN :
            sent' = sent \cup
               {[run |-> r, to |-> s, level |-> job[r].worst,
                 shows |-> job[r].shown, alerts |-> job[r].interesting,
                 delivered |-> ok]}
      BY <2>2 DEF Tell
    <3>2. QED
      BY <1>2, <3>1 DEF Job, Notice, TypeInv, TypeOK
  <2>3. QED
    BY <2>1, <2>2
<1>4. QED
  BY <1>1, <1>3 DEF Tell, store, TypeInv, TypeOK

LEMMA FailsType ==
    ASSUME TypeInv, NEW r \in Runs, Fails(r)
    PROVE  TypeInv'
<1>1. job' \in [Runs -> Job] /\ JobsAreSound'
  BY DoneType DEF Fails
<1>2. QED
  BY <1>1 DEF Fails, store, TypeInv, TypeOK

LEMMA RestartType ==
    ASSUME TypeInv, Restart
    PROVE  TypeInv'
<1>1. Blank("done") \in Job /\ JobIsSound(Blank("done"))
  BY BlankIsJob DEF Stages
<1>2. job' \in [Runs -> Job] /\ JobsAreSound'
  BY <1>1 DEF Restart, TypeInv, TypeOK, JobsAreSound
<1>3. QED
  BY <1>2 DEF Restart, TypeInv, TypeOK

LEMMA PutCheckType ==
    ASSUME TypeInv, NEW copy \in CheckDoc, PutCheck(copy),
           page' \in [Pages -> CheckDoc \cup {NoDoc}]
    PROVE  TypeInv'
<1>1. doc' \in CheckDoc \cup {NoDoc}
  BY DEF PutCheck, SaveCheck, CheckDoc, TypeInv, TypeOK
<1>2. QED
  BY <1>1 DEF PutCheck, TypeInv, TypeOK, JobsAreSound

LEMMA UserStepType ==
    ASSUME TypeInv, UserStep
    PROVE  TypeInv'
<1>1. ASSUME NEW p \in Pages, LoadCheck(p) PROVE TypeInv'
  BY <1>1 DEF LoadCheck, store, TypeInv, TypeOK, JobsAreSound
<1>2. ASSUME NEW p \in Pages, SwapCheckEnabled(p) PROVE TypeInv'
  <2> DEFINE copy == [page[p] EXCEPT !.enabled = ~page[p].enabled]
  <2>1. page[p] \in CheckDoc
    BY <1>2 DEF SwapCheckEnabled, TypeInv, TypeOK
  <2>2. copy \in CheckDoc
    BY <2>1 DEF CheckDoc
  <2>3. PutCheck(copy) /\ page' = [page EXCEPT ![p] = copy]
    BY <1>2 DEF SwapCheckEnabled
  <2> HIDE DEF copy
  <2>4. QED
    BY <2>2, <2>3, PutCheckType DEF TypeInv, TypeOK
<1>3. ASSUME NEW p \in Pages, ResetCheckState(p) PROVE TypeInv'
  <2> DEFINE copy == [page[p] EXCEPT !.state = "OK"]
  <2>1. page[p] \in CheckDoc
    BY <1>3 DEF ResetCheckState, TypeInv, TypeOK
  <2>2. copy \in CheckDoc
    BY <2>1 DEF CheckDoc, AlertType
  <2>3. PutCheck(copy) /\ page' = [page EXCEPT ![p] = copy]
    BY <1>3 DEF ResetCheckState
  <2> HIDE DEF copy
  <2>4. QED
    BY <2>2, <2>3, PutCheckType DEF TypeInv, TypeOK
<1>4. ASSUME NEW p \in Pages, UpdateCheck(p) PROVE TypeInv'
  <2>1. PICK s \in Settings : PutCheck([page[p] EXCEPT !.settings = s])
    BY <1>4 DEF UpdateCheck
  <2>2. [page[p] EXCEPT !.settings = s] \in CheckDoc
    BY <1>4 DEF UpdateCheck, CheckDoc, TypeInv, TypeOK
  <2>3. page' \in [Pages -> CheckDoc \cup {NoDoc}]
    BY <1>4 DEF UpdateCheck, TypeInv, TypeOK
  <2>4. QED
    BY <2>1, <2>2, <2>3, PutCheckType
<1>4a. ASSUME NEW p \in Pages, SwapCheckAllowNoData(p) PROVE TypeInv'
  <2>1. PICK s \in Settings :
           /\ PutCheck([page[p] EXCEPT !.settings = s])
           /\ page' = [page EXCEPT ![p] = [page[p] EXCEPT !.settings = s]]
    BY <1>4a DEF SwapCheckAllowNoData
  <2>2. [page[p] EXCEPT !.settings = s] \in CheckDoc
    BY <1>4a DEF SwapCheckAllowNoData, CheckDoc, TypeInv, TypeOK
  <2>3. page' \in [Pages -> CheckDoc \cup {NoDoc}]
    BY <2>1, <2>2 DEF TypeInv, TypeOK
  <2>4. QED
    BY <2>1, <2>2, <2>3, PutCheckType
<1>5. ASSUME NEW s \in Subs, CreateSubscription(s) \/ DeleteSubscription(s)
      PROVE  TypeInv'
  BY <1>5 DEF CreateSubscription, DeleteSubscription, CheckDoc,
              TypeInv, TypeOK, JobsAreSound
<1>6. CASE DeleteAlertsForCheck
  BY <1>6 DEF DeleteAlertsForCheck, DeleteAlerts, TypeInv, TypeOK, JobsAreSound
<1>7. CASE DeleteCheckDocument
  BY <1>7 DEF DeleteCheckDocument, TypeInv, TypeOK, JobsAreSound
<1>8. CASE DeleteCheckAlerts
  BY <1>8 DEF DeleteCheckAlerts, DeleteAlerts, TypeInv, TypeOK, JobsAreSound
<1>9. QED
  BY <1>1, <1>2, <1>3, <1>4, <1>4a, <1>5, <1>6, <1>7, <1>8 DEF UserStep

LEMMA NextTypeInv == TypeInv /\ [Next]_vars => TypeInv'
<1> SUFFICES ASSUME TypeInv, [Next]_vars PROVE TypeInv'
  OBVIOUS
<1>1. CASE PerformChecks
  BY <1>1, PerformChecksType
<1>2. ASSUME NEW r \in Runs, Step(r) \/ Fails(r) PROVE TypeInv'
  BY <1>2, BeginType, FetchType, EvaluateType, UpdateStateType, RereadType,
     TellType, FailsType DEF Step
<1>3. CASE Restart
  BY <1>3, RestartType
<1>4. CASE UserStep
  BY <1>4, UserStepType
<1>5. CASE UNCHANGED vars
  BY <1>5 DEF vars, TypeInv, TypeOK, JobsAreSound
<1>6. QED
  BY <1>1, <1>2, <1>3, <1>4, <1>5 DEF Next

LEMMA SpecTypeInv == Spec => []TypeInv
BY InitTypeInv, NextTypeInv, PTL DEF Spec

\* The variables keep their types in every behaviour of the check's life.
THEOREM TypeCorrect == Spec => []TypeOK
<1>1. TypeInv => TypeOK
  BY DEF TypeInv
<1>2. QED
  BY <1>1, SpecTypeInv, PTL

------------------------------------------------------------------------------
(***************************************************************************)
(* A state is backed by an alert.  StateBackedByAlert alone is not         *)
(* inductive: the state written may come from a run's verdict, or, on a    *)
(* stale save, from a page, and both took it from elsewhere.  So every     *)
(* copy of the check and every verdict is backed, and alerts once recorded *)
(* stay recorded.                                                          *)
(***************************************************************************)
BackedBy(s, recorded) == s \in Problem => \E a \in recorded : a.to = s

CopiesAreBacked ==
    /\ doc # NoDoc => BackedBy(doc.state, Recorded)
    /\ \A p \in Pages : page[p] # NoDoc => BackedBy(page[p].state, Recorded)
    /\ \A r \in Runs :
          /\ job[r].check # NoDoc => BackedBy(job[r].check.state, Recorded)
          /\ BackedBy(job[r].worst, Recorded)

BackedInv == TypeInv /\ CopiesAreBacked

LEMMA BackedByMore ==
    ASSUME NEW s, NEW A, NEW B, A \subseteq B, BackedBy(s, A)
    PROVE  BackedBy(s, B)
BY DEF BackedBy

LEMMA HarmlessIsBacked ==
    ASSUME NEW s \in {"UNKNOWN", "OK"}, NEW A
    PROVE  BackedBy(s, A)
BY DEF BackedBy, Problem

LEMMA BlankIsBacked ==
    ASSUME NEW s, NEW A
    PROVE  Blank(s).check = NoDoc /\ BackedBy(Blank(s).worst, A)
BY DEF Blank, BackedBy, Problem

LEMMA RecordedGrows ==
    ASSUME TypeInv, [Next]_vars
    PROVE  Recorded \subseteq Recorded'
<1>1. CASE \E r \in Runs : Evaluate(r)
  BY <1>1 DEF Evaluate, CreateAlert, Recorded
<1>2. CASE DeleteAlertsForCheck \/ DeleteCheckAlerts
  BY <1>2 DEF DeleteAlertsForCheck, DeleteCheckAlerts, DeleteAlerts, Recorded
<1>3. CASE UNCHANGED <<alerts, purged>>
  BY <1>3 DEF Recorded
<1>4. QED
  BY <1>1, <1>2, <1>3
  DEF Next, vars, Step, UserStep, PerformChecks, Begin, Fetch, UpdateState,
      Reread, Tell, Fails, Restart, LoadCheck, SwapCheckEnabled,
      ResetCheckState, SwapCheckAllowNoData, UpdateCheck, PutCheck,
      CreateSubscription,
      DeleteSubscription, DeleteCheckDocument, store

\* A step that changes one run, the document and the pages only in ways that
\* keep them backed keeps every copy backed.
LEMMA OneJobBacked ==
    ASSUME BackedInv, [Next]_vars, NEW r \in Runs, NEW j,
           job' = [job EXCEPT ![r] = j],
           j.check # NoDoc => BackedBy(j.check.state, Recorded'),
           BackedBy(j.worst, Recorded')
    PROVE  \A q \in Runs :
              /\ job'[q].check # NoDoc =>
                    BackedBy(job'[q].check.state, Recorded')
              /\ BackedBy(job'[q].worst, Recorded')
<1> SUFFICES ASSUME NEW q \in Runs
             PROVE  /\ job'[q].check # NoDoc =>
                          BackedBy(job'[q].check.state, Recorded')
                    /\ BackedBy(job'[q].worst, Recorded')
  OBVIOUS
<1>1. CASE q = r
  <2>1. job'[q] = j
    BY <1>1 DEF BackedInv, TypeInv, TypeOK
  <2>2. QED
    BY <2>1
<1>2. CASE q # r
  <2>1. job'[q] = job[q]
    BY <1>2 DEF BackedInv, TypeInv, TypeOK
  <2>2. Recorded \subseteq Recorded'
    BY RecordedGrows DEF BackedInv
  <2>3. QED
    BY <2>1, <2>2, BackedByMore DEF BackedInv, CopiesAreBacked
<1>3. QED
  BY <1>1, <1>2

\* The document and the pages keep their backing when they do not change.
LEMMA SameDocBacked ==
    ASSUME BackedInv, [Next]_vars, UNCHANGED <<doc, page>>
    PROVE  /\ doc' # NoDoc => BackedBy(doc'.state, Recorded')
           /\ \A p \in Pages :
                 page'[p] # NoDoc => BackedBy(page'[p].state, Recorded')
<1>1. Recorded \subseteq Recorded'
  BY RecordedGrows DEF BackedInv
<1>2. QED
  BY <1>1, BackedByMore DEF BackedInv, CopiesAreBacked

\* The same for the runs.
LEMMA SameJobsBacked ==
    ASSUME BackedInv, [Next]_vars, UNCHANGED job
    PROVE  \A q \in Runs :
              /\ job'[q].check # NoDoc =>
                    BackedBy(job'[q].check.state, Recorded')
              /\ BackedBy(job'[q].worst, Recorded')
<1>1. Recorded \subseteq Recorded'
  BY RecordedGrows DEF BackedInv
<1>2. QED
  BY <1>1, BackedByMore DEF BackedInv, CopiesAreBacked

\* A stage change, and the end of a run.
LEMMA StageBacked ==
    ASSUME BackedInv, [Next]_vars, UNCHANGED <<doc, page>>,
           NEW r \in Runs, NEW j,
           job' = [job EXCEPT ![r] = j],
           \/ j.check = job[r].check /\ j.worst = job[r].worst
           \/ j = Blank("done")
    PROVE  CopiesAreBacked'
<1>1. Recorded \subseteq Recorded'
  BY RecordedGrows DEF BackedInv
<1>2. j.check # NoDoc => BackedBy(j.check.state, Recorded')
  BY <1>1, BackedByMore, BlankIsBacked DEF BackedInv, CopiesAreBacked
<1>3. BackedBy(j.worst, Recorded')
  BY <1>1, BackedByMore, BlankIsBacked DEF BackedInv, CopiesAreBacked
<1>4. QED
  BY <1>2, <1>3, OneJobBacked, SameDocBacked DEF CopiesAreBacked

LEMMA InitBacked == Init => BackedInv
<1> SUFFICES ASSUME Init PROVE CopiesAreBacked
  BY InitTypeInv DEF BackedInv
<1>1. doc.state = "OK"
  BY DEF Init, Created
<1>2. \A r \in Runs : job[r] = Blank("unborn")
  BY DEF Init
<1>3. QED
  BY <1>1, <1>2, HarmlessIsBacked, BlankIsBacked DEF Init, CopiesAreBacked

LEMMA PerformChecksBacked ==
    ASSUME BackedInv, [Next]_vars, PerformChecks
    PROVE  CopiesAreBacked'
<1> DEFINE r == scheduled + 1
           j == [Blank("queued") EXCEPT !.check = doc]
<1>1. r \in Runs
  BY ConstantsAssumption DEF PerformChecks, BackedInv, TypeInv, TypeOK, Runs
<1>2. j.check = doc /\ j.worst = "UNKNOWN"
  BY DEF Blank
<1>3. Recorded' = Recorded
  BY DEF PerformChecks, store, Recorded
<1>4. j.check # NoDoc => BackedBy(j.check.state, Recorded')
  BY <1>2, <1>3 DEF BackedInv, CopiesAreBacked
<1>5. BackedBy(j.worst, Recorded')
  BY <1>2, HarmlessIsBacked
<1>6. job' = [job EXCEPT ![r] = j] /\ UNCHANGED <<doc, page>>
  BY DEF PerformChecks, store
<1> HIDE DEF r, j
<1>7. QED
  BY <1>1, <1>4, <1>5, <1>6, OneJobBacked, SameDocBacked DEF CopiesAreBacked

LEMMA FetchBacked ==
    ASSUME BackedInv, [Next]_vars, NEW r \in Runs, Fetch(r)
    PROVE  CopiesAreBacked'
<1>1. PICK vals \in [Targets -> Reading] :
         LET present == {t \in Targets : vals[t] # "NONE"}
         IN  job' = [job EXCEPT
                ![r].stage  = IF present = {} THEN "update" ELSE "evaluate",
                ![r].values = vals,
                ![r].todo   = present,
                ![r].worst  = NoDataLevel(job[r].check)]
  BY DEF Fetch
<1> DEFINE present == {t \in Targets : vals[t] # "NONE"}
           j == [job[r] EXCEPT
                   !.stage = IF present = {} THEN "update" ELSE "evaluate",
                   !.values = vals,
                   !.todo = present,
                   !.worst = NoDataLevel(job[r].check)]
<1>2. job' = [job EXCEPT ![r] = j]
  BY <1>1
<1>3. job[r] \in Job
  BY DEF BackedInv, TypeInv, TypeOK
<1>4. j.check = job[r].check /\ j.worst = NoDataLevel(job[r].check)
  BY <1>3 DEF Job
<1>5. BackedBy(j.worst, Recorded')
  BY <1>4, HarmlessIsBacked DEF NoDataLevel
<1>6. j.check # NoDoc => BackedBy(j.check.state, Recorded')
  BY <1>4, RecordedGrows, BackedByMore DEF BackedInv, CopiesAreBacked
<1>7. UNCHANGED <<doc, page>>
  BY DEF Fetch, store
<1> HIDE DEF j
<1>8. QED
  BY <1>2, <1>5, <1>6, <1>7, OneJobBacked, SameDocBacked DEF CopiesAreBacked

\* The heart of the matter: a value whose level is a problem either stores an
\* alert to that level, or is skipped because the check the run saw was at
\* that level already, and then that copy's backing is the value's as well.
LEMMA EvaluateBacked ==
    ASSUME BackedInv, [Next]_vars, NEW r \in Runs, Evaluate(r)
    PROVE  CopiesAreBacked'
<1> DEFINE c == job[r].check
           current(t) == job[r].values[t]
           alert(t) == [run |-> r, target |-> t,
                        from |-> c.state, to |-> current(t)]
           rest(t) == job[r].todo \ {t}
           told(t) == IF ~Skips(c, current(t)) /\ IsInteresting(c, current(t))
                      THEN {alert(t)} ELSE {}
           j(t) == [job[r] EXCEPT
                      !.stage = IF rest(t) = {} THEN "update" ELSE "evaluate",
                      !.todo = rest(t),
                      !.worst = WorseOf(current(t), job[r].worst),
                      !.interesting = job[r].interesting \cup told(t)]
<1>1. PICK t \in job[r].todo :
         /\ IF Skips(c, current(t)) THEN UNCHANGED alerts
                                    ELSE CreateAlert(alert(t))
         /\ job' = [job EXCEPT
               ![r].stage = IF rest(t) = {} THEN "update" ELSE "evaluate",
               ![r].todo = rest(t),
               ![r].worst = WorseOf(current(t), job[r].worst),
               ![r].interesting = job[r].interesting \cup told(t)]
  BY DEF Evaluate
<1>2. job[r] \in Job /\ c # NoDoc
  BY DEF Evaluate, Active, BackedInv, TypeInv, TypeOK, JobsAreSound, JobIsSound
<1>3. job' = [job EXCEPT ![r] = j(t)] /\ UNCHANGED <<doc, page>>
  BY <1>1 DEF Evaluate
<1>4. j(t).check = c /\ j(t).worst = WorseOf(current(t), job[r].worst)
  BY <1>2 DEF Job
<1>5. Recorded \subseteq Recorded'
  BY RecordedGrows DEF BackedInv
<1>6. BackedBy(c.state, Recorded') /\ BackedBy(job[r].worst, Recorded')
  BY <1>2, <1>5, BackedByMore DEF BackedInv, CopiesAreBacked
<1>7. BackedBy(current(t), Recorded')
  <2>1. CASE Skips(c, current(t))
    <3>1. current(t) = "OK" \/ current(t) = c.state
      BY <2>1 DEF Skips, IsStillOk, StateIsTheSame
    <3>2. QED
      BY <3>1, <1>6, HarmlessIsBacked
  <2>2. CASE ~Skips(c, current(t))
    <3>1. alert(t) \in Recorded' /\ alert(t).to = current(t)
      BY <1>1, <2>2 DEF CreateAlert, Recorded
    <3>2. QED
      BY <3>1 DEF BackedBy
  <2>3. QED
    BY <2>1, <2>2
<1>8. BackedBy(j(t).worst, Recorded')
  BY <1>4, <1>6, <1>7 DEF WorseOf
<1> HIDE DEF j
<1>9. QED
  BY <1>3, <1>4, <1>6, <1>8, OneJobBacked, SameDocBacked DEF CopiesAreBacked

LEMMA UpdateStateBacked ==
    ASSUME BackedInv, [Next]_vars, NEW r \in Runs, UpdateState(r)
    PROVE  CopiesAreBacked'
<1> DEFINE new == NewState(job[r].check, job[r].worst)
           j == [job[r] EXCEPT !.stage = "reread"]
<1>1. job[r] \in Job /\ job[r].check # NoDoc
  BY DEF UpdateState, Active, BackedInv, TypeInv, TypeOK, JobsAreSound,
         JobIsSound
<1>2. Recorded' = Recorded /\ UNCHANGED page
  BY DEF UpdateState, Recorded
<1>3. BackedBy(new, Recorded')
  BY <1>1, <1>2 DEF NewState, BackedInv, CopiesAreBacked
<1>4. doc' # NoDoc => BackedBy(doc'.state, Recorded')
  <2>1. CASE doc = NoDoc
    BY <2>1 DEF UpdateState, SetStateAndLastCheckAndLastValues
  <2>2. CASE doc # NoDoc
    <3>1. doc \in CheckDoc
      BY <2>2 DEF BackedInv, TypeInv, TypeOK
    <3>2. doc'.state = new
      BY <2>2, <3>1
      DEF UpdateState, SetStateAndLastCheckAndLastValues, CheckDoc
    <3>3. QED
      BY <1>3, <3>2
  <2>3. QED
    BY <2>1, <2>2
<1>5. job' = [job EXCEPT ![r] = j]
  BY DEF UpdateState
<1>6. j.check = job[r].check /\ j.worst = job[r].worst
  BY <1>1 DEF Job
<1>7. /\ j.check # NoDoc => BackedBy(j.check.state, Recorded')
      /\ BackedBy(j.worst, Recorded')
  BY <1>2, <1>6 DEF BackedInv, CopiesAreBacked
<1> HIDE DEF j
<1>8. QED
  BY <1>2, <1>4, <1>5, <1>7, OneJobBacked DEF CopiesAreBacked, BackedInv

LEMMA RereadBacked ==
    ASSUME BackedInv, [Next]_vars, NEW r \in Runs, Reread(r)
    PROVE  CopiesAreBacked'
<1> DEFINE j == [job[r] EXCEPT !.stage = "tell", !.toTell = doc.subs,
                               !.shown = doc.state]
<1>1. job' = [job EXCEPT ![r] = Blank("done")] \/ job' = [job EXCEPT ![r] = j]
  BY DEF Reread
<1>2. j.check = job[r].check /\ j.worst = job[r].worst
  BY DEF BackedInv, TypeInv, TypeOK, Job
<1>3. UNCHANGED <<doc, page>>
  BY DEF Reread, store
<1> HIDE DEF j
<1>4. QED
  BY <1>1, <1>2, <1>3, StageBacked

LEMMA TellBacked ==
    ASSUME BackedInv, [Next]_vars, NEW r \in Runs, NEW s \in Subs, Tell(r, s)
    PROVE  CopiesAreBacked'
<1> DEFINE j == [job[r] EXCEPT !.toTell = job[r].toTell \ {s}]
<1>1. job' = [job EXCEPT ![r] = Blank("done")] \/ job' = [job EXCEPT ![r] = j]
  BY DEF Tell, TellRest
<1>2. j.check = job[r].check /\ j.worst = job[r].worst
  BY DEF BackedInv, TypeInv, TypeOK, Job
<1>3. UNCHANGED <<doc, page>>
  BY DEF Tell, store
<1> HIDE DEF j
<1>4. QED
  BY <1>1, <1>2, <1>3, StageBacked

LEMMA RestartBacked ==
    ASSUME BackedInv, [Next]_vars, Restart
    PROVE  CopiesAreBacked'
<1>1. UNCHANGED <<doc, page>>
  BY DEF Restart
<1>2. Recorded' = Recorded
  BY DEF Restart, Recorded
<1>3. \A r \in Runs : job'[r] = job[r] \/ job'[r] = Blank("done")
  BY DEF Restart
<1>4. QED
  BY <1>1, <1>2, <1>3, BlankIsBacked, SameDocBacked
  DEF BackedInv, CopiesAreBacked

\* A save writes the state of a copy whose state was backed.
LEMMA PutCheckBacked ==
    ASSUME BackedInv, [Next]_vars, NEW copy \in CheckDoc, PutCheck(copy),
           BackedBy(copy.state, Recorded)
    PROVE  doc' # NoDoc => BackedBy(doc'.state, Recorded')
<1>1. Recorded' = Recorded
  BY DEF PutCheck, Recorded
<1>2. doc' # NoDoc => doc'.state = copy.state
  BY DEF PutCheck, SaveCheck, CheckDoc
<1>3. QED
  BY <1>1, <1>2

LEMMA UserStepBacked ==
    ASSUME BackedInv, [Next]_vars, UserStep
    PROVE  CopiesAreBacked'
<1>0. UNCHANGED job
  BY DEF UserStep, LoadCheck, SwapCheckEnabled, ResetCheckState,
         SwapCheckAllowNoData, UpdateCheck,
         PutCheck, CreateSubscription, DeleteSubscription,
         DeleteAlertsForCheck, DeleteCheckDocument, DeleteCheckAlerts
<1>1. SUFFICES /\ doc' # NoDoc => BackedBy(doc'.state, Recorded')
               /\ \A p \in Pages :
                     page'[p] # NoDoc => BackedBy(page'[p].state, Recorded')
  BY <1>0, SameJobsBacked DEF CopiesAreBacked
<1>2. Recorded \subseteq Recorded'
  BY RecordedGrows DEF BackedInv
<1>3. ASSUME NEW p \in Pages, LoadCheck(p)
      PROVE  /\ doc' # NoDoc => BackedBy(doc'.state, Recorded')
             /\ \A q \in Pages :
                   page'[q] # NoDoc => BackedBy(page'[q].state, Recorded')
  <2>1. /\ UNCHANGED doc /\ doc # NoDoc
        /\ \A q \in Pages : page'[q] = doc \/ page'[q] = page[q]
    BY <1>3 DEF LoadCheck, store, BackedInv, TypeInv, TypeOK
  <2>2. QED
    BY <2>1, <1>2, BackedByMore DEF BackedInv, CopiesAreBacked
\* The two buttons: the page and the document become the changed copy.
<1>4. ASSUME NEW p \in Pages, NEW copy \in CheckDoc,
             page' = [page EXCEPT ![p] = copy], PutCheck(copy),
             BackedBy(copy.state, Recorded)
      PROVE  /\ doc' # NoDoc => BackedBy(doc'.state, Recorded')
             /\ \A q \in Pages :
                   page'[q] # NoDoc => BackedBy(page'[q].state, Recorded')
  <2>1. \A q \in Pages : page'[q] = copy \/ page'[q] = page[q]
    BY <1>4 DEF BackedInv, TypeInv, TypeOK
  <2>2. QED
    BY <2>1, <1>2, <1>4, BackedByMore, PutCheckBacked
    DEF BackedInv, CopiesAreBacked
<1>5. ASSUME NEW p \in Pages, SwapCheckEnabled(p)
      PROVE  /\ doc' # NoDoc => BackedBy(doc'.state, Recorded')
             /\ \A q \in Pages :
                   page'[q] # NoDoc => BackedBy(page'[q].state, Recorded')
  <2> DEFINE copy == [page[p] EXCEPT !.enabled = ~page[p].enabled]
  <2>1. page[p] \in CheckDoc /\ page[p] # NoDoc
    BY <1>5 DEF SwapCheckEnabled, BackedInv, TypeInv, TypeOK
  <2>2. copy \in CheckDoc /\ copy.state = page[p].state
    BY <2>1 DEF CheckDoc
  <2>3. PutCheck(copy) /\ page' = [page EXCEPT ![p] = copy]
    BY <1>5 DEF SwapCheckEnabled
  <2>4. BackedBy(copy.state, Recorded)
    BY <2>1, <2>2 DEF BackedInv, CopiesAreBacked
  <2> HIDE DEF copy
  <2>5. QED
    BY <2>2, <2>3, <2>4, <1>4
<1>6. ASSUME NEW p \in Pages, ResetCheckState(p)
      PROVE  /\ doc' # NoDoc => BackedBy(doc'.state, Recorded')
             /\ \A q \in Pages :
                   page'[q] # NoDoc => BackedBy(page'[q].state, Recorded')
  <2> DEFINE copy == [page[p] EXCEPT !.state = "OK"]
  <2>1. page[p] \in CheckDoc
    BY <1>6 DEF ResetCheckState, BackedInv, TypeInv, TypeOK
  <2>2. copy \in CheckDoc /\ copy.state = "OK"
    BY <2>1 DEF CheckDoc, AlertType
  <2>3. PutCheck(copy) /\ page' = [page EXCEPT ![p] = copy]
    BY <1>6 DEF ResetCheckState
  <2>4. BackedBy(copy.state, Recorded)
    BY <2>2, HarmlessIsBacked
  <2> HIDE DEF copy
  <2>5. QED
    BY <2>2, <2>3, <2>4, <1>4
<1>6a. ASSUME NEW p \in Pages, SwapCheckAllowNoData(p)
       PROVE  /\ doc' # NoDoc => BackedBy(doc'.state, Recorded')
              /\ \A q \in Pages :
                    page'[q] # NoDoc => BackedBy(page'[q].state, Recorded')
  <2>1. PICK s \in Settings :
           /\ PutCheck([page[p] EXCEPT !.settings = s])
           /\ page' = [page EXCEPT ![p] = [page[p] EXCEPT !.settings = s]]
    BY <1>6a DEF SwapCheckAllowNoData
  <2> DEFINE copy == [page[p] EXCEPT !.settings = s]
  <2>2. page[p] \in CheckDoc /\ page[p] # NoDoc
    BY <1>6a DEF SwapCheckAllowNoData, BackedInv, TypeInv, TypeOK
  <2>3. copy \in CheckDoc /\ copy.state = page[p].state
    BY <2>2 DEF CheckDoc
  <2>4. BackedBy(copy.state, Recorded) /\ PutCheck(copy)
        /\ page' = [page EXCEPT ![p] = copy]
    BY <2>1, <2>2, <2>3 DEF BackedInv, CopiesAreBacked
  <2> HIDE DEF copy
  <2>5. QED
    BY <2>3, <2>4, <1>4
<1>7. ASSUME NEW p \in Pages, UpdateCheck(p)
      PROVE  doc' # NoDoc => BackedBy(doc'.state, Recorded')
  <2>1. PICK s \in Settings : PutCheck([page[p] EXCEPT !.settings = s])
    BY <1>7 DEF UpdateCheck
  <2> DEFINE copy == [page[p] EXCEPT !.settings = s]
  <2>2. page[p] \in CheckDoc /\ page[p] # NoDoc
    BY <1>7 DEF UpdateCheck, BackedInv, TypeInv, TypeOK
  <2>3. copy \in CheckDoc /\ copy.state = page[p].state
    BY <2>2 DEF CheckDoc
  <2>4. BackedBy(copy.state, Recorded) /\ PutCheck(copy)
    BY <2>1, <2>2, <2>3 DEF BackedInv, CopiesAreBacked
  <2> HIDE DEF copy
  <2>5. QED
    BY <2>3, <2>4, PutCheckBacked
\* The remaining steps leave the pages and the document's state alone.
<1>8. ASSUME UNCHANGED page,
             doc' # NoDoc => BackedBy(doc'.state, Recorded')
      PROVE  /\ doc' # NoDoc => BackedBy(doc'.state, Recorded')
             /\ \A q \in Pages :
                   page'[q] # NoDoc => BackedBy(page'[q].state, Recorded')
  BY <1>2, <1>8, BackedByMore DEF BackedInv, CopiesAreBacked
<1>9. ASSUME NEW s \in Subs, CreateSubscription(s) \/ DeleteSubscription(s)
      PROVE  doc' # NoDoc => BackedBy(doc'.state, Recorded')
  <2>1. doc # NoDoc /\ doc'.state = doc.state
    BY <1>9 DEF CreateSubscription, DeleteSubscription, CheckDoc,
                BackedInv, TypeInv, TypeOK
  <2>2. QED
    BY <2>1, <1>2, BackedByMore DEF BackedInv, CopiesAreBacked
<1>10. ASSUME DeleteAlertsForCheck \/ DeleteCheckDocument \/ DeleteCheckAlerts
       PROVE  doc' # NoDoc => BackedBy(doc'.state, Recorded')
  <2>1. doc' # NoDoc => doc' = doc
    BY <1>10 DEF DeleteAlertsForCheck, DeleteCheckDocument, DeleteCheckAlerts
  <2>2. QED
    BY <2>1, <1>2, BackedByMore DEF BackedInv, CopiesAreBacked
<1>11. QED
  <2>1. CASE \E p \in Pages : LoadCheck(p) \/ SwapCheckEnabled(p)
                              \/ ResetCheckState(p) \/ SwapCheckAllowNoData(p)
    BY <2>1, <1>3, <1>5, <1>6, <1>6a
  <2>2. CASE \E p \in Pages : UpdateCheck(p)
    BY <2>2, <1>7, <1>8 DEF UpdateCheck
  <2>3. CASE \E s \in Subs : CreateSubscription(s) \/ DeleteSubscription(s)
    BY <2>3, <1>8, <1>9 DEF CreateSubscription, DeleteSubscription
  <2>4. CASE DeleteAlertsForCheck \/ DeleteCheckDocument \/ DeleteCheckAlerts
    BY <2>4, <1>8, <1>10
    DEF DeleteAlertsForCheck, DeleteCheckDocument, DeleteCheckAlerts
  <2>5. QED
    BY <2>1, <2>2, <2>3, <2>4 DEF UserStep

LEMMA NextBacked == BackedInv /\ [Next]_vars => BackedInv'
<1> SUFFICES ASSUME BackedInv, [Next]_vars PROVE CopiesAreBacked'
  BY NextTypeInv DEF BackedInv
<1>1. CASE PerformChecks
  BY <1>1, PerformChecksBacked
<1>2. ASSUME NEW r \in Runs, Begin(r) PROVE CopiesAreBacked'
  <2> DEFINE j == [job[r] EXCEPT !.stage = "fetch"]
  <2>1. j.check = job[r].check /\ j.worst = job[r].worst
    BY DEF BackedInv, TypeInv, TypeOK, Job
  <2>2. job' = [job EXCEPT ![r] = j] /\ UNCHANGED <<doc, page>>
    BY <1>2 DEF Begin, store
  <2> HIDE DEF j
  <2>3. QED
    BY <2>1, <2>2, StageBacked
<1>3. ASSUME NEW r \in Runs, Fails(r) PROVE CopiesAreBacked'
  <2>1. job' = [job EXCEPT ![r] = Blank("done")] /\ UNCHANGED <<doc, page>>
    BY <1>3 DEF Fails, store
  <2>2. QED
    BY <2>1, StageBacked
<1>4. ASSUME NEW r \in Runs, Step(r) PROVE CopiesAreBacked'
  BY <1>2, <1>4, FetchBacked, EvaluateBacked, UpdateStateBacked, RereadBacked,
     TellBacked DEF Step
<1>5. CASE Restart
  BY <1>5, RestartBacked
<1>6. CASE UserStep
  BY <1>6, UserStepBacked
<1>7. CASE UNCHANGED vars
  BY <1>7, SameDocBacked, SameJobsBacked DEF vars, CopiesAreBacked
<1>8. QED
  BY <1>1, <1>3, <1>4, <1>5, <1>6, <1>7 DEF Next

\* A check that shows WARN or ERROR has an alert to that level on record, for
\* any number of overlapping runs, stale pages, exceptions and restarts.
THEOREM StateIsBacked == Spec => []StateBackedByAlert
<1>1. BackedInv => StateBackedByAlert
  BY DEF BackedInv, CopiesAreBacked, BackedBy, StateBackedByAlert
<1>2. QED
  BY <1>1, InitBacked, NextBacked, PTL DEF Spec
==============================================================================
