------------------------ MODULE CheckRunsPromptProofs ------------------------
(***************************************************************************)
(* Proofs about PromptSpec: no tick finds a run unfinished, and no page    *)
(* writes to the check (Pages = {}).  Exceptions and restarts are allowed  *)
(* unless a theorem excludes them.                                         *)
(***************************************************************************)
EXTENDS CheckRunsProofs, CheckRunsAnnounce

Over   == {"unborn", "done"}
Before == {"queued", "fetch", "evaluate", "update"}

\* The one run that is not over works on what is still in the store, until it
\* writes the state itself.
AloneInv ==
    /\ TypeInv
    /\ \A r, q \in Runs :
          r # q => job[r].stage \in Over \/ job[q].stage \in Over
    /\ \A r \in Runs : job[r].stage \in Before => job[r].check = doc

------------------------------------------------------------------------------

\* Without pages only the scheduler, the runs and faults take steps.
LEMMA PromptSteps ==
    ASSUME Pages = {}, TypeInv, [PromptNext]_vars
    PROVE  /\ [Next]_vars
           /\ \/ PerformChecks /\ Quiet
              \/ \E r \in Runs : Step(r) \/ Fails(r)
              \/ Restart
              \/ UNCHANGED vars
<1>1. PerformChecks => scheduled' # scheduled
  BY ConstantsAssumption DEF PerformChecks, TypeInv, TypeOK
<1>2. ~UserStep
  BY DEF UserStep
<1>3. QED
  BY <1>1, <1>2 DEF PromptNext, Next

LEMMA BlankStage == \A s : Blank(s).stage = s
BY DEF Blank

\* A step of the one live run leaves it alone.
LEMMA StillAlone ==
    ASSUME AloneInv, [Next]_vars, NEW r \in Runs, NEW j,
           job[r].stage \notin Over, job' = [job EXCEPT ![r] = j],
           j.stage \in Before => j.check = doc'
    PROVE  AloneInv'
<1>1. TypeInv'
  BY NextTypeInv DEF AloneInv
<1>2. \A q \in Runs : q # r => job'[q] = job[q] /\ job[q].stage \in Over
  BY DEF AloneInv, TypeInv, TypeOK
<1>3. job'[r] = j
  BY DEF AloneInv, TypeInv, TypeOK
<1>4. \A q \in Runs : job'[q].stage \in Before => job'[q].check = doc'
  BY <1>2, <1>3 DEF Over, Before
<1>5. QED
  BY <1>1, <1>2, <1>4 DEF AloneInv

LEMMA FetchAlone ==
    ASSUME AloneInv, [Next]_vars, NEW r \in Runs, Fetch(r)
    PROVE  AloneInv'
<1>1. PICK vals \in [Targets -> Reading] :
         LET present == {t \in Targets : vals[t] # "NONE"}
         IN  job' = [job EXCEPT
                ![r].stage  = IF present = {} THEN "update" ELSE "evaluate",
                ![r].values = vals,
                ![r].todo   = present,
                ![r].worst  = NoDataLevel(job[r].check)]
  BY DEF Fetch
<1> DEFINE present == {t \in Targets : vals[t] # "NONE"}
           j == [job[r] EXCEPT
                   !.stage = IF present = {} THEN "update" ELSE "evaluate",
                   !.values = vals,
                   !.todo = present,
                   !.worst = NoDataLevel(job[r].check)]
<1>2. job' = [job EXCEPT ![r] = j]
  BY <1>1
<1>3. j.check = job[r].check
  BY DEF AloneInv, TypeInv, TypeOK, Job
<1>4. job[r].check = doc' /\ job[r].stage \notin Over
  BY DEF Fetch, AloneInv, Before, Over, store
<1> HIDE DEF j
<1>5. QED
  BY <1>2, <1>3, <1>4, StillAlone

LEMMA EvaluateAlone ==
    ASSUME AloneInv, [Next]_vars, NEW r \in Runs, Evaluate(r)
    PROVE  AloneInv'
<1> DEFINE c == job[r].check
           current(t) == job[r].values[t]
           alert(t) == [run |-> r, target |-> t,
                        from |-> c.state, to |-> current(t)]
           rest(t) == job[r].todo \ {t}
           told(t) == IF ~Skips(c, current(t)) /\ IsInteresting(c, current(t))
                      THEN {alert(t)} ELSE {}
           j(t) == [job[r] EXCEPT
                      !.stage = IF rest(t) = {} THEN "update" ELSE "evaluate",
                      !.todo = rest(t),
                      !.worst = WorseOf(current(t), job[r].worst),
                      !.interesting = job[r].interesting \cup told(t)]
<1>1. PICK t \in job[r].todo :
         job' = [job EXCEPT
            ![r].stage = IF rest(t) = {} THEN "update" ELSE "evaluate",
            ![r].todo = rest(t),
            ![r].worst = WorseOf(current(t), job[r].worst),
            ![r].interesting = job[r].interesting \cup told(t)]
  BY DEF Evaluate
<1>2. job' = [job EXCEPT ![r] = j(t)]
  BY <1>1
<1>3. j(t).check = c
  BY DEF AloneInv, TypeInv, TypeOK, Job
<1>4. c = doc' /\ job[r].stage \notin Over
  BY DEF Evaluate, AloneInv, Before, Over
<1> HIDE DEF j
<1>5. QED
  BY <1>2, <1>3, <1>4, StillAlone

\* The stages that change no more than the stage.
LEMMA StepAlone ==
    ASSUME AloneInv, [Next]_vars, NEW r \in Runs, Step(r) \/ Fails(r)
    PROVE  AloneInv'
<1>1. job[r] \in Job
  BY DEF AloneInv, TypeInv, TypeOK
<1>2. CASE Begin(r)
  <2> DEFINE j == [job[r] EXCEPT !.stage = "fetch"]
  <2>1. j.check = doc'
    BY <1>1, <1>2 DEF Begin, AloneInv, Before, Job, store
  <2>2. job' = [job EXCEPT ![r] = j] /\ job[r].stage \notin Over
    BY <1>2 DEF Begin, Over
  <2> HIDE DEF j
  <2>3. QED
    BY <2>1, <2>2, StillAlone
<1>3. CASE UpdateState(r)
  <2> DEFINE j == [job[r] EXCEPT !.stage = "reread"]
  <2>1. j.stage \notin Before
    BY <1>1 DEF Job, Before
  <2>2. job' = [job EXCEPT ![r] = j] /\ job[r].stage \notin Over
    BY <1>3 DEF UpdateState, Over
  <2> HIDE DEF j
  <2>3. QED
    BY <2>1, <2>2, StillAlone
<1>4. CASE Reread(r)
  <2> DEFINE j == [job[r] EXCEPT !.stage = "tell", !.toTell = doc.subs,
                                 !.shown = doc.state]
  <2>1. j.stage \notin Before /\ Blank("done").stage \notin Before
    BY <1>1, BlankStage DEF Job, Before
  <2>2. /\ \/ job' = [job EXCEPT ![r] = j]
           \/ job' = [job EXCEPT ![r] = Blank("done")]
        /\ job[r].stage \notin Over
    BY <1>4 DEF Reread, Over
  <2> HIDE DEF j
  <2>3. QED
    BY <2>1, <2>2, StillAlone
<1>5. ASSUME NEW s \in Subs, Tell(r, s) PROVE AloneInv'
  <2> DEFINE j == [job[r] EXCEPT !.toTell = job[r].toTell \ {s}]
  <2>1. j.stage \notin Before /\ Blank("done").stage \notin Before
    BY <1>1, <1>5, BlankStage DEF Tell, Job, Before
  <2>2. /\ \/ job' = [job EXCEPT ![r] = j]
           \/ job' = [job EXCEPT ![r] = Blank("done")]
        /\ job[r].stage \notin Over
    BY <1>5 DEF Tell, TellRest, Over
  <2> HIDE DEF j
  <2>3. QED
    BY <2>1, <2>2, StillAlone
<1>6. CASE Fails(r)
  <2>1. Blank("done").stage \notin Before
    BY BlankStage DEF Before
  <2>2. job' = [job EXCEPT ![r] = Blank("done")] /\ job[r].stage \notin Over
    BY <1>6 DEF Fails, Over
  <2>3. QED
    BY <2>1, <2>2, StillAlone
<1>7. QED
  BY <1>2, <1>3, <1>4, <1>5, <1>6, FetchAlone, EvaluateAlone DEF Step

LEMMA NextAlone ==
    ASSUME Pages = {}
    PROVE  AloneInv /\ [PromptNext]_vars => AloneInv'
<1> SUFFICES ASSUME AloneInv, [PromptNext]_vars PROVE AloneInv'
  OBVIOUS
<1>1. [Next]_vars /\ TypeInv /\ TypeInv'
  BY PromptSteps, NextTypeInv DEF AloneInv
<1>2. CASE PerformChecks /\ Quiet
  <2> DEFINE r == scheduled + 1
             j == [Blank("queued") EXCEPT !.check = doc]
  <2>1. r \in Runs
    BY <1>1, <1>2, ConstantsAssumption
    DEF PerformChecks, TypeInv, TypeOK, Runs
  <2>2. j.check = doc /\ UNCHANGED doc
    BY <1>2 DEF Blank, PerformChecks, store
  <2>3. job' = [job EXCEPT ![r] = j]
    BY <1>2 DEF PerformChecks
  <2> HIDE DEF j, r
  <2>4. \A q \in Runs : q # r => job'[q] = job[q] /\ job[q].stage \in Over
    BY <1>1, <1>2, <2>3 DEF Quiet, Over, TypeInv, TypeOK
  <2>5. job'[r] = j
    BY <1>1, <2>1, <2>3 DEF TypeInv, TypeOK
  <2>6. \A q \in Runs : job'[q].stage \in Before => job'[q].check = doc'
    BY <2>2, <2>4, <2>5 DEF Over, Before
  <2>7. QED
    BY <1>1, <2>4, <2>6 DEF AloneInv
<1>3. CASE Restart
  <2>1. \A q \in Runs : job'[q].stage \in Over
    BY <1>3, BlankStage DEF Restart, Over
  <2>2. QED
    BY <1>1, <2>1 DEF AloneInv, Over, Before
<1>4. CASE UNCHANGED vars
  BY <1>1, <1>4 DEF AloneInv, vars
<1>5. QED
  BY <1>1, <1>2, <1>3, <1>4, StepAlone, PromptSteps DEF AloneInv

LEMMA InitAlone == Init => AloneInv
BY InitTypeInv, BlankStage DEF Init, AloneInv, Over, Before

LEMMA SpecAlone ==
    ASSUME Pages = {}
    PROVE  PromptSpec => []AloneInv
BY InitAlone, NextAlone, PTL DEF PromptSpec
------------------------------------------------------------------------------
(* The two action properties. *)

LEMMA StepTypeOfDoc ==
    ASSUME AloneInv, NEW r \in Runs, UpdateState(r), doc # NoDoc
    PROVE  /\ job[r].check = doc /\ doc \in CheckDoc
           /\ job[r].worst \in AlertType
           /\ doc'.state = NewState(doc, job[r].worst)
           /\ doc'.settings = doc.settings /\ doc'.subs = doc.subs
<1>1. doc \in CheckDoc /\ job[r] \in Job /\ job[r].check = doc
  BY DEF AloneInv, TypeInv, TypeOK, UpdateState, Before
<1>2. doc' = [doc EXCEPT !.state = NewState(job[r].check, job[r].worst),
                         !.lastCheck = r, !.lastValues = job[r].values]
  BY DEF UpdateState, SetStateAndLastCheckAndLastValues
<1>3. doc'.state = NewState(job[r].check, job[r].worst)
      /\ doc'.settings = doc.settings /\ doc'.subs = doc.subs
  BY <1>1, <1>2 DEF CheckDoc
<1>4. QED
  BY <1>1, <1>3 DEF Job

\* An alert tells of a change from the state the check is in: the copy that a
\* run compares with is as good as the document until the run updates it.
THEOREM AlertsStartCurrent ==
    ASSUME Pages = {}
    PROVE  PromptSpec => AlertsStartFromCurrentState
<1> DEFINE FromCurrent ==
             \A a \in alerts' \ alerts : doc # NoDoc => a.from = doc.state
<1>1. ASSUME AloneInv, [PromptNext]_vars PROVE FromCurrent
  <2>1. ASSUME NEW r \in Runs, Evaluate(r) PROVE FromCurrent
    <3>1. job[r].check = doc
      BY <1>1, <2>1 DEF Evaluate, AloneInv, Before
    <3>2. PICK t \in job[r].todo :
            \/ UNCHANGED alerts
            \/ alerts' = alerts \cup
                 {[run |-> r, target |-> t, from |-> job[r].check.state,
                   to |-> job[r].values[t]]}
      BY <2>1 DEF Evaluate, CreateAlert
    <3>3. QED
      BY <3>1, <3>2
  <2>2. CASE UNCHANGED alerts
    BY <2>2
  <2>3. QED
    BY <1>1, <2>1, <2>2, PromptSteps
    DEF AloneInv, Step, PerformChecks, Begin, Fetch, UpdateState, Reread,
        Tell, Fails, Restart, store, vars
<1>2. AloneInv /\ [PromptNext]_vars => [FromCurrent]_vars
  BY <1>1
<1>3. QED
  BY <1>2, SpecAlone, PTL DEF PromptSpec, AlertsStartFromCurrentState

\* The state of a one-time check only gets worse: the state compared with is
\* the stored one, so what is written back is not older than what is there.
THEOREM OneTimeOnlyWorse ==
    ASSUME Pages = {}
    PROVE  PromptSpec => OneTimeRatchet
<1> DEFINE Ratchet == doc # NoDoc /\ doc' # NoDoc /\ doc.settings.oneTime =>
                         ~IsWorseThan(doc.state, doc'.state)
<1>1. ASSUME AloneInv, [PromptNext]_vars PROVE Ratchet
  <2> SUFFICES ASSUME doc # NoDoc, doc.settings.oneTime
               PROVE  ~IsWorseThan(doc.state, doc'.state)
    OBVIOUS
  <2>1. doc.state \in AlertType
    BY <1>1 DEF AloneInv, TypeInv, TypeOK, CheckDoc
  <2>2. \A x \in AlertType : Severity[x] \in Int
    BY DEF Severity, AlertType
  <2>3. ASSUME NEW r \in Runs, UpdateState(r)
        PROVE  ~IsWorseThan(doc.state, doc'.state)
    <3>1. doc'.state = NewState(doc, job[r].worst) /\ job[r].worst \in AlertType
      BY <1>1, <2>3, StepTypeOfDoc
    <3>2. QED
      BY <2>1, <2>2, <3>1 DEF NewState, IsWorseThan
  <2>4. CASE UNCHANGED doc
    BY <2>1, <2>2, <2>4 DEF IsWorseThan
  <2>5. QED
    BY <1>1, <2>3, <2>4, PromptSteps
    DEF AloneInv, Step, PerformChecks, Begin, Fetch, Evaluate, Reread, Tell,
        Fails, Restart, store, vars
<1>2. AloneInv /\ [PromptNext]_vars => [Ratchet]_vars
  BY <1>1
<1>3. QED
  BY <1>2, SpecAlone, PTL DEF PromptSpec, OneTimeRatchet

------------------------------------------------------------------------------
(***************************************************************************)
(* A message shows the level that its filter was asked about.  The run     *)
(* writes its worst level and reads it back before it tells anybody.       *)
(***************************************************************************)

ShowsWorst(j, d) ==
    /\ j.stage = "reread" => d.state = j.worst
    /\ j.stage = "tell" => j.shown = j.worst

ShowInv ==
    /\ AloneInv
    /\ doc # NoDoc /\ ~doc.settings.oneTime =>
          /\ \A r \in Runs : ShowsWorst(job[r], doc)
          /\ \A n \in sent : n.shows = n.level

\* A step of the live run r that sends nothing.
LEMMA ShowsOn ==
    ASSUME ShowInv, AloneInv', NEW r \in Runs, NEW j,
           job' = [job EXCEPT ![r] = j], UNCHANGED sent,
           doc' # NoDoc /\ ~doc'.settings.oneTime =>
              /\ doc # NoDoc /\ ~doc.settings.oneTime
              /\ ShowsWorst(j, doc'),
           UNCHANGED doc \/ job[r].stage \notin Over
    PROVE  ShowInv'
<1>1. job'[r] = j /\ \A q \in Runs : q # r => job'[q] = job[q]
  BY DEF ShowInv, AloneInv, TypeInv, TypeOK
<1>2. ASSUME NEW q \in Runs, q # r, doc' # NoDoc, ~doc'.settings.oneTime
      PROVE  ShowsWorst(job'[q], doc')
  <2>1. ShowsWorst(job[q], doc)
    BY <1>2 DEF ShowInv
  <2>2. CASE UNCHANGED doc
    BY <1>1, <1>2, <2>1, <2>2
  <2>3. CASE job[q].stage \in Over
    BY <1>1, <1>2, <2>3 DEF ShowsWorst, Over
  <2>4. QED
    BY <1>2, <2>2, <2>3 DEF ShowInv, AloneInv
<1>3. QED
  BY <1>1, <1>2 DEF ShowInv

LEMMA StepShows ==
    ASSUME ShowInv, AloneInv', NEW r \in Runs, Step(r) \/ Fails(r)
    PROVE  ShowInv'
<1>1. job[r] \in Job
  BY DEF ShowInv, AloneInv, TypeInv, TypeOK
<1>b. \A s : Blank(s).stage = s
  BY BlankStage
<1>2. CASE Begin(r)
  <2> DEFINE j == [job[r] EXCEPT !.stage = "fetch"]
  <2>1. job' = [job EXCEPT ![r] = j] /\ UNCHANGED <<doc, sent>>
    BY <1>2 DEF Begin, store
  <2>2. j.stage = "fetch"
    BY <1>1 DEF Job
  <2> HIDE DEF j
  <2>3. QED
    BY <2>1, <2>2, ShowsOn DEF ShowsWorst
<1>3. CASE Fetch(r)
  <2>1. PICK j : /\ job' = [job EXCEPT ![r] = j]
                 /\ j.stage \in {"update", "evaluate"}
    <3>1. PICK vals \in [Targets -> Reading] :
            LET present == {t \in Targets : vals[t] # "NONE"}
            IN  job' = [job EXCEPT
                   ![r].stage  = IF present = {} THEN "update" ELSE "evaluate",
                   ![r].values = vals,
                   ![r].todo   = present,
                   ![r].worst  = NoDataLevel(job[r].check)]
      BY <1>3 DEF Fetch
    <3> DEFINE present == {t \in Targets : vals[t] # "NONE"}
               j == [job[r] EXCEPT
                       !.stage = IF present = {} THEN "update" ELSE "evaluate",
                       !.values = vals, !.todo = present,
                       !.worst = NoDataLevel(job[r].check)]
    <3>2. job' = [job EXCEPT ![r] = j]
      BY <3>1
    <3>3. j.stage \in {"update", "evaluate"}
      BY <1>1 DEF Job
    <3> HIDE DEF j
    <3>4. QED
      BY <3>2, <3>3
  <2>2. UNCHANGED <<doc, sent>>
    BY <1>3 DEF Fetch, store
  <2>3. QED
    BY <2>1, <2>2, ShowsOn DEF ShowsWorst
<1>4. CASE Evaluate(r)
  <2>1. PICK j : /\ job' = [job EXCEPT ![r] = j]
                 /\ j.stage \in {"update", "evaluate"}
    <3> DEFINE c == job[r].check
               current(t) == job[r].values[t]
               alert(t) == [run |-> r, target |-> t,
                            from |-> c.state, to |-> current(t)]
               rest(t) == job[r].todo \ {t}
               told(t) == IF ~Skips(c, current(t))
                             /\ IsInteresting(c, current(t))
                          THEN {alert(t)} ELSE {}
               j(t) == [job[r] EXCEPT
                          !.stage = IF rest(t) = {} THEN "update"
                                    ELSE "evaluate",
                          !.todo = rest(t),
                          !.worst = WorseOf(current(t), job[r].worst),
                          !.interesting = job[r].interesting \cup told(t)]
    <3>1. PICK t \in job[r].todo :
             job' = [job EXCEPT
                ![r].stage = IF rest(t) = {} THEN "update" ELSE "evaluate",
                ![r].todo = rest(t),
                ![r].worst = WorseOf(current(t), job[r].worst),
                ![r].interesting = job[r].interesting \cup told(t)]
      BY <1>4 DEF Evaluate
    <3>2. job' = [job EXCEPT ![r] = j(t)]
      BY <3>1
    <3>3. j(t).stage \in {"update", "evaluate"}
      BY <1>1 DEF Job
    <3> HIDE DEF j
    <3>4. QED
      BY <3>2, <3>3
  <2>2. UNCHANGED <<doc, sent>>
    BY <1>4 DEF Evaluate
  <2>3. QED
    BY <2>1, <2>2, ShowsOn DEF ShowsWorst
<1>5. CASE UpdateState(r)
  <2> DEFINE j == [job[r] EXCEPT !.stage = "reread"]
  <2>1. job' = [job EXCEPT ![r] = j] /\ UNCHANGED sent
           /\ job[r].stage \notin Over
    BY <1>5 DEF UpdateState, Over
  <2>2. j.stage = "reread" /\ j.worst = job[r].worst
    BY <1>1 DEF Job
  <2>3. doc = NoDoc => doc' = NoDoc
    BY <1>5 DEF UpdateState, SetStateAndLastCheckAndLastValues
  <2>4. ASSUME doc # NoDoc
        PROVE  doc'.settings = doc.settings
               /\ (~doc.settings.oneTime => doc'.state = job[r].worst)
    BY <1>5, <2>4, StepTypeOfDoc DEF ShowInv, NewState
  <2> HIDE DEF j
  <2>5. QED
    BY <2>1, <2>2, <2>3, <2>4, ShowsOn DEF ShowsWorst
<1>6. CASE Reread(r)
  <2> DEFINE j == [job[r] EXCEPT !.stage = "tell", !.toTell = doc.subs,
                                 !.shown = doc.state]
  <2>1. /\ \/ job' = [job EXCEPT ![r] = j]
           \/ job' = [job EXCEPT ![r] = Blank("done")]
        /\ UNCHANGED <<doc, sent>> /\ job[r].stage = "reread"
    BY <1>6 DEF Reread, store
  <2>2. j.stage = "tell" /\ j.worst = job[r].worst /\ j.shown = doc.state
    BY <1>1 DEF Job
  <2>3. ASSUME doc # NoDoc, ~doc.settings.oneTime
        PROVE  doc.state = job[r].worst
    BY <2>1, <2>3 DEF ShowInv, ShowsWorst
  <2> HIDE DEF j
  <2>4. ASSUME doc # NoDoc, ~doc.settings.oneTime
        PROVE  ShowsWorst(j, doc) /\ ShowsWorst(Blank("done"), doc)
    BY <1>b, <2>2, <2>3, <2>4 DEF ShowsWorst
  <2>5. QED
    BY <2>1, <2>4, ShowsOn
<1>7. ASSUME NEW s \in Subs, Tell(r, s) PROVE ShowInv'
  <2> DEFINE j == [job[r] EXCEPT !.toTell = job[r].toTell \ {s}]
  <2>1. /\ \/ job' = [job EXCEPT ![r] = j]
           \/ job' = [job EXCEPT ![r] = Blank("done")]
        /\ UNCHANGED doc /\ job[r].stage = "tell"
    BY <1>7 DEF Tell, TellRest, store
  <2>2. j.stage = "tell" /\ j.worst = job[r].worst /\ j.shown = job[r].shown
    BY <1>1, <2>1 DEF Job
  <2> HIDE DEF j
  <2>3. ASSUME doc # NoDoc, ~doc.settings.oneTime
        PROVE  /\ \A q \in Runs : ShowsWorst(job'[q], doc')
               /\ \A n \in sent' : n.shows = n.level
    <3>1. job[r].shown = job[r].worst /\ \A n \in sent : n.shows = n.level
      BY <2>1, <2>3 DEF ShowInv, ShowsWorst
    <3>2. \A n \in sent' : \/ n \in sent
                         \/ (n.shows = job[r].shown /\ n.level = job[r].worst)
      <4>1. CASE UNCHANGED sent
        BY <4>1
      <4>2. CASE job[r].worst \notin Ignores[s] /\ ~UNCHANGED sent
        <5>1. PICK ok \in BOOLEAN :
                sent' = sent \cup
                   {[run |-> r, to |-> s, level |-> job[r].worst,
                     shows |-> job[r].shown, alerts |-> job[r].interesting,
                     delivered |-> ok]}
          BY <1>7, <4>2 DEF Tell
        <5>2. QED
          BY <5>1
      <4>3. QED
        BY <1>7, <4>1, <4>2 DEF Tell
    <3>3. \A q \in Runs : q # r => job'[q] = job[q]
      BY <2>1 DEF ShowInv, AloneInv, TypeInv, TypeOK
    <3>4. job'[r] = j \/ job'[r] = Blank("done")
      BY <2>1 DEF ShowInv, AloneInv, TypeInv, TypeOK
    <3>5. ShowsWorst(job'[r], doc')
      BY <1>b, <2>2, <3>1, <3>4 DEF ShowsWorst
    <3>6. QED
      BY <2>1, <2>3, <3>1, <3>2, <3>3, <3>5 DEF ShowInv
  <2>4. QED
    BY <2>1, <2>3 DEF ShowInv
<1>8. CASE Fails(r)
  <2>1. job' = [job EXCEPT ![r] = Blank("done")] /\ UNCHANGED <<doc, sent>>
    BY <1>8 DEF Fails, store
  <2>2. QED
    BY <1>b, <2>1, ShowsOn DEF ShowsWorst
<1>9. QED
  BY <1>2, <1>3, <1>4, <1>5, <1>6, <1>7, <1>8 DEF Step

LEMMA NextShows ==
    ASSUME Pages = {}
    PROVE  ShowInv /\ [PromptNext]_vars => ShowInv'
<1> SUFFICES ASSUME ShowInv, [PromptNext]_vars PROVE ShowInv'
  OBVIOUS
<1>1. AloneInv' /\ TypeInv
  BY NextAlone DEF ShowInv, AloneInv
<1>2. CASE PerformChecks
  <2> DEFINE j == [Blank("queued") EXCEPT !.check = doc]
  <2>1. scheduled + 1 \in Runs /\ UNCHANGED <<doc, sent>>
           /\ job' = [job EXCEPT ![scheduled + 1] = j]
    BY <1>1, <1>2, ConstantsAssumption
    DEF PerformChecks, TypeInv, TypeOK, Runs, store
  <2>2. j.stage = "queued"
    BY DEF Blank
  <2> HIDE DEF j
  <2>3. QED
    BY <1>1, <2>1, <2>2, ShowsOn DEF ShowsWorst
<1>3. CASE Restart
  <2>1. UNCHANGED <<doc, sent>> /\ \A q \in Runs : job'[q].stage \in Over
    BY <1>3, BlankStage DEF Restart, Over
  <2>2. QED
    BY <1>1, <2>1 DEF ShowInv, ShowsWorst, Over
<1>4. CASE UNCHANGED vars
  BY <1>1, <1>4 DEF ShowInv, vars
<1>5. QED
  BY <1>1, <1>2, <1>3, <1>4, StepShows, PromptSteps

LEMMA InitShows == Init => ShowInv
BY InitAlone, BlankStage DEF Init, ShowInv, ShowsWorst

\* The state in a message is the level that the subscription's filter let pass,
\* for normal checks with any number of targets, whatever fails or stops.
THEOREM NoticesShowTheirLevel ==
    ASSUME Pages = {}
    PROVE  PromptSpec => []NoticeShowsItsLevel
<1>1. ShowInv => NoticeShowsItsLevel
  BY DEF ShowInv, NoticeShowsItsLevel
<1>2. QED
  BY <1>1, InitShows, NextShows, PTL DEF PromptSpec

------------------------------------------------------------------------------
(***************************************************************************)
(* A normal check with one target tells of changes only.  Its state is the *)
(* level of the last value, if there was one, so what differs from the     *)
(* state differs from the value.                                           *)
(***************************************************************************)

TellsChange(t, j, d) ==
    /\ j.stage \in {"queued", "fetch", "evaluate"} => j.interesting = {}
    /\ j.stage = "evaluate" => j.todo = {t} /\ j.worst \in {"UNKNOWN", "OK"}
    /\ j.stage = "update" => /\ j.values[t] \in {"NONE", j.worst}
                             /\ \A a \in j.interesting : a.to # d.state

ChangeInv(t) ==
    /\ AloneInv
    /\ doc # NoDoc /\ ~doc.settings.oneTime =>
          /\ doc.lastValues[t] \in {"NONE", doc.state}
          /\ \A r \in Runs : TellsChange(t, job[r], doc)

\* A step of the live run r, or the tick that makes it live.
LEMMA ChangesOn ==
    ASSUME NEW t, ChangeInv(t), AloneInv', NEW r \in Runs, NEW j,
           job' = [job EXCEPT ![r] = j],
           doc' # NoDoc /\ ~doc'.settings.oneTime =>
              /\ doc # NoDoc /\ ~doc.settings.oneTime
              /\ doc'.lastValues[t] \in {"NONE", doc'.state}
              /\ TellsChange(t, j, doc'),
           UNCHANGED doc \/ job[r].stage \notin Over
    PROVE  ChangeInv(t)'
<1>1. job'[r] = j /\ \A q \in Runs : q # r => job'[q] = job[q]
  BY DEF ChangeInv, AloneInv, TypeInv, TypeOK
<1>2. ASSUME NEW q \in Runs, q # r, doc' # NoDoc, ~doc'.settings.oneTime
      PROVE  TellsChange(t, job'[q], doc')
  <2>1. TellsChange(t, job[q], doc)
    BY <1>2 DEF ChangeInv
  <2>2. CASE UNCHANGED doc
    BY <1>1, <1>2, <2>1, <2>2
  <2>3. CASE job[q].stage \in Over
    BY <1>1, <1>2, <2>3 DEF TellsChange, Over
  <2>4. QED
    BY <1>2, <2>2, <2>3 DEF ChangeInv, AloneInv
<1>3. QED
  BY <1>1, <1>2 DEF ChangeInv

LEMMA FetchChange ==
    ASSUME NEW t, Targets = {t}, ChangeInv(t), AloneInv', NEW r \in Runs,
           Fetch(r)
    PROVE  ChangeInv(t)'
<1>1. PICK vals \in [Targets -> Reading] :
         LET present == {x \in Targets : vals[x] # "NONE"}
         IN  job' = [job EXCEPT
                ![r].stage  = IF present = {} THEN "update" ELSE "evaluate",
                ![r].values = vals,
                ![r].todo   = present,
                ![r].worst  = NoDataLevel(job[r].check)]
  BY DEF Fetch
<1> DEFINE present == {x \in Targets : vals[x] # "NONE"}
           j == [job[r] EXCEPT
                   !.stage = IF present = {} THEN "update" ELSE "evaluate",
                   !.values = vals,
                   !.todo = present,
                   !.worst = NoDataLevel(job[r].check)]
<1>2. job' = [job EXCEPT ![r] = j]
  BY <1>1
<1>3. job[r] \in Job /\ job[r].stage = "fetch" /\ UNCHANGED doc
  BY DEF Fetch, store, ChangeInv, AloneInv, TypeInv, TypeOK
<1>4. /\ j.stage = IF present = {} THEN "update" ELSE "evaluate"
      /\ j.values = vals /\ j.todo = present
      /\ j.worst = NoDataLevel(job[r].check)
      /\ j.interesting = job[r].interesting
  BY <1>3 DEF Job
<1>5. present # {} => present = {t}
  OBVIOUS
<1>6. present = {} => vals[t] = "NONE"
  OBVIOUS
<1>7. ASSUME doc # NoDoc, ~doc.settings.oneTime
      PROVE  TellsChange(t, j, doc)
  <2>1. job[r].interesting = {}
    BY <1>3, <1>7 DEF ChangeInv, TellsChange
  <2>2. NoDataLevel(job[r].check) \in {"UNKNOWN", "OK"}
    BY DEF NoDataLevel
  <2> HIDE DEF j, present
  <2>3. QED
    BY <1>4, <1>5, <1>6, <2>1, <2>2 DEF TellsChange
<1> HIDE DEF j, present
<1>8. QED
  BY <1>2, <1>3, <1>7, ChangesOn DEF ChangeInv

LEMMA EvaluateChange ==
    ASSUME NEW t, Targets = {t}, ChangeInv(t), AloneInv', NEW r \in Runs,
           Evaluate(r)
    PROVE  ChangeInv(t)'
<1> DEFINE c == job[r].check
           current(x) == job[r].values[x]
           alert(x) == [run |-> r, target |-> x,
                        from |-> c.state, to |-> current(x)]
           rest(x) == job[r].todo \ {x}
           told(x) == IF ~Skips(c, current(x)) /\ IsInteresting(c, current(x))
                      THEN {alert(x)} ELSE {}
           j(x) == [job[r] EXCEPT
                      !.stage = IF rest(x) = {} THEN "update" ELSE "evaluate",
                      !.todo = rest(x),
                      !.worst = WorseOf(current(x), job[r].worst),
                      !.interesting = job[r].interesting \cup told(x)]
<1>1. PICK x \in job[r].todo :
         job' = [job EXCEPT
            ![r].stage = IF rest(x) = {} THEN "update" ELSE "evaluate",
            ![r].todo = rest(x),
            ![r].worst = WorseOf(current(x), job[r].worst),
            ![r].interesting = job[r].interesting \cup told(x)]
  BY DEF Evaluate
<1>2. /\ job[r] \in Job /\ JobIsSound(job[r]) /\ job[r].stage = "evaluate"
      /\ UNCHANGED doc /\ c = doc
  BY DEF Evaluate, ChangeInv, AloneInv, TypeInv, TypeOK, JobsAreSound, Before
<1>3. x = t /\ current(t) \in Level
  BY <1>2 DEF Job, JobIsSound, Reading
<1>4. job' = [job EXCEPT ![r] = j(t)]
  BY <1>1, <1>3
<1>5. /\ j(t).stage = IF rest(t) = {} THEN "update" ELSE "evaluate"
      /\ j(t).worst = WorseOf(current(t), job[r].worst)
      /\ j(t).interesting = job[r].interesting \cup told(t)
      /\ j(t).values = job[r].values
  BY <1>2 DEF Job
<1>6. ASSUME doc # NoDoc, ~doc.settings.oneTime
      PROVE  TellsChange(t, j(t), doc)
  <2>1. /\ job[r].todo = {t} /\ job[r].worst \in {"UNKNOWN", "OK"}
        /\ job[r].interesting = {}
    BY <1>2, <1>6 DEF ChangeInv, TellsChange
  <2>2. j(t).stage = "update"
    BY <1>5, <2>1
  <2>3. WorseOf(current(t), job[r].worst) = current(t)
    BY <1>3, <2>1 DEF WorseOf, IsWorseThan, Severity, Level
  <2>4. \A a \in told(t) : a.to # doc.state
    BY <1>2, <1>6 DEF IsInteresting, StateIsTheSame
  <2> HIDE DEF told, j
  <2>5. QED
    BY <1>5, <2>1, <2>2, <2>3, <2>4 DEF TellsChange
<1> HIDE DEF j
<1>7. QED
  BY <1>2, <1>4, <1>6, ChangesOn DEF ChangeInv

LEMMA UpdateStateChange ==
    ASSUME NEW t, Targets = {t}, ChangeInv(t), AloneInv', NEW r \in Runs,
           UpdateState(r)
    PROVE  ChangeInv(t)'
<1> DEFINE j == [job[r] EXCEPT !.stage = "reread"]
<1>1. job[r] \in Job /\ job[r].stage = "update" /\ doc # NoDoc
        /\ doc \in CheckDoc
  BY DEF UpdateState, ChangeInv, AloneInv, TypeInv, TypeOK, JobsAreSound,
         JobIsSound, Active, Before
<1>2. job' = [job EXCEPT ![r] = j] /\ j.stage = "reread"
  BY <1>1 DEF UpdateState, Job
<1>3. doc'.state = NewState(doc, job[r].worst)
        /\ doc'.settings = doc.settings
  BY <1>1, StepTypeOfDoc DEF ChangeInv
<1>4. doc'.lastValues = job[r].values
  BY <1>1 DEF UpdateState, SetStateAndLastCheckAndLastValues, CheckDoc
<1>5. ~doc.settings.oneTime => job[r].values[t] \in {"NONE", job[r].worst}
  BY <1>1 DEF ChangeInv, TellsChange
<1>6. ~doc.settings.oneTime => doc'.state = job[r].worst
  BY <1>3 DEF NewState
<1> HIDE DEF j
<1>7. QED
  BY <1>1, <1>2, <1>3, <1>4, <1>5, <1>6, ChangesOn DEF TellsChange, Over

LEMMA StepChange ==
    ASSUME NEW t, Targets = {t}, ChangeInv(t), AloneInv', NEW r \in Runs,
           Step(r) \/ Fails(r)
    PROVE  ChangeInv(t)'
<1>1. job[r] \in Job
  BY DEF ChangeInv, AloneInv, TypeInv, TypeOK
<1>b. \A s : Blank(s).stage = s
  BY BlankStage
<1>2. CASE Begin(r)
  <2> DEFINE j == [job[r] EXCEPT !.stage = "fetch"]
  <2>1. job' = [job EXCEPT ![r] = j] /\ UNCHANGED doc /\ job[r].stage = "queued"
    BY <1>2 DEF Begin, store
  <2>2. j.stage = "fetch" /\ j.interesting = job[r].interesting
    BY <1>1 DEF Job
  <2> HIDE DEF j
  <2>3. QED
    BY <2>1, <2>2, ChangesOn DEF ChangeInv, TellsChange
<1>3. CASE Reread(r)
  <2> DEFINE j == [job[r] EXCEPT !.stage = "tell", !.toTell = doc.subs,
                                 !.shown = doc.state]
  <2>1. /\ \/ job' = [job EXCEPT ![r] = j]
           \/ job' = [job EXCEPT ![r] = Blank("done")]
        /\ UNCHANGED doc
    BY <1>3 DEF Reread, store
  <2>2. j.stage = "tell"
    BY <1>1 DEF Job
  <2> HIDE DEF j
  <2>3. QED
    BY <1>b, <2>1, <2>2, ChangesOn DEF ChangeInv, TellsChange
<1>4. ASSUME NEW s \in Subs, Tell(r, s) PROVE ChangeInv(t)'
  <2> DEFINE j == [job[r] EXCEPT !.toTell = job[r].toTell \ {s}]
  <2>1. /\ \/ job' = [job EXCEPT ![r] = j]
           \/ job' = [job EXCEPT ![r] = Blank("done")]
        /\ UNCHANGED doc /\ job[r].stage = "tell"
    BY <1>4 DEF Tell, TellRest, store
  <2>2. j.stage = "tell"
    BY <1>1, <2>1 DEF Job
  <2> HIDE DEF j
  <2>3. QED
    BY <1>b, <2>1, <2>2, ChangesOn DEF ChangeInv, TellsChange
<1>5. CASE Fails(r)
  <2>1. job' = [job EXCEPT ![r] = Blank("done")] /\ UNCHANGED doc
    BY <1>5 DEF Fails, store
  <2>2. QED
    BY <1>b, <2>1, ChangesOn DEF ChangeInv, TellsChange
<1>6. QED
  BY <1>2, <1>3, <1>4, <1>5, FetchChange, EvaluateChange, UpdateStateChange
  DEF Step

LEMMA NextChange ==
    ASSUME Pages = {}, NEW CONSTANT t, Targets = {t}
    PROVE  ChangeInv(t) /\ [PromptNext]_vars => ChangeInv(t)'
<1> SUFFICES ASSUME ChangeInv(t), [PromptNext]_vars PROVE ChangeInv(t)'
  OBVIOUS
<1>1. AloneInv' /\ TypeInv
  BY NextAlone DEF ChangeInv, AloneInv
<1>2. CASE PerformChecks
  <2> DEFINE j == [Blank("queued") EXCEPT !.check = doc]
  <2>1. scheduled + 1 \in Runs /\ UNCHANGED doc
           /\ job' = [job EXCEPT ![scheduled + 1] = j]
    BY <1>1, <1>2, ConstantsAssumption
    DEF PerformChecks, TypeInv, TypeOK, Runs, store
  <2>2. j.stage = "queued" /\ j.interesting = {}
    BY DEF Blank
  <2> HIDE DEF j
  <2>3. QED
    BY <1>1, <2>1, <2>2, ChangesOn DEF ChangeInv, TellsChange
<1>3. CASE Restart
  <2>1. UNCHANGED doc /\ \A q \in Runs : job'[q].stage \in Over
    BY <1>3, BlankStage DEF Restart, Over
  <2>2. QED
    BY <1>1, <2>1 DEF ChangeInv, TellsChange, Over
<1>4. CASE UNCHANGED vars
  BY <1>1, <1>4 DEF ChangeInv, vars
<1>5. QED
  BY <1>1, <1>2, <1>3, <1>4, StepChange, PromptSteps

\* With one target, what subscribers are told is a change from the last value,
\* whatever settings, failures and restarts there are.  (With two targets it is
\* not: see the run that refutes it.)
THEOREM OnlyChangesAreTold ==
    ASSUME Pages = {}, NEW CONSTANT t, Targets = {t}
    PROVE  PromptSpec => []ToldOnlyOfChanges
<1>1. ChangeInv(t) => ToldOnlyOfChanges
  <2> SUFFICES ASSUME ChangeInv(t), NEW r \in Runs, job[r].stage = "update",
                      ~job[r].check.settings.oneTime,
                      NEW a \in job[r].interesting
               PROVE  doc.lastValues[a.target] # a.to
    BY DEF ToldOnlyOfChanges
  <2>1. job[r].check = doc /\ doc # NoDoc /\ job[r] \in Job
    BY DEF ChangeInv, AloneInv, TypeInv, TypeOK, JobsAreSound, JobIsSound,
           Active, Before
  <2>2. a.to # doc.state /\ doc.lastValues[t] \in {"NONE", doc.state}
    BY <2>1 DEF ChangeInv, TellsChange
  <2>3. a.target = t /\ a.to # "NONE"
    BY <2>1 DEF Job, Alert, AlertType
  <2> QED
    BY <2>2, <2>3
<1>2. Init => ChangeInv(t)
  <2> SUFFICES ASSUME Init PROVE ChangeInv(t)
    OBVIOUS
  <2>1. doc.lastValues[t] = "NONE"
    BY DEF Init, Created, NoValues
  <2>2. \A r \in Runs : job[r].stage = "unborn"
    BY BlankStage DEF Init
  <2> QED
    BY <2>1, <2>2, InitAlone DEF ChangeInv, TellsChange
<1>3. ChangeInv(t) /\ [PromptNext]_vars => ChangeInv(t)'
  BY NextChange
<1> QED
  BY <1>1, <1>2, <1>3, PTL DEF PromptSpec

------------------------------------------------------------------------------
(***************************************************************************)
(* Between runs the subscribers are up to date.  The invariant follows the *)
(* live run: until it has news the document is what was last told; news is *)
(* there exactly when a value's level is not the one the check was at; and *)
(* while the run tells, the subscriptions it is done with know.            *)
(***************************************************************************)

\* Subscription s was last told of this level.
Knows(s, level, notices) ==
    LET told == {n \in notices : n.to = s}
    IN  IF told = {}
        THEN level = "OK"
        ELSE \E n \in told : n.level = level /\ \A m \in told : m.run <= n.run

AllKnow(d, notices) ==
    d.state # "UNKNOWN" =>
        \A s \in d.subs : d.state \notin Ignores[s] =>
            Knows(s, d.state, notices)

\* What a run at stage j.stage has brought about so far.
RunKeepsUp(r, j, d, notices) ==
    /\ j.stage \in Before => AllKnow(d, notices)
    /\ j.stage \in {"evaluate", "update"} /\ j.interesting = {} =>
          j.worst \in {"UNKNOWN", d.state}
    /\ j.stage \in {"reread", "tell"} => d.state = j.worst
    /\ j.stage = "reread" /\ j.interesting = {} => AllKnow(d, notices)
    /\ j.stage = "tell" =>
          \A s \in d.subs \ j.toTell : j.worst \notin Ignores[s] =>
              \E n \in notices : n.to = s /\ n.level = j.worst /\ n.run = r

UpInv ==
    /\ AloneInv
    /\ \A r \in Runs : job[r].stage \notin Over => r = scheduled
    /\ \A n \in sent : n.run <= scheduled
    /\ doc # NoDoc => /\ Quiet => AllKnow(doc, sent)
                      /\ \A r \in Runs : RunKeepsUp(r, job[r], doc, sent)

\* Nothing interferes, and the check is a normal one that wants data.
Undisturbed ==
    /\ Pages = {} /\ Faults = {} /\ Malformed = {}
    /\ \A s \in Settings : ~s.oneTime /\ ~s.allowNoData

LEMMA LiveStep ==
    ASSUME UpInv, AloneInv', NEW r \in Runs, NEW j,
           job[r].stage \notin Over, job' = [job EXCEPT ![r] = j],
           UNCHANGED scheduled, \A n \in sent' : n.run <= scheduled,
           doc' # NoDoc => /\ RunKeepsUp(r, j, doc', sent')
                           /\ j.stage \in Over => AllKnow(doc', sent')
    PROVE  UpInv'
<1>1. \A q \in Runs : q # r => job'[q] = job[q] /\ job[q].stage \in Over
  BY DEF UpInv, AloneInv, TypeInv, TypeOK
<1>2. job'[r] = j
  BY DEF UpInv, AloneInv, TypeInv, TypeOK
<1>3. \A q \in Runs : job'[q].stage \notin Over => q = scheduled'
  BY <1>1, <1>2 DEF UpInv
<1>4. \A q \in Runs : doc' # NoDoc => RunKeepsUp(q, job'[q], doc', sent')
  BY <1>1, <1>2 DEF RunKeepsUp, Over, Before
<1>5. Quiet' /\ doc' # NoDoc => AllKnow(doc', sent')
  BY <1>2 DEF Quiet, Over
<1>6. QED
  BY <1>3, <1>4, <1>5 DEF UpInv

\* The document and the messages stay as they are.
LEMMA SilentStep ==
    ASSUME UpInv, AloneInv', NEW r \in Runs, NEW j,
           job[r].stage \notin Over, job' = [job EXCEPT ![r] = j],
           UNCHANGED <<scheduled, doc, sent>>,
           doc # NoDoc => /\ RunKeepsUp(r, j, doc, sent)
                          /\ j.stage \in Over => AllKnow(doc, sent)
    PROVE  UpInv'
<1>1. \A n \in sent' : n.run <= scheduled
  BY DEF UpInv
<1>2. QED
  BY <1>1, LiveStep

LEMMA FetchUp ==
    ASSUME Undisturbed, UpInv, AloneInv', NEW r \in Runs, Fetch(r)
    PROVE  UpInv'
<1>1. PICK vals \in [Targets -> Reading] :
         LET present == {t \in Targets : vals[t] # "NONE"}
         IN  job' = [job EXCEPT
                ![r].stage  = IF present = {} THEN "update" ELSE "evaluate",
                ![r].values = vals,
                ![r].todo   = present,
                ![r].worst  = NoDataLevel(job[r].check)]
  BY DEF Fetch
<1> DEFINE present == {t \in Targets : vals[t] # "NONE"}
           j == [job[r] EXCEPT
                   !.stage = IF present = {} THEN "update" ELSE "evaluate",
                   !.values = vals,
                   !.todo = present,
                   !.worst = NoDataLevel(job[r].check)]
<1>2. job' = [job EXCEPT ![r] = j] /\ UNCHANGED <<scheduled, doc, sent>>
  BY <1>1 DEF Fetch, store
<1>3. job[r] \in Job /\ job[r].check = doc
  BY DEF Fetch, UpInv, AloneInv, TypeInv, TypeOK, Before
<1>4. j.stage \in {"update", "evaluate"} /\ j.worst = NoDataLevel(doc)
  BY <1>3 DEF Job
<1> HIDE DEF j
<1>5. ASSUME doc # NoDoc PROVE NoDataLevel(doc) = "UNKNOWN"
  BY <1>5 DEF NoDataLevel, Undisturbed, UpInv, AloneInv, TypeInv, TypeOK,
              CheckDoc
<1>6. doc # NoDoc => AllKnow(doc, sent)
  BY DEF Fetch, UpInv, RunKeepsUp, Before
<1>7. doc # NoDoc => RunKeepsUp(r, j, doc, sent)
  BY <1>4, <1>5, <1>6 DEF RunKeepsUp
<1>8. j.stage \notin Over /\ job[r].stage \notin Over
  BY <1>4 DEF Over, Fetch
<1>9. QED
  BY <1>2, <1>7, <1>8, SilentStep

\* A value either agrees with the document's state or makes news.
LEMMA EvaluateUp ==
    ASSUME Undisturbed, UpInv, AloneInv', NEW r \in Runs, Evaluate(r)
    PROVE  UpInv'
<1> DEFINE c == job[r].check
           current(t) == job[r].values[t]
           alert(t) == [run |-> r, target |-> t,
                        from |-> c.state, to |-> current(t)]
           rest(t) == job[r].todo \ {t}
           told(t) == IF ~Skips(c, current(t)) /\ IsInteresting(c, current(t))
                      THEN {alert(t)} ELSE {}
           j(t) == [job[r] EXCEPT
                      !.stage = IF rest(t) = {} THEN "update" ELSE "evaluate",
                      !.todo = rest(t),
                      !.worst = WorseOf(current(t), job[r].worst),
                      !.interesting = job[r].interesting \cup told(t)]
<1>1. PICK t \in job[r].todo :
         job' = [job EXCEPT
            ![r].stage = IF rest(t) = {} THEN "update" ELSE "evaluate",
            ![r].todo = rest(t),
            ![r].worst = WorseOf(current(t), job[r].worst),
            ![r].interesting = job[r].interesting \cup told(t)]
  BY DEF Evaluate
<1>2. job' = [job EXCEPT ![r] = j(t)] /\ UNCHANGED <<scheduled, doc, sent>>
  <2>1. UNCHANGED <<scheduled, doc, sent>>
    BY DEF Evaluate
  <2>2. job' = [job EXCEPT ![r] = j(t)]
    BY <1>1, Zenon
  <2>3. QED
    BY <2>1, <2>2
<1>3. job[r] \in Job /\ c = doc /\ job[r].stage = "evaluate"
  BY DEF Evaluate, UpInv, AloneInv, TypeInv, TypeOK, Before
<1>4. /\ j(t).stage \in {"update", "evaluate"}
      /\ j(t).worst = WorseOf(current(t), job[r].worst)
      /\ j(t).interesting = job[r].interesting \cup told(t)
  BY <1>3 DEF Job
<1>5. ASSUME doc # NoDoc, j(t).interesting = {}
      PROVE  j(t).worst \in {"UNKNOWN", doc.state}
  <2>1. ~doc.settings.oneTime
    BY <1>5 DEF Undisturbed, UpInv, AloneInv, TypeInv, TypeOK, CheckDoc
  <2>2. job[r].interesting = {} /\ told(t) = {}
    BY <1>4, <1>5
  <2>3. current(t) = doc.state
    BY <1>3, <2>1, <2>2 DEF Skips, IsInteresting, IsStillOk, StateIsTheSame
  <2>4. job[r].worst \in {"UNKNOWN", doc.state}
    BY <1>3, <1>5, <2>2 DEF UpInv, RunKeepsUp
  <2>5. QED
    BY <1>4, <2>3, <2>4 DEF WorseOf
<1>6. doc # NoDoc => AllKnow(doc, sent)
  BY <1>3 DEF UpInv, RunKeepsUp, Before
<1> HIDE DEF j
<1>7. doc # NoDoc => RunKeepsUp(r, j(t), doc, sent)
  BY <1>4, <1>5, <1>6 DEF RunKeepsUp
<1>8. j(t).stage \notin Over /\ job[r].stage \notin Over
  BY <1>3, <1>4 DEF Over
<1>9. QED
  BY <1>2, <1>7, <1>8, SilentStep

LEMMA UpdateStateUp ==
    ASSUME Undisturbed, UpInv, AloneInv', NEW r \in Runs, UpdateState(r)
    PROVE  UpInv'
<1> DEFINE j == [job[r] EXCEPT !.stage = "reread"]
<1>1. job' = [job EXCEPT ![r] = j] /\ UNCHANGED <<scheduled, sent>>
  BY DEF UpdateState
<1>2. job[r] \in Job /\ job[r].stage = "update"
  BY DEF UpdateState, UpInv, AloneInv, TypeInv, TypeOK
<1>3. /\ j.stage = "reread" /\ j.worst = job[r].worst
      /\ j.interesting = job[r].interesting
  BY <1>2 DEF Job
<1> HIDE DEF j
<1>4. ASSUME doc' # NoDoc PROVE RunKeepsUp(r, j, doc', sent')
  <2>1. doc # NoDoc
    BY <1>4 DEF UpdateState, SetStateAndLastCheckAndLastValues
  <2>2. doc'.state = job[r].worst /\ doc'.subs = doc.subs
    BY <2>1, StepTypeOfDoc
    DEF UpInv, NewState, Undisturbed, CheckDoc
  <2>3. j.interesting = {} => AllKnow(doc', sent')
    <3>1. AllKnow(doc, sent)
      BY <1>2, <2>1 DEF UpInv, RunKeepsUp, Before
    <3>2. j.interesting = {} => doc'.state \in {"UNKNOWN", doc.state}
      BY <1>2, <1>3, <2>1, <2>2 DEF UpInv, RunKeepsUp
    <3>3. QED
      BY <1>1, <2>2, <3>1, <3>2 DEF AllKnow
  <2>4. QED
    BY <1>3, <2>2, <2>3 DEF RunKeepsUp, Before
<1>5. \A n \in sent' : n.run <= scheduled
  BY <1>1 DEF UpInv
<1>6. j.stage \notin Over /\ job[r].stage \notin Over
  BY <1>2, <1>3 DEF Over
<1>7. QED
  BY <1>1, <1>4, <1>5, <1>6, LiveStep

LEMMA RereadUp ==
    ASSUME Undisturbed, UpInv, AloneInv', NEW r \in Runs, Reread(r)
    PROVE  UpInv'
<1>1. /\ job[r] \in Job /\ job[r].stage = "reread"
      /\ UNCHANGED <<scheduled, doc, sent>>
      /\ job[r].stage \notin Over
  BY DEF Reread, UpInv, AloneInv, TypeInv, TypeOK, store, Over
<1>2. CASE doc = NoDoc \/ job[r].interesting = {} \/ doc.subs = {}
  <2>1. job' = [job EXCEPT ![r] = Blank("done")]
    BY <1>2 DEF Reread
  <2>2. Blank("done").stage = "done"
    BY BlankStage
  <2>3. doc # NoDoc => AllKnow(doc, sent)
    BY <1>1, <1>2 DEF UpInv, RunKeepsUp, AllKnow
  <2>4. RunKeepsUp(r, Blank("done"), doc, sent)
    BY <2>2 DEF RunKeepsUp, Before
  <2>5. QED
    BY <1>1, <2>1, <2>3, <2>4, SilentStep
<1>3. CASE ~(doc = NoDoc \/ job[r].interesting = {} \/ doc.subs = {})
  <2> DEFINE j == [job[r] EXCEPT !.stage = "tell", !.toTell = doc.subs,
                                 !.shown = doc.state]
  <2>1. job' = [job EXCEPT ![r] = j]
    BY <1>3 DEF Reread
  <2>2. j.stage = "tell" /\ j.toTell = doc.subs /\ j.worst = job[r].worst
    BY <1>1 DEF Job
  <2> HIDE DEF j
  <2>3. doc.state = j.worst
    BY <1>1, <1>3, <2>2 DEF UpInv, RunKeepsUp
  <2>4. RunKeepsUp(r, j, doc, sent)
    BY <2>2, <2>3 DEF RunKeepsUp, Before
  <2>5. QED
    BY <1>1, <2>1, <2>2, <2>4, SilentStep DEF Over
<1>4. QED
  BY <1>2, <1>3

\* The subscription that is dealt with knows or does not want to; after the
\* last one all know.
LEMMA TellUp ==
    ASSUME Undisturbed, UpInv, AloneInv', NEW r \in Runs, NEW s \in Subs,
           Tell(r, s)
    PROVE  UpInv'
<1> DEFINE j == [job[r] EXCEPT !.toTell = job[r].toTell \ {s}]
<1>1. /\ job[r] \in Job /\ job[r].stage = "tell" /\ s \in job[r].toTell
      /\ UNCHANGED <<scheduled, doc>>
      /\ job[r].stage \notin Over /\ r = scheduled
      /\ scheduled \in Int
  BY DEF Tell, UpInv, AloneInv, TypeInv, TypeOK, store, Over
<1>2. /\ sent \subseteq sent'
      /\ \A n \in sent' \ sent : n.run = r
      /\ job[r].worst \notin Ignores[s] =>
           \E n \in sent' : n.to = s /\ n.level = job[r].worst /\ n.run = r
  <2>1. CASE job[r].worst \in Ignores[s]
    BY <2>1 DEF Tell, Undisturbed
  <2>2. CASE job[r].worst \notin Ignores[s]
    <3>1. PICK ok \in BOOLEAN :
            sent' = sent \cup
               {[run |-> r, to |-> s, level |-> job[r].worst,
                 shows |-> job[r].shown, alerts |-> job[r].interesting,
                 delivered |-> ok]}
      BY <2>2 DEF Tell, Undisturbed
    <3> DEFINE n == [run |-> r, to |-> s, level |-> job[r].worst,
                     shows |-> job[r].shown, alerts |-> job[r].interesting,
                     delivered |-> ok]
    <3>2. n.run = r /\ n.to = s /\ n.level = job[r].worst
      OBVIOUS
    <3>3. sent' = sent \cup {n}
      BY <3>1
    <3> HIDE DEF n
    <3>4. QED
      BY <3>2, <3>3
  <2>3. QED
    BY <2>1, <2>2
<1>3. TellRest(r, s)
  BY DEF Tell, Undisturbed
<1>4. \A n \in sent' : n.run <= scheduled
  BY <1>1, <1>2 DEF UpInv
<1>5. /\ j.stage = "tell" /\ j.worst = job[r].worst
      /\ j.toTell = job[r].toTell \ {s}
  BY <1>1 DEF Job
<1> HIDE DEF j
<1>6. ASSUME doc # NoDoc
      PROVE  /\ doc.state = job[r].worst
             /\ \A x \in doc.subs \ j.toTell : job[r].worst \notin Ignores[x] =>
                  \E n \in sent' : n.to = x /\ n.level = job[r].worst
                                   /\ n.run = r
  <2>1. RunKeepsUp(r, job[r], doc, sent)
    BY <1>6 DEF UpInv
  <2>2. QED
    BY <2>1, <1>1, <1>2, <1>5 DEF RunKeepsUp
<1>7. CASE job[r].toTell = {s}
  <2>1. job' = [job EXCEPT ![r] = Blank("done")]
    BY <1>3, <1>7 DEF TellRest
  <2>2. RunKeepsUp(r, Blank("done"), doc', sent')
    BY BlankStage DEF RunKeepsUp, Before
  <2>3. ASSUME doc # NoDoc PROVE AllKnow(doc, sent')
    <3>1. SUFFICES ASSUME NEW x \in doc.subs, doc.state \notin Ignores[x]
                   PROVE  Knows(x, doc.state, sent')
      BY DEF AllKnow
    <3>2. PICK n \in sent' : n.to = x /\ n.level = doc.state /\ n.run = r
      BY <1>5, <1>6, <1>7, <2>3, <3>1
    <3>3. \A m \in sent' : m.run <= n.run
      BY <1>1, <1>4, <3>2
    <3>4. QED
      BY <3>2, <3>3 DEF Knows
  <2>4. QED
    BY <1>1, <1>4, <2>1, <2>2, <2>3, LiveStep
<1>8. CASE job[r].toTell # {s}
  <2>1. job' = [job EXCEPT ![r] = j]
    BY <1>1, <1>3, <1>8 DEF TellRest, j
  <2>2. doc' # NoDoc => RunKeepsUp(r, j, doc', sent')
    BY <1>1, <1>5, <1>6 DEF RunKeepsUp, Before
  <2>3. QED
    BY <1>1, <1>4, <1>5, <2>1, <2>2, LiveStep DEF Over
<1>9. QED
  BY <1>7, <1>8

LEMMA NextUp ==
    ASSUME Undisturbed
    PROVE  UpInv /\ [PromptNext]_vars => UpInv'
<1> SUFFICES ASSUME UpInv, [PromptNext]_vars PROVE UpInv'
  OBVIOUS
<1>1. /\ AloneInv' /\ TypeInv
      /\ \/ PerformChecks /\ Quiet
         \/ \E r \in Runs : Step(r) \/ Fails(r)
         \/ Restart
         \/ UNCHANGED vars
  BY NextAlone, PromptSteps DEF UpInv, AloneInv, Undisturbed
<1>2. CASE PerformChecks /\ Quiet
  <2> DEFINE r == scheduled + 1
             j == [Blank("queued") EXCEPT !.check = doc]
  <2>1. /\ job' = [job EXCEPT ![r] = j] /\ UNCHANGED <<doc, sent>>
        /\ scheduled' = r /\ r \in Runs /\ scheduled \in Int /\ doc # NoDoc
    BY <1>1, <1>2, ConstantsAssumption
    DEF PerformChecks, store, TypeInv, TypeOK, Runs
  <2>2. j.stage = "queued"
    BY DEF Blank
  <2> HIDE DEF j
  <2>3. \A q \in Runs : q # r => job'[q].stage \in Over
    BY <1>1, <1>2, <2>1 DEF Quiet, Over, TypeInv, TypeOK
  <2>4. job'[r] = j
    BY <1>1, <2>1 DEF TypeInv, TypeOK
  <2>5. AllKnow(doc', sent')
    BY <1>2, <2>1 DEF UpInv
  <2>6. \A q \in Runs : RunKeepsUp(q, job'[q], doc', sent')
    BY <2>2, <2>3, <2>4, <2>5 DEF RunKeepsUp, Over, Before
  <2>7. \A n \in sent' : n.run <= scheduled'
    <3>1. \A n \in sent : n.run <= scheduled /\ n.run \in Int
      BY <1>1 DEF UpInv, TypeInv, TypeOK, Notice, Runs
    <3>2. QED
      BY <2>1, <3>1
  <2>8. QED
    BY <1>1, <2>1, <2>3, <2>5, <2>6, <2>7 DEF UpInv
<1>3. ASSUME NEW r \in Runs, Begin(r) PROVE UpInv'
  <2> DEFINE j == [job[r] EXCEPT !.stage = "fetch"]
  <2>1. /\ job' = [job EXCEPT ![r] = j]
        /\ UNCHANGED <<scheduled, doc, sent>>
        /\ job[r].stage = "queued"
    BY <1>3 DEF Begin, store
  <2>2. j.stage = "fetch"
    BY <1>1 DEF TypeInv, TypeOK, Job
  <2> HIDE DEF j
  <2>3. doc # NoDoc => RunKeepsUp(r, j, doc, sent)
    BY <2>1, <2>2 DEF UpInv, RunKeepsUp, Before
  <2>4. QED
    BY <1>1, <2>1, <2>2, <2>3, SilentStep DEF Over
<1>4. ~Restart /\ \A r \in Runs : ~Fails(r)
  BY DEF Undisturbed, Restart, Fails
<1>5. ASSUME NEW r \in Runs, Step(r) PROVE UpInv'
  BY <1>1, <1>3, <1>5, FetchUp, EvaluateUp, UpdateStateUp, RereadUp, TellUp
  DEF Step
<1>6. CASE UNCHANGED vars
  BY <1>1, <1>6 DEF vars, UpInv, Quiet
<1>7. QED
  BY <1>1, <1>2, <1>4, <1>5, <1>6

LEMMA InitUp == Init => UpInv
<1> SUFFICES ASSUME Init PROVE UpInv
  OBVIOUS
<1>1. \A r \in Runs : job[r].stage = "unborn"
  BY BlankStage DEF Init
<1>2. sent = {} /\ doc.state = "OK"
  BY DEF Init, Created
<1>3. AllKnow(doc, sent)
  BY <1>2 DEF AllKnow, Knows
<1>4. \A r \in Runs : RunKeepsUp(r, job[r], doc, sent)
  BY <1>1 DEF RunKeepsUp, Before
<1>5. QED
  BY <1>1, <1>2, <1>3, <1>4, InitAlone DEF UpInv, Over

\* Between runs the last message to each subscription is about the level the
\* check is at, unless its filter drops that level: for any number of targets,
\* ticks and subscriptions, deliveries that fail included.
THEOREM UpToDate ==
    ASSUME Undisturbed
    PROVE  PromptSpec => []SubscribersAreUpToDate
<1>1. UpInv => SubscribersAreUpToDate
  BY DEF UpInv, AllKnow, Knows, SubscribersAreUpToDate
<1>2. QED
  BY <1>1, InitUp, NextUp, PTL DEF PromptSpec

------------------------------------------------------------------------------
(***************************************************************************)
(* Runs implement Announcements, and faults cost no more than what is      *)
(* pending.  The live run of a normal check is followed from its first     *)
(* value on: its worst level is one that a check can be at, without news   *)
(* it is the level the check is at or that of no data, from the write on   *)
(* it is the state of the check, and until the run tells somebody no       *)
(* message bears its number.                                               *)
(***************************************************************************)

RunAnnounces(r, j, d, notices) ==
    /\ j.stage \in {"queued", "fetch"} => j.interesting = {}
    /\ j.stage \in {"evaluate", "update"} =>
          /\ j.worst \in Level \cup {"UNKNOWN"}
          /\ j.interesting # {} => j.worst # "UNKNOWN"
          /\ j.interesting = {} => j.worst \in {NoDataLevel(d), d.state}
    /\ j.stage \in {"reread", "tell"} => d.state = j.worst
    /\ j.stage \notin Over =>
          \A n \in notices : n.run = r => j.stage = "tell" /\ n.level = j.worst

AnnounceInv ==
    /\ AloneInv
    /\ doc # NoDoc
    /\ \A r \in Runs : job[r].stage \notin Over => r = scheduled
    /\ \A n \in sent : n.run <= scheduled
    /\ ~doc.settings.oneTime => \A r \in Runs : RunAnnounces(r, job[r], doc, sent)

\* What the abstract variables stand for.
Pending == UNION {StillToTell(r) : r \in Runs}
Heard == [s \in Subs |-> LastTold(s)]
Wanting(l) == {s \in doc.subs : l \notin Ignores[s]}

\* A step as promised, or a loss that a fault accounts for.
Disturbed == Faults # {} \/ Malformed # {}
PromisedStep ==
    [Promise!Next]_(Promise!vars) \/ (Disturbed /\ Promise!GiveUp)

LEMMA AbstractStutter ==
    ASSUME UNCHANGED <<doc, sent>>, Pending' = Pending
    PROVE  UNCHANGED Promise!vars
<1>1. Heard' = Heard
  BY DEF Heard, LastTold
<1>2. QED
  BY <1>1 DEF Promise!vars, Pending, Heard

LEMMA AbstractGiveUp ==
    ASSUME UNCHANGED <<doc, sent>>, Pending' = {}
    PROVE  Promise!GiveUp
<1>1. Heard' = Heard
  BY DEF Heard, LastTold
<1>2. QED
  BY <1>1 DEF Promise!GiveUp, Pending, Heard

LEMMA AbstractAssess ==
    ASSUME NEW l \in Level \cup {"UNKNOWN"}, UNCHANGED sent, Pending = {},
           doc'.state = l, doc'.subs = doc.subs, doc'.settings = doc.settings,
           \/ l # "UNKNOWN" /\ Pending' = Wanting(l)
           \/ Pending' = {} /\ l \in {NoDataLevel(doc), doc.state}
    PROVE  Promise!Next
<1>1. Heard' = Heard
  BY DEF Heard, LastTold
<1>2. l \in Promise!Level \cup {"UNKNOWN"}
  BY DEF Promise!Level, Level
<1>3. Promise!Audience(l) = Wanting(l)
  BY DEF Promise!Audience, Wanting
<1>4. CASE l # "UNKNOWN" /\ l # doc.state /\ Pending' # Wanting(l)
  <2>1. doc.settings.allowNoData /\ l = "OK" /\ Pending' = {}
    BY <1>4 DEF NoDataLevel
  <2>2. Promise!DataStops
    BY <1>1, <2>1 DEF Promise!DataStops, Pending, Heard
  <2>3. QED
    BY <2>2 DEF Promise!Next
<1>5. CASE \/ l = "UNKNOWN"
           \/ l = doc.state
           \/ Pending' = Wanting(l)
  <2>1. Pending' \in CASE l = "UNKNOWN" -> {{}}
                       [] l = doc.state /\ l # "UNKNOWN" -> {{}, Wanting(l)}
                       [] l # doc.state /\ l # "UNKNOWN" -> {Wanting(l)}
    <3>1. CASE l = "UNKNOWN"
      BY <3>1
    <3>2. CASE l # "UNKNOWN" /\ l = doc.state
      BY <3>2
    <3>3. CASE l # "UNKNOWN" /\ l # doc.state
      BY <1>5, <3>3
    <3>4. QED
      BY <3>1, <3>2, <3>3
  <2>2. Promise!Assess(l)
    BY <1>1, <1>3, <2>1 DEF Promise!Assess, Pending, Heard
  <2>3. QED
    BY <1>2, <2>2 DEF Promise!Next
<1>6. QED
  BY <1>4, <1>5

LEMMA AbstractTell ==
    ASSUME NEW s \in Subs, UNCHANGED doc, s \in Pending,
           Pending' = Pending \ {s}, Heard' = [Heard EXCEPT ![s] = doc.state]
    PROVE  Promise!Next
<1>1. Promise!Tell(s)
  BY DEF Promise!Tell, Pending, Heard
<1>2. QED
  BY <1>1 DEF Promise!Next

------------------------------------------------------------------------------

\* Only the live run has anybody to tell.
LEMMA PendingOfLive ==
    ASSUME AloneInv, NEW r \in Runs, NEW j, job[r].stage \notin Over,
           job' = [job EXCEPT ![r] = j]
    PROVE  /\ job'[r] = j
           /\ Pending = StillToTell(r)
           /\ Pending' = StillToTell(r)'
<1>1. job'[r] = j /\ \A q \in Runs : q # r => job'[q] = job[q] /\ job[q].stage \in Over
  BY DEF AloneInv, TypeInv, TypeOK
<1>2. \A q \in Runs : q # r => StillToTell(q) = {} /\ StillToTell(q)' = {}
  BY <1>1 DEF StillToTell, Over
<1>3. QED
  BY <1>1, <1>2 DEF Pending

LEMMA NobodyPending ==
    (\A r \in Runs : job[r].stage \in Over \cup Before) => Pending = {}
BY DEF Pending, StillToTell, Over, Before

\* A step of the live run r.
LEMMA LiveAnnounces ==
    ASSUME AnnounceInv, AloneInv', NEW r \in Runs, NEW j, job[r].stage \notin Over,
           job' = [job EXCEPT ![r] = j], doc' # NoDoc, UNCHANGED scheduled,
           \A n \in sent' : n \in sent \/ n.run = r,
           ~doc'.settings.oneTime => RunAnnounces(r, j, doc', sent')
    PROVE  AnnounceInv'
<1>1. job'[r] = j /\ \A q \in Runs : q # r => job'[q] = job[q] /\ job[q].stage \in Over
  BY DEF AnnounceInv, AloneInv, TypeInv, TypeOK
<1>2. ~doc'.settings.oneTime => \A q \in Runs : RunAnnounces(q, job'[q], doc', sent')
  BY <1>1 DEF RunAnnounces, Over
<1>3. r = scheduled /\ r <= r
  BY DEF AnnounceInv, Runs
<1>4. \A q \in Runs : job'[q].stage \notin Over => q = scheduled'
  BY <1>1, <1>3
<1>5. \A n \in sent' : n.run <= scheduled'
  BY <1>3 DEF AnnounceInv
<1>6. QED
  BY <1>2, <1>4, <1>5 DEF AnnounceInv

\* A step that tells nobody and writes nothing, by a run that has the same
\* subscriptions to tell before and after.
LEMMA SilentAnnounces ==
    ASSUME AnnounceInv, AloneInv', NEW r \in Runs, NEW j, job[r].stage \notin Over,
           job' = [job EXCEPT ![r] = j], UNCHANGED <<doc, sent, scheduled>>,
           ~doc.settings.oneTime => RunAnnounces(r, j, doc, sent),
           StillToTell(r)' = StillToTell(r)
    PROVE  AnnounceInv' /\ UNCHANGED Promise!vars
<1>1. AnnounceInv'
  <2>1. /\ doc' # NoDoc
        /\ ~doc'.settings.oneTime => RunAnnounces(r, j, doc', sent')
        /\ \A n \in sent' : n \in sent
    BY DEF AnnounceInv
  <2>2. QED
    BY <2>1, LiveAnnounces
<1>2. AloneInv
  BY DEF AnnounceInv
<1>3. Pending' = Pending
  BY <1>2, PendingOfLive
<1>4. QED
  BY <1>1, <1>3, AbstractStutter

\* The run is cut off: whoever it still had to tell misses the news.
LEMMA OverAnnounces ==
    ASSUME AnnounceInv, AloneInv', NEW r \in Runs, job[r].stage \notin Over,
           job' = [job EXCEPT ![r] = Blank("done")],
           UNCHANGED <<doc, sent, scheduled>>
    PROVE  AnnounceInv' /\ Promise!GiveUp
<1> DEFINE j == Blank("done")
<1>1. j.stage = "done"
  BY BlankStage
<1> HIDE DEF j
<1>2. RunAnnounces(r, j, doc', sent')
  BY <1>1 DEF RunAnnounces, Over
<1>3. AnnounceInv'
  <2>1. doc' # NoDoc /\ \A n \in sent' : n \in sent
    BY DEF AnnounceInv
  <2>2. job' = [job EXCEPT ![r] = j]
    BY DEF j
  <2>3. QED
    BY <1>2, <2>1, <2>2, LiveAnnounces
<1>4. Pending' = {}
  <2>1. job' = [job EXCEPT ![r] = j] /\ AloneInv
    BY DEF j, AnnounceInv
  <2>2. job'[r] = j /\ Pending' = StillToTell(r)'
    BY <2>1, PendingOfLive
  <2>3. QED
    BY <1>1, <2>2 DEF StillToTell
<1>5. QED
  BY <1>3, <1>4, AbstractGiveUp

LEMMA FetchAnnounces ==
    ASSUME AnnounceInv, AloneInv', NEW r \in Runs, Fetch(r)
    PROVE  AnnounceInv' /\ UNCHANGED Promise!vars
<1>1. PICK vals \in [Targets -> Reading] :
         LET present == {t \in Targets : vals[t] # "NONE"}
         IN  job' = [job EXCEPT
                ![r].stage  = IF present = {} THEN "update" ELSE "evaluate",
                ![r].values = vals,
                ![r].todo   = present,
                ![r].worst  = NoDataLevel(job[r].check)]
  BY DEF Fetch
<1> DEFINE present == {t \in Targets : vals[t] # "NONE"}
           j == [job[r] EXCEPT
                   !.stage = IF present = {} THEN "update" ELSE "evaluate",
                   !.values = vals,
                   !.todo = present,
                   !.worst = NoDataLevel(job[r].check)]
<1>2. job' = [job EXCEPT ![r] = j] /\ UNCHANGED <<doc, sent, scheduled>>
  BY <1>1 DEF Fetch, store
<1>3. job[r] \in Job /\ job[r].stage = "fetch" /\ job[r].check = doc
  BY DEF Fetch, AnnounceInv, AloneInv, TypeInv, TypeOK, Before
<1>4. /\ j.stage \in {"update", "evaluate"}
      /\ j.worst = NoDataLevel(doc)
      /\ j.interesting = job[r].interesting
  BY <1>3 DEF Job
<1>5. NoDataLevel(doc) \in Level \cup {"UNKNOWN"}
  BY DEF NoDataLevel, Level
<1> HIDE DEF j, present
<1>6. ~doc.settings.oneTime => RunAnnounces(r, j, doc, sent)
  <2> SUFFICES ASSUME ~doc.settings.oneTime PROVE RunAnnounces(r, j, doc, sent)
    OBVIOUS
  <2>1. RunAnnounces(r, job[r], doc, sent)
    BY DEF AnnounceInv
  <2>2. j.interesting = {} /\ \A n \in sent : n.run # r
    BY <1>3, <1>4, <2>1 DEF RunAnnounces, Over
  <2>3. QED
    BY <1>4, <1>5, <2>2 DEF RunAnnounces
<1>7. job[r].stage \notin Over
  BY <1>3 DEF Over
<1>8. job'[r] = j
  BY <1>2 DEF AnnounceInv, AloneInv, TypeInv, TypeOK
<1>9. StillToTell(r)' = StillToTell(r)
  BY <1>3, <1>4, <1>8 DEF StillToTell
<1>10. QED
  BY <1>2, <1>6, <1>7, <1>9, SilentAnnounces

\* Whatever value there is, the worst level is no longer that of no data; and a
\* value that is no news is at the check's level.
LEMMA EvaluateAnnounces ==
    ASSUME AnnounceInv, AloneInv', NEW r \in Runs, Evaluate(r)
    PROVE  AnnounceInv' /\ UNCHANGED Promise!vars
<1> DEFINE c == job[r].check
           current(t) == job[r].values[t]
           alert(t) == [run |-> r, target |-> t,
                        from |-> c.state, to |-> current(t)]
           rest(t) == job[r].todo \ {t}
           told(t) == IF ~Skips(c, current(t)) /\ IsInteresting(c, current(t))
                      THEN {alert(t)} ELSE {}
           j(t) == [job[r] EXCEPT
                      !.stage = IF rest(t) = {} THEN "update" ELSE "evaluate",
                      !.todo = rest(t),
                      !.worst = WorseOf(current(t), job[r].worst),
                      !.interesting = job[r].interesting \cup told(t)]
<1>1. PICK t \in job[r].todo :
         job' = [job EXCEPT
            ![r].stage = IF rest(t) = {} THEN "update" ELSE "evaluate",
            ![r].todo = rest(t),
            ![r].worst = WorseOf(current(t), job[r].worst),
            ![r].interesting = job[r].interesting \cup told(t)]
  BY DEF Evaluate
<1>2. job' = [job EXCEPT ![r] = j(t)] /\ UNCHANGED <<doc, sent, scheduled>>
  BY <1>1 DEF Evaluate
<1>3. /\ job[r] \in Job /\ job[r].stage = "evaluate" /\ c = doc
      /\ JobIsSound(job[r])
  BY DEF Evaluate, AnnounceInv, AloneInv, TypeInv, TypeOK, JobsAreSound, Before
<1>4. /\ j(t).stage \in {"update", "evaluate"}
      /\ j(t).worst = WorseOf(current(t), job[r].worst)
      /\ j(t).interesting = job[r].interesting \cup told(t)
  BY <1>3 DEF Job
<1>5. current(t) \in Level
  <2>1. current(t) # "NONE"
    BY <1>3 DEF JobIsSound
  <2>2. current(t) \in Reading
    BY <1>3 DEF Job
  <2>3. QED
    BY <2>1, <2>2 DEF Reading
<1>6. ~doc.settings.oneTime => RunAnnounces(r, j(t), doc, sent)
  <2> SUFFICES ASSUME ~doc.settings.oneTime PROVE RunAnnounces(r, j(t), doc, sent)
    OBVIOUS
  <2>1. RunAnnounces(r, job[r], doc, sent)
    BY DEF AnnounceInv
  <2>2. j(t).worst \in Level
    <3>1. job[r].worst \in Level \cup {"UNKNOWN"}
      BY <1>3, <2>1 DEF RunAnnounces
    <3>2. job[r].worst = "UNKNOWN" => IsWorseThan(current(t), job[r].worst)
      BY <1>5 DEF IsWorseThan, Severity, Level
    <3>3. QED
      BY <1>4, <1>5, <3>1, <3>2 DEF WorseOf
  <2>3. "UNKNOWN" \notin Level
    BY DEF Level
  <2>4. \A n \in sent : n.run # r
    BY <1>3, <2>1 DEF RunAnnounces, Over
  <2>5. ASSUME j(t).interesting = {}
        PROVE  j(t).worst \in {NoDataLevel(doc), doc.state}
    <3>1. job[r].interesting = {} /\ told(t) = {}
      BY <1>4, <2>5
    <3>2. current(t) = doc.state
      BY <1>3, <3>1
      DEF Skips, IsInteresting, IsStillOk, StateIsTheSame
    <3>3. job[r].worst \in {NoDataLevel(doc), doc.state}
      BY <1>3, <2>1, <3>1 DEF RunAnnounces
    <3>4. QED
      BY <1>4, <3>2, <3>3 DEF WorseOf
  <2> HIDE DEF j
  <2>6. QED
    BY <1>4, <2>2, <2>3, <2>4, <2>5 DEF RunAnnounces
<1>7. job[r].stage \notin Over
  BY <1>3 DEF Over
<1>8. job'[r] = j(t)
  BY <1>2 DEF AnnounceInv, AloneInv, TypeInv, TypeOK
<1> HIDE DEF j
<1>9. StillToTell(r)' = StillToTell(r)
  BY <1>3, <1>4, <1>8 DEF StillToTell
<1>10. QED
  BY <1>2, <1>6, <1>7, <1>9, SilentAnnounces

\* The write is the assessment, or the end of the data.
LEMMA UpdateStateAnnounces ==
    ASSUME AnnounceInv, AloneInv', NEW r \in Runs, UpdateState(r)
    PROVE  AnnounceInv' /\ (~doc.settings.oneTime => Promise!Next)
<1> DEFINE j == [job[r] EXCEPT !.stage = "reread"]
           l == job[r].worst
<1>1. job' = [job EXCEPT ![r] = j] /\ UNCHANGED <<sent, scheduled>>
  BY DEF UpdateState
<1>2. /\ AloneInv /\ doc # NoDoc /\ doc \in CheckDoc
      /\ job[r] \in Job /\ job[r].stage = "update" /\ job[r].stage \notin Over
      /\ \A n \in sent' : n \in sent
  BY <1>1 DEF UpdateState, AnnounceInv, AloneInv, TypeInv, TypeOK, Over
<1>3. /\ j.stage = "reread" /\ j.worst = l
      /\ j.interesting = job[r].interesting
  BY <1>2 DEF Job
<1>4. /\ doc'.state = NewState(doc, l)
      /\ doc'.settings = doc.settings /\ doc'.subs = doc.subs
  BY <1>2, StepTypeOfDoc
<1>5. doc' # NoDoc
  <2>1. doc' = [doc EXCEPT !.state = NewState(job[r].check, l), !.lastCheck = r,
                           !.lastValues = job[r].values]
    BY <1>2 DEF UpdateState, SetStateAndLastCheckAndLastValues
  <2>2. NewState(job[r].check, l) \in AlertType
    <3>1. job[r].check = doc
      BY <1>2, StepTypeOfDoc
    <3>2. QED
      BY <1>2, <3>1 DEF NewState, Job, CheckDoc
  <2>3. r \in 0 .. MaxRuns /\ job[r].values \in [Targets -> Reading]
    BY <1>2 DEF Job, Runs
  <2>4. doc' \in CheckDoc
    BY <1>2, <2>1, <2>2, <2>3 DEF CheckDoc
  <2>5. QED
    BY <2>4, NoDocAssumption
<1> HIDE DEF j
<1>6. ASSUME ~doc.settings.oneTime
      PROVE  RunAnnounces(r, j, doc', sent') /\ Promise!Next
  <2>1. RunAnnounces(r, job[r], doc, sent)
    BY <1>6 DEF AnnounceInv
  <2>2. doc'.state = l
    BY <1>4, <1>6 DEF NewState
  <2>3. /\ l \in Level \cup {"UNKNOWN"}
        /\ j.interesting # {} => l # "UNKNOWN"
        /\ j.interesting = {} => l \in {NoDataLevel(doc), doc.state}
        /\ \A n \in sent : n.run # r
    BY <1>2, <1>3, <2>1 DEF RunAnnounces
  <2>4. RunAnnounces(r, j, doc', sent')
    BY <1>1, <1>3, <2>2, <2>3 DEF RunAnnounces
  <2>5. Pending = {} /\ Pending' = IF j.interesting # {} THEN Wanting(l) ELSE {}
    <3>1. job'[r] = j /\ Pending = StillToTell(r) /\ Pending' = StillToTell(r)'
      BY <1>1, <1>2, PendingOfLive
    <3>2. QED
      BY <1>2, <1>3, <1>4, <3>1 DEF StillToTell, Wanting
  <2>6. Promise!Next
    BY <1>1, <1>4, <2>2, <2>3, <2>5, AbstractAssess
  <2>7. QED
    BY <2>4, <2>6
<1>7. AnnounceInv'
  BY <1>1, <1>2, <1>4, <1>5, <1>6, LiveAnnounces
<1>8. QED
  BY <1>6, <1>7

LEMMA RereadAnnounces ==
    ASSUME AnnounceInv, AloneInv', NEW r \in Runs, Reread(r)
    PROVE  AnnounceInv' /\ UNCHANGED Promise!vars
<1>1. /\ job[r] \in Job /\ job[r].stage = "reread" /\ job[r].stage \notin Over
      /\ UNCHANGED <<doc, sent, scheduled>> /\ doc # NoDoc
      /\ ~doc.settings.oneTime => RunAnnounces(r, job[r], doc, sent)
  BY DEF Reread, AnnounceInv, AloneInv, TypeInv, TypeOK, store, Over
<1>2. \A x : job' = [job EXCEPT ![r] = x] => job'[r] = x
  BY DEF AnnounceInv, AloneInv, TypeInv, TypeOK
<1>3. CASE job[r].interesting = {} \/ doc.subs = {}
  <2>1. job' = [job EXCEPT ![r] = Blank("done")]
    BY <1>3 DEF Reread
  <2>2. Blank("done").stage = "done"
    BY BlankStage
  <2>3. RunAnnounces(r, Blank("done"), doc, sent)
    BY <2>2 DEF RunAnnounces, Over
  <2>4. StillToTell(r)' = StillToTell(r)
    BY <1>1, <1>2, <1>3, <2>1, <2>2 DEF StillToTell
  <2>5. QED
    BY <1>1, <2>1, <2>3, <2>4, SilentAnnounces
<1>4. CASE ~(job[r].interesting = {} \/ doc.subs = {})
  <2> DEFINE j == [job[r] EXCEPT !.stage = "tell", !.toTell = doc.subs,
                                 !.shown = doc.state]
  <2>1. job' = [job EXCEPT ![r] = j]
    BY <1>1, <1>4 DEF Reread
  <2>2. j.stage = "tell" /\ j.toTell = doc.subs /\ j.worst = job[r].worst
    BY <1>1 DEF Job
  <2> HIDE DEF j
  <2>3. ~doc.settings.oneTime => RunAnnounces(r, j, doc, sent)
    BY <1>1, <2>2 DEF RunAnnounces
  <2>4. StillToTell(r)' = StillToTell(r)
    BY <1>1, <1>2, <1>4, <2>1, <2>2 DEF StillToTell
  <2>5. QED
    BY <1>1, <2>1, <2>3, <2>4, SilentAnnounces
<1>5. QED
  BY <1>3, <1>4

\* What a message to s does to what the subscriptions were last told.
LEMMA TellingChangesHeard ==
    ASSUME NEW r \in Runs, NEW s \in Subs, NEW l, NEW n,
           \A m \in sent : m.run \in Int /\ m.run <= r,
           \A m \in sent : m.run = r => m.level = l,
           sent' = sent \cup {n}, n.run = r, n.to = s, n.level = l
    PROVE  Heard' = [Heard EXCEPT ![s] = l]
<1>1. \A m \in sent' : m.run <= r /\ m.run \in Int
  BY DEF Runs
<1>2. \A m \in sent' : m.run = r => m.level = l
  OBVIOUS
<1>3. LastTold(s)' = l
  <2> DEFINE told == {m \in sent' : m.to = s}
             last == CHOOSE m \in told : \A k \in told : k.run <= m.run
  <2>1. n \in told /\ \A k \in told : k.run <= n.run
    BY <1>1
  <2>2. last \in told /\ \A k \in told : k.run <= last.run
    BY <2>1
  <2>3. last.run = r
    BY <1>1, <2>1, <2>2 DEF Runs
  <2>4. last.level = l
    BY <1>2, <2>2, <2>3
  <2>5. LastTold(s)' = last.level
    BY <2>1 DEF LastTold
  <2>6. QED
    BY <2>4, <2>5
<1>4. ASSUME NEW x \in Subs, x # s PROVE LastTold(x)' = LastTold(x)
  <2> DEFINE to(S) == {m \in S : m.to = x}
             last(S) == IF S = {}
                        THEN "OK"
                        ELSE (CHOOSE k \in S :
                                \A m \in S : m.run <= k.run).level
  <2>1. to(sent') = to(sent)
    BY <1>4
  <2>2. LastTold(x) = last(to(sent)) /\ LastTold(x)' = last(to(sent'))
    BY DEF LastTold
  <2> HIDE DEF last, to
  <2>3. QED
    BY <2>1, <2>2
<1>5. QED
  BY <1>3, <1>4 DEF Heard

\* The step of a run that deals with s.
LEMMA TellAnnounces ==
    ASSUME AnnounceInv, AloneInv', NEW r \in Runs, NEW s \in Subs, Tell(r, s)
    PROVE  AnnounceInv' /\ (~doc.settings.oneTime => PromisedStep)
<1> DEFINE l == job[r].worst
           j == IF job[r].toTell = {s}
                THEN Blank("done")
                ELSE [job[r] EXCEPT !.toTell = job[r].toTell \ {s}]
<1>1. /\ AloneInv /\ doc # NoDoc /\ UNCHANGED <<doc, scheduled>>
      /\ job[r] \in Job /\ job[r].stage = "tell" /\ s \in job[r].toTell
      /\ job[r].stage \notin Over
      /\ r = scheduled
      /\ \A m \in sent : m.run <= r /\ m.run \in Int
  BY DEF Tell, AnnounceInv, AloneInv, TypeInv, TypeOK, store, Over, Notice, Runs
<1>2. CASE s \in Malformed
  <2>1. job' = [job EXCEPT ![r] = Blank("done")] /\ UNCHANGED sent
    BY <1>2 DEF Tell
  <2>2. AnnounceInv' /\ Promise!GiveUp
    BY <1>1, <2>1, OverAnnounces
  <2>3. QED
    BY <1>2, <2>2 DEF PromisedStep, Disturbed
<1>3. CASE s \notin Malformed
  <2>1. job' = [job EXCEPT ![r] = j]
    BY <1>3 DEF Tell, TellRest
  <2>2. job[r].toTell = {s} => j.stage = "done"
    BY BlankStage
  <2>3. job[r].toTell # {s} => /\ j.stage = "tell" /\ j.worst = l
                              /\ j.toTell = job[r].toTell \ {s}
    BY <1>1 DEF Job
  <2> HIDE DEF j
  <2>4. /\ Pending = {x \in job[r].toTell : l \notin Ignores[x]}
        /\ Pending' = {x \in job[r].toTell \ {s} : l \notin Ignores[x]}
    <3>1. job'[r] = j /\ Pending = StillToTell(r) /\ Pending' = StillToTell(r)'
      BY <1>1, <2>1, PendingOfLive
    <3>2. QED
      BY <1>1, <2>2, <2>3, <3>1 DEF StillToTell
  <2>5. ASSUME ~doc.settings.oneTime
        PROVE  /\ RunAnnounces(r, job[r], doc, sent)
               /\ doc.state = l
               /\ \A m \in sent : m.run = r => m.level = l
    BY <1>1, <2>5 DEF AnnounceInv, RunAnnounces
  <2>6. ASSUME \A n \in sent' : n \in sent \/ (n.run = r /\ n.level = l)
        PROVE  AnnounceInv'
    <3>1. ~doc'.settings.oneTime => RunAnnounces(r, j, doc', sent')
      BY <1>1, <2>2, <2>3, <2>5, <2>6 DEF RunAnnounces, Over
    <3>2. QED
      BY <1>1, <2>1, <2>6, <3>1, LiveAnnounces
  <2>7. CASE l \in Ignores[s]
    <3>1. UNCHANGED sent
      BY <1>3, <2>7 DEF Tell
    <3>2. Pending' = Pending
      BY <2>4, <2>7
    <3>3. UNCHANGED Promise!vars
      BY <1>1, <3>1, <3>2, AbstractStutter
    <3>4. QED
      BY <2>6, <3>1, <3>3 DEF PromisedStep
  <2>8. CASE l \notin Ignores[s]
    <3>1. PICK ok \in BOOLEAN :
            sent' = sent \cup
               {[run |-> r, to |-> s, level |-> job[r].worst,
                 shows |-> job[r].shown, alerts |-> job[r].interesting,
                 delivered |-> ok]}
      BY <1>3, <2>8 DEF Tell
    <3> DEFINE n == [run |-> r, to |-> s, level |-> job[r].worst,
                     shows |-> job[r].shown, alerts |-> job[r].interesting,
                     delivered |-> ok]
    <3>2. sent' = sent \cup {n} /\ n.run = r /\ n.to = s /\ n.level = l
      BY <3>1
    <3> HIDE DEF n, l
    <3>3. ~doc.settings.oneTime => Promise!Next
      <4> SUFFICES ASSUME ~doc.settings.oneTime PROVE Promise!Next
        OBVIOUS
      <4>1. Heard' = [Heard EXCEPT ![s] = doc.state]
        BY <1>1, <2>5, <3>2, TellingChangesHeard
      <4>2. s \in Pending /\ Pending' = Pending \ {s}
        BY <1>1, <2>4, <2>8
      <4>3. QED
        BY <1>1, <4>1, <4>2, AbstractTell
    <3>4. QED
      BY <2>6, <3>2, <3>3 DEF PromisedStep
  <2>9. QED
    BY <2>7, <2>8
<1>4. QED
  BY <1>2, <1>3

LEMMA BeginAnnounces ==
    ASSUME AnnounceInv, AloneInv', NEW r \in Runs, Begin(r)
    PROVE  AnnounceInv' /\ UNCHANGED Promise!vars
<1> DEFINE j == [job[r] EXCEPT !.stage = "fetch"]
<1>1. /\ job' = [job EXCEPT ![r] = j] /\ UNCHANGED <<doc, sent, scheduled>>
      /\ job[r].stage = "queued" /\ job[r].stage \notin Over
      /\ ~doc.settings.oneTime => RunAnnounces(r, job[r], doc, sent)
  BY DEF Begin, store, Over, AnnounceInv
<1>2. j.stage = "fetch" /\ j.interesting = job[r].interesting
  BY DEF AnnounceInv, AloneInv, TypeInv, TypeOK, Job
<1>3. job'[r] = j
  BY <1>1 DEF AnnounceInv, AloneInv, TypeInv, TypeOK
<1> HIDE DEF j
<1>4. ~doc.settings.oneTime => RunAnnounces(r, j, doc, sent)
  BY <1>1, <1>2 DEF RunAnnounces
<1>5. StillToTell(r)' = StillToTell(r)
  BY <1>1, <1>2, <1>3 DEF StillToTell
<1>6. QED
  BY <1>1, <1>4, <1>5, SilentAnnounces

LEMMA NextAnnounces ==
    ASSUME Pages = {}, AnnounceInv, [PromptNext]_vars
    PROVE  AnnounceInv' /\ (~doc.settings.oneTime => PromisedStep)
<1>1. /\ AloneInv' /\ TypeInv
      /\ \/ PerformChecks /\ Quiet
         \/ \E r \in Runs : Step(r) \/ Fails(r)
         \/ Restart
         \/ UNCHANGED vars
  BY NextAlone, PromptSteps DEF AnnounceInv, AloneInv
<1>2. CASE PerformChecks /\ Quiet
  <2> DEFINE r == scheduled + 1
             j == [Blank("queued") EXCEPT !.check = doc]
  <2>1. /\ job' = [job EXCEPT ![r] = j] /\ UNCHANGED <<doc, sent>>
        /\ r \in Runs /\ scheduled \in Int /\ scheduled' = r
    BY <1>1, <1>2, ConstantsAssumption
    DEF PerformChecks, store, TypeInv, TypeOK, Runs
  <2>2. j.stage = "queued" /\ j.interesting = {}
    BY DEF Blank
  <2> HIDE DEF j
  <2>3. \A q \in Runs : /\ job[q].stage \in Over
                        /\ job'[q].stage \in Over \/ job'[q] = j
    BY <1>1, <1>2, <2>1 DEF Quiet, Over, TypeInv, TypeOK
  <2>4. job'[r] = j /\ \A q \in Runs : q # r => job'[q].stage \in Over
    BY <1>1, <2>1, <2>3 DEF TypeInv, TypeOK
  <2>5. \A n \in sent : n.run <= r /\ n.run # r
    BY <1>1, <2>1 DEF AnnounceInv, TypeInv, TypeOK, Notice, Runs
  <2>6. AnnounceInv'
    <3>1. \A q \in Runs : RunAnnounces(q, job'[q], doc', sent')
      BY <2>1, <2>2, <2>4, <2>5 DEF RunAnnounces, Over
    <3>2. \A q \in Runs : job'[q].stage \notin Over => q = scheduled'
      BY <2>1, <2>4
    <3>3. QED
      BY <1>1, <2>1, <2>5, <3>1, <3>2 DEF AnnounceInv
  <2>7. Pending = {} /\ Pending' = {}
    BY <2>2, <2>3 DEF Pending, StillToTell, Over
  <2>8. UNCHANGED Promise!vars
    BY <2>1, <2>7, AbstractStutter
  <2>9. QED
    BY <2>6, <2>8 DEF PromisedStep
<1>3. ASSUME NEW r \in Runs, Step(r)
      PROVE  AnnounceInv' /\ (~doc.settings.oneTime => PromisedStep)
  BY <1>1, <1>3, BeginAnnounces, FetchAnnounces, EvaluateAnnounces,
     UpdateStateAnnounces, RereadAnnounces, TellAnnounces
  DEF Step, PromisedStep
<1>4. ASSUME NEW r \in Runs, Fails(r)
      PROVE  AnnounceInv' /\ PromisedStep
  <2>1. /\ job' = [job EXCEPT ![r] = Blank("done")] /\ job[r].stage \notin Over
        /\ UNCHANGED <<doc, sent, scheduled>> /\ Disturbed
    BY <1>4 DEF Fails, Over, store, Disturbed
  <2>2. QED
    BY <1>1, <2>1, OverAnnounces DEF PromisedStep
<1>5. CASE Restart
  <2>1. /\ \A q \in Runs : job'[q].stage \in Over
        /\ UNCHANGED <<doc, sent, scheduled>> /\ Disturbed
    BY <1>5, BlankStage DEF Restart, Over, Disturbed
  <2>2. AnnounceInv'
    BY <1>1, <2>1 DEF AnnounceInv, RunAnnounces, Over
  <2>3. Pending' = {}
    BY <2>1 DEF Pending, StillToTell, Over
  <2>4. QED
    BY <2>1, <2>2, <2>3, AbstractGiveUp DEF PromisedStep
<1>6. CASE UNCHANGED vars
  <2>1. AnnounceInv'
    BY <1>1, <1>6 DEF vars, AnnounceInv
  <2>2. UNCHANGED <<doc, sent>> /\ Pending' = Pending
    BY <1>6 DEF vars, Pending, StillToTell
  <2>3. QED
    BY <2>1, <2>2, AbstractStutter DEF PromisedStep
<1>7. QED
  BY <1>1, <1>2, <1>3, <1>4, <1>5, <1>6

LEMMA InitAnnounces == Init => AnnounceInv /\ Promise!Init
<1> SUFFICES ASSUME Init PROVE AnnounceInv /\ Promise!Init
  OBVIOUS
<1>1. /\ \A r \in Runs : job[r].stage = "unborn"
      /\ sent = {} /\ AloneInv
  BY BlankStage, InitAlone DEF Init
<1>2. /\ doc.state = "OK" /\ doc.subs \in SUBSET Subs
      /\ doc.settings.allowNoData \in BOOLEAN /\ doc # NoDoc
  <2>1. PICK s \in Settings, subs \in SUBSET Subs : doc = Created(s, subs)
    BY DEF Init
  <2>2. doc \in CheckDoc
    BY <2>1, ConstantsAssumption
    DEF Created, CheckDoc, AlertType, NoValues, Reading
  <2>3. doc.settings \in SettingsType
    BY <2>2, ConstantsAssumption DEF CheckDoc
  <2>4. QED
    BY <2>1, <2>2, <2>3, NoDocAssumption DEF Created, SettingsType
<1>3. AnnounceInv
  BY <1>1, <1>2 DEF AnnounceInv, RunAnnounces, Over
<1>4. Pending = {} /\ Heard = [s \in Subs |-> "OK"]
  BY <1>1 DEF Pending, StillToTell, Heard, LastTold
<1>5. QED
  BY <1>2, <1>3, <1>4 DEF Promise!Init, Pending, Heard

\* A normal check's faults lose only what is pending: with exceptions, filters
\* that throw and restarts at any point of a run (CheckRunner.run has no
\* recovery), every other step is one that its subscribers were promised.
THEOREM OnlyPendingIsLost ==
    ASSUME Pages = {}
    PROVE  PromptSpec => FaultsLoseOnlyPending
<1> DEFINE Kept == ~doc.settings.oneTime =>
                      Promise!UnreliableNext \/ UNCHANGED Promise!vars
<1>1. AnnounceInv /\ [PromptNext]_vars => AnnounceInv' /\ [Kept]_vars
  BY NextAnnounces DEF PromisedStep, Promise!UnreliableNext
<1>2. QED
  BY <1>1, InitAnnounces, PTL DEF PromptSpec, FaultsLoseOnlyPending

\* The writes and messages of runs that nothing breaks amount to the
\* announcements that subscribers of a normal check expect: every change of
\* level reaches exactly its audience, one after the other, before the next
\* assessment (CheckRunner.run).
THEOREM ImplementsSafely ==
    ASSUME Pages = {}, Faults = {}, Malformed = {}, \A s \in Settings : ~s.oneTime
    PROVE  PromptSpec => Promise!Safety
<1>1. ASSUME AnnounceInv PROVE ~doc.settings.oneTime
  BY <1>1 DEF AnnounceInv, AloneInv, TypeInv, TypeOK, CheckDoc
<1>2. ~Disturbed
  BY DEF Disturbed
<1>3. AnnounceInv /\ [PromptNext]_vars => AnnounceInv' /\ [Promise!Next]_(Promise!vars)
  BY <1>1, <1>2, NextAnnounces DEF PromisedStep
<1>4. QED
  BY <1>3, InitAnnounces, PTL DEF PromptSpec, Promise!Safety
==============================================================================
