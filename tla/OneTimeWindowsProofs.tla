------------------------- MODULE OneTimeWindowsProofs -------------------------
(***************************************************************************)
(* OneTimeWindows keeps its types, passes no instant over unless somebody  *)
(* shortens the offset or a second first window is asked for, and counts   *)
(* none twice as long as nothing disturbs the order of the runs and nobody *)
(* makes the offset longer: for any number of runs and pages, any offsets  *)
(* and any horizon.                                                        *)
(***************************************************************************)
EXTENDS OneTimeWindows, TLAPS

\* Everything up to the start of the window that a run with copy x and offset l
\* would ask about is in.
Reaches(x, l) ==
    x # Never =>
        /\ since # Never
        /\ \A i \in Int : since < i /\ i <= x - l => i \in counted

\* Before the first write there is at most one run, and nobody has a time; from
\* then on no run starts from null, so the first window stays the only one.
FirstInv ==
    /\ \A r \in Runs : job[r].stage # "idle" =>
          (job[r].copy = Never <=> lastCheck = Never)
    /\ lastCheck = Never =>
          /\ since = Never
          /\ \A p \in Pages : page[p] = Never
          /\ \A r, q \in Runs :
                job[r].stage # "idle" /\ job[q].stage # "idle" => r = q

\* The stored lastCheck, and every copy of it that may yet be written or be the
\* start of a window.  A run keeps the offset of its copy, which is then no
\* longer than the stored one: its window ends no earlier than the next starts.
ReachInv ==
    /\ Reaches(lastCheck, lag)
    /\ \A p \in Pages : Reaches(page[p], lag)
    /\ \A r \in Runs : job[r].stage # "idle" =>
          job[r].lag <= lag /\ Reaches(job[r].copy, job[r].lag)

SkipInv == ~shortened /\ ~restarted => FirstInv /\ ReachInv

LEMMA WindowIsInTime ==
    ASSUME TypeOK, NEW r \in Runs
    PROVE  /\ Window(r) \subseteq Instants
           /\ job[r].now - Back \in Instants
  BY ConstantsAssumption DEF TypeOK, Window, CheckFrom, CheckUntil, Instants, Times

\* The histories only grow, and a save that makes the offset shorter or longer is
\* remembered.
LEMMA Remembered ==
    ASSUME TypeOK, [Next]_vars
    PROVE  /\ ~shortened' => ~shortened
           /\ ~lengthened' => ~lengthened
           /\ ~disturbed' => ~disturbed
           /\ ~restarted' => ~restarted
           /\ \A p \in Pages : SaveCheck(p) =>
                 /\ lag \in 0 .. Back /\ lag' \in 0 .. Back
                 /\ ~shortened' => lag <= lag'
                 /\ ~lengthened' => lag' <= lag
                 /\ ~disturbed' => page[p] = lastCheck
<1>1. ASSUME NEW p \in Pages, SaveCheck(p)
      PROVE  /\ ~shortened' => ~shortened /\ ~(lag' < lag)
             /\ ~lengthened' => ~lengthened /\ ~(lag' > lag)
             /\ ~disturbed' => ~disturbed /\ page[p] = lastCheck
  BY <1>1, Zenon DEF SaveCheck
<1>2. ASSUME NEW r \in Runs, Queue(r)
      PROVE  ~disturbed' => ~disturbed
  BY <1>2, Zenon DEF Queue
<1>3. ASSUME NEW p \in Pages, SaveCheck(p)
      PROVE  lag \in 0 .. Back /\ lag' \in 0 .. Back
  BY <1>3, ConstantsAssumption DEF SaveCheck, TypeOK
<1>4. \A a, b \in 0 .. Back : (~(a < b) => b <= a) /\ (~(a > b) => a <= b)
  BY ConstantsAssumption
<1>5. \/ \E p \in Pages : SaveCheck(p)
      \/ shortened' = shortened /\ lengthened' = lengthened
  BY DEF Next, TimePasses, Queue, Begin, Write, Fail, LoadCheck, vars, history
<1>6. \/ \E p \in Pages : SaveCheck(p)
      \/ \E r \in Runs : Queue(r)
      \/ UNCHANGED disturbed
  BY DEF Next, TimePasses, Begin, Write, Fail, LoadCheck, vars, history
<1>7. /\ ~shortened' => ~shortened
      /\ ~lengthened' => ~lengthened
  <2>1. CASE \E p \in Pages : SaveCheck(p)
    BY <1>1, <2>1, Zenon
  <2>2. CASE shortened' = shortened /\ lengthened' = lengthened
    BY <2>2
  <2> QED
    BY <1>5, <2>1, <2>2
<1>8. ~disturbed' => ~disturbed
  BY <1>1, <1>2, <1>6, Zenon
<1>10. ~restarted' => ~restarted
  <2>1. ASSUME NEW p \in Pages, SaveCheck(p)
        PROVE  ~restarted' => ~restarted
    BY <2>1, Zenon DEF SaveCheck
  <2>2. ASSUME NEW r \in Runs, Queue(r)
        PROVE  ~restarted' => ~restarted
    BY <2>2, Zenon DEF Queue
  <2>3. \/ \E p \in Pages : SaveCheck(p)
        \/ \E r \in Runs : Queue(r)
        \/ UNCHANGED restarted
    BY DEF Next, TimePasses, Begin, Write, Fail, LoadCheck, vars, history
  <2> QED
    BY <2>1, <2>2, <2>3, Zenon
<1>9. ASSUME NEW p \in Pages, SaveCheck(p)
      PROVE  /\ ~shortened' => lag <= lag'
             /\ ~lengthened' => lag' <= lag
             /\ ~disturbed' => page[p] = lastCheck
  BY <1>1, <1>3, <1>4, <1>9, Zenon
<1> QED
  BY <1>3, <1>7, <1>8, <1>9, <1>10, Zenon

LEMMA ShorterReach ==
    ASSUME NEW k \in Int, NEW l \in Int, k <= l
    PROVE  \A x, i \in Int : i <= x - l => i <= x - k
  OBVIOUS

LEMMA TypeStep ==
    ASSUME TypeOK, [Next]_vars
    PROVE  TypeOK'
<1> USE DEF TypeOK, Times, history
<1>1. CASE TimePasses
  BY <1>1, ConstantsAssumption DEF TimePasses
<1>2. ASSUME NEW r \in Runs, Queue(r)
      PROVE  TypeOK'
  BY <1>2, ConstantsAssumption DEF Queue
<1>3. ASSUME NEW r \in Runs, Begin(r)
      PROVE  TypeOK'
  BY <1>3, ConstantsAssumption DEF Begin
<1>4. ASSUME NEW r \in Runs, Write(r)
      PROVE  TypeOK'
  <2>1. Window(r) \subseteq Instants /\ job[r].now - Back \in Instants
    BY WindowIsInTime
  <2>2. counted' \in SUBSET Instants /\ twice' \in SUBSET Instants
        /\ since' \in Instants \cup {Never}
    BY <1>4, <2>1 DEF Write
  <2>3. job' \in [Runs -> [stage : {"idle", "queued", "running"},
                           copy : Times \cup {Never}, lag : 0 .. Back,
                           now : Times]]
    BY <1>4, ConstantsAssumption DEF Write, Idle
  <2>4. lastCheck' \in Times
    BY <1>4 DEF Write
  <2> QED
    BY <1>4, <2>2, <2>3, <2>4 DEF Write
<1>5. ASSUME NEW r \in Runs, Fail(r)
      PROVE  TypeOK'
  BY <1>5, ConstantsAssumption DEF Fail, Idle
<1>6. ASSUME NEW p \in Pages, LoadCheck(p)
      PROVE  TypeOK'
  BY <1>6 DEF LoadCheck
<1>7. ASSUME NEW p \in Pages, SaveCheck(p)
      PROVE  TypeOK'
  BY <1>7 DEF SaveCheck
<1>8. CASE UNCHANGED vars
  BY <1>8 DEF vars
<1> QED
  BY <1>1, <1>2, <1>3, <1>4, <1>5, <1>6, <1>7, <1>8 DEF Next

LEMMA FirstStep ==
    ASSUME TypeOK, FirstInv, ~restarted', [Next]_vars
    PROVE  FirstInv'
<1> USE DEF FirstInv
<1>1. CASE TimePasses \/ UNCHANGED vars
  BY <1>1 DEF TimePasses, vars, history
<1>2. ASSUME NEW r \in Runs, Queue(r)
      PROVE  FirstInv'
  <2>1. \A q \in Runs : job'[q] = IF q = r
                                  THEN [stage |-> "queued", copy |-> lastCheck,
                                        lag |-> lag, now |-> 0]
                                  ELSE job[q]
    BY <1>2 DEF Queue, TypeOK
  <2>2. lastCheck = Never => \A q \in Runs : job[q].stage = "idle"
    BY <1>2, Zenon DEF Queue
  <2> QED
    BY <1>2, <2>1, <2>2 DEF Queue
<1>3. ASSUME NEW r \in Runs, Begin(r)
      PROVE  FirstInv'
  BY <1>3 DEF Begin, TypeOK, history
<1>4. ASSUME NEW r \in Runs, Write(r)
      PROVE  FirstInv'
  <2>1. /\ job[r].stage = "running" /\ lastCheck' = job[r].now
        /\ \A q \in Runs : job'[q] = IF q = r THEN Idle ELSE job[q]
    BY <1>4 DEF Write, TypeOK
  <2>2. lastCheck' # Never
    BY <1>4, ConstantsAssumption DEF Write, TypeOK, Times
  <2>3. \A q \in Runs : job'[q].stage # "idle" =>
           q # r /\ job[q].stage # "idle" /\ job'[q].copy = job[q].copy
    BY <2>1 DEF Idle
  <2>4. \A q \in Runs : job'[q].stage # "idle" => lastCheck # Never
    BY <2>1, <2>3
  <2> QED
    BY <2>2, <2>3, <2>4
<1>5. ASSUME NEW r \in Runs, Fail(r)
      PROVE  FirstInv'
  <2>1. \A q \in Runs : job'[q] = IF q = r THEN Idle ELSE job[q]
    BY <1>5 DEF Fail, TypeOK
  <2> QED
    BY <1>5, <2>1 DEF Fail, Idle, history
<1>6. ASSUME NEW p \in Pages, LoadCheck(p)
      PROVE  FirstInv'
  BY <1>6 DEF LoadCheck, TypeOK, history
<1>7. ASSUME NEW p \in Pages, SaveCheck(p)
      PROVE  FirstInv'
  <2>1. page[p] = Never => lastCheck = Never
    BY <1>7, Zenon DEF SaveCheck
  <2> QED
    BY <1>7, <2>1 DEF SaveCheck
<1> QED
  BY <1>1, <1>2, <1>3, <1>4, <1>5, <1>6, <1>7 DEF Next

LEMMA ReachStep ==
    ASSUME TypeOK, SkipInv, [Next]_vars
    PROVE  SkipInv'
<1> SUFFICES ASSUME ~shortened', ~restarted'
             PROVE  ReachInv'
  BY Remembered, FirstStep DEF SkipInv
<1>0. ~shortened /\ ~restarted
  BY Remembered
<1>1. FirstInv /\ ReachInv
  BY <1>0 DEF SkipInv
<1>2. CASE TimePasses
  BY <1>1, <1>2 DEF TimePasses, ReachInv, Reaches, history
<1>3. ASSUME NEW r \in Runs, Queue(r)
      PROVE  ReachInv'
  <2>1. \A q \in Runs : job'[q] = IF q = r
                                  THEN [stage |-> "queued", copy |-> lastCheck,
                                        lag |-> lag, now |-> 0]
                                  ELSE job[q]
    BY <1>3 DEF Queue, TypeOK
  <2>2. lag \in Int /\ UNCHANGED <<lastCheck, lag, page, counted, since>>
    BY <1>3, ConstantsAssumption DEF Queue, TypeOK
  <2> QED
    BY <1>1, <2>1, <2>2 DEF ReachInv, Reaches
<1>4. ASSUME NEW r \in Runs, Begin(r)
      PROVE  ReachInv'
  BY <1>1, <1>4 DEF Begin, ReachInv, Reaches, TypeOK, history
<1>5. ASSUME NEW r \in Runs, Write(r)
      PROVE  ReachInv'
  <2> DEFINE j == job[r]
  <2>0. /\ lag \in 0 .. Back /\ lag' = lag /\ page' = page
        /\ \A q \in Runs : job[q].lag \in 0 .. Back
        /\ \A q \in Runs : job[q].copy \in Times \cup {Never}
        /\ \A p \in Pages : page[p] \in Times \cup {Never}
        /\ \A q \in Runs : job'[q] = IF q = r THEN Idle ELSE job[q]
    BY <1>5, ConstantsAssumption DEF Write, TypeOK
  <2>1. /\ counted \subseteq counted' /\ since' # Never
        /\ since' = IF since = Never THEN j.now - Back ELSE since
    BY <1>5, ConstantsAssumption, WindowIsInTime
    DEF Write, TypeOK, Instants, Times
  <2>2. \A x \in Times \cup {Never}, l \in 0 .. Back :
           Reaches(x, l) /\ x # Never =>
              \A i \in Int : since' < i /\ i <= x - l => i \in counted'
    BY <2>1 DEF Reaches
  <2>3. \A i \in Int : since' < i /\ i <= j.now - lag => i \in counted'
    <3>1. /\ j.now \in Times /\ j.copy \in Times \cup {Never} /\ j.lag \in 0 .. Back
          /\ j.lag <= lag /\ Reaches(j.copy, j.lag)
      BY <1>1, <1>5 DEF TypeOK, Write, ReachInv
    <3>2. CASE j.copy = Never
      <4>1. since' = j.now - Back
        BY <1>1, <1>5, <2>1, <3>2 DEF FirstInv, Write
      <4>2. counted' = counted \cup (j.now - Back + 1 .. j.now - j.lag)
        BY <1>5, <3>2 DEF Write, Window, CheckFrom, CheckUntil
      <4> QED
        BY <2>0, <3>1, <4>1, <4>2, ConstantsAssumption DEF Times
    <3>3. CASE j.copy # Never
      <4>1. /\ since # Never
            /\ \A i \in Int : since < i /\ i <= j.copy - j.lag => i \in counted
        BY <3>1, <3>3 DEF Reaches
      <4>2. counted' = counted \cup (j.copy - j.lag + 1 .. j.now - j.lag)
        BY <1>5, <3>3 DEF Write, Window, CheckFrom, CheckUntil
      <4>3. \A i \in Int : i <= j.now - lag => i <= j.now - j.lag
        BY <2>0, <3>1, ConstantsAssumption DEF Times
      <4> QED
        BY <2>1, <3>1, <3>3, <4>1, <4>2, <4>3, ConstantsAssumption DEF Times
    <3> QED
      BY <3>2, <3>3
  <2>4. Reaches(lastCheck, lag)'
    BY <1>5, <2>0, <2>1, <2>3 DEF Write, Reaches
  <2>5. \A p \in Pages : Reaches(page[p], lag)'
    BY <1>1, <2>0, <2>1, <2>2 DEF Reaches, ReachInv
  <2>6. \A q \in Runs : job'[q].stage # "idle" =>
           job'[q].lag <= lag' /\ Reaches(job[q].copy, job[q].lag)'
    BY <1>1, <2>0, <2>1, <2>2 DEF Reaches, ReachInv, Idle
  <2> QED
    BY <2>4, <2>5, <2>6 DEF ReachInv
<1>6. ASSUME NEW r \in Runs, Fail(r)
      PROVE  ReachInv'
  <2>1. \A q \in Runs : job'[q] = IF q = r THEN Idle ELSE job[q]
    BY <1>6 DEF Fail, TypeOK
  <2> QED
    BY <1>1, <1>6, <2>1 DEF Fail, ReachInv, Reaches, Idle, history
<1>7. ASSUME NEW p \in Pages, LoadCheck(p)
      PROVE  ReachInv'
  BY <1>1, <1>7 DEF LoadCheck, ReachInv, Reaches, TypeOK, history
<1>8. ASSUME NEW p \in Pages, SaveCheck(p)
      PROVE  ReachInv'
  <2>0. lag \in Int /\ lag' \in Int /\ lag <= lag'
    BY <1>8, Remembered, ConstantsAssumption
  <2>1. /\ lastCheck' = page[p] /\ UNCHANGED <<page, job, counted, since>>
        /\ \A q \in Runs : job[q].lag \in 0 .. Back
        /\ \A q \in Pages : page[q] \in Times \cup {Never}
    BY <1>8, ConstantsAssumption DEF SaveCheck, TypeOK
  <2>2. \A x, i \in Int : i <= x - lag' => i <= x - lag
    BY <2>0, ShorterReach
  <2>3. \A q \in Pages : Reaches(page[q], lag)'
    <3>1. Times \subseteq Int
      BY DEF Times
    <3> QED
      BY <1>1, <2>1, <2>2, <3>1 DEF ReachInv, Reaches
  <2>4. \A q \in Runs : job[q].lag <= lag => job[q].lag <= lag'
    BY <2>0, <2>1, ConstantsAssumption
  <2> QED
    BY <1>1, <2>1, <2>3, <2>4 DEF ReachInv, Reaches
<1>9. CASE UNCHANGED vars
  BY <1>1, <1>9 DEF vars, history, ReachInv, Reaches
<1> QED
  BY <1>2, <1>3, <1>4, <1>5, <1>6, <1>7, <1>8, <1>9 DEF Next

LEMMA InitReach == Init => TypeOK /\ SkipInv
<1> SUFFICES ASSUME Init
             PROVE  TypeOK /\ FirstInv /\ ReachInv
  BY DEF SkipInv
<1>1. 0 \in Times /\ 0 \in 0 .. Back
  BY ConstantsAssumption DEF Times
<1>2. TypeOK
  BY <1>1 DEF Init, TypeOK, Idle
<1>3. FirstInv /\ ReachInv
  BY DEF Init, FirstInv, ReachInv, Reaches, Idle
<1> QED
  BY <1>2, <1>3

\* The clock, the stored times and the copies of them keep their types, and no
\* window leaves the instants there are.
THEOREM TimesKeepTypes == Spec => []TypeOK
<1>1. Init => TypeOK
  BY InitReach
<1> QED
  BY <1>1, TypeStep, PTL DEF Spec

\* Whatever overlapping runs, failures and stale pages do to lastCheck, nothing
\* between the first window and the start of the next one is passed over, unless
\* the offset was made shorter, runs overlapped before any had written, or a page
\* saved null over a time (CheckTemplateSupport.getCheckFrom).
THEOREM NoInstantSkipped == Spec => []NothingSkipped
<1>1. TypeOK /\ SkipInv => NothingSkipped
  BY ConstantsAssumption
  DEF TypeOK, Times, Instants, SkipInv, ReachInv, Reaches, NothingSkipped
<1>2. TypeOK /\ SkipInv /\ [Next]_vars => (TypeOK /\ SkipInv)'
  BY TypeStep, ReachStep
<1> QED
  BY <1>1, <1>2, InitReach, PTL DEF Spec

------------------------------------------------------------------------------
\* While nothing disturbs the runs there is one at a time, its copy is what is
\* stored, and everything counted lies before its window.  A run's offset may
\* have been shortened since, but not made longer.
OrderInv ==
    /\ twice = {}
    /\ lastCheck = Never => counted = {}
    /\ lastCheck # Never =>
          /\ lastCheck <= now
          /\ \A i \in counted : i <= lastCheck - lag
    /\ \A r, q \in Runs :
          job[r].stage # "idle" /\ job[q].stage # "idle" => r = q
    /\ \A r \in Runs : job[r].stage # "idle" =>
          /\ job[r].copy = lastCheck
          /\ lag <= job[r].lag
          /\ lastCheck # Never => \A i \in counted : i <= lastCheck - job[r].lag
          /\ job[r].stage = "running" =>
                /\ job[r].now <= now
                /\ lastCheck # Never => lastCheck <= job[r].now

OnceInv == ~disturbed /\ ~lengthened => OrderInv

LEMMA OnceStep ==
    ASSUME TypeOK, OnceInv, [Next]_vars
    PROVE  OnceInv'
<1> SUFFICES ASSUME ~disturbed', ~lengthened'
             PROVE  OrderInv'
  BY DEF OnceInv
<1>0. ~disturbed /\ ~lengthened
  BY Remembered
<1>1. OrderInv
  BY <1>0 DEF OnceInv
<1> USE <1>1 DEF OrderInv
<1>2. CASE TimePasses
  BY <1>2, ConstantsAssumption DEF TimePasses, TypeOK, Times, history
<1>3. ASSUME NEW r \in Runs, Queue(r)
      PROVE  OrderInv'
  <2>1. \A q \in Runs : job[q].stage = "idle"
    BY <1>3 DEF Queue
  <2>2. \A q \in Runs : job'[q] = IF q = r
                                  THEN [stage |-> "queued", copy |-> lastCheck,
                                        lag |-> lag, now |-> 0]
                                  ELSE job[q]
    BY <1>3 DEF Queue, TypeOK
  <2>3. lag \in Int /\ UNCHANGED <<now, lastCheck, lag, counted, twice>>
    BY <1>3, ConstantsAssumption DEF Queue, TypeOK
  <2> QED
    BY <2>1, <2>2, <2>3
<1>4. ASSUME NEW r \in Runs, Begin(r)
      PROVE  OrderInv'
  BY <1>4, ConstantsAssumption DEF Begin, TypeOK, Times, history
<1>5. ASSUME NEW r \in Runs, Write(r)
      PROVE  OrderInv'
  <2> DEFINE j == job[r]
  <2>1. /\ j.stage = "running" /\ j.copy = lastCheck
        /\ j.now \in Times /\ now \in Times /\ j.now <= now
        /\ j.lag \in 0 .. Back /\ lag \in 0 .. Back /\ lag <= j.lag
        /\ lastCheck \in Times \cup {Never}
        /\ lastCheck # Never => /\ lastCheck <= j.now
                                /\ \A i \in counted : i <= lastCheck - j.lag
    BY <1>5, ConstantsAssumption DEF Write, TypeOK
  <2>2. counted \subseteq Int
    BY ConstantsAssumption DEF TypeOK, Instants
  <2>3. counted \cap Window(r) = {}
    BY <2>1, <2>2, ConstantsAssumption DEF Window, CheckFrom, CheckUntil, Times
  <2>4. \A i \in Window(r) : i <= j.now - lag
    BY <2>1, ConstantsAssumption DEF Window, CheckFrom, CheckUntil, Times
  <2>5. \A i \in counted : i <= j.now - lag
    BY <2>1, <2>2, ConstantsAssumption DEF Times
  <2>6. \A q \in Runs : job'[q].stage = "idle"
    BY <1>5, <2>1 DEF Write, TypeOK, Idle
  <2>7. /\ lastCheck' = j.now /\ now' = now /\ lag' = lag
        /\ twice' = twice \cup (counted \cap Window(r))
        /\ counted' = counted \cup Window(r)
    BY <1>5 DEF Write
  <2>8. j.now # Never
    BY <2>1, ConstantsAssumption DEF Times
  <2> HIDE DEF j
  <2> QED
    BY <2>1, <2>3, <2>4, <2>5, <2>6, <2>7, <2>8
<1>6. ASSUME NEW r \in Runs, Fail(r)
      PROVE  OrderInv'
  <2>1. \A q \in Runs : job'[q] = IF q = r THEN Idle ELSE job[q]
    BY <1>6 DEF Fail, TypeOK
  <2> QED
    BY <1>6, <2>1 DEF Fail, Idle, history
<1>7. ASSUME NEW p \in Pages, LoadCheck(p)
      PROVE  OrderInv'
  BY <1>7 DEF LoadCheck, history
<1>8. ASSUME NEW p \in Pages, SaveCheck(p)
      PROVE  OrderInv'
  <2>0. lag \in Int /\ lag' \in Int /\ lag' <= lag /\ lastCheck' = lastCheck
    BY <1>8, Remembered, ConstantsAssumption DEF SaveCheck
  <2>1. /\ lastCheck \in Times \cup {Never}
        /\ UNCHANGED <<now, job, counted, twice>>
        /\ \A q \in Runs : job[q].lag \in Int
        /\ counted \subseteq Int
    BY <1>8, ConstantsAssumption DEF SaveCheck, TypeOK, Instants
  <2>2. \A x, i \in Int : i <= x - lag => i <= x - lag'
    BY <2>0, ShorterReach
  <2>3. \A q \in Runs : lag <= job[q].lag => lag' <= job[q].lag
    BY <2>0, <2>1
  <2>4. Times \subseteq Int
    BY DEF Times
  <2> QED
    BY <2>0, <2>1, <2>2, <2>3, <2>4
<1>9. CASE UNCHANGED vars
  BY <1>9 DEF vars, history
<1> QED
  BY <1>2, <1>3, <1>4, <1>5, <1>6, <1>7, <1>8, <1>9 DEF Next

LEMMA InitOnce == Init => OnceInv
  BY DEF Init, OnceInv, OrderInv, Idle

\* Runs that follow one another report no event twice, whatever the clock does
\* between them and however many of them fail, unless the offset has been made
\* longer (CheckTemplateSupport.getCheckUntil).
THEOREM NoInstantTwice == Spec => []CountedOnce
<1>1. OnceInv => CountedOnce
  BY DEF OnceInv, OrderInv, CountedOnce
<1>2. TypeOK /\ OnceInv /\ [Next]_vars => (TypeOK /\ OnceInv)'
  BY TypeStep, OnceStep
<1>3. Init => TypeOK /\ OnceInv
  BY InitReach, InitOnce
<1> QED
  BY <1>1, <1>2, <1>3, PTL DEF Spec
==============================================================================
