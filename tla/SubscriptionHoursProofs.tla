------------------------ MODULE SubscriptionHoursProofs ------------------------
(***************************************************************************)
(* What a subscription misses, for any week, any subscription and any      *)
(* series; and what its levels rest on, the value rule's direction and its *)
(* mirror image.                                                           *)
(***************************************************************************)
EXTENDS SubscriptionHours, TLAPS

------------------------------------------------------------------------------
(* The value rule. *)

\* Which level a value gets, by the direction of the thresholds.
LEMMA LevelOfValue ==
    ASSUME NEW v \in Int, NEW w \in Int, NEW e \in Int
    PROVE  /\ CheckValue(v, w, e) \in Level
           /\ w <= e => /\ CheckValue(v, w, e) = "ERROR" <=> v >= e
                        /\ CheckValue(v, w, e) = "OK" <=> v < w
           /\ w > e  => /\ CheckValue(v, w, e) = "ERROR" <=> v <= e
                        /\ CheckValue(v, w, e) = "OK" <=> v > w
BY DEF CheckValue, IsBeyondThreshold, IsTheValueBeingHighWorse, Level

\* Among the three levels of a value, worse means nearer to ERROR.
LEMMA WorseLevels ==
    ASSUME NEW a \in Level, NEW b \in Level, IsWorseThan(a, b)
    PROVE  b # "ERROR" /\ a # "OK" /\ a # b
<1>1. Severity["OK"] = 1 /\ Severity["WARN"] = 2 /\ Severity["ERROR"] = 3
  BY DEF Severity
<1>2. QED
  BY <1>1 DEF IsWorseThan, Level

LEMMA WorseningLemma ==
    ASSUME NEW v \in Int, NEW x \in Int, NEW w \in Int, NEW e \in Int,
           \/ w <= e /\ v <= x
           \/ w > e /\ v >= x
    PROVE  ~IsWorseThan(CheckValue(v, w, e), CheckValue(x, w, e))
<1>1. SUFFICES ASSUME IsWorseThan(CheckValue(v, w, e), CheckValue(x, w, e))
               PROVE  FALSE
  OBVIOUS
<1> DEFINE a == CheckValue(v, w, e)
           b == CheckValue(x, w, e)
<1>2. b # "ERROR" /\ a # "OK" /\ a # b /\ a \in Level /\ b \in Level
  BY <1>1, WorseLevels, LevelOfValue
<1>3. /\ w <= e => /\ a = "ERROR" <=> v >= e
                   /\ a = "OK" <=> v < w
                   /\ b = "ERROR" <=> x >= e
                   /\ b = "OK" <=> x < w
      /\ w > e => /\ a = "ERROR" <=> v <= e
                  /\ a = "OK" <=> v > w
                  /\ b = "ERROR" <=> x <= e
                  /\ b = "OK" <=> x > w
  BY LevelOfValue
<1> HIDE DEF a, b
<1>4. a = "ERROR" \/ (a = "WARN" /\ b = "OK")
  BY <1>2 DEF Level
<1>5. QED
  BY <1>2, <1>3, <1>4

LEMMA DriftMonotone == Spec => WorseningNeverImproves
<1> DEFINE Mono == Drift /\ Worsens(value, value') =>
                      ~IsWorseThan(CheckValue(value, warn, error),
                                   CheckValue(value', warn, error))
<1>1. Init => TypeOK
  BY DEF Init
<1>2. TypeOK /\ [Next]_vars => TypeOK'
  BY DEF TypeOK, Next, Drift, Retune, vars
<1>3. TypeOK /\ [Next]_vars => [Mono]_vars
  <2> SUFFICES ASSUME TypeOK, Drift, Worsens(value, value')
               PROVE  ~IsWorseThan(CheckValue(value, warn, error),
                                   CheckValue(value', warn, error))
    OBVIOUS
  <2>1. value \in Int /\ value' \in Int /\ warn \in Int /\ error \in Int
    BY BoundAssumption DEF TypeOK, Numbers, Drift
  <2>2. QED
    BY <2>1, WorseningLemma DEF Worsens
<1>4. QED
  BY <1>1, <1>2, <1>3, PTL DEF Spec, WorseningNeverImproves

------------------------------------------------------------------------------
(* The subscription. *)

HoursTypeOK ==
    /\ TypeOK
    /\ now \in Times
    /\ sub \in SubscriptionType
    /\ run \in Run \cup {NoRun}

HoursInv == HoursTypeOK /\ MissedOnlyAtTheEdges

LEMMA NextTime == ASSUME NEW t \in Times PROVE After(t) \in Times
  <1> USE HoursAssumption DEF Times
  <1>1. t.day \in 1 .. Week /\ t.minute \in 0 .. Minutes - 1
           /\ t.second \in 0 .. Seconds - 1
    OBVIOUS
  <1>2. CASE t.second + 1 < Seconds
    BY <1>1, <1>2 DEF After
  <1>3. CASE t.second + 1 >= Seconds /\ t.minute + 1 < Minutes
    BY <1>1, <1>3 DEF After
  <1>4. CASE t.second + 1 >= Seconds /\ t.minute + 1 >= Minutes
    BY <1>1, <1>4 DEF After, NextDay
  <1> QED  BY <1>1, <1>2, <1>3, <1>4

\* Either the filter lets a message pass, or its absence is excused; and it
\* lets none pass outside the hours.
LEMMA FilterLemma ==
    ASSUME NEW s \in SubscriptionType, NEW t \in Times, NEW l \in Level
    PROVE  /\ ShouldNotify(s, t, l) \/ Excused(s, t, l)
           /\ ShouldNotify(s, t, l) => WithinHours(s, t) /\ s.from < s.to
  BY HoursAssumption
     DEF ShouldNotify, Excused, WithinHours, AtTheEdge, IsCorrectDayOfWeek,
         IsCorrectHourOfDay, SubscriptionType, Times

\* The two exclusive ends of isCorrectHourOfDay, compared in whole minutes, take
\* nothing from the days and hours chosen but the minutes that begin with them:
\* shouldNotify says no for a reason the user chose, or in those two minutes.
THEOREM HoursExactly ==
    ASSUME NEW s \in SubscriptionType, NEW t \in Times, NEW l \in Level
    PROVE  ShouldNotify(s, t, l) <=>
              /\ s.enabled /\ l \notin s.ignores
              /\ WithinHours(s, t) /\ ~AtTheEdge(s, t)
  <1>1. /\ s.from \in Int /\ s.to \in Int /\ t.minute \in Int
        /\ s.enabled \in BOOLEAN
    BY HoursAssumption DEF SubscriptionType, Times
  <1>2. IsCorrectHourOfDay(s, t) <=>
           /\ s.from <= t.minute
           /\ t.minute < s.to \/ (t.minute = s.to /\ t.second = 0)
           /\ ~AtTheEdge(s, t)
    BY <1>1 DEF IsCorrectHourOfDay, AtTheEdge
  <1> QED  BY <1>1, <1>2 DEF ShouldNotify, WithinHours, IsCorrectDayOfWeek

\* So a subscription to everything, all week, with the hours 0000 to 2359 that
\* the dialog proposes, hears nothing in the first and the last minute of a day.
COROLLARY AllDayMissesTwoMinutes ==
    ASSUME NEW s \in SubscriptionType, NEW t \in Times, NEW l \in Level,
           s.enabled, s.days = 1 .. Week, s.ignores = {},
           s.from = 0, s.to = Minutes - 1
    PROVE  ShouldNotify(s, t, l) <=> t.minute \notin {0, Minutes - 1}
  <1>1. t.minute \in 0 .. Minutes - 1 /\ t.day \in 1 .. Week
    BY DEF Times
  <1>2. WithinHours(s, t) \/ t.minute = Minutes - 1
    BY <1>1, HoursAssumption DEF WithinHours
  <1>3. AtTheEdge(s, t) <=> t.minute \in {0, Minutes - 1}
    BY DEF AtTheEdge
  <1> QED  BY <1>2, <1>3, HoursExactly

LEMMA InitHours == HoursInit => HoursInv
  BY HoursAssumption
     DEF HoursInit, HoursInv, HoursTypeOK, Init, Times, MissedOnlyAtTheEdges

LEMMA StepHours == HoursInv /\ [HoursNext]_hoursVars => HoursInv'
  <1> SUFFICES ASSUME HoursInv, [HoursNext]_hoursVars
               PROVE  HoursInv'
    OBVIOUS
  <1> USE DEF HoursInv, HoursTypeOK, MissedOnlyAtTheEdges
  <1>1. CASE Tick
    BY <1>1, NextTime DEF Tick, vars, TypeOK
  <1>2. CASE SeriesMoves
    BY <1>2 DEF SeriesMoves, Next, Drift, Retune, hours, TypeOK
  <1>3. CASE EditSubscription
    BY <1>3, HoursAssumption DEF EditSubscription, vars, TypeOK
  <1>4. CASE Begin
    <2>1. value \in Int /\ warn \in Int /\ error \in Int
      BY BoundAssumption DEF TypeOK, Numbers
    <2>2. CheckValue(value, warn, error) \in Level
      BY <2>1, LevelOfValue
    <2>3. run' \in Run
      BY <1>4, <2>2 DEF Begin, Run
    <2> QED  BY <1>4, <2>3 DEF Begin, vars, TypeOK
  <1>5. CASE Tell
    <2>1. run \in Run /\ run' = NoRun /\ UNCHANGED <<vars, now, sub>>
             /\ state' = run.level
      BY <1>5 DEF Tell
    <2>2. run.at \in Times /\ run.level \in Level
      BY <2>1 DEF Run
    <2>3. CASE run.level = state /\ UNCHANGED <<heard, excused>>
      BY <2>1, <2>3 DEF vars, TypeOK
    <2>4. CASE /\ heard' = IF ShouldNotify(sub, run.at, run.level)
                           THEN run.level
                           ELSE heard
               /\ excused' = Excused(sub, run.at, run.level)
      BY <2>1, <2>2, <2>4, FilterLemma DEF vars, TypeOK
    <2> QED  BY <1>5, <2>3, <2>4 DEF Tell
  <1>6. CASE UNCHANGED hoursVars
    BY <1>6 DEF hoursVars, hours, vars, TypeOK
  <1> QED  BY <1>1, <1>2, <1>3, <1>4, <1>5, <1>6 DEF HoursNext

LEMMA HoursInvariant == HoursSpec => []HoursInv
  BY InitHours, StepHours, PTL DEF HoursSpec

\* Old news is excused, for subscriptions of any kind that are edited at any
\* time (Subscription.shouldNotify, asked once per change by CheckRunner.run).
THEOREM OldNewsExcused == HoursSpec => []MissedOnlyAtTheEdges
  <1>1. HoursInv => MissedOnlyAtTheEdges
    BY DEF HoursInv
  <1> QED  BY <1>1, HoursInvariant, PTL

\* Messages keep to the days and hours, and hours that span midnight have none.
THEOREM HoursKept == HoursSpec => ToldOnlyWithinHours
  <1> DEFINE Kept ==
         heard' # heard => WithinHours(sub, run.at) /\ sub.from < sub.to
  <1>1. HoursInv /\ [HoursNext]_hoursVars => [Kept]_hoursVars
    <2> SUFFICES ASSUME HoursInv, HoursNext, heard' # heard
                 PROVE  WithinHours(sub, run.at) /\ sub.from < sub.to
      OBVIOUS
    <2>1. Tell
      BY DEF HoursNext, Tick, SeriesMoves, EditSubscription, Begin, hours
    <2>2. run \in Run /\ sub \in SubscriptionType
      BY <2>1 DEF Tell, HoursInv, HoursTypeOK
    <2>3. ShouldNotify(sub, run.at, run.level)
      BY <2>1 DEF Tell
    <2>4. run.at \in Times /\ run.level \in Level
      BY <2>2 DEF Run
    <2> QED  BY <2>2, <2>3, <2>4, FilterLemma
  <1> QED  BY <1>1, HoursInvariant, PTL DEF HoursSpec, ToldOnlyWithinHours

\* A value that moves in the bad direction never gets a better level: no gap
\* between the two comparisons of checkValue, on either side.
THEOREM Monotone == HoursSpec => WorseningNeverImproves
  <1>1. HoursInit => Init
    BY DEF HoursInit
  <1>2. [HoursNext]_hoursVars => [Next]_vars
    BY DEF HoursNext, Tick, SeriesMoves, EditSubscription, Begin, Tell, hoursVars
  <1>3. HoursSpec => Spec
    BY <1>1, <1>2, PTL DEF HoursSpec, Spec
  <1> QED  BY <1>3, DriftMonotone

\* The value rule has a mirror image, for values and thresholds of any size.
THEOREM Mirrored == HoursSpec => []MirrorImage
  <1>1. HoursInv => MirrorImage
    <2> SUFFICES ASSUME HoursInv, warn # error
                 PROVE  CheckValue(-value, -warn, -error)
                           = CheckValue(value, warn, error)
      BY DEF MirrorImage
    <2>1. value \in Int /\ warn \in Int /\ error \in Int
      BY BoundAssumption DEF HoursInv, HoursTypeOK, TypeOK, Numbers
    <2>2. CASE warn < error
      BY <2>1, <2>2 DEF CheckValue, IsBeyondThreshold, IsTheValueBeingHighWorse
    <2>3. CASE warn > error
      BY <2>1, <2>3 DEF CheckValue, IsBeyondThreshold, IsTheValueBeingHighWorse
    <2> QED  BY <2>1, <2>2, <2>3
  <1> QED  BY <1>1, HoursInvariant, PTL
==============================================================================
