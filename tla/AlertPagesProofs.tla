--------------------------- MODULE AlertPagesProofs ---------------------------
(***************************************************************************)
(* Walking to the older alerts skips none.  What is known of the one       *)
(* request a patient user has under way: its answer reaches up to where    *)
(* the page shown now ends, for the alerts only move towards it.           *)
(***************************************************************************)
EXTENDS AlertPages, TLAPS

IsSlice(s) == s \in Slice /\ s.bottom <= s.top + 1

\* What is shown was read at the place the user is at.
InPlace == shown # Nothing => shown.top <= hi - index

\* At most one request is under way, and what its answer joins on to.
OneRequest ==
    \A c, d \in Conns : conn[c] # Idle /\ conn[d] # Idle => c = d

Joins(c) ==
    /\ conn[c].kind = "get" /\ conn[c].status = "sent" =>
          /\ conn[c].arg = index
          /\ shown # Nothing => hi - index >= shown.bottom - 1
    /\ conn[c].kind = "get" /\ conn[c].status = "done" =>
          /\ IsSlice(conn[c].slice)
          /\ conn[c].slice.top <= hi - index
          /\ shown # Nothing => conn[c].slice.top >= shown.bottom - 1
    /\ conn[c].kind = "delete" => InPlace

WalkInv ==
    /\ TypeOK
    /\ shown # Nothing => IsSlice(shown)
    /\ patient =>
          /\ OneRequest
          /\ AllIdle => InPlace
          /\ \A c \in Conns : conn[c] # Idle => Joins(c)
          /\ WalkSkipsNothing
    /\ \A c \in Conns : conn[c] # Idle /\ conn[c].kind = "get"
                           /\ conn[c].status = "done" => IsSlice(conn[c].slice)

------------------------------------------------------------------------------

LEMMA Multiples ==
    ASSUME NEW i \in Int, IsPage(i)
    PROVE  /\ IsPage(i + Items)
           /\ i # 0 => IsPage(i - Items)
  <1> Items \in Nat \ {0}
    BY ConstantsAssumption
  <1>1. PICK k \in 0 .. i : i = k * Items
    BY DEF IsPage
  <1>2. IsPage(i + Items)
    <2>1. k + 1 \in 0 .. (i + Items)
      BY <1>1
    <2>2. i + Items = (k + 1) * Items
      BY <1>1
    <2> QED  BY <2>1, <2>2 DEF IsPage
  <1>3. ASSUME i # 0
        PROVE  IsPage(i - Items)
    <2>1. k # 0
      BY <1>1, <1>3
    <2>2. PICK j \in Nat : k = j + 1
      <3>1. k - 1 \in Nat /\ k = (k - 1) + 1
        BY <1>1, <2>1
      <3> QED  BY <3>1
    <2>3. i - Items = j * Items
      BY <1>1, <2>2
    <2>4. j * Items >= j
      <3>1. PICK n \in Nat : Items = n + 1
        <4>1. Items - 1 \in Nat /\ Items = (Items - 1) + 1
          OBVIOUS
        <4> QED  BY <4>1
      <3>2. j * Items = j * n + j
        BY <3>1
      <3>3. j * n \in Nat
        OBVIOUS
      <3> QED  BY <3>2, <3>3
    <2>5. j \in 0 .. (i - Items)
      BY <2>2, <2>3, <2>4
    <2> QED  BY <2>3, <2>5 DEF IsPage
  <1> QED  BY <1>2, <1>3

\* What the store answers.
LEMMA Answers ==
    ASSUME NEW start \in Int, lo \in Int, hi \in Int
    PROVE  /\ IsSlice(GetAlerts(start))
           /\ GetAlerts(start).top = hi - start
           /\ \A a \in lo .. GetAlerts(start).top :
                 a >= GetAlerts(start).bottom => a \in In(GetAlerts(start))
  BY ConstantsAssumption DEF GetAlerts, IsSlice, Slice, In

LEMMA NewRequests ==
    ASSUME NEW start \in Int
    PROVE  /\ Get(start) \in Request
           /\ Get(start) # Idle
           /\ Get(start).kind = "get" /\ Get(start).status = "sent"
           /\ Get(start).arg = start
  BY ConstantsAssumption DEF Get, Request, Slice

LEMMA InitWalk == Init => WalkInv
  <1> SUFFICES ASSUME Init PROVE WalkInv
    OBVIOUS
  <1> USE ConstantsAssumption DEF Init
  <1>1. IsPage(0)
    BY 0 \in 0 .. 0 DEF IsPage
  <1>2. TypeOK
    BY <1>1 DEF TypeOK
  <1> QED  BY <1>2 DEF WalkInv, OneRequest, AllIdle, InPlace, WalkSkipsNothing

\* Sending r, with the index at i, keeps the invariant if its answer will join.
LEMMA SendKeeps ==
    ASSUME WalkInv, NEW r \in Request, NEW i \in Int, IsPage(i),
           Send(r), index' = i,
           r # Idle, r.status = "sent",
           r.kind = "get" => r.arg = i,
           shown # Nothing /\ shown.top <= hi - index /\ r.kind = "get" =>
              hi - i >= shown.bottom - 1,
           r.kind = "delete" => i = index,
           UNCHANGED <<lo, hi, shown, fails, seen, first>>
    PROVE  WalkInv'
  <1> USE DEF Send, WalkInv
  <1>1. PICK c \in Conns : conn[c] = Idle /\ conn' = [conn EXCEPT ![c] = r]
    OBVIOUS
  <1>2. TypeOK'
    BY <1>1 DEF TypeOK, IsPage
  <1>3. \A d \in Conns : conn'[d] = IF d = c THEN r ELSE conn[d]
    BY <1>1 DEF TypeOK
  <1>4. (shown # Nothing => IsSlice(shown))'
    BY DEF IsSlice, Slice
  <1>5. ASSUME patient'
        PROVE  /\ OneRequest'
               /\ (AllIdle => InPlace)'
               /\ \A d \in Conns : conn'[d] # Idle => Joins(d)'
               /\ WalkSkipsNothing'
    <2>1. patient /\ AllIdle
      BY <1>5
    <2>2. OneRequest'
      BY <1>3, <2>1 DEF OneRequest, AllIdle
    <2>3. ~AllIdle'
      BY <1>3 DEF AllIdle
    <2>4. InPlace
      BY <2>1
    <2>5. Joins(c)'
      BY <1>3, <2>4 DEF Joins, InPlace
    <2>6. WalkSkipsNothing'
      BY <2>1 DEF WalkSkipsNothing
    <2> QED  BY <1>3, <2>1, <2>2, <2>3, <2>5, <2>6 DEF AllIdle
  <1>6. \A d \in Conns : conn'[d] # Idle /\ conn'[d].kind = "get"
            /\ conn'[d].status = "done" => IsSlice(conn'[d].slice)
    BY <1>3
  <1> QED  BY <1>2, <1>4, <1>5, <1>6 DEF IsSlice

\* An action that only changes the request on c, and moves it on.
LEMMA MoveOn ==
    ASSUME WalkInv, NEW c \in Conns, NEW r \in Request, conn[c] # Idle,
           conn' = [conn EXCEPT ![c] = r], r # Idle,
           r.kind = conn[c].kind, r.arg = conn[c].arg,
           r.status # "sent",
           r.kind = "get" /\ r.status = "done" =>
              IsSlice(r.slice) /\ r.slice.top = hi - r.arg,
           lo' \in Nat \ {0}, lo <= lo', lo' <= hi + 1, fails' \in Nat,
           UNCHANGED <<hi, index, shown, seen, first, patient>>,
           r.status = "done" => conn[c].status = "sent"
    PROVE  WalkInv'
  <1>a. hi \in Int /\ index \in Int /\ lo \in Int
    BY DEF WalkInv, TypeOK
  <1>1. \A d \in Conns : conn'[d] = IF d = c THEN r ELSE conn[d]
    BY DEF WalkInv, TypeOK
  <1>2. TypeOK'
    BY DEF WalkInv, TypeOK, IsPage
  <1>3. ASSUME patient'
        PROVE  /\ OneRequest'
               /\ (AllIdle => InPlace)'
               /\ \A d \in Conns : conn'[d] # Idle => Joins(d)'
               /\ WalkSkipsNothing'
    <2>1. OneRequest' /\ ~AllIdle'
      BY <1>1, <1>3 DEF WalkInv, OneRequest, AllIdle
    <2>2. Joins(c)
      BY <1>3 DEF WalkInv
    <2>3. Joins(c)'
      <3>1. CASE r.kind = "get" /\ r.status = "done"
        <4>1. r.arg = index /\ (shown # Nothing => hi - index >= shown.bottom - 1)
          BY <2>2, <3>1 DEF Joins
        <4> QED  BY <1>a, <1>1, <3>1, <4>1 DEF Joins, IsSlice, Slice
      <3>2. CASE r.kind = "get" /\ r.status = "failed"
        BY <1>1, <3>2 DEF Joins
      <3>3. CASE r.kind = "delete"
        BY <1>1, <2>2, <3>3 DEF Joins, InPlace
      <3> QED  BY <3>1, <3>2, <3>3 DEF Request
    <2>4. WalkSkipsNothing'
      <3>1. WalkSkipsNothing
        BY <1>3 DEF WalkInv
      <3> QED  BY <1>3, <1>a, <3>1 DEF WalkSkipsNothing, WalkInv, TypeOK
    <2> QED  BY <1>1, <1>3, <2>1, <2>3, <2>4 DEF OneRequest
  <1>4. (shown # Nothing => IsSlice(shown))'
    BY DEF WalkInv, IsSlice, Slice
  <1>5. \A d \in Conns : conn'[d] # Idle /\ conn'[d].kind = "get"
            /\ conn'[d].status = "done" => IsSlice(conn'[d].slice)
    BY <1>1 DEF WalkInv, IsSlice, Slice
  <1> QED  BY <1>2, <1>3, <1>4, <1>5 DEF WalkInv, IsSlice

\* An action that ends the request on c.
LEMMA EndsIt ==
    ASSUME WalkInv, NEW c \in Conns, conn[c] # Idle,
           conn' = [conn EXCEPT ![c] = Idle],
           patient' => patient, patient' \in BOOLEAN,
           UNCHANGED <<lo, hi, index, fails>>,
           shown' \in Slice \cup {Nothing},
           shown' # Nothing => IsSlice(shown'),
           seen' \in SUBSET Int, first' \in Int,
           patient' => InPlace' /\ WalkSkipsNothing'
    PROVE  WalkInv'
  <1>1. \A d \in Conns : conn'[d] = IF d = c THEN Idle ELSE conn[d]
    BY DEF WalkInv, TypeOK
  <1>2. TypeOK'
    BY DEF WalkInv, TypeOK, IsPage
  <1>3. ASSUME patient'
        PROVE  OneRequest' /\ \A d \in Conns : conn'[d] = Idle
    BY <1>1, <1>3 DEF WalkInv, OneRequest
  <1>4. \A d \in Conns : conn'[d] # Idle => conn'[d] = conn[d]
    BY <1>1
  <1> QED  BY <1>1, <1>2, <1>3, <1>4 DEF WalkInv, IsSlice

LEMMA StepWalk == WalkInv /\ [Next]_vars => WalkInv'
  <1> SUFFICES ASSUME WalkInv, [Next]_vars PROVE WalkInv'
    OBVIOUS
  <1> USE ConstantsAssumption
  <1>0. index \in Int /\ lo \in Int /\ hi \in Int
    BY DEF WalkInv, TypeOK
  <1>1. CASE LoadAlerts
    <2>1. Send(Get(index)) /\ UNCHANGED <<lo, hi, view, fails>>
      BY <1>1 DEF LoadAlerts
    <2>2. IsPage(index)
      BY DEF WalkInv, TypeOK
    <2>3. shown # Nothing /\ shown.top <= hi - index => hi - index >= shown.bottom - 1
      BY <1>0 DEF WalkInv, IsSlice, Slice
    <2> QED  BY <1>0, <2>1, <2>2, <2>3, NewRequests, SendKeeps DEF view
  <1>2. CASE LoadOlderAlerts
    <2>1. Send(Get(index')) /\ index' = index + Items /\ shown # Nothing
             /\ Full(shown) /\ UNCHANGED <<lo, hi, shown, fails, seen, first>>
      BY <1>2 DEF LoadOlderAlerts
    <2>2. IsPage(index') /\ index' \in Int
      BY <1>0, <2>1, Multiples DEF WalkInv, TypeOK
    <2>3. shown.top <= hi - index => hi - index' >= shown.bottom - 1
      BY <1>0, <2>1 DEF WalkInv, IsSlice, Slice, Full
    <2> HIDE DEF Full
    <2> QED  BY <2>1, <2>2, <2>3, NewRequests, SendKeeps
  <1>3. CASE LoadNewerAlerts
    <2>1. Send(Get(index')) /\ index' = index - Items /\ index # 0
             /\ UNCHANGED <<lo, hi, shown, fails, seen, first>>
      BY <1>3 DEF LoadNewerAlerts
    <2>2. IsPage(index') /\ index' \in Int
      BY <1>0, <2>1, Multiples DEF WalkInv, TypeOK
    <2>3. shown # Nothing /\ shown.top <= hi - index =>
             hi - index' >= shown.bottom - 1
      BY <1>0, <2>1 DEF WalkInv, IsSlice, Slice
    <2> QED  BY <2>1, <2>2, <2>3, NewRequests, SendKeeps
  <1>4. CASE DeleteAlerts
    <2>1. PICK b \in (lo + 1 .. hi) \cup {MaxAlerts + 1} :
             Send([kind |-> "delete", arg |-> b, status |-> "sent",
                   slice |-> Nothing])
      BY <1>4 DEF DeleteAlerts
    <2> DEFINE r == [kind |-> "delete", arg |-> b, status |-> "sent",
                     slice |-> Nothing]
    <2>2. r \in Request /\ r # Idle /\ r.kind = "delete" /\ r.status = "sent"
      BY <1>0 DEF Request, Slice
    <2>3. Send(r) /\ UNCHANGED <<lo, hi, view, fails>>
      BY <1>4, <2>1 DEF DeleteAlerts
    <2>4. IsPage(index) /\ index' = index
      BY <2>3 DEF WalkInv, TypeOK, view
    <2> HIDE DEF r
    <2> QED  BY <1>0, <2>2, <2>3, <2>4, SendKeeps DEF view
  <1>5. CASE CreateAlert
    <2> USE DEF CreateAlert, WalkInv, view
    <2>1. TypeOK'
      BY <1>5 DEF TypeOK, IsPage
    <2>2. \A c \in Conns : patient /\ conn[c] # Idle => Joins(c)'
      BY <1>0, <1>5 DEF Joins, InPlace, IsSlice, Slice
    <2>3. (patient => OneRequest /\ (AllIdle => InPlace) /\ WalkSkipsNothing)'
      BY <1>0, <1>5 DEF OneRequest, AllIdle, InPlace, WalkSkipsNothing, IsSlice,
                        Slice
    <2>4. (shown # Nothing => IsSlice(shown))'
      BY <1>5 DEF IsSlice, Slice
    <2> QED  BY <1>5, <2>1, <2>2, <2>3, <2>4
  <1>6. ASSUME NEW c \in Conns, Serve(c)
        PROVE  WalkInv'
    <2>1. conn[c] \in Request /\ conn[c] # Idle /\ conn[c].status = "sent"
      BY <1>6 DEF Serve, WalkInv, TypeOK
    <2>2. /\ UNCHANGED <<hi, index, shown, seen, first, patient>>
          /\ fails' \in Nat /\ lo \in Nat \ {0} /\ lo <= hi + 1
      BY <1>6 DEF Serve, view, WalkInv, TypeOK
    <2>3. CASE conn[c].kind = "get"
      <3> DEFINE r == [conn[c] EXCEPT !.status = "done",
                                      !.slice = GetAlerts(conn[c].arg)]
      <3>1. conn' = [conn EXCEPT ![c] = r] /\ lo' = lo
        BY <1>6, <2>3 DEF Serve, WalkInv, TypeOK
      <3>2. conn[c].arg \in Int
        BY <2>1 DEF Request
      <3>3. r \in Request /\ r.kind = "get" /\ r.arg = conn[c].arg
               /\ r.status = "done" /\ r.slice = GetAlerts(conn[c].arg)
        BY <1>0, <2>1, <2>3, <3>2, Answers DEF Request, IsSlice
      <3>4. r # Idle
        BY <3>3 DEF Request, Slice
      <3>5. IsSlice(r.slice) /\ r.slice.top = hi - r.arg
        BY <1>0, <3>2, <3>3, Answers
      <3> HIDE DEF r
      <3>6. lo' \in Nat \ {0} /\ lo <= lo' /\ lo' <= hi + 1
        BY <1>0, <2>2, <3>1
      <3>7. r \in Request /\ r.kind = conn[c].kind /\ r.arg = conn[c].arg
               /\ r.status = "done"
        BY <2>3, <3>3
      <3> QED  BY <2>1, <2>2, <3>1, <3>4, <3>5, <3>6, <3>7, MoveOn
    <2>4. CASE conn[c].kind = "delete"
      <3> DEFINE r == [conn[c] EXCEPT !.status = "done"]
      <3>1. conn' = [conn EXCEPT ![c] = r]
               /\ lo' = IF conn[c].arg <= lo THEN lo
                         ELSE IF conn[c].arg <= hi THEN conn[c].arg ELSE hi + 1
        BY <1>6, <2>4 DEF Serve, WalkInv, TypeOK
      <3>2. r \in Request /\ r.kind = "delete" /\ r.arg = conn[c].arg
               /\ r.status = "done"
        BY <2>1, <2>4 DEF Request
      <3>3. r # Idle
        BY <3>2 DEF Request, Slice
      <3>4. conn[c].arg \in Int
        BY <2>1 DEF Request
      <3>5. lo' \in Nat \ {0} /\ lo <= lo' /\ lo' <= hi + 1
        BY <1>0, <2>2, <3>1, <3>4
      <3> HIDE DEF r
      <3> QED  BY <2>1, <2>2, <2>4, <3>1, <3>2, <3>3, <3>5, MoveOn
    <2> QED  BY <2>1, <2>3, <2>4 DEF Request
  <1>7. ASSUME NEW c \in Conns, Lose(c)
        PROVE  WalkInv'
    <2> DEFINE r == [conn[c] EXCEPT !.status = "failed"]
    <2>1. conn[c] \in Request /\ conn[c] # Idle
      BY <1>7 DEF Lose, WalkInv, TypeOK
    <2>2. r \in Request /\ r.kind = conn[c].kind /\ r.arg = conn[c].arg
             /\ r.status = "failed"
      BY <2>1 DEF Request
    <2>3. r # Idle
      BY <2>2 DEF Request, Slice
    <2>4. /\ conn' = [conn EXCEPT ![c] = r]
          /\ UNCHANGED <<hi, index, shown, seen, first, patient>>
          /\ fails' \in Nat /\ lo' \in Nat \ {0} /\ lo <= lo' /\ lo' <= hi + 1
      BY <1>7 DEF Lose, view, WalkInv, TypeOK
    <2> HIDE DEF r
    <2> QED  BY <1>0, <2>1, <2>2, <2>3, <2>4, MoveOn
  <1>8. ASSUME NEW c \in Conns, Succeeds(c)
        PROVE  WalkInv'
    <2>1. conn[c] \in Request /\ conn[c] # Idle /\ conn[c].status = "done"
             /\ UNCHANGED <<lo, hi, index, fails, patient>>
      BY <1>8 DEF Succeeds, WalkInv, TypeOK
    <2>2. patient => Joins(c)
      BY <2>1 DEF WalkInv
    <2>3. CASE conn[c].kind = "get"
      <3>1. Show(conn[c].slice) /\ conn' = [conn EXCEPT ![c] = Idle]
               /\ IsSlice(conn[c].slice)
        BY <1>8, <2>1, <2>3 DEF Succeeds, WalkInv
      <3> DEFINE s == conn[c].slice
      <3> HIDE DEF s
      <3>2. s \in Slice /\ s.bottom <= s.top + 1 /\ s.top \in Int /\ s.bottom \in Int
        BY <3>1 DEF IsSlice, Slice, s
      <3>3. shown' = s /\ seen' = seen \cup In(s)
               /\ first' = IF shown = Nothing THEN s.top ELSE first
        BY <3>1 DEF Show, s
      <3>4. shown' \in Slice \cup {Nothing} /\ IsSlice(shown')
               /\ shown' # Nothing
        BY <3>2, <3>3, ConstantsAssumption DEF IsSlice, Slice
      <3>5. seen' \in SUBSET Int /\ first' \in Int
        <4>1. In(s) \in SUBSET Int
          BY <3>2 DEF In
        <4> QED  BY <3>2, <3>3, <4>1 DEF WalkInv, TypeOK
      <3>6. ASSUME patient
            PROVE  InPlace' /\ WalkSkipsNothing'
        <4>1. s.top <= hi - index
          BY <2>1, <2>2, <2>3, <3>6 DEF Joins, s
        <4>2. InPlace'
          BY <2>1, <3>3, <4>1 DEF InPlace
        <4>3. CASE shown = Nothing
          <5>1. \A a \in lo .. s.top : a >= s.bottom => a \in In(s)
            BY <1>0, <3>2 DEF In
          <5>2. WalkSkipsNothing'
            BY <2>1, <3>3, <4>3, <5>1 DEF WalkSkipsNothing
          <5> QED  BY <4>2, <5>2
        <4>4. CASE shown # Nothing
          <5>1. s.top >= shown.bottom - 1 /\ WalkSkipsNothing /\ shown \in Slice
            BY <2>1, <2>2, <2>3, <3>6, <4>4 DEF Joins, s, WalkInv, TypeOK
          <5>2. shown.bottom \in Int
            BY <5>1 DEF Slice
          <5>3. \A a \in Int : s.bottom <= a /\ a < shown.bottom => a \in In(s)
            BY <3>2, <5>1, <5>2 DEF In
          <5>4. \A a \in lo .. first : a >= shown.bottom => a \in seen
            BY <3>6, <4>4, <5>1 DEF WalkSkipsNothing
          <5>5. \A a \in lo .. first : a >= s.bottom => a \in seen \cup In(s)
            BY <1>0, <3>2, <5>2, <5>3, <5>4 DEF WalkInv, TypeOK
          <5>6. WalkSkipsNothing'
            BY <2>1, <3>3, <4>4, <5>5 DEF WalkSkipsNothing
          <5> QED  BY <4>2, <5>6
        <4> QED  BY <4>2, <4>3, <4>4
      <3> QED  BY <2>1, <3>1, <3>4, <3>5, <3>6, EndsIt DEF WalkInv, TypeOK
    <2>4. CASE conn[c].kind = "delete"
      <3> DEFINE r == Get(index)
      <3>1. conn' = [conn EXCEPT ![c] = r] /\ UNCHANGED <<shown, seen, first>>
        BY <1>8, <2>1, <2>4 DEF Succeeds
      <3>2. r \in Request /\ r # Idle /\ r.kind = "get" /\ r.status = "sent"
               /\ r.arg = index
        BY <1>0, NewRequests
      <3> HIDE DEF r
      <3>3. \A d \in Conns : conn'[d] = IF d = c THEN r ELSE conn[d]
        BY <3>1 DEF WalkInv, TypeOK
      <3>4. TypeOK'
        BY <2>1, <3>1, <3>2 DEF WalkInv, TypeOK, IsPage
      <3>5. ASSUME patient
            PROVE  OneRequest' /\ ~AllIdle' /\ WalkSkipsNothing'
        BY <2>1, <3>1, <3>2, <3>3, <3>5
           DEF WalkInv, OneRequest, AllIdle, WalkSkipsNothing
      <3>6. ASSUME patient
            PROVE  Joins(c)'
        <4>1. InPlace
          BY <2>2, <2>4, <3>6 DEF Joins
        <4>2. shown # Nothing => hi - index >= shown.bottom - 1
          BY <1>0, <4>1 DEF InPlace, WalkInv, IsSlice, Slice
        <4> QED  BY <2>1, <3>1, <3>2, <3>3, <4>2 DEF Joins
      <3>7. ASSUME patient, NEW d \in Conns, conn'[d] # Idle
            PROVE  d = c
        BY <2>1, <3>3, <3>7 DEF WalkInv, OneRequest
      <3> QED  BY <2>1, <3>1, <3>2, <3>3, <3>4, <3>5, <3>6, <3>7
               DEF WalkInv, IsSlice
    <2> QED  BY <2>1, <2>3, <2>4 DEF Request
  <1>9. ASSUME NEW c \in Conns, Errs(c)
        PROVE  WalkInv'
    <2>1. conn[c] # Idle /\ conn' = [conn EXCEPT ![c] = Idle]
             /\ patient' = FALSE /\ UNCHANGED <<lo, hi, view, fails>>
      BY <1>9 DEF Errs
    <2>2. /\ shown \in Slice \cup {Nothing} /\ (shown # Nothing => IsSlice(shown))
          /\ seen \in SUBSET Int /\ first \in Int
      BY DEF WalkInv, TypeOK
    <2> QED  BY <2>1, <2>2, EndsIt DEF view
  <1>10. CASE UNCHANGED vars
    BY <1>10 DEF vars, WalkInv, TypeOK, IsPage, IsSlice, Slice, OneRequest,
       AllIdle, InPlace, Joins, WalkSkipsNothing
  <1> QED  BY <1>1, <1>2, <1>3, <1>4, <1>5, <1>6, <1>7, <1>8, <1>9, <1>10
           DEF Next

THEOREM WalkInvariant == Spec => []WalkInv
  BY InitWalk, StepWalk, PTL DEF Spec

\* Whoever waits for the answers sees every alert on the way to the older ones
\* (the paging of check-controller.js over MongoStore.getAlerts).
THEOREM NothingSkipped == Spec => []WalkSkipsNothing
  <1>1. WalkInv => (patient => WalkSkipsNothing)
    BY DEF WalkInv
  <1>2. ~patient => WalkSkipsNothing
    BY DEF WalkSkipsNothing
  <1> QED  BY <1>1, <1>2, WalkInvariant, PTL

\* The page's state stays well-formed; its index stays on a page.
THEOREM PageTypeCorrect == Spec => []TypeOK
  <1>1. WalkInv => TypeOK
    BY DEF WalkInv
  <1> QED  BY <1>1, WalkInvariant, PTL
==============================================================================
