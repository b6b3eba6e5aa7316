------------------------------ MODULE AlertPages ------------------------------
(***************************************************************************)
(* The alerts of one check, ten at a time.  The page asks for them by their *)
(* position from the newest, every five seconds and on a click, while runs *)
(* store new ones and users delete the oldest.                             *)
(*                                                                         *)
(* An alert is its place in the order of timestamps: lo .. hi are stored.  *)
(* (Runs that overlap may store out of this order, and the alerts of one   *)
(* run share a timestamp; both are outside this module.)                   *)
(***************************************************************************)
EXTENDS Integers

CONSTANTS
    Items,      \* alertItemsPerPage (10)
    Conns,      \* requests a browser has under way at a time
    MaxAlerts,  \* bound: alerts that are ever stored
    MaxIndex,   \* bound: position the user walks to
    MaxFails,   \* bound: requests that fail
    Idle,       \* no request
    Nothing     \* no answer yet

ASSUME ConstantsAssumption ==
    /\ Items \in Nat \ {0}
    /\ MaxAlerts \in Nat /\ MaxIndex \in Nat /\ MaxFails \in Nat
    /\ Nothing \notin [top : Int, bottom : Int]
    /\ Idle \notin [kind : {"get", "delete"}, arg : Int,
                    status : {"sent", "done", "failed"},
                    slice : [top : Int, bottom : Int] \cup {Nothing}]

VARIABLES
    lo, hi,   \* the stored alerts are lo .. hi
    index,    \* $scope.alertStartIndex
    shown,    \* $scope.alerts
    conn,     \* requests under way
    fails,    \* number of failed requests so far
    seen,     \* history: alerts that the page has shown
    first,    \* history: the newest alert when the page first showed any
    patient   \* history: no request was sent while one was under way, none failed

vars == <<lo, hi, index, shown, conn, fails, seen, first, patient>>
view == <<index, shown, seen, first>>

Slice == [top : Int, bottom : Int]

\* The alerts top down to bottom; none if bottom = top + 1.
In(slice) == slice.bottom .. slice.top

Request ==
    [kind : {"get", "delete"}, arg : Int, status : {"sent", "done", "failed"},
     slice : Slice \cup {Nothing}]

\* The user is on some page, counted from the newest.
IsPage(i) == \E k \in 0 .. i : i = k * Items

TypeOK ==
    /\ lo \in Nat \ {0} /\ hi \in Nat /\ lo <= hi + 1
    /\ index \in Int /\ IsPage(index)
    /\ shown \in Slice \cup {Nothing}
    /\ conn \in [Conns -> Request \cup {Idle}]
    /\ fails \in Nat
    /\ seen \in SUBSET Int
    /\ first \in Int
    /\ patient \in BOOLEAN

AllIdle == \A c \in Conns : conn[c] = Idle

Get(start) ==
    [kind |-> "get", arg |-> start, status |-> "sent", slice |-> Nothing]

Send(r) ==
    /\ \E c \in Conns : /\ conn[c] = Idle
                        /\ conn' = [conn EXCEPT ![c] = r]
    /\ patient' = (patient /\ AllIdle)

Init ==
    /\ lo = 1
    /\ hi \in 0 .. MaxAlerts
    /\ index = 0
    /\ shown = Nothing
    /\ conn = [c \in Conns |-> Idle]
    /\ fails = 0
    /\ seen = {}
    /\ first = 0
    /\ patient = TRUE

------------------------------------------------------------------------------
(* The page. *)

LoadAlerts ==
    /\ Send(Get(index))
    /\ UNCHANGED <<lo, hi, view, fails>>

Full(slice) == slice.top - slice.bottom + 1 = Items

\* MUTANT: pages overlap the wrong way.
LoadOlderAlerts_OneTooFar ==
    /\ shown # Nothing
    /\ Full(shown)
    /\ index + Items <= MaxIndex
    /\ index' = index + Items
    /\ Send(Get(index' + 1))
    /\ UNCHANGED <<lo, hi, shown, fails, seen, first>>

\* Older: only from a full page, judged by what is shown.
LoadOlderAlerts ==
    /\ shown # Nothing
    /\ Full(shown)
    /\ index + Items <= MaxIndex
    /\ index' = index + Items
    /\ Send(Get(index'))
    /\ UNCHANGED <<lo, hi, shown, fails, seen, first>>

\* MUTANT: Newer does not stop at the newest page.
LoadNewerAlerts_Unguarded ==
    /\ index > -MaxIndex
    /\ index' = index - Items
    /\ Send(Get(index'))
    /\ UNCHANGED <<lo, hi, shown, fails, seen, first>>

LoadNewerAlerts ==
    /\ index # 0
    /\ index' = index - Items
    /\ Send(Get(index'))
    /\ UNCHANGED <<lo, hi, shown, fails, seen, first>>

\* The alerts older than a day or a week, or all that there are when it is
\* served, as before is then later than any.  The index stays.
DeleteAlerts ==
    /\ \E before \in (lo + 1 .. hi) \cup {MaxAlerts + 1} :
          Send([kind |-> "delete", arg |-> before, status |-> "sent",
                slice |-> Nothing])
    /\ UNCHANGED <<lo, hi, view, fails>>

------------------------------------------------------------------------------
(* The server. *)

CreateAlert ==
    /\ hi < MaxAlerts
    /\ hi' = hi + 1
    /\ UNCHANGED <<lo, view, conn, fails, patient>>

\* getAlerts: sorted by time, newest first, then skip and limit.
GetAlerts(start) ==
    LET top == hi - start
        end == top - Items + 1
    IN  [top |-> top,
         bottom |-> IF top < lo THEN top + 1 ELSE IF end < lo THEN lo ELSE end]

Serve(c) ==
    /\ conn[c] # Idle /\ conn[c].status = "sent"
    /\ \/ /\ conn[c].kind = "get"
          /\ conn' = [conn EXCEPT ![c].status = "done",
                                  ![c].slice = GetAlerts(conn[c].arg)]
          /\ UNCHANGED lo
       \/ /\ conn[c].kind = "delete"
          /\ conn' = [conn EXCEPT ![c].status = "done"]
          /\ lo' = IF conn[c].arg <= lo THEN lo
                   ELSE IF conn[c].arg <= hi THEN conn[c].arg ELSE hi + 1
    /\ UNCHANGED <<hi, view, fails, patient>>

Lose(c) ==
    /\ conn[c] # Idle /\ conn[c].status \in {"sent", "done"}
    /\ fails < MaxFails
    /\ fails' = fails + 1
    /\ conn' = [conn EXCEPT ![c].status = "failed"]
    /\ UNCHANGED <<lo, hi, view, patient>>

------------------------------------------------------------------------------
(* The callbacks. *)

\* MUTANT: an answer that is no longer asked for is dropped, and so is any
\* that comes to a full page.
Show_KeepsFull(slice) ==
    IF shown # Nothing /\ Full(shown)
    THEN UNCHANGED <<shown, seen, first>>
    ELSE /\ shown' = slice
         /\ seen' = seen \cup In(slice)
         /\ first' = IF shown = Nothing THEN slice.top ELSE first

\* Whatever is answered is shown, whatever the index is by then.
Show(slice) ==
    /\ shown' = slice
    /\ seen' = seen \cup In(slice)
    /\ first' = IF shown = Nothing THEN slice.top ELSE first

Succeeds(c) ==
    /\ conn[c] # Idle /\ conn[c].status = "done"
    /\ \/ /\ conn[c].kind = "get"
          /\ Show(conn[c].slice)
          /\ conn' = [conn EXCEPT ![c] = Idle]
       \/ /\ conn[c].kind = "delete"
          /\ conn' = [conn EXCEPT ![c] = Get(index)]
          /\ UNCHANGED <<shown, seen, first>>
    /\ UNCHANGED <<lo, hi, index, fails, patient>>

\* A failure is only logged: the index has moved, the page has not.
Errs(c) ==
    /\ conn[c] # Idle /\ conn[c].status = "failed"
    /\ conn' = [conn EXCEPT ![c] = Idle]
    /\ patient' = FALSE
    /\ UNCHANGED <<lo, hi, view, fails>>

------------------------------------------------------------------------------

Next ==
    \/ LoadAlerts
    \/ LoadOlderAlerts
    \/ LoadNewerAlerts
    \/ DeleteAlerts
    \/ CreateAlert
    \/ \E c \in Conns : Serve(c) \/ Lose(c) \/ Succeeds(c) \/ Errs(c)

Spec == Init /\ [][Next]_vars

\* The timer fires, the server answers, callbacks run.  Users and runs owe
\* nothing.
FairSpec ==
    /\ Spec
    /\ WF_vars(LoadAlerts)
    /\ \A c \in Conns : WF_vars(Serve(c)) /\ WF_vars(Succeeds(c) \/ Errs(c))

------------------------------------------------------------------------------

\* A user who waits for each answer, and gets it, skips nothing on the way to
\* the older alerts, even while runs store new ones: of the alerts that were
\* there at first, all that are still stored and not below what the page shows
\* have been on it.  An empty page means that all have been.
WalkSkipsNothing ==
    patient /\ shown # Nothing =>
        \A a \in lo .. first : a >= shown.bottom => a \in seen

\* Once the user stays on a page and no alert comes or goes, the page settles
\* on what is stored at its place, even if answers overtake each other.
Settled == shown # Nothing /\ shown = GetAlerts(index)
PageSettles == (<>[][UNCHANGED <<lo, hi, index>>]_vars) => <>[]Settled
==============================================================================
