---------------------------- MODULE Announcements ----------------------------
(***************************************************************************)
(* What a normal check promises its subscribers, as one would say it to    *)
(* them: whenever the level changes, each of you is told of the new level, *)
(* one after the other and before it changes again, unless you do not want *)
(* to hear of it or the level is only "no data".  You may be told the same *)
(* level twice.  And the small print: a check that takes missing data for  *)
(* OK may fall back to OK without a word, and when something breaks those  *)
(* who have not been told yet never are.                                   *)
(***************************************************************************)
EXTENDS AlertLevels

CONSTANTS
    Subs,       \* subscription ids
    Ignores     \* [Subs -> SUBSET AlertType]: the levels each does not want

VARIABLES
    members,    \* the subscriptions of the check
    level,      \* the level of the check
    pending,    \* members that still have to be told of it
    heard,      \* the level each subscription was last told of
    lenient     \* missing data counts as OK

vars == <<members, level, pending, heard, lenient>>

Audience(l) == {s \in members : l \notin Ignores[s]}

\* Everybody takes a new check to be OK.
Init ==
    /\ members \in SUBSET Subs
    /\ level = "OK"
    /\ pending = {}
    /\ heard = [s \in Subs |-> "OK"]
    /\ lenient \in BOOLEAN

\* A run ends in level l.
Assess(l) ==
    /\ pending = {}
    /\ level' = l
    /\ pending' \in CASE l = "UNKNOWN"            -> {{}}
                      [] l = level /\ l # "UNKNOWN" -> {{}, Audience(l)}
                      [] l # level /\ l # "UNKNOWN" -> {Audience(l)}
    /\ UNCHANGED <<members, heard, lenient>>

\* A run finds no data and takes that for OK.
DataStops ==
    /\ lenient
    /\ pending = {}
    /\ level' = "OK"
    /\ UNCHANGED <<members, pending, heard, lenient>>

Tell(s) ==
    /\ s \in pending
    /\ pending' = pending \ {s}
    /\ heard' = [heard EXCEPT ![s] = level]
    /\ UNCHANGED <<members, level, lenient>>

\* Something breaks: those who have not been told never will be.
GiveUp ==
    /\ pending' = {}
    /\ UNCHANGED <<members, level, heard, lenient>>

Next ==
    \/ \E l \in Level \cup {"UNKNOWN"} : Assess(l)
    \/ DataStops
    \/ \E s \in Subs : Tell(s)

UnreliableNext == Next \/ GiveUp

Safety == Init /\ [][Next]_vars

Spec == Safety /\ \A s \in Subs : WF_vars(Tell(s))
==============================================================================
