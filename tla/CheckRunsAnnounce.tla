-------------------------- MODULE CheckRunsAnnounce --------------------------
(***************************************************************************)
(* Undisturbed runs of a check (PromptSpec without pages, faults and       *)
(* malformed subscriptions) implement Announcements; with faults, those    *)
(* that an announcement has not reached yet miss it, and nothing else.     *)
(***************************************************************************)
EXTENDS CheckRuns

\* What was last said to a subscription, delivered or not.
LastTold(s) ==
    LET told == {n \in sent : n.to = s}
    IN  IF told = {}
        THEN "OK"
        ELSE (CHOOSE n \in told : \A m \in told : m.run <= n.run).level

\* Whom a run is still going to tell.
StillToTell(r) ==
    LET j == job[r]
    IN  IF j.stage = "tell" THEN {s \in j.toTell : j.worst \notin Ignores[s]}
        ELSE IF j.stage = "reread" /\ j.interesting # {}
             THEN {s \in doc.subs : j.worst \notin Ignores[s]}
             ELSE {}

Promise == INSTANCE Announcements WITH
    members <- doc.subs,
    level   <- doc.state,
    pending <- UNION {StillToTell(r) : r \in Runs},
    heard   <- [s \in Subs |-> LastTold(s)],
    lenient <- doc.settings.allowNoData

PromptFairSpec == PromptSpec /\ \A r \in Runs : WF_vars(Step(r))

\* The writes and messages of the runs, several database calls apart, amount
\* to the announcements a subscriber expects, and none of them is held up.
ImplementsAnnouncements == Promise!Spec

\* A datasource or database that throws, a filter that throws and a restart in
\* the middle of a run cost a normal check's subscribers the announcement that
\* they have not had yet, and nothing else: every other step of a run is still
\* one that was promised, so the level never moves while somebody is to be told
\* of it, nobody is told of another level, and the next change is announced to
\* all again (CheckRunner.run writes first, reads its subscriptions back and
\* then tells them, and keeps nothing to resume from).
FaultsLoseOnlyPending ==
    [][~doc.settings.oneTime =>
          Promise!UnreliableNext \/ UNCHANGED Promise!vars]_vars
==============================================================================
