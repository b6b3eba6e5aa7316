----------------------------- MODULE MCCheckRuns -----------------------------
(* Small instances of CheckRuns for TLC. *)
EXTENDS CheckRunsAnnounce, TLC

CONSTANTS t1, t2, s1, s2, s3

\* Every kind of check, or the kinds one question is about.
AllSettings == SettingsType
NormalSettings == {s \in SettingsType : ~s.oneTime}
PlainSettings ==
    {[oneTime |-> FALSE, allowNoData |-> FALSE, disableSameStateAlerts |-> b] :
        b \in BOOLEAN}
OneTimeSettings == {s \in SettingsType : s.oneTime /\ ~s.allowNoData}
FewSettings ==
    {[oneTime |-> FALSE, allowNoData |-> FALSE, disableSameStateAlerts |-> TRUE],
     [oneTime |-> FALSE, allowNoData |-> TRUE, disableSameStateAlerts |-> TRUE],
     [oneTime |-> TRUE, allowNoData |-> FALSE, disableSameStateAlerts |-> FALSE]}

\* s1 wants everything; s2 does not want to hear of recoveries.
IgnoreNothing == [s \in Subs |-> {}]
S2IgnoresOk == [s \in Subs |-> IF s = s2 THEN {"OK"} ELSE {}]
==============================================================================
