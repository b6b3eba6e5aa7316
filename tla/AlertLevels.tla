----------------------------- MODULE AlertLevels -----------------------------
(***************************************************************************)
(* The levels of an alert (AlertType.java) and the rule that turns a value *)
(* into a level (DefaultValueChecker.java).  A BigDecimal is an integer    *)
(* here: the rule only compares values.                                    *)
(***************************************************************************)
EXTENDS Integers

AlertType == {"UNKNOWN", "OK", "WARN", "ERROR", "EXCEPTION"}

\* The levels checkValue can return, and those of them that call for action.
Level   == {"OK", "WARN", "ERROR"}
Problem == {"WARN", "ERROR"}

\* The integer each constant of the enum carries.
Severity ==
    [UNKNOWN |-> 0, OK |-> 1, WARN |-> 2, ERROR |-> 3, EXCEPTION |-> 4]

\* No caller passes null: a stored check without a state cannot be read.
IsWorseThan(a, b) == Severity[a] > Severity[b]

\* MUTANT: the value judged last decides.
WorseOf_Latest(a, b) == a

WorseOf(a, b) == IF IsWorseThan(a, b) THEN a ELSE b

\* MUTANTS: low is never worse; a value equal to the threshold is not beyond
\* it when low is worse.
IsTheValueBeingHighWorse_Always(warn, error) == TRUE

IsBeyondThreshold_StrictlyBelow(value, threshold, highIsWorse) ==
    \/ highIsWorse /\ value >= threshold
    \/ ~highIsWorse /\ value < threshold

\* Equal thresholds count as "high is worse".
IsTheValueBeingHighWorse(warn, error) == warn <= error

IsBeyondThreshold(value, threshold, highIsWorse) ==
    \/ highIsWorse /\ value >= threshold
    \/ ~highIsWorse /\ value <= threshold

CheckValue(value, warn, error) ==
    LET high == IsTheValueBeingHighWorse(warn, error)
    IN  CASE IsBeyondThreshold(value, error, high) -> "ERROR"
          [] /\ ~IsBeyondThreshold(value, error, high)
             /\ IsBeyondThreshold(value, warn, high) -> "WARN"
          [] OTHER -> "OK"
==============================================================================
