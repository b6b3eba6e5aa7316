------------------------------ MODULE ValueDrift ------------------------------
(***************************************************************************)
(* A series that drifts past thresholds that are edited now and then, and  *)
(* the level DefaultValueChecker gives each value.                         *)
(***************************************************************************)
EXTENDS AlertLevels

CONSTANT Bound  \* bound: values and thresholds lie in -Bound .. Bound

ASSUME BoundAssumption == Bound \in Nat

VARIABLES value, warn, error

vars == <<value, warn, error>>

Numbers == -Bound .. Bound

TypeOK == value \in Numbers /\ warn \in Numbers /\ error \in Numbers

Init == TypeOK

Drift ==
    /\ value' \in {value - 1, value + 1} \cap Numbers
    /\ UNCHANGED <<warn, error>>

Retune ==
    /\ warn' \in Numbers /\ error' \in Numbers
    /\ UNCHANGED value

Next == Drift \/ Retune

Spec == Init /\ [][Next]_vars

------------------------------------------------------------------------------
\* From v to w the series moves towards error, seen from warn.
Worsens(v, w) ==
    \/ warn <= error /\ v <= w
    \/ warn > error /\ v >= w

\* A value that moves in the bad direction never gets a better level, on
\* whichever side of the thresholds it is and whichever way they point.
WorseningNeverImproves ==
    [][Drift /\ Worsens(value, value') =>
          ~IsWorseThan(CheckValue(value, warn, error),
                       CheckValue(value', warn, error))]_vars

\* A check on the negated series with negated thresholds goes off at the same
\* values, boundaries included.  Equal thresholds have no direction of their
\* own: there the code takes high as worse, and the mirror image is not level.
MirrorImage ==
    warn # error =>
        CheckValue(-value, -warn, -error) = CheckValue(value, warn, error)
==============================================================================
