------------------------- MODULE MCSubscriptionHours -------------------------
(* A small week for TLC. *)
EXTENDS SubscriptionHours

Chosen(days, from, to, ignores) ==
    [enabled |-> TRUE, days |-> days, from |-> from, to |-> to,
     ignores |-> ignores]

\* The dialog's proposal, office hours on the first day, a night that spans
\* midnight, one that does not want recoveries, and one that is switched off.
SomeSubscriptions ==
    {Chosen(1 .. Week, 0, Minutes - 1, {}),
     Chosen({1}, 1, Minutes - 1, {}),
     Chosen(1 .. Week, Minutes - 1, 1, {}),
     Chosen(1 .. Week, 0, Minutes - 1, {"OK"}),
     [Chosen({2}, 0, 2, {}) EXCEPT !.enabled = FALSE]}
==============================================================================
