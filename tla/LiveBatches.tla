------------------------------ MODULE LiveBatches ------------------------------
(***************************************************************************)
(* What the live path promises, without connections, queues and threads.   *)
(* Each relay's stream is taken batch by batch, in order and without a     *)
(* hole: a batch that cannot be taken on ends its stream.  What is taken   *)
(* on is run exactly once, also when the server shuts down, which only     *)
(* ends the taking on.                                                     *)
(***************************************************************************)
EXTENDS Naturals

CONSTANTS
    Streams,    \* the relays' streams
    MaxSent     \* bound: batches of a stream

VARIABLES
    taken,      \* batches of each stream that were read
    cut,        \* streams that nothing more is read of
    todo,       \* batches that were taken on and are yet to run
    done,       \* batches that ran, to their end or to an exception
    stopped     \* the server shuts down

vars == <<taken, cut, todo, done, stopped>>

Batch == [conn : Streams, seq : 1 .. MaxSent]

Init ==
    /\ taken = [c \in Streams |-> 0]
    /\ cut = {}
    /\ todo = {}
    /\ done = {}
    /\ stopped = FALSE

TakeOn(c) ==
    /\ c \notin cut /\ ~stopped
    /\ taken' = [taken EXCEPT ![c] = taken[c] + 1]
    /\ todo' = todo \cup {[conn |-> c, seq |-> taken[c] + 1]}
    /\ UNCHANGED <<cut, done, stopped>>

\* The next batch cannot be read, or finds no room.
Lose(c) ==
    /\ c \notin cut
    /\ taken' = [taken EXCEPT ![c] = taken[c] + 1]
    /\ cut' = cut \cup {c}
    /\ UNCHANGED <<todo, done, stopped>>

End(c) ==
    /\ c \notin cut
    /\ cut' = cut \cup {c}
    /\ UNCHANGED <<taken, todo, done, stopped>>

Run(b) ==
    /\ b \in todo
    /\ todo' = todo \ {b}
    /\ done' = done \cup {b}
    /\ UNCHANGED <<taken, cut, stopped>>

Stop ==
    /\ ~stopped
    /\ stopped' = TRUE
    /\ UNCHANGED <<taken, cut, todo, done>>

Next ==
    \/ \E c \in Streams : TakeOn(c) \/ Lose(c) \/ End(c)
    \/ \E b \in Batch : Run(b)
    \/ Stop

Safety == Init /\ [][Next]_vars

\* Whatever is taken on is run in the end.
Spec == Safety /\ \A b \in Batch : WF_vars(Run(b))
==============================================================================
