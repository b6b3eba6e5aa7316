----------------------------- MODULE LiveMetrics -----------------------------
(***************************************************************************)
(* Metrics pushed by carbon relays.  CarbonPickleListener accepts          *)
(* connections and queues a PickleHandler for each; a handler thread reads *)
(* one connection batch by batch and hands every batch, as a MetricsTask,  *)
(* to the pool of PickleHandlerFactory, whose threads run the checks.      *)
(*                                                                         *)
(* A batch is known by its connection and its place in the stream; what is *)
(* in it matters to CheckRuns, not here.                                   *)
(***************************************************************************)
EXTENDS Integers, Sequences, FiniteSets

CONSTANTS
    Conns,      \* connections that relays may make
    MaxSent,    \* bound: batches sent on one connection
    Handlers,   \* threads that read connections (2)
    CoreSize,   \* threads the pool keeps (2)
    MaxSize,    \* threads the pool may grow to (8)
    Capacity,   \* tasks the pool's queue holds (1000)
    Faults      \* which of "decode", "accept" and "task" may fail

ASSUME ConstantsAssumption ==
    /\ MaxSent \in Nat
    /\ Handlers \in Nat \ {0}
    /\ CoreSize \in Nat \ {0}
    /\ MaxSize \in Nat /\ MaxSize >= CoreSize
    /\ Capacity \in Nat \ {0}
    /\ Faults \subseteq {"decode", "accept", "task"}

VARIABLES
    listening,  \* the listener thread is in its accept loop
    conn,       \* the server's side of each connection
    waiting,    \* accepted connections that no handler thread has taken yet
    hungUp,     \* the relay has closed its side
    written,    \* batches the relay has written
    read,       \* batches the handler has read
    size,       \* threads in the pool
    lost,       \* threads that a task has killed and that are not replaced yet
    queue,      \* the pool's queue of tasks
    running,    \* tasks that a pool thread is running
    over,       \* tasks that ran, to their end or to an exception
    stopped     \* the pool was told to shut down

network == <<listening, conn, waiting, hungUp, written>>
pool == <<size, lost, queue, running, over, stopped>>
vars == <<network, read, pool>>

Batch == [conn : Conns, seq : 1 .. MaxSent]

InQueue == {queue[i] : i \in 1 .. Len(queue)}

\* What the pool has taken on.
Accepted == InQueue \cup running \cup over

Open == {c \in Conns : conn[c] = "open"}

TypeOK ==
    /\ listening \in BOOLEAN
    /\ conn \in [Conns -> {"new", "waiting", "open", "closed"}]
    /\ waiting \in Seq(Conns)
    /\ hungUp \in [Conns -> BOOLEAN]
    /\ written \in [Conns -> 0 .. MaxSent]
    /\ read \in [Conns -> 0 .. MaxSent]
    /\ size \in 0 .. MaxSize
    /\ lost \in Nat
    /\ queue \in Seq(Batch)
    /\ running \in SUBSET Batch
    /\ over \in SUBSET Batch
    /\ stopped \in BOOLEAN

\* One core thread is started in advance.
Init ==
    /\ listening = TRUE
    /\ conn = [c \in Conns |-> "new"]
    /\ waiting = <<>>
    /\ hungUp = [c \in Conns |-> FALSE]
    /\ written = [c \in Conns |-> 0]
    /\ read = [c \in Conns |-> 0]
    /\ size = 1
    /\ lost = 0
    /\ queue = <<>>
    /\ running = {}
    /\ over = {}
    /\ stopped = FALSE

------------------------------------------------------------------------------
(* The listener and the relays. *)

\* A relay connects; the listener accepts and queues a handler.
Accept(c) ==
    /\ listening
    /\ conn[c] = "new"
    /\ conn' = [conn EXCEPT ![c] = "waiting"]
    /\ waiting' = Append(waiting, c)
    /\ UNCHANGED <<listening, hungUp, written, read, pool>>

\* An IOException ends the listener for good; handlers go on.
AcceptFails ==
    /\ "accept" \in Faults
    /\ listening
    /\ listening' = FALSE
    /\ UNCHANGED <<conn, waiting, hungUp, written, read, pool>>

\* A relay writes whether or not a handler is reading.
Write(c) ==
    /\ conn[c] \in {"waiting", "open"}
    /\ ~hungUp[c]
    /\ written[c] < MaxSent
    /\ written' = [written EXCEPT ![c] = written[c] + 1]
    /\ UNCHANGED <<listening, conn, waiting, hungUp, read, pool>>

HangUp(c) ==
    /\ conn[c] \in {"waiting", "open"}
    /\ ~hungUp[c]
    /\ hungUp' = [hungUp EXCEPT ![c] = TRUE]
    /\ UNCHANGED <<listening, conn, waiting, written, read, pool>>

------------------------------------------------------------------------------
(* The handlers. *)

\* A free handler thread takes the connection that has waited longest.
StartHandler ==
    /\ waiting # <<>>
    /\ Cardinality(Open) < Handlers
    /\ conn' = [conn EXCEPT ![Head(waiting)] = "open"]
    /\ waiting' = Tail(waiting)
    /\ UNCHANGED <<listening, hungUp, written, read, pool>>

\* ThreadPoolExecutor.execute: a new core thread, or the queue, or, when the
\* queue is full, a new thread that runs the new task at once.
Execute(b) ==
    \/ /\ ~stopped /\ size < CoreSize
       /\ size' = size + 1 /\ running' = running \cup {b}
       /\ UNCHANGED <<queue, lost, over, stopped>>
    \/ /\ ~stopped /\ size >= CoreSize /\ Len(queue) < Capacity
       /\ queue' = Append(queue, b)
       /\ UNCHANGED <<size, running, lost, over, stopped>>
    \/ /\ ~stopped /\ size >= CoreSize /\ Len(queue) >= Capacity
       /\ size < MaxSize
       /\ size' = size + 1 /\ running' = running \cup {b}
       /\ UNCHANGED <<queue, lost, over, stopped>>

\* Otherwise it throws RejectedExecutionException.
Rejects ==
    stopped \/ (size >= MaxSize /\ Len(queue) >= Capacity)

\* MUTANT: a rejected batch is logged and the handler reads on.
CloseStream_ReadsOn(c) == UNCHANGED conn

\* The rest of the handler's run when anything throws: the stream is closed
\* and its thread is free.
CloseStream(c) == conn' = [conn EXCEPT ![c] = "closed"]

\* MUTANTS: the handler does not wait for a batch; it runs a task that the
\* pool rejects itself.
Handle_WithoutWaiting(c) ==
    LET b == [conn |-> c, seq |-> read[c] + 1]
    IN  /\ conn[c] = "open"
        /\ read' = [read EXCEPT ![c] = read[c] + 1]
        /\ \/ Execute(b) /\ UNCHANGED conn
           \/ Rejects /\ CloseStream(c) /\ UNCHANGED pool
        /\ UNCHANGED <<listening, waiting, hungUp, written>>

Handle_CallerRuns(c) ==
    LET b == [conn |-> c, seq |-> read[c] + 1]
    IN  /\ conn[c] = "open"
        /\ read[c] < written[c]
        /\ read' = [read EXCEPT ![c] = read[c] + 1]
        /\ \/ Execute(b)
           \/ Rejects /\ running' = running \cup {b}
              /\ UNCHANGED <<size, lost, queue, over, stopped>>
        /\ UNCHANGED network

\* One turn of the handler's loop.
Handle(c) ==
    LET b == [conn |-> c, seq |-> read[c] + 1]
    IN  /\ conn[c] = "open"
        /\ read[c] < written[c]
        /\ read' = [read EXCEPT ![c] = read[c] + 1]
        /\ \/ Execute(b) /\ UNCHANGED conn
           \/ Rejects /\ CloseStream(c) /\ UNCHANGED pool
        /\ UNCHANGED <<listening, waiting, hungUp, written>>

\* The batch cannot be decoded; a short read of a long batch ends here too.
DecodeFails(c) ==
    /\ "decode" \in Faults
    /\ conn[c] = "open"
    /\ read[c] < written[c]
    /\ read' = [read EXCEPT ![c] = read[c] + 1]
    /\ CloseStream(c)
    /\ UNCHANGED <<listening, waiting, hungUp, written, pool>>

\* MUTANT: the end of a stream that carried nothing goes unnoticed.
EndOfStream_AfterData(c) ==
    /\ conn[c] = "open"
    /\ hungUp[c]
    /\ read[c] = written[c] /\ read[c] > 0
    /\ CloseStream(c)
    /\ UNCHANGED <<listening, waiting, hungUp, written, read, pool>>

\* The end of the stream reads as an empty pickle, which does not decode.
EndOfStream(c) ==
    /\ conn[c] = "open"
    /\ hungUp[c]
    /\ read[c] = written[c]
    /\ CloseStream(c)
    /\ UNCHANGED <<listening, waiting, hungUp, written, read, pool>>

HandlerStep(c) == Handle(c) \/ DecodeFails(c) \/ EndOfStream(c)

------------------------------------------------------------------------------
(* The pool. *)

\* An idle thread takes the oldest task.
Take ==
    /\ queue # <<>>
    /\ Cardinality(running) < size
    /\ running' = running \cup {Head(queue)}
    /\ queue' = Tail(queue)
    /\ UNCHANGED <<network, read, size, lost, over, stopped>>

\* MetricsTask.run reads the live checks and runs, one after the other, those
\* that the batch has a metric for.  CheckRunner.run throws nothing.
Finish(b) ==
    /\ b \in running
    /\ running' = running \ {b}
    /\ over' = over \cup {b}
    /\ UNCHANGED <<network, read, size, lost, queue, stopped>>

\* MUTANT: the pool forgets the thread.
TaskFails_NotReplaced(b) ==
    /\ "task" \in Faults
    /\ b \in running
    /\ running' = running \ {b}
    /\ over' = over \cup {b}
    /\ size' = size - 1
    /\ UNCHANGED <<network, read, lost, queue, stopped>>

\* MUTANT: a task that has failed is queued once more.
TaskFails_Retries(b) ==
    /\ "task" \in Faults
    /\ b \in running
    /\ running' = running \ {b}
    /\ over' = over \cup {b}
    /\ queue' = Append(queue, b)
    /\ size' = size - 1
    /\ lost' = lost + 1
    /\ UNCHANGED <<network, read, stopped>>

\* Reading the checks throws: the task is over and has killed its thread.
TaskFails(b) ==
    /\ "task" \in Faults
    /\ b \in running
    /\ running' = running \ {b}
    /\ over' = over \cup {b}
    /\ size' = size - 1
    /\ lost' = lost + 1
    /\ UNCHANGED <<network, read, queue, stopped>>

\* The pool starts a thread in its place, unless it is shut down and has
\* nothing to do or has grown meanwhile.
Replace ==
    /\ lost > 0
    /\ lost' = lost - 1
    /\ size' = IF (stopped /\ queue = <<>>) \/ size >= MaxSize
               THEN size
               ELSE size + 1
    /\ UNCHANGED <<network, read, queue, running, over, stopped>>

\* MUTANT: a thread that is running a task may end too.
Retire_WhileRunning ==
    /\ queue = <<>>
    /\ size > 0
    /\ stopped \/ size > CoreSize
    /\ size' = size - 1
    /\ UNCHANGED <<network, read, lost, queue, running, over, stopped>>

\* An idle thread ends: one too many after 500 seconds, or the pool is shut
\* down and the queue empty.
Retire ==
    /\ queue = <<>>
    /\ Cardinality(running) < size
    /\ stopped \/ size > CoreSize
    /\ size' = size - 1
    /\ UNCHANGED <<network, read, lost, queue, running, over, stopped>>

\* preDestroy: no more tasks are taken on, and it waits for Terminated.
PreDestroy ==
    /\ ~stopped
    /\ stopped' = TRUE
    /\ UNCHANGED <<network, read, size, lost, queue, running, over>>

Terminated == stopped /\ size = 0 /\ queue = <<>>

PoolStep ==
    \/ Take
    \/ \E b \in Batch : Finish(b) \/ TaskFails(b)
    \/ Replace
    \/ Retire

Next ==
    \/ \E c \in Conns : Accept(c) \/ Write(c) \/ HangUp(c) \/ HandlerStep(c)
    \/ AcceptFails
    \/ StartHandler
    \/ PoolStep
    \/ PreDestroy

Spec == Init /\ [][Next]_vars

\* Threads run.  Relays, and whoever stops the server, owe nothing.
FairSpec ==
    /\ Spec
    /\ WF_vars(StartHandler)
    /\ \A c \in Conns : WF_vars(HandlerStep(c))
    /\ WF_vars(PoolStep)

------------------------------------------------------------------------------

\* Of the batches a handler has read, the pool has taken on all but, if the
\* connection was closed over it, the last: a full queue or an undecodable
\* batch never leaves a hole in the middle of a stream.
OnlyTheLastIsLost ==
    \A c \in Conns : \A k \in 1 .. read[c] :
        \/ [conn |-> c, seq |-> k] \in Accepted
        \/ conn[c] = "closed" /\ k = read[c]

\* When preDestroy stops waiting, every task that was taken on has been run,
\* those that were still queued and those whose thread died included: none is
\* left to run on a server that takes itself apart.
TerminatedMeansDone == Terminated => Accepted = over

\* A batch overtakes an older one of its connection only when the queue is
\* full, or while a thread that a task has killed is not replaced yet: both
\* times execute starts a thread and gives it the newest task.
OvertakenOnlyWhenFull ==
    [][\A b \in running' \ running :
          (\E q \in InQueue : q.conn = b.conn /\ q.seq < b.seq) =>
              size' > size /\ (Len(queue) = Capacity \/ lost > 0)]_vars

\* An orderly shutdown ends, and not before every task that was taken on has
\* been run: preDestroy waits for exactly that.
ShutdownDrains == stopped ~> (Terminated /\ Accepted = over)

\* If the relays that are being served hang up some time, every connection is
\* served in the end.  With relays that stay connected, as carbon's do, only
\* the first two are: see Handlers.
EveryConnectionIsServed ==
    (\A c \in Conns : conn[c] = "open" ~> hungUp[c] \/ conn[c] = "closed") =>
        (\A c \in Conns : conn[c] = "waiting" ~> conn[c] # "waiting")

B == INSTANCE LiveBatches WITH
        Streams <- Conns,
        taken <- read,
        cut <- {c \in Conns : conn[c] = "closed"},
        todo <- InQueue \cup running,
        done <- over

\* Connections, queue and threads implement what LiveBatches promises: batches
\* are taken in order, and what the pool takes on is run in the end and run once,
\* neither left out nor repeated, even if tasks kill every thread there is, the
\* queue fills up or the server shuts down.
ImplementsBatches == B!Spec
==============================================================================
