--------------------------- MODULE LiveMetricsProofs ---------------------------
(***************************************************************************)
(* Safety of the live path, for any number of relays, threads and batches. *)
(* The pool's counter of threads covers the tasks that run, its queue is   *)
(* in the order of each stream, and a connection is served once.           *)
(***************************************************************************)
EXTENDS LiveMetrics, FiniteSetTheorems, TLAPS

\* Every running task has a thread.
ThreadsInv == IsFiniteSet(running) /\ Cardinality(running) <= size

\* A connection waits in one place, and only there.
WaitingInv ==
    /\ \A i \in 1 .. Len(waiting) : conn[waiting[i]] = "waiting"
    /\ \A i, j \in 1 .. Len(waiting) : waiting[i] = waiting[j] => i = j

\* The queue holds what was read, in order, and is not used before the core
\* threads are there, or were and have been lost.
QueueInv ==
    /\ Len(queue) <= Capacity
    /\ ~stopped /\ queue # <<>> => size + lost >= CoreSize
    /\ \A i \in 1 .. Len(queue) : queue[i].seq <= read[queue[i].conn]
    /\ \A i, j \in 1 .. Len(queue) :
          i < j /\ queue[i].conn = queue[j].conn => queue[i].seq < queue[j].seq

LiveInv ==
    /\ TypeOK /\ ThreadsInv
    /\ WaitingInv
    /\ QueueInv
    /\ OnlyTheLastIsLost

------------------------------------------------------------------------------
(* Sequences and the pool's thread count. *)

LEMMA Appended ==
    ASSUME NEW S, NEW q \in Seq(S), NEW b \in S
    PROVE  /\ Append(q, b) \in Seq(S) /\ Len(Append(q, b)) = Len(q) + 1
           /\ Append(q, b)[Len(q) + 1] = b
           /\ \A i \in 1 .. Len(q) : Append(q, b)[i] = q[i]
           /\ Append(q, b) # <<>>
  OBVIOUS

LEMMA Shortened ==
    ASSUME NEW S, NEW q \in Seq(S), q # <<>>
    PROVE  /\ Head(q) = q[1] /\ Head(q) \in S /\ Len(q) >= 1
           /\ Tail(q) \in Seq(S) /\ Len(Tail(q)) = Len(q) - 1
           /\ \A i \in 1 .. Len(Tail(q)) : Tail(q)[i] = q[i + 1]
  OBVIOUS

LEMMA OneMore ==
    ASSUME NEW S, IsFiniteSet(S), NEW b
    PROVE  /\ IsFiniteSet(S \cup {b}) /\ IsFiniteSet(S \ {b})
           /\ Cardinality(S) \in Nat
           /\ Cardinality(S \cup {b}) \in Nat /\ Cardinality(S \ {b}) \in Nat
           /\ Cardinality(S \cup {b}) <= Cardinality(S) + 1
           /\ Cardinality(S \ {b}) =
                 IF b \in S THEN Cardinality(S) - 1 ELSE Cardinality(S)
  BY FS_AddElement, FS_RemoveElement, FS_CardinalityType

------------------------------------------------------------------------------
(* Types and threads. *)

LEMMA ExecuteKeeps ==
    ASSUME TypeOK, ThreadsInv, NEW b \in Batch, Execute(b)
    PROVE  /\ size' \in 0 .. MaxSize /\ lost' \in Nat /\ queue' \in Seq(Batch)
           /\ running' \in SUBSET Batch /\ over' \in SUBSET Batch
           /\ stopped' \in BOOLEAN
           /\ ThreadsInv'
  <1>1. /\ IsFiniteSet(running \cup {b})
        /\ Cardinality(running) \in Nat /\ Cardinality(running \cup {b}) \in Nat
        /\ Cardinality(running \cup {b}) <= Cardinality(running) + 1
    BY OneMore DEF ThreadsInv
  <1>2. Append(queue, b) \in Seq(Batch)
    BY Appended DEF TypeOK
  <1>3. running \cup {b} \in SUBSET Batch
    BY DEF TypeOK
  <1>4. /\ size' \in 0 .. MaxSize /\ lost' \in Nat /\ over' \in SUBSET Batch
        /\ stopped' \in BOOLEAN
    BY ConstantsAssumption DEF TypeOK, Execute
  <1>5. queue' \in Seq(Batch) /\ running' \in SUBSET Batch
    BY <1>2, <1>3 DEF TypeOK, Execute
  <1>6. ThreadsInv'
    <2>1. CASE size' = size + 1 /\ running' = running \cup {b}
      BY <1>1, <2>1 DEF ThreadsInv, TypeOK
    <2>2. CASE UNCHANGED <<size, running>>
      BY <2>2 DEF ThreadsInv
    <2> QED  BY <2>1, <2>2 DEF Execute
  <1> QED  BY <1>4, <1>5, <1>6

LEMMA TypeStep == TypeOK /\ ThreadsInv /\ [Next]_vars => TypeOK' /\ ThreadsInv'
  <1> SUFFICES ASSUME TypeOK, ThreadsInv, [Next]_vars
               PROVE  TypeOK' /\ ThreadsInv'
    OBVIOUS
  <1> USE ConstantsAssumption
  <1>1. ASSUME NEW c \in Conns, Accept(c)
        PROVE  TypeOK' /\ ThreadsInv'
    <2>1. Append(waiting, c) \in Seq(Conns)
      BY Appended DEF TypeOK
    <2> QED  BY <1>1, <2>1 DEF Accept, pool, TypeOK, ThreadsInv
  <1>2. CASE AcceptFails
    BY <1>2 DEF AcceptFails, pool, TypeOK, ThreadsInv
  <1>3. ASSUME NEW c \in Conns, Write(c)
        PROVE  TypeOK' /\ ThreadsInv'
    BY <1>3 DEF Write, pool, TypeOK, ThreadsInv
  <1>4. ASSUME NEW c \in Conns, HangUp(c)
        PROVE  TypeOK' /\ ThreadsInv'
    BY <1>4 DEF HangUp, pool, TypeOK, ThreadsInv
  <1>5. CASE StartHandler
    <2>1. Tail(waiting) \in Seq(Conns)
      BY <1>5, Shortened DEF StartHandler, TypeOK
    <2> QED  BY <1>5, <2>1 DEF StartHandler, pool, TypeOK, ThreadsInv
  <1>6. ASSUME NEW c \in Conns, Handle(c)
        PROVE  TypeOK' /\ ThreadsInv'
    <2> DEFINE b == [conn |-> c, seq |-> read[c] + 1]
    <2>1. read' = [read EXCEPT ![c] = read[c] + 1] /\ read[c] + 1 \in 1 .. MaxSent
      BY <1>6 DEF Handle, TypeOK
    <2>2. b \in Batch
      BY <2>1 DEF Batch
    <2>3. \/ Execute(b) /\ UNCHANGED conn
          \/ CloseStream(c) /\ UNCHANGED pool
      BY <1>6 DEF Handle
    <2>4. UNCHANGED <<listening, waiting, hungUp, written>>
      BY <1>6 DEF Handle
    <2> HIDE DEF b
    <2>5. CASE Execute(b) /\ UNCHANGED conn
      BY <2>1, <2>2, <2>4, <2>5, ExecuteKeeps DEF TypeOK
    <2>6. CASE CloseStream(c) /\ UNCHANGED pool
      BY <2>1, <2>4, <2>6 DEF CloseStream, pool, TypeOK, ThreadsInv
    <2> QED  BY <2>3, <2>5, <2>6
  <1>7. ASSUME NEW c \in Conns, DecodeFails(c)
        PROVE  TypeOK' /\ ThreadsInv'
    BY <1>7 DEF DecodeFails, CloseStream, pool, TypeOK, ThreadsInv
  <1>8. ASSUME NEW c \in Conns, EndOfStream(c)
        PROVE  TypeOK' /\ ThreadsInv'
    BY <1>8 DEF EndOfStream, CloseStream, pool, TypeOK, ThreadsInv
  <1>9. CASE Take
    <2>1. Head(queue) \in Batch /\ Tail(queue) \in Seq(Batch)
      BY <1>9, Shortened DEF Take, TypeOK
    <2>2. /\ IsFiniteSet(running \cup {Head(queue)})
          /\ Cardinality(running \cup {Head(queue)}) <= Cardinality(running) + 1
          /\ Cardinality(running) \in Nat
          /\ Cardinality(running \cup {Head(queue)}) \in Nat
      BY OneMore DEF ThreadsInv
    <2> QED  BY <1>9, <2>1, <2>2 DEF Take, network, TypeOK, ThreadsInv
  <1>10. ASSUME NEW b \in Batch, Finish(b) \/ TaskFails(b)
         PROVE  TypeOK' /\ ThreadsInv'
    <2>1. /\ IsFiniteSet(running \ {b}) /\ Cardinality(running) \in Nat
          /\ Cardinality(running \ {b}) \in Nat
          /\ Cardinality(running \ {b}) = Cardinality(running) - 1
      BY <1>10, OneMore DEF Finish, TaskFails, ThreadsInv
    <2>2. running \ {b} \in SUBSET Batch /\ over \cup {b} \in SUBSET Batch
      BY DEF TypeOK
    <2>3. CASE Finish(b)
      BY <2>1, <2>2, <2>3 DEF Finish, network, TypeOK, ThreadsInv
    <2>4. CASE TaskFails(b)
      <3>1. /\ running' = running \ {b} /\ over' = over \cup {b}
            /\ size' = size - 1 /\ lost' = lost + 1
            /\ UNCHANGED <<network, read, queue, stopped>>
        BY <2>4 DEF TaskFails
      <3>2. Cardinality(running) - 1 <= size - 1
        BY <2>1 DEF ThreadsInv, TypeOK
      <3>3. size - 1 \in 0 .. MaxSize /\ lost + 1 \in Nat
        BY <2>1, <3>2, ConstantsAssumption DEF TypeOK
      <3>4. TypeOK'
        BY <2>2, <3>1, <3>3 DEF network, TypeOK
      <3>5. ThreadsInv'
        BY <2>1, <3>1, <3>2 DEF ThreadsInv
      <3> QED  BY <3>4, <3>5
    <2> QED  BY <1>10, <2>3, <2>4
  <1>11. CASE Replace
    <2>1. Cardinality(running) \in Nat
      BY FS_CardinalityType DEF ThreadsInv
    <2> QED  BY <1>11, <2>1 DEF Replace, network, TypeOK, ThreadsInv
  <1>12. CASE Retire
    <2>1. Cardinality(running) \in Nat
      BY FS_CardinalityType DEF ThreadsInv
    <2> QED  BY <1>12, <2>1 DEF Retire, network, TypeOK, ThreadsInv
  <1>13. CASE PreDestroy
    BY <1>13 DEF PreDestroy, network, TypeOK, ThreadsInv
  <1>14. CASE UNCHANGED vars
    BY <1>14 DEF vars, network, pool, TypeOK, ThreadsInv
  <1> QED  BY <1>1, <1>2, <1>3, <1>4, <1>5, <1>6, <1>7, <1>8, <1>9, <1>10,
              <1>11, <1>12, <1>13, <1>14 DEF Next, HandlerStep, PoolStep

LEMMA InitType == Init => TypeOK /\ ThreadsInv
  <1> SUFFICES ASSUME Init
               PROVE  TypeOK /\ ThreadsInv
    OBVIOUS
  <1>1. Cardinality({}) = 0 /\ IsFiniteSet({})
    BY FS_EmptySet
  <1>2. 1 \in 0 .. MaxSize /\ 0 \in 0 .. MaxSent
    BY ConstantsAssumption
  <1>3. TypeOK
    <2>1. <<>> \in Seq(Conns) /\ <<>> \in Seq(Batch)
      OBVIOUS
    <2>2. {} \in SUBSET Batch /\ 0 \in Nat
      OBVIOUS
    <2> QED  BY <1>2, <2>1, <2>2 DEF Init, TypeOK
  <1>4. running = {} /\ size = 1
    BY DEF Init
  <1> QED  BY <1>1, <1>3, <1>4 DEF ThreadsInv

\* The live path's variables keep their types: the pool neither outgrows its
\* size nor loses count of its threads, whatever tasks do to them.
THEOREM LiveTypes == Spec => []TypeOK
  <1>1. TypeOK /\ ThreadsInv => TypeOK
    OBVIOUS
  <1> QED  BY <1>1, InitType, TypeStep, PTL DEF Spec

------------------------------------------------------------------------------
(* Connections. *)

\* Handler steps close open streams and nothing else.
LEMMA HandlerConn ==
    ASSUME TypeOK, NEW c \in Conns, HandlerStep(c)
    PROVE  /\ conn[c] = "open" /\ waiting' = waiting
           /\ conn' = conn \/ conn' = [conn EXCEPT ![c] = "closed"]
  BY DEF HandlerStep, Handle, DecodeFails, EndOfStream, CloseStream

LEMMA WaitingStep ==
    TypeOK /\ WaitingInv /\ [Next]_vars => WaitingInv'
  <1> SUFFICES ASSUME TypeOK, WaitingInv, [Next]_vars
               PROVE  WaitingInv'
    OBVIOUS
  <1>1. ASSUME NEW c \in Conns, Accept(c)
        PROVE  WaitingInv'
    <2> DEFINE w == Append(waiting, c)
    <2>1. /\ w \in Seq(Conns) /\ Len(w) = Len(waiting) + 1 /\ w[Len(waiting) + 1] = c
          /\ \A i \in 1 .. Len(waiting) : w[i] = waiting[i]
      BY Appended DEF TypeOK
    <2>2. Len(waiting) \in Nat /\ \A i \in 1 .. Len(waiting) : waiting[i] \in Conns
      BY DEF TypeOK
    <2>3. /\ conn[c] = "new" /\ waiting' = w
          /\ conn' = [conn EXCEPT ![c] = "waiting"]
      BY <1>1 DEF Accept
    <2>4. \A i \in 1 .. Len(waiting) : waiting[i] # c
      BY <2>3 DEF WaitingInv
    <2> HIDE DEF w
    <2>5. \A i \in 1 .. Len(w) : i \in 1 .. Len(waiting) \/ i = Len(waiting) + 1
      BY <2>1, <2>2
    <2>6. \A i \in 1 .. Len(w) : conn'[w[i]] = "waiting"
      <3>1. \A d \in Conns : conn'[d] = IF d = c THEN "waiting" ELSE conn[d]
        BY <2>3 DEF TypeOK
      <3>2. \A i \in 1 .. Len(waiting) : conn'[waiting[i]] = "waiting"
        BY <2>2, <3>1 DEF WaitingInv
      <3> QED  BY <2>1, <2>5, <3>1, <3>2
    <2>7. \A i, j \in 1 .. Len(w) : w[i] = w[j] => i = j
      BY <2>1, <2>2, <2>4, <2>5 DEF WaitingInv
    <2> QED  BY <2>3, <2>6, <2>7 DEF WaitingInv
  <1>2. CASE StartHandler
    <2> DEFINE w == Tail(waiting)
    <2>1. /\ Head(waiting) = waiting[1] /\ Len(waiting) >= 1
          /\ Len(w) = Len(waiting) - 1
          /\ \A i \in 1 .. Len(w) : w[i] = waiting[i + 1]
      BY <1>2, Shortened DEF StartHandler, TypeOK
    <2>2. Len(waiting) \in Nat /\ \A i \in 1 .. Len(waiting) : waiting[i] \in Conns
      BY DEF TypeOK
    <2>3. waiting' = w /\ conn' = [conn EXCEPT ![waiting[1]] = "open"]
      BY <1>2, <2>1 DEF StartHandler
    <2> HIDE DEF w
    <2>4. \A i \in 1 .. Len(w) : /\ i + 1 \in 1 .. Len(waiting)
                                 /\ i + 1 # 1 /\ 1 \in 1 .. Len(waiting)
      BY <2>1, <2>2
    <2>5. \A i \in 1 .. Len(w) : waiting[i + 1] # waiting[1]
      BY <2>4 DEF WaitingInv
    <2>6. \A i \in 1 .. Len(w) : conn'[waiting[i + 1]] = "waiting"
      BY <2>2, <2>3, <2>4, <2>5 DEF WaitingInv, TypeOK
    <2>7. \A i, j \in 1 .. Len(w) : waiting[i + 1] = waiting[j + 1] => i + 1 = j + 1
      BY <2>4 DEF WaitingInv
    <2>8. \A i, j \in 1 .. Len(w) : i + 1 = j + 1 => i = j
      BY <2>1, <2>2
    <2> QED  BY <2>1, <2>3, <2>6, <2>7, <2>8 DEF WaitingInv
  <1>3. ASSUME NEW c \in Conns, HandlerStep(c)
        PROVE  WaitingInv'
    <2>1. /\ conn[c] = "open" /\ waiting' = waiting
          /\ conn' = conn \/ conn' = [conn EXCEPT ![c] = "closed"]
      BY <1>3, HandlerConn
    <2>2. \A i \in 1 .. Len(waiting) : waiting[i] \in Conns
      BY DEF TypeOK
    <2> QED  BY <2>1, <2>2 DEF WaitingInv, TypeOK
  <1>4. CASE UNCHANGED <<conn, waiting>>
    BY <1>4 DEF WaitingInv
  <1> QED
    BY <1>1, <1>2, <1>3, <1>4
    DEF Next, AcceptFails, Write, HangUp, PoolStep, Take, Finish, TaskFails,
        Replace, Retire, PreDestroy, vars, network
------------------------------------------------------------------------------
(* The queue. *)

\* What an entry of the queue is.
LEMMA Entries ==
    ASSUME TypeOK
    PROVE  /\ Len(queue) \in Nat
           /\ \A i \in 1 .. Len(queue) :
                 /\ queue[i] \in Batch /\ queue[i].conn \in Conns
                 /\ queue[i].seq \in Nat
  <1>1. queue \in Seq(Batch)
    BY DEF TypeOK
  <1>2. Len(queue) \in Nat /\ \A i \in 1 .. Len(queue) : queue[i] \in Batch
    BY <1>1
  <1>3. \A b \in Batch : b.conn \in Conns /\ b.seq \in Nat
    BY ConstantsAssumption DEF Batch
  <1> QED  BY <1>2, <1>3

\* A turn of a handler that counts one more batch, b, and hands it over.
LEMMA ExecuteQueue ==
    ASSUME TypeOK, QueueInv, NEW c \in Conns, NEW b \in Batch, Execute(b),
           b.conn = c, b.seq = read[c] + 1,
           read' = [read EXCEPT ![c] = read[c] + 1]
    PROVE  QueueInv'
  <1>1. \A d \in Conns : /\ read[d] \in Nat /\ read'[d] \in Nat
                         /\ read[d] <= read'[d]
    BY ConstantsAssumption DEF TypeOK
  <1>2. read'[c] = read[c] + 1
    BY DEF TypeOK
  <1>3. /\ size \in Nat /\ lost \in Nat /\ Len(queue) \in Nat
        /\ CoreSize \in Nat /\ Capacity \in Nat
    BY ConstantsAssumption DEF TypeOK
  <1>4. CASE UNCHANGED queue
    <2>1. \A i \in 1 .. Len(queue) : queue[i].seq <= read'[queue[i].conn]
      BY <1>1, Entries DEF QueueInv
    <2>2. Len(queue) <= Capacity
      BY DEF QueueInv
    <2>3. ~stopped' /\ queue # <<>> => size' + lost' >= CoreSize
      BY <1>3, <1>4 DEF QueueInv, Execute
    <2> QED  BY <1>4, <2>1, <2>2, <2>3 DEF QueueInv
  <1>5. CASE /\ size >= CoreSize /\ Len(queue) < Capacity
             /\ queue' = Append(queue, b)
             /\ UNCHANGED <<size, lost>>
    <2> DEFINE q == Append(queue, b)
    <2>1. /\ Len(q) = Len(queue) + 1 /\ q[Len(queue) + 1] = b
          /\ \A i \in 1 .. Len(queue) : q[i] = queue[i]
      BY Appended DEF TypeOK
    <2>2. queue' = q
      BY <1>5
    <2> HIDE DEF q
    <2>3. \A i \in 1 .. Len(q) : i \in 1 .. Len(queue) \/ i = Len(queue) + 1
      BY <1>3, <2>1
    <2>4. \A i \in 1 .. Len(queue) : queue[i].seq <= read'[queue[i].conn]
      BY <1>1, Entries DEF QueueInv
    <2>5. \A i \in 1 .. Len(q) : q[i].seq <= read'[q[i].conn]
      BY <1>1, <1>2, <2>1, <2>3, <2>4
    <2>6. ASSUME NEW i \in 1 .. Len(q), NEW j \in 1 .. Len(q),
                 i < j, q[i].conn = q[j].conn
          PROVE  q[i].seq < q[j].seq
      <3>1. i \in 1 .. Len(queue)
        BY <1>3, <2>1, <2>6
      <3>2. CASE j \in 1 .. Len(queue)
        BY <2>1, <2>6, <3>1, <3>2 DEF QueueInv
      <3>3. CASE j = Len(queue) + 1
        <4>1. queue[i].conn = c /\ q[i] = queue[i] /\ q[j] = b
          BY <2>1, <2>6, <3>1, <3>3
        <4>2. queue[i].seq <= read[c] /\ queue[i].seq \in Nat
          BY <3>1, <4>1, Entries DEF QueueInv
        <4> QED  BY <1>1, <4>1, <4>2
      <3> QED  BY <2>3, <3>2, <3>3
    <2>7. Len(q) <= Capacity /\ size' + lost' >= CoreSize
      BY <1>3, <1>5, <2>1
    <2> QED  BY <2>2, <2>5, <2>6, <2>7 DEF QueueInv
  <1> QED  BY <1>4, <1>5 DEF Execute

LEMMA QueueStep == TypeOK /\ QueueInv /\ [Next]_vars => QueueInv'
  <1> SUFFICES ASSUME TypeOK, QueueInv, [Next]_vars
               PROVE  QueueInv'
    OBVIOUS
  <1>0. /\ size \in Nat /\ lost \in Nat /\ Len(queue) \in Nat
        /\ CoreSize \in Nat /\ Capacity \in Nat /\ MaxSize \in Nat
        /\ MaxSize >= CoreSize
    BY ConstantsAssumption DEF TypeOK
  <1>1. ASSUME NEW c \in Conns, Handle(c)
        PROVE  QueueInv'
    <2> DEFINE b == [conn |-> c, seq |-> read[c] + 1]
    <2>1. read' = [read EXCEPT ![c] = read[c] + 1] /\ read[c] + 1 \in 1 .. MaxSent
      BY <1>1, ConstantsAssumption DEF Handle, TypeOK
    <2>2. b \in Batch /\ b.conn = c /\ b.seq = read[c] + 1
      BY <2>1 DEF Batch
    <2>3. Execute(b) \/ UNCHANGED pool
      BY <1>1 DEF Handle
    <2> HIDE DEF b
    <2>4. CASE UNCHANGED pool
      <3>1. \A d \in Conns : /\ read[d] \in Nat /\ read'[d] \in Nat
                             /\ read[d] <= read'[d]
        BY <2>1, ConstantsAssumption DEF TypeOK
      <3>2. \A i \in 1 .. Len(queue) : queue[i].seq <= read'[queue[i].conn]
        BY <3>1, Entries DEF QueueInv
      <3> QED  BY <2>4, <3>2 DEF QueueInv, pool
    <2> QED  BY <2>1, <2>2, <2>3, <2>4, ExecuteQueue
  <1>2. ASSUME NEW c \in Conns, DecodeFails(c)
        PROVE  QueueInv'
    <2>1. read' = [read EXCEPT ![c] = read[c] + 1] /\ UNCHANGED pool
      BY <1>2 DEF DecodeFails
    <2>2. \A d \in Conns : /\ read[d] \in Nat /\ read'[d] \in Nat
                           /\ read[d] <= read'[d]
      BY <2>1, ConstantsAssumption DEF TypeOK
    <2>3. \A i \in 1 .. Len(queue) : queue[i].seq <= read'[queue[i].conn]
      BY <2>2, Entries DEF QueueInv
    <2> QED  BY <2>1, <2>3 DEF QueueInv, pool
  <1>3. CASE Take
    <2> DEFINE q == Tail(queue)
    <2>1. /\ Len(q) = Len(queue) - 1 /\ queue # <<>>
          /\ \A i \in 1 .. Len(q) : q[i] = queue[i + 1]
      BY <1>3, Shortened DEF Take, TypeOK
    <2>2. queue' = q /\ UNCHANGED <<read, size, lost, stopped>>
      BY <1>3 DEF Take
    <2> HIDE DEF q
    <2>3. \A i \in 1 .. Len(q) : i + 1 \in 1 .. Len(queue)
      BY <1>0, <2>1
    <2>4. \A i, j \in 1 .. Len(q) : i < j => i + 1 < j + 1
      BY <1>0, <2>1
    <2>5. \A i \in 1 .. Len(q) : q[i].seq <= read[q[i].conn]
      BY <2>1, <2>3 DEF QueueInv
    <2>6. \A i, j \in 1 .. Len(q) :
             i < j /\ q[i].conn = q[j].conn => q[i].seq < q[j].seq
      BY <2>1, <2>3, <2>4 DEF QueueInv
    <2>7. Len(q) <= Capacity /\ (~stopped => size + lost >= CoreSize)
      BY <1>0, <2>1 DEF QueueInv
    <2> QED  BY <2>2, <2>5, <2>6, <2>7 DEF QueueInv
  <1>4. ASSUME NEW b \in Batch, Finish(b)
        PROVE  QueueInv'
    BY <1>4 DEF Finish, QueueInv
  <1>5. ASSUME NEW b \in Batch, TaskFails(b)
        PROVE  QueueInv'
    BY <1>0, <1>5 DEF TaskFails, QueueInv
  <1>6. CASE Replace
    <2>1. UNCHANGED <<read, queue, stopped>> /\ lost' = lost - 1
      BY <1>6 DEF Replace
    <2>2. CASE size' = size + 1
      BY <1>0, <2>1, <2>2 DEF QueueInv
    <2>3. CASE size' = size /\ ((stopped /\ queue = <<>>) \/ size >= MaxSize)
      <3>1. lost' \in Nat
        BY <1>0, <1>6 DEF Replace
      <3> QED  BY <1>0, <2>1, <2>3, <3>1 DEF QueueInv
    <2> QED  BY <1>6, <2>2, <2>3 DEF Replace
  <1>7. CASE Retire
    BY <1>7 DEF Retire, QueueInv
  <1>8. CASE PreDestroy
    BY <1>8 DEF PreDestroy, QueueInv
  <1>9. CASE UNCHANGED <<read, pool>>
    BY <1>9 DEF pool, QueueInv
  <1> QED
    BY <1>1, <1>2, <1>3, <1>4, <1>5, <1>6, <1>7, <1>8, <1>9
    DEF Next, HandlerStep, PoolStep, Accept, AcceptFails, Write, HangUp,
        StartHandler, EndOfStream, vars
------------------------------------------------------------------------------
(* What the pool has taken on. *)

LEMMA ExecuteAccepts ==
    ASSUME TypeOK, NEW b \in Batch, Execute(b)
    PROVE  Accepted \subseteq Accepted' /\ b \in Accepted'
  <1>1. CASE UNCHANGED <<queue, over>> /\ running' = running \cup {b}
    BY <1>1 DEF Accepted, InQueue
  <1>2. CASE queue' = Append(queue, b) /\ UNCHANGED <<running, over>>
    <2> DEFINE q == Append(queue, b)
    <2>1. /\ Len(q) = Len(queue) + 1 /\ q[Len(queue) + 1] = b
          /\ \A i \in 1 .. Len(queue) : q[i] = queue[i]
      BY Appended DEF TypeOK
    <2>2. queue' = q
      BY <1>2
    <2> HIDE DEF q
    <2>3. Len(queue) + 1 \in 1 .. Len(q) /\ \A i \in 1 .. Len(queue) : i \in 1 .. Len(q)
      BY <2>1, Entries
    <2>4. InQueue \subseteq InQueue' /\ b \in InQueue'
      BY <2>1, <2>2, <2>3 DEF InQueue
    <2> QED  BY <1>2, <2>4 DEF Accepted
  <1> QED  BY <1>1, <1>2 DEF Execute

LEMMA TakeAccepts ==
    ASSUME TypeOK, Take
    PROVE  Accepted \subseteq Accepted'
  <1> DEFINE q == Tail(queue)
  <1>1. /\ Len(q) = Len(queue) - 1 /\ Head(queue) = queue[1]
        /\ \A i \in 1 .. Len(q) : q[i] = queue[i + 1]
    BY Shortened DEF Take, TypeOK
  <1>2. queue' = q /\ running' = running \cup {queue[1]} /\ over' = over
    BY <1>1 DEF Take
  <1> HIDE DEF q
  <1>3. ASSUME NEW i \in 1 .. Len(queue)
        PROVE  queue[i] \in InQueue' \cup running'
    <2>1. CASE i = 1
      BY <1>2, <2>1
    <2>2. CASE i # 1
      <3>1. i - 1 \in 1 .. Len(q) /\ (i - 1) + 1 = i
        BY <1>1, <2>2, Entries
      <3> QED  BY <1>1, <1>2, <3>1 DEF InQueue
    <2> QED  BY <2>1, <2>2
  <1> QED  BY <1>2, <1>3 DEF Accepted, InQueue

\* The pool forgets nothing it took on, and steps of others do not touch it.
LEMMA AcceptedKept ==
    ASSUME TypeOK, PoolStep \/ PreDestroy \/ UNCHANGED pool
    PROVE  Accepted \subseteq Accepted'
  <1>1. CASE Take
    BY <1>1, TakeAccepts
  <1>2. ASSUME NEW b \in Batch, Finish(b) \/ TaskFails(b)
        PROVE  Accepted \subseteq Accepted'
    BY <1>2 DEF Finish, TaskFails, Accepted, InQueue
  <1>3. CASE UNCHANGED <<queue, running, over>>
    BY <1>3 DEF Accepted, InQueue
  <1> QED  BY <1>1, <1>2, <1>3 DEF PoolStep, Replace, Retire, PreDestroy, pool

LEMMA LostStep ==
    TypeOK /\ WaitingInv /\ OnlyTheLastIsLost /\ [Next]_vars => OnlyTheLastIsLost'
  <1> SUFFICES ASSUME TypeOK, WaitingInv, OnlyTheLastIsLost, [Next]_vars
               PROVE  OnlyTheLastIsLost'
    OBVIOUS
  <1>1. ASSUME NEW c \in Conns, Handle(c) \/ DecodeFails(c)
        PROVE  OnlyTheLastIsLost'
    <2> DEFINE b == [conn |-> c, seq |-> read[c] + 1]
    <2>1. /\ conn[c] = "open" /\ read' = [read EXCEPT ![c] = read[c] + 1]
          /\ read[c] + 1 \in 1 .. MaxSent
      BY <1>1, ConstantsAssumption DEF Handle, DecodeFails, TypeOK
    <2>2. b \in Batch
      BY <2>1 DEF Batch
    <2>3. \/ Execute(b) /\ UNCHANGED conn
          \/ UNCHANGED pool /\ conn' = [conn EXCEPT ![c] = "closed"]
      BY <1>1 DEF Handle, DecodeFails, CloseStream
    <2>4. /\ Accepted \subseteq Accepted'
          /\ b \in Accepted' \/ conn'[c] = "closed"
      BY <2>2, <2>3, ExecuteAccepts, AcceptedKept DEF TypeOK
    <2>5. /\ \A d \in Conns \ {c} : conn'[d] = conn[d] /\ read'[d] = read[d]
          /\ read'[c] = read[c] + 1 /\ read[c] \in Nat
      BY <2>1, <2>3, ConstantsAssumption DEF TypeOK
    <2>6. ASSUME NEW d \in Conns, NEW k \in 1 .. read'[d]
          PROVE  \/ [conn |-> d, seq |-> k] \in Accepted'
                 \/ conn'[d] = "closed" /\ k = read'[d]
      <3>1. CASE d # c
        BY <2>4, <2>5, <3>1 DEF OnlyTheLastIsLost
      <3>2. CASE d = c /\ k = read[c] + 1
        BY <2>4, <2>5, <3>2
      <3>3. CASE d = c /\ k \in 1 .. read[c]
        BY <2>1, <2>4, <3>3 DEF OnlyTheLastIsLost
      <3> QED  BY <2>5, <3>1, <3>2, <3>3
    <2> QED  BY <2>6 DEF OnlyTheLastIsLost
  <1>2. ASSUME UNCHANGED read, PoolStep \/ PreDestroy \/ UNCHANGED pool,
               \A c \in Conns : conn[c] = "closed" => conn'[c] = "closed"
        PROVE  OnlyTheLastIsLost'
    <2>1. Accepted \subseteq Accepted'
      BY <1>2, AcceptedKept
    <2> QED  BY <1>2, <2>1 DEF OnlyTheLastIsLost
  <1>3. ASSUME NEW c \in Conns, Accept(c) \/ Write(c) \/ HangUp(c) \/ EndOfStream(c)
        PROVE  OnlyTheLastIsLost'
    <2>1. \A d \in Conns : conn[d] = "closed" => conn'[d] = "closed"
      BY <1>3 DEF Accept, Write, HangUp, EndOfStream, CloseStream, TypeOK
    <2> QED  BY <1>2, <1>3, <2>1 DEF Accept, Write, HangUp, EndOfStream
  <1>4. CASE StartHandler
    <2>1. conn[Head(waiting)] = "waiting"
      BY <1>4, Shortened DEF StartHandler, WaitingInv, TypeOK
    <2>2. \A d \in Conns : conn[d] = "closed" => conn'[d] = "closed"
      BY <1>4, <2>1 DEF StartHandler, TypeOK
    <2> QED  BY <1>2, <1>4, <2>2 DEF StartHandler
  <1>5. CASE AcceptFails \/ PoolStep \/ PreDestroy \/ UNCHANGED vars
    <2>1. UNCHANGED <<read, conn>>
      BY <1>5 DEF AcceptFails, PoolStep, Take, Finish, TaskFails, Replace,
                  Retire, PreDestroy, vars, network
    <2>2. PoolStep \/ PreDestroy \/ UNCHANGED pool
      BY <1>5 DEF AcceptFails, vars
    <2> QED  BY <1>2, <2>1, <2>2
  <1> QED  BY <1>1, <1>3, <1>4, <1>5 DEF Next, HandlerStep

------------------------------------------------------------------------------
(* The invariant and what follows from it. *)

LEMMA InitLive == Init => LiveInv
  <1> SUFFICES ASSUME Init
               PROVE  LiveInv
    OBVIOUS
  <1>1. TypeOK /\ ThreadsInv
    BY InitType
  <1>2. Len(waiting) = 0 /\ Len(queue) = 0 /\ queue = <<>>
    BY DEF Init
  <1>3. WaitingInv
    BY <1>2 DEF WaitingInv
  <1>4. QueueInv
    BY <1>2, ConstantsAssumption DEF QueueInv
  <1>5. OnlyTheLastIsLost
    BY DEF Init, OnlyTheLastIsLost
  <1> QED  BY <1>1, <1>3, <1>4, <1>5 DEF LiveInv

LEMMA LiveStep == LiveInv /\ [Next]_vars => LiveInv'
  BY TypeStep, WaitingStep, QueueStep, LostStep DEF LiveInv

THEOREM LiveInvariant == Spec => []LiveInv
  BY InitLive, LiveStep, PTL DEF Spec

\* Whatever fails, a stream never has a hole in the middle: the only batch
\* a handler reads and the pool does not take on is the one its connection
\* was closed over (PickleHandler.run).
THEOREM OnlyTheLastLost == Spec => []OnlyTheLastIsLost
  <1>1. LiveInv => OnlyTheLastIsLost
    BY DEF LiveInv
  <1> QED  BY <1>1, LiveInvariant, PTL

LEMMA OvertakingStep ==
    ASSUME TypeOK, QueueInv, [Next]_vars,
           NEW b \in running' \ running, NEW q \in InQueue,
           q.conn = b.conn, q.seq < b.seq
    PROVE  size' > size /\ (Len(queue) = Capacity \/ lost > 0)
  <1>0. /\ size \in Nat /\ lost \in Nat /\ Len(queue) \in Nat
        /\ CoreSize \in Nat /\ Capacity \in Nat
    BY ConstantsAssumption DEF TypeOK
  <1>1. PICK j \in 1 .. Len(queue) : q = queue[j]
    BY DEF InQueue
  <1>2. queue # <<>>
    BY <1>0, <1>1
  <1>3. ASSUME NEW c \in Conns, Handle(c)
        PROVE  size' > size /\ (Len(queue) = Capacity \/ lost > 0)
    <2>1. Execute([conn |-> c, seq |-> read[c] + 1])
      BY <1>3 DEF Handle, pool
    <2> QED  BY <1>0, <1>2, <2>1 DEF Execute, QueueInv
  <1>4. CASE Take
    <2>1. b = queue[1] /\ 1 \in 1 .. Len(queue)
      BY <1>0, <1>1, <1>4, Shortened DEF Take, TypeOK
    <2>2. CASE j = 1
      BY <1>1, <2>1, <2>2, Entries
    <2>3. CASE j # 1
      <3>1. queue[1].seq < queue[j].seq
        BY <1>0, <1>1, <2>1, <2>3 DEF QueueInv
      <3>2. queue[1].seq \in Nat /\ queue[j].seq \in Nat
        BY <1>1, <2>1, Entries
      <3> QED  BY <1>1, <2>1, <3>1, <3>2
    <2> QED  BY <2>2, <2>3
  <1>5. CASE running' \subseteq running
    BY <1>5
  <1> QED
    BY <1>3, <1>4, <1>5
    DEF Next, HandlerStep, PoolStep, Accept, AcceptFails, Write, HangUp,
        StartHandler, DecodeFails, EndOfStream, Finish, TaskFails, Replace,
        Retire, PreDestroy, vars, pool

\* Batches of one connection run in the order they were sent, except when the
\* queue is full or a thread is lost (ThreadPoolExecutor.execute as
\* PickleHandlerFactory sets it up).
THEOREM OvertakenOnly == Spec => OvertakenOnlyWhenFull
  <1>1. LiveInv /\ [Next]_vars =>
           [\A b \in running' \ running :
               (\E q \in InQueue : q.conn = b.conn /\ q.seq < b.seq) =>
                   size' > size /\ (Len(queue) = Capacity \/ lost > 0)]_vars
    BY OvertakingStep DEF LiveInv
  <1> QED  BY <1>1, LiveInvariant, PTL DEF Spec, OvertakenOnlyWhenFull

------------------------------------------------------------------------------
(* A shutdown. *)

\* With no thread left and nothing queued, all that was taken on has been run
\* (PickleHandlerFactory.preDestroy waits for that): a thread ends only when
\* idle or with its task, so the count of threads covers the running tasks.
THEOREM DoneWhenTerminated == Spec => []TerminatedMeansDone
  <1>1. LiveInv => TerminatedMeansDone
    <2> SUFFICES ASSUME LiveInv, Terminated
                 PROVE  Accepted = over
      BY DEF TerminatedMeansDone
    <2>1. Cardinality(running) = 0
      BY FS_CardinalityType DEF LiveInv, ThreadsInv, Terminated
    <2>2. running = {}
      BY <2>1, FS_EmptySet DEF LiveInv, ThreadsInv
    <2>3. InQueue = {}
      BY DEF Terminated, InQueue
    <2> QED  BY <2>2, <2>3 DEF Accepted
  <1> QED  BY <1>1, LiveInvariant, PTL

------------------------------------------------------------------------------
(***************************************************************************)
(* The live path implements LiveBatches.  A running task must not be in    *)
(* the queue as well, or its end would leave it to be run again.  It is    *)
(* not: what is handed over is newer than all that was accepted of its     *)
(* stream, and the queue, in the order of each stream, holds nothing twice.*)
(***************************************************************************)
OnceInv ==
    /\ \A b \in Accepted : b.seq <= read[b.conn]
    /\ InQueue \cap running = {}
    /\ (InQueue \cup running) \cap over = {}

LEMMA AppendedEntries ==
    ASSUME NEW S, NEW q \in Seq(S), NEW b \in S
    PROVE  {Append(q, b)[i] : i \in 1 .. Len(Append(q, b))}
              = {q[i] : i \in 1 .. Len(q)} \cup {b}
  <1> DEFINE a == Append(q, b)
  <1>1. /\ Len(q) \in Nat /\ Len(a) = Len(q) + 1 /\ a[Len(q) + 1] = b
        /\ \A i \in 1 .. Len(q) : a[i] = q[i]
    BY Appended
  <1> HIDE DEF a
  <1>2. 1 .. Len(a) = (1 .. Len(q)) \cup {Len(q) + 1}
    BY <1>1
  <1> QED  BY <1>1, <1>2

LEMMA HeadAndTail ==
    ASSUME NEW S, NEW q \in Seq(S), q # <<>>
    PROVE  {q[i] : i \in 1 .. Len(q)}
              = {Head(q)} \cup {Tail(q)[i] : i \in 1 .. Len(Tail(q))}
  <1> DEFINE t == Tail(q)
  <1>1. /\ Len(q) \in Nat \ {0} /\ Len(t) = Len(q) - 1 /\ Head(q) = q[1]
        /\ \A i \in 1 .. Len(t) : t[i] = q[i + 1]
    BY Shortened
  <1> HIDE DEF t
  <1>2. ASSUME NEW i \in 1 .. Len(q)
        PROVE  i = 1 \/ (i - 1 \in 1 .. Len(t) /\ (i - 1) + 1 = i)
    BY <1>1
  <1>3. /\ 1 \in 1 .. Len(q)
        /\ \A i \in 1 .. Len(t) : i + 1 \in 1 .. Len(q)
    BY <1>1
  <1>4. \A i \in 1 .. Len(q) : q[i] = Head(q) \/ \E k \in 1 .. Len(t) : q[i] = t[k]
    BY <1>1, <1>2
  <1> QED  BY <1>1, <1>3, <1>4

\* Handing b over is taking it on, whichever way execute goes.
LEMMA ExecuteTakesOn ==
    ASSUME TypeOK, NEW b \in Batch, Execute(b)
    PROVE  /\ over' = over /\ stopped' = stopped /\ ~stopped
           /\ \/ InQueue' = InQueue \cup {b} /\ running' = running
              \/ InQueue' = InQueue /\ running' = running \cup {b}
  <1>1. CASE queue' = Append(queue, b) /\ running' = running
    <2>1. {Append(queue, b)[i] : i \in 1 .. Len(Append(queue, b))} = InQueue \cup {b}
      <3>1. queue \in Seq(Batch)
        BY DEF TypeOK
      <3>2. {Append(queue, b)[i] : i \in 1 .. Len(Append(queue, b))}
               = {queue[i] : i \in 1 .. Len(queue)} \cup {b}
        BY <3>1, AppendedEntries
      <3> QED  BY <3>2, Zenon DEF InQueue
    <2>2. InQueue' = InQueue \cup {b}
      BY <1>1, <2>1, Zenon DEF InQueue
    <2> QED  BY <1>1, <2>2 DEF Execute
  <1>2. CASE queue' = queue /\ running' = running \cup {b}
    BY <1>2 DEF Execute, InQueue
  <1> QED  BY <1>1, <1>2 DEF Execute

\* Take moves the oldest task, and leaves no second copy of it behind.
LEMMA TakeMoves ==
    ASSUME TypeOK, QueueInv, Take
    PROVE  /\ InQueue = InQueue' \cup {Head(queue)}
           /\ Head(queue) \notin InQueue'
           /\ running' = running \cup {Head(queue)}
  <1> DEFINE t == Tail(queue)
  <1>1. /\ queue # <<>> /\ queue' = t /\ Len(t) = Len(queue) - 1
        /\ Len(queue) \in Nat /\ Len(queue) >= 1
        /\ Head(queue) = queue[1] /\ \A i \in 1 .. Len(t) : t[i] = queue[i + 1]
        /\ running' = running \cup {Head(queue)}
    BY Shortened, Entries DEF Take, TypeOK
  <1>2. InQueue = {Head(queue)} \cup InQueue'
    <2>1. queue \in Seq(Batch)
      BY DEF TypeOK
    <2>2. InQueue = {Head(queue)} \cup {t[i] : i \in 1 .. Len(t)}
      BY <1>1, <2>1, HeadAndTail, Zenon DEF InQueue
    <2>3. InQueue' = {t[i] : i \in 1 .. Len(t)}
      BY <1>1, Zenon DEF InQueue
    <2> QED  BY <2>2, <2>3
  <1> HIDE DEF t
  <1>3. ASSUME NEW i \in 1 .. Len(t)
        PROVE  t[i] # queue[1]
    <2>1. /\ 1 \in 1 .. Len(queue) /\ i + 1 \in 1 .. Len(queue)
          /\ 1 < i + 1 /\ t[i] = queue[i + 1]
      BY <1>1
    <2>2. /\ queue[1].conn = queue[i + 1].conn => queue[1].seq < queue[i + 1].seq
          /\ queue[1].seq \in Nat
      BY <2>1, Entries DEF QueueInv
    <2> QED  BY <2>1, <2>2
  <1>4. Head(queue) \notin InQueue'
    BY <1>1, <1>3 DEF InQueue
  <1> QED  BY <1>1, <1>2, <1>4

\* A turn of the handler reads a batch that nobody has seen, and takes it on or
\* closes the stream over it.
LEMMA HandlerTurn ==
    ASSUME TypeOK, NEW c \in Conns, Handle(c) \/ DecodeFails(c)
    PROVE  LET b == [conn |-> c, seq |-> read[c] + 1]
           IN  /\ conn[c] = "open" /\ b \in Batch
               /\ read' = [read EXCEPT ![c] = read[c] + 1]
               /\ \/ Execute(b) /\ conn' = conn
                  \/ UNCHANGED pool /\ conn' = [conn EXCEPT ![c] = "closed"]
  <1>1. read[c] + 1 \in 1 .. MaxSent
    BY ConstantsAssumption DEF TypeOK, Handle, DecodeFails
  <1> QED  BY <1>1 DEF Handle, DecodeFails, CloseStream, Batch

\* Steps that neither read a batch nor run one.
LEMMA Elsewhere ==
    ASSUME \/ \E c \in Conns : Accept(c) \/ Write(c) \/ HangUp(c) \/ EndOfStream(c)
           \/ AcceptFails \/ StartHandler \/ Replace \/ Retire \/ PreDestroy
           \/ UNCHANGED vars
    PROVE  UNCHANGED <<read, queue, running, over>>
  BY DEF Accept, Write, HangUp, EndOfStream, AcceptFails, StartHandler, Replace,
         Retire, PreDestroy, vars, network, pool

LEMMA OnceStep == LiveInv /\ OnceInv /\ [Next]_vars => OnceInv'
  <1> SUFFICES ASSUME LiveInv, OnceInv, [Next]_vars
               PROVE  OnceInv'
    OBVIOUS
  <1>0. /\ TypeOK /\ QueueInv
        /\ Accepted \subseteq Batch
        /\ \A b \in Batch : b.conn \in Conns /\ b.seq \in Nat
        /\ \A c \in Conns : read[c] \in Nat
    <2>1. InQueue \subseteq Batch
      BY Entries DEF InQueue, LiveInv
    <2> QED  BY <2>1, ConstantsAssumption DEF LiveInv, TypeOK, Accepted, Batch
  <1>1. ASSUME NEW c \in Conns, Handle(c) \/ DecodeFails(c)
        PROVE  OnceInv'
    <2> DEFINE b == [conn |-> c, seq |-> read[c] + 1]
    <2>1. /\ b \in Batch /\ b.conn = c /\ b.seq = read[c] + 1
          /\ read' = [read EXCEPT ![c] = read[c] + 1]
          /\ Execute(b) \/ UNCHANGED pool
      BY <1>0, <1>1, HandlerTurn
    <2> HIDE DEF b
    <2>2. /\ \A d \in Conns : read'[d] \in Nat /\ read[d] <= read'[d]
          /\ read'[c] = read[c] + 1
      BY <1>0, <2>1 DEF TypeOK
    <2>3. \A a \in Accepted : a.seq <= read'[a.conn]
      BY <1>0, <2>2 DEF OnceInv
    <2>4. b \notin Accepted
      BY <1>0, <2>1 DEF OnceInv
    <2>5. CASE Execute(b)
      <3>1. /\ Accepted' = Accepted \cup {b} /\ InQueue' \cap running' = {}
            /\ (InQueue' \cup running') \cap over' = {}
        BY <1>0, <2>1, <2>4, <2>5, ExecuteTakesOn DEF Accepted, OnceInv
      <3> QED  BY <1>0, <2>1, <2>2, <2>3, <3>1 DEF OnceInv
    <2>6. CASE UNCHANGED pool
      <3>1. /\ InQueue' = InQueue /\ running' = running /\ over' = over
            /\ Accepted' = Accepted
        BY <2>6 DEF pool, InQueue, Accepted
      <3> QED  BY <2>3, <3>1 DEF OnceInv
    <2> QED  BY <2>1, <2>5, <2>6
  <1>2. CASE Take
    <2>1. /\ InQueue' \cap running' = {} /\ Accepted' = Accepted /\ read' = read
          /\ InQueue' \cup running' = InQueue \cup running /\ over' = over
      BY <1>0, <1>2, TakeMoves DEF Take, Accepted, OnceInv
    <2> QED  BY <2>1 DEF OnceInv
  <1>3. ASSUME NEW b \in Batch, Finish(b) \/ TaskFails(b)
        PROVE  OnceInv'
    <2>1. /\ read' = read /\ InQueue' = InQueue /\ b \in running
          /\ running' = running \ {b} /\ over' = over \cup {b}
      BY <1>3 DEF Finish, TaskFails, InQueue
    <2> QED  BY <2>1 DEF OnceInv, Accepted
  <1>4. CASE UNCHANGED <<read, queue, running, over>>
    BY <1>4 DEF OnceInv, Accepted, InQueue
  <1> QED
    BY <1>1, <1>2, <1>3, <1>4, Elsewhere DEF Next, HandlerStep, PoolStep

LEMMA InitOnce == Init => OnceInv
  BY DEF Init, OnceInv, Accepted, InQueue

LEMMA BatchesInit == Init => B!Init
  BY DEF Init, B!Init, InQueue

LEMMA BatchesStep == LiveInv /\ OnceInv /\ [Next]_vars => [B!Next]_B!vars
  <1> SUFFICES ASSUME LiveInv, OnceInv, [Next]_vars
               PROVE  B!Next \/ UNCHANGED B!vars
    OBVIOUS
  <1> DEFINE Closed == {c \in Conns : conn[c] = "closed"}
             Todo == InQueue \cup running
  <1> USE DEF LiveInv
  <1>1. ASSUME NEW c \in Conns, Handle(c) \/ DecodeFails(c)
        PROVE  B!Next
    <2> DEFINE b == [conn |-> c, seq |-> read[c] + 1]
    <2>1. /\ conn[c] = "open" /\ b \in Batch
          /\ read' = [read EXCEPT ![c] = read[c] + 1]
          /\ \/ Execute(b) /\ conn' = conn
             \/ UNCHANGED pool /\ conn' = [conn EXCEPT ![c] = "closed"]
      BY <1>1, HandlerTurn
    <2>2. CASE Execute(b) /\ conn' = conn
      <3>1. Todo' = Todo \cup {b} /\ over' = over /\ stopped' = stopped /\ ~stopped
        BY <2>1, <2>2, ExecuteTakesOn
      <3>2. B!TakeOn(c)
        BY <2>1, <2>2, <3>1 DEF B!TakeOn
      <3> QED  BY <3>2 DEF B!Next
    <2>3. CASE UNCHANGED pool /\ conn' = [conn EXCEPT ![c] = "closed"]
      <3>1. Closed' = Closed \cup {c} /\ c \notin Closed
        BY <2>1, <2>3 DEF TypeOK
      <3>2. Todo' = Todo /\ over' = over /\ stopped' = stopped
        BY <2>3 DEF pool, InQueue
      <3>3. B!Lose(c)
        BY <2>1, <3>1, <3>2 DEF B!Lose
      <3> QED  BY <3>3 DEF B!Next
    <2> QED  BY <2>1, <2>2, <2>3
  <1>2. ASSUME NEW c \in Conns, EndOfStream(c)
        PROVE  B!Next
    <2>1. Closed' = Closed \cup {c} /\ c \notin Closed
      BY <1>2 DEF EndOfStream, CloseStream, TypeOK
    <2>2. B!End(c)
      BY <1>2, <2>1 DEF EndOfStream, pool, InQueue, B!End
    <2> QED  BY <2>2 DEF B!Next
  <1>3. ASSUME NEW b \in Batch, Finish(b) \/ TaskFails(b)
        PROVE  B!Next
    <2>1. /\ b \in running /\ running' = running \ {b} /\ over' = over \cup {b}
          /\ InQueue' = InQueue /\ UNCHANGED <<read, conn, stopped>>
      BY <1>3 DEF Finish, TaskFails, network, InQueue
    <2>2. Todo' = Todo \ {b} /\ b \in Todo
      BY <2>1 DEF OnceInv
    <2>3. B!Run(b) /\ b \in B!Batch
      BY <2>1, <2>2 DEF B!Run, B!Batch, Batch
    <2> QED  BY <2>3 DEF B!Next
  <1>4. CASE PreDestroy
    BY <1>4 DEF PreDestroy, network, InQueue, B!Stop, B!Next
  <1>5. CASE Take
    <2>1. Todo' = Todo
      BY <1>5, TakeMoves
    <2> QED  BY <1>5, <2>1 DEF Take, network, B!vars
  <1>6. CASE /\ UNCHANGED <<read, queue, running, over, stopped>>
             /\ \A c \in Conns : conn[c] = "closed" <=> conn'[c] = "closed"
    BY <1>6 DEF InQueue, B!vars
  <1>7. ASSUME NEW c \in Conns, Accept(c) \/ Write(c) \/ HangUp(c)
        PROVE  B!Next \/ UNCHANGED B!vars
    <2>1. \A d \in Conns : conn[d] = "closed" <=> conn'[d] = "closed"
      BY <1>7 DEF Accept, Write, HangUp, TypeOK
    <2> QED  BY <1>6, <1>7, <2>1 DEF Accept, Write, HangUp, pool
  <1>8. CASE StartHandler
    <2>1. conn[Head(waiting)] = "waiting" /\ Head(waiting) \in Conns
      BY <1>8, Shortened DEF StartHandler, WaitingInv, TypeOK
    <2>2. \A d \in Conns : conn[d] = "closed" <=> conn'[d] = "closed"
      BY <1>8, <2>1 DEF StartHandler, TypeOK
    <2> QED  BY <1>6, <1>8, <2>2 DEF StartHandler, pool
  <1>9. CASE AcceptFails \/ Replace \/ Retire \/ UNCHANGED vars
    BY <1>6, <1>9 DEF AcceptFails, Replace, Retire, vars, network, pool
  <1> QED
    BY <1>1, <1>2, <1>3, <1>4, <1>5, <1>7, <1>8, <1>9
    DEF Next, HandlerStep, PoolStep

\* The listener, its handlers and the pool take batches in order and run each
\* that they took on once, whatever fails (PickleHandler.run and the executor
\* of PickleHandlerFactory): every step is one of LiveBatches or changes
\* nothing there.
THEOREM RunOnce == Spec => B!Safety
  <1>1. Init => LiveInv /\ OnceInv
    BY InitLive, InitOnce
  <1>2. LiveInv /\ OnceInv /\ [Next]_vars => (LiveInv /\ OnceInv)'
    BY LiveStep, OnceStep
  <1> QED  BY <1>1, <1>2, BatchesInit, BatchesStep, PTL DEF Spec, B!Safety

\* A batch that has been run is never waiting or running again, so no relay's
\* values are checked twice (MetricsTask.run).
THEOREM NeverRunAgain == Spec => []((InQueue \cup running) \cap over = {})
  <1>1. Init => LiveInv /\ OnceInv
    BY InitLive, InitOnce
  <1>2. LiveInv /\ OnceInv /\ [Next]_vars => (LiveInv /\ OnceInv)'
    BY LiveStep, OnceStep
  <1>3. OnceInv => (InQueue \cup running) \cap over = {}
    BY DEF OnceInv
  <1> QED  BY <1>1, <1>2, <1>3, PTL DEF Spec
==============================================================================
