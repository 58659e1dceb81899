---------------------------- MODULE SensorProofs ----------------------------
(***************************************************************************)
(* The way of a reading, from the bus to the smoothed value.               *)
(*                                                                         *)
(* I2cBus: for any number of sensors, whatever fails and whatever the host *)
(* reads, one transaction at a time, no waiter lost or queued twice, and   *)
(* nobody who prints on the bus.                                           *)
(* Filter: for a byte of any even number of values, 256 in the code,       *)
(* samples and smoothed values are what an int16_t can hold, the sample is *)
(* the value that was sent, and the filter never steps past the sample.    *)
(***************************************************************************)
EXTENDS I2cBus, Filter, TLAPS, SequenceTheorems

-----------------------------------------------------------------------------
(* The bus. *)

Pcs == {"ask", "wait", "transfer", "convert", "report", "notfound", "sample", "exit"}
OnBus == {"transfer", "wait"}

(* The parts of OneTransaction. *)
Transferring == \A t \in Threads : pc[t] = "transfer" <=> holder = t
Queued == \A t \in Threads : pc[t] = "wait" <=> \E i \in DOMAIN waiting : waiting[i] = t
QueuedOnce == \A i, j \in DOMAIN waiting : waiting[i] = waiting[j] => i = j
FreeIsEmpty == holder = None => waiting = << >>

LEMMA Parts == OneTransaction <=> Transferring /\ Queued /\ QueuedOnce /\ FreeIsEmpty
BY DEF OneTransaction, Transferring, Queued, QueuedOnce, FreeIsEmpty

(* The types of what a transaction changes. *)
BusType ==
    /\ pc \in [Threads -> Pcs]
    /\ holder \in Threads \cup {None}
    /\ waiting \in Seq(Threads)

LEMMA Counts ==
    ASSUME NEW t \in Threads
    PROVE  InitWrites[Kind[t]] \in Nat /\ Reads[Kind[t]] \in Nat
<1>1. Kind[t] \in Kinds
  BY BusAssumption
<1> QED
  BY <1>1 DEF Kinds, InitWrites, Mlx90393Init, Reads
-----------------------------------------------------------------------------
(* A step of a thread that leaves the bus alone. *)
LEMMA OffBus ==
    ASSUME BusType, OneTransaction, NEW t \in Threads, NEW l \in Pcs \ OnBus,
           pc[t] \notin OnBus, Goto(t, l), UNCHANGED <<holder, waiting>>
    PROVE  BusType' /\ OneTransaction'
<1>1. pc' = [pc EXCEPT ![t] = l] /\ holder' = holder /\ waiting' = waiting
  BY DEF Goto
<1>2. BusType'
  BY <1>1 DEF BusType
<1>3. \A u \in Threads : pc'[u] = IF u = t THEN l ELSE pc[u]
  BY <1>1 DEF BusType
<1>4. l # "transfer" /\ l # "wait" /\ pc[t] # "transfer" /\ pc[t] # "wait"
  BY DEF OnBus
<1>5. Transferring'
  BY <1>1, <1>3, <1>4, Parts DEF Transferring
<1>6. Queued'
  BY <1>1, <1>3, <1>4, Parts DEF Queued
<1>7. QueuedOnce' /\ FreeIsEmpty'
  BY <1>1, Parts DEF QueuedOnce, FreeIsEmpty
<1>8. OneTransaction'
  BY <1>5, <1>6, <1>7 DEF OneTransaction, Transferring, Queued, QueuedOnce, FreeIsEmpty
<1> QED
  BY <1>2, <1>8

(* The bus is free, or it is not. *)
LEMMA AcquireKeeps ==
    ASSUME BusType, OneTransaction, NEW t \in Threads, Acquire(t)
    PROVE  BusType' /\ OneTransaction'
<1>0. pc[t] = "ask"
  BY DEF Acquire
<1>1. CASE holder = None /\ holder' = t /\ Goto(t, "transfer") /\ UNCHANGED waiting
  <2>1. pc' = [pc EXCEPT ![t] = "transfer"] /\ holder' = t /\ waiting' = waiting
    BY <1>1 DEF Goto
  <2>2. BusType'
    BY <2>1 DEF BusType, Pcs
  <2>3. \A u \in Threads : pc'[u] = IF u = t THEN "transfer" ELSE pc[u]
    BY <2>1 DEF BusType
  <2>4. \A u \in Threads : pc[u] # "transfer"
    BY <1>1, Parts, NoneAssumption DEF Transferring
  <2>5. Transferring'
    BY <2>1, <2>3, <2>4 DEF Transferring
  <2>6. Queued'
    BY <2>1, <2>3, <1>0, Parts DEF Queued
  <2>7. QueuedOnce' /\ FreeIsEmpty'
    BY <2>1, Parts, NoneAssumption DEF QueuedOnce, FreeIsEmpty
  <2>8. OneTransaction'
    BY <2>5, <2>6, <2>7 DEF OneTransaction, Transferring, Queued, QueuedOnce, FreeIsEmpty
  <2> QED
    BY <2>2, <2>8
<1>2. CASE holder # None /\ waiting' = Append(waiting, t) /\ Goto(t, "wait") /\ UNCHANGED holder
  <2>1. pc' = [pc EXCEPT ![t] = "wait"] /\ holder' = holder /\ waiting' = Append(waiting, t)
    BY <1>2 DEF Goto
  <2>2. BusType'
    <3>1. waiting' \in Seq(Threads)
      BY <2>1 DEF BusType
    <3> QED
      BY <2>1, <3>1 DEF BusType, Pcs
  <2>3. \A u \in Threads : pc'[u] = IF u = t THEN "wait" ELSE pc[u]
    BY <2>1 DEF BusType
  <2> DEFINE n == Len(waiting)
  <2>4. /\ n \in Nat /\ DOMAIN waiting = 1 .. n /\ DOMAIN waiting' = 1 .. n + 1
        /\ \A i \in 1 .. n : waiting'[i] = waiting[i]
        /\ waiting'[n + 1] = t
    BY <2>1 DEF BusType
  <2> HIDE DEF n
  <2>5. \A i \in 1 .. n : waiting[i] # t
    BY <1>0, <2>4, Parts DEF Queued
  <2>6. Transferring'
    BY <2>1, <2>3, <1>0, Parts DEF Transferring
  <2>7. Queued'
    <3> SUFFICES ASSUME NEW u \in Threads
                 PROVE  pc'[u] = "wait" <=> \E i \in 1 .. n + 1 : waiting'[i] = u
      BY <2>4 DEF Queued
    <3>1. CASE u = t
      BY <3>1, <2>3, <2>4
    <3>2. CASE u # t
      <4>1. pc'[u] = pc[u]
        BY <3>2, <2>3
      <4>2. pc[u] = "wait" <=> \E i \in 1 .. n : waiting[i] = u
        BY <2>4, Parts DEF Queued
      <4>3. (\E i \in 1 .. n : waiting[i] = u) <=> \E i \in 1 .. n + 1 : waiting'[i] = u
        BY <2>4, <3>2
      <4> QED
        BY <4>1, <4>2, <4>3
    <3> QED
      BY <3>1, <3>2
  <2>8. QueuedOnce'
    <3> SUFFICES ASSUME NEW i \in 1 .. n + 1, NEW j \in 1 .. n + 1, waiting'[i] = waiting'[j]
                 PROVE  i = j
      BY <2>4 DEF QueuedOnce
    <3>1. CASE i \in 1 .. n /\ j \in 1 .. n
      BY <3>1, <2>4, Parts DEF QueuedOnce
    <3>2. CASE i = n + 1 \/ j = n + 1
      BY <3>2, <2>4, <2>5
    <3> QED
      BY <3>1, <3>2, <2>4
  <2>9. FreeIsEmpty'
    BY <1>2, <2>1 DEF FreeIsEmpty
  <2>10. OneTransaction'
    BY <2>6, <2>7, <2>8, <2>9 DEF OneTransaction, Transferring, Queued, QueuedOnce, FreeIsEmpty
  <2> QED
    BY <2>2, <2>10
<1> QED
  BY <1>1, <1>2 DEF Acquire

(* The bus goes to the first in the queue. *)
LEMMA ReleaseKeeps ==
    ASSUME BusType, OneTransaction, NEW t \in Threads, NEW l \in Pcs \ OnBus,
           pc[t] = "transfer", ReleaseAndGoto(t, l)
    PROVE  BusType' /\ OneTransaction'
<1>0. l # "transfer" /\ l # "wait"
  BY DEF OnBus
<1>1. holder = t
  BY Parts DEF Transferring
<1>2. \A u \in Threads : pc[u] = "transfer" => u = t
  BY <1>1, Parts DEF Transferring
<1>3. CASE waiting = << >>
  <2>1. pc' = [pc EXCEPT ![t] = l] /\ holder' = None /\ waiting' = waiting
    BY <1>3 DEF ReleaseAndGoto, Goto
  <2>2. BusType'
    BY <2>1 DEF BusType
  <2>3. \A u \in Threads : pc'[u] = IF u = t THEN l ELSE pc[u]
    BY <2>1 DEF BusType
  <2>4. Transferring'
    BY <2>1, <2>3, <1>0, <1>2, NoneAssumption DEF Transferring
  <2>5. Queued'
    BY <2>1, <2>3, <1>0, Parts DEF Queued
  <2>6. QueuedOnce' /\ FreeIsEmpty'
    BY <2>1, <1>3, Parts DEF QueuedOnce, FreeIsEmpty
  <2>7. OneTransaction'
    BY <2>4, <2>5, <2>6 DEF OneTransaction, Transferring, Queued, QueuedOnce, FreeIsEmpty
  <2> QED
    BY <2>2, <2>7
<1>4. CASE waiting # << >>
  <2> DEFINE h == Head(waiting)
             n == Len(waiting)
  <2>1. /\ pc' = [pc EXCEPT ![t] = l, ![h] = "transfer"]
        /\ holder' = h /\ waiting' = Tail(waiting)
    BY <1>4 DEF ReleaseAndGoto
  <2>2. /\ n \in Nat /\ n > 0 /\ DOMAIN waiting = 1 .. n /\ DOMAIN waiting' = 1 .. n - 1
        /\ h = waiting[1] /\ h \in Threads
        /\ \A i \in 1 .. n - 1 : waiting'[i] = waiting[i + 1]
        /\ waiting' \in Seq(Threads)
    <3>1. waiting \in Seq(Threads)
      BY DEF BusType
    <3>2. /\ h \in Threads /\ Tail(waiting) \in Seq(Threads)
          /\ Len(Tail(waiting)) = n - 1
          /\ \A i \in 1 .. Len(Tail(waiting)) : Tail(waiting)[i] = waiting[i + 1]
      BY <3>1, <1>4, HeadTailProperties
    <3>3. /\ n \in Nat /\ n > 0 /\ DOMAIN waiting = 1 .. n /\ h = waiting[1]
          /\ DOMAIN Tail(waiting) = 1 .. Len(Tail(waiting))
      BY <3>1, <3>2, <1>4
    <3> QED
      BY <2>1, <3>2, <3>3
  <2> HIDE DEF h, n
  <2>3. h # t /\ pc[h] = "wait"
    BY <2>2, Parts DEF Queued
  <2>4. BusType'
    BY <2>1, <2>2 DEF BusType, Pcs
  <2>5. \A u \in Threads :
            pc'[u] = IF u = h THEN "transfer" ELSE IF u = t THEN l ELSE pc[u]
    BY <2>1, <2>2, <2>3 DEF BusType
  <2>6. Transferring'
    BY <2>1, <2>5, <1>0, <1>2 DEF Transferring
  <2>7. \A i \in 1 .. n : waiting[i] = h => i = 1
    BY <2>2, Parts DEF QueuedOnce
  <2>8. Queued'
    <3> SUFFICES ASSUME NEW u \in Threads
                 PROVE  pc'[u] = "wait" <=> \E i \in 1 .. n - 1 : waiting'[i] = u
      BY <2>2 DEF Queued
    <3>1. (\E i \in 1 .. n - 1 : waiting'[i] = u) <=> \E i \in 2 .. n : waiting[i] = u
      <4>1. ASSUME NEW i \in 1 .. n - 1, waiting'[i] = u
            PROVE  \E j \in 2 .. n : waiting[j] = u
        <5>1. i + 1 \in 2 .. n /\ waiting[i + 1] = u
          BY <4>1, <2>2
        <5> QED
          BY <5>1
      <4>2. ASSUME NEW j \in 2 .. n, waiting[j] = u
            PROVE  \E i \in 1 .. n - 1 : waiting'[i] = u
        <5>1. j - 1 \in 1 .. n - 1 /\ (j - 1) + 1 = j
          BY <4>2, <2>2
        <5>2. waiting'[j - 1] = u
          BY <5>1, <4>2, <2>2
        <5> QED
          BY <5>1, <5>2
      <4> QED
        BY <4>1, <4>2
    <3>2. pc[u] = "wait" <=> \E i \in 1 .. n : waiting[i] = u
      BY <2>2, Parts DEF Queued
    <3>3. CASE u = h
      <4>1. ~ \E i \in 2 .. n : waiting[i] = u
        BY <3>3, <2>2, <2>7
      <4>2. pc'[u] # "wait"
        BY <3>3, <2>5
      <4> QED
        BY <4>1, <4>2, <3>1
    <3>4. CASE u # h
      <4>1. (\E i \in 1 .. n : waiting[i] = u) <=> \E i \in 2 .. n : waiting[i] = u
        BY <3>4, <2>2
      <4>2. pc'[u] = "wait" <=> pc[u] = "wait"
        BY <3>4, <2>5, <1>0
      <4> QED
        BY <4>1, <4>2, <3>1, <3>2
    <3> QED
      BY <3>3, <3>4
  <2>9. QueuedOnce'
    <3> SUFFICES ASSUME NEW i \in 1 .. n - 1, NEW j \in 1 .. n - 1, waiting'[i] = waiting'[j]
                 PROVE  i = j
      BY <2>2 DEF QueuedOnce
    <3>1. i + 1 \in 1 .. n /\ j + 1 \in 1 .. n /\ waiting[i + 1] = waiting[j + 1]
      BY <2>2
    <3>2. i + 1 = j + 1
      BY <3>1, <2>2, Parts DEF QueuedOnce
    <3> QED
      BY <3>2
  <2>10. FreeIsEmpty'
    BY <2>1, <2>2, NoneAssumption DEF FreeIsEmpty
  <2>11. OneTransaction'
    BY <2>6, <2>8, <2>9, <2>10 DEF OneTransaction, Transferring, Queued, QueuedOnce, FreeIsEmpty
  <2> QED
    BY <2>4, <2>11
<1> QED
  BY <1>3, <1>4
-----------------------------------------------------------------------------
(* Every step, seen from the bus. *)
LEMMA BusStep ==
    ASSUME BusType, OneTransaction, [Next]_vars
    PROVE  BusType' /\ OneTransaction'
<1>1. ASSUME NEW t \in Threads, Acquire(t) PROVE BusType' /\ OneTransaction'
  BY <1>1, AcquireKeeps
<1>2. ASSUME NEW t \in Threads, TransferOk(t) PROVE BusType' /\ OneTransaction'
  <2>1. PICK l \in {"convert", "ask", "sample"} : pc[t] = "transfer" /\ ReleaseAndGoto(t, l)
    BY <1>2, Zenon DEF TransferOk
  <2>2. l \in Pcs \ OnBus
    BY <2>1 DEF Pcs, OnBus
  <2> QED
    BY <2>1, <2>2, ReleaseKeeps
<1>3. ASSUME NEW t \in Threads, TransferFails(t) PROVE BusType' /\ OneTransaction'
  <2>1. "report" \in Pcs \ OnBus
    BY DEF Pcs, OnBus
  <2>2. pc[t] = "transfer" /\ ReleaseAndGoto(t, "report")
    BY <1>3 DEF TransferFails
  <2> QED
    BY <2>1, <2>2, ReleaseKeeps
<1>4. ASSUME NEW t \in Threads, Convert(t) \/ Reported(t) \/ Exit(t) \/ Sample(t)
      PROVE  BusType' /\ OneTransaction'
  <2>1. PICK l \in {"ask", "notfound", "sample", "exit"} :
            Goto(t, l) /\ pc[t] \in {"convert", "report", "notfound", "sample"}
    BY <1>4 DEF Convert, Reported, Exit, Sample
  <2>2. UNCHANGED <<holder, waiting>>
    BY <1>4 DEF Convert, Reported, Exit, Sample
  <2>3. l \in Pcs \ OnBus /\ pc[t] \notin OnBus
    BY <2>1 DEF Pcs, OnBus
  <2> QED
    BY <2>1, <2>2, <2>3, OffBus
<1>5. ASSUME UNCHANGED <<pc, holder, waiting>> PROVE BusType' /\ OneTransaction'
  BY <1>5 DEF BusType, OneTransaction
<1>6. ASSUME NEW t \in Threads, WaitForRoom(t) \/ Put(t) PROVE BusType' /\ OneTransaction'
  BY <1>5, <1>6 DEF WaitForRoom, Put, threadVars
<1>7. ASSUME ShellPuts \/ HostReads \/ PortChanges PROVE BusType' /\ OneTransaction'
  BY <1>5, <1>7 DEF ShellPuts, HostReads, PortChanges, threadVars
<1>8. ASSUME UNCHANGED vars PROVE BusType' /\ OneTransaction'
  BY <1>5, <1>8 DEF vars, threadVars
<1> QED
  BY <1>1, <1>2, <1>3, <1>4, <1>6, <1>7, <1>8 DEF Next, ThreadStep

(* The other variables. *)
RestType ==
    /\ phase \in [Threads -> {"init", "read"}]
    /\ todo \in [Threads -> Nat]
    /\ left \in [Threads -> Nat]
    /\ lock \in Threads \cup {None}
    /\ used \in 0 .. Room
    /\ open \in BOOLEAN

LEMMA Types == TypeOK <=> BusType /\ RestType
BY DEF TypeOK, BusType, RestType, Pcs

LEMMA RestStep ==
    ASSUME RestType, [Next]_vars
    PROVE  RestType'
<1>0. Room \in Nat \ {0} /\ Message \in Nat \ {0}
  BY BusAssumption
<1>1. ASSUME NEW t \in Threads, ThreadStep(t) PROVE RestType'
  <2>1. CASE Acquire(t) \/ Convert(t) \/ Exit(t) \/ Sample(t)
    BY <2>1 DEF Acquire, Convert, Exit, Sample, portVars, RestType
  <2>2. CASE TransferOk(t)
    <3>1. phase' \in [Threads -> {"init", "read"}]
      BY <2>2 DEF TransferOk, RestType
    <3>2. todo' \in [Threads -> Nat]
      <4>1. CASE todo[t] > 1 /\ todo' = [todo EXCEPT ![t] = @ - 1]
        <5>1. todo[t] - 1 \in Nat
          BY <4>1 DEF RestType
        <5> QED
          BY <4>1, <5>1 DEF RestType
      <4>2. CASE todo' = [todo EXCEPT ![t] = Reads[Kind[t]]]
        BY <4>2, Counts DEF RestType
      <4> QED
        BY <2>2, <4>1, <4>2 DEF TransferOk
    <3> QED
      BY <2>2, <3>1, <3>2 DEF TransferOk, portVars, RestType
  <2>3. CASE TransferFails(t)
    BY <2>3, <1>0 DEF TransferFails, portVars, RestType
  <2>4. CASE WaitForRoom(t)
    BY <2>4 DEF WaitForRoom, threadVars, portVars, RestType
  <2>5. CASE Reported(t)
    BY <2>5, <1>0, Counts DEF Reported, portVars, RestType
  <2> QED
    BY <1>1, <2>1, <2>2, <2>3, <2>4, <2>5 DEF ThreadStep
<1>2. ASSUME NEW t \in Threads, Put(t) PROVE RestType'
  <2>1. left' \in [Threads -> Nat]
    <3>1. left[t] - 1 \in Nat
      BY <1>2 DEF Put, RestType
    <3> QED
      BY <1>2, <3>1 DEF Put, RestType
  <2>2. used' \in 0 .. Room
    <3>1. CASE open
      <4>1. used < Room /\ used' = used + 1
        BY <3>1, <1>2, Zenon DEF Put
      <4> QED
        BY <4>1, <1>0 DEF RestType
    <3>2. CASE ~open
      <4>1. used' = used
        BY <3>2, <1>2, Zenon DEF Put
      <4> QED
        BY <4>1 DEF RestType
    <3> QED
      BY <3>1, <3>2
  <2>3. lock' = None /\ phase' = phase /\ todo' = todo /\ open' = open
    BY <1>2 DEF Put
  <2> QED
    BY <2>1, <2>2, <2>3 DEF RestType
<1>3. CASE ShellPuts
  <2>1. used' \in 0 .. Room
    <3>1. used < Room /\ used' = used + 1
      BY <1>3 DEF ShellPuts
    <3> QED
      BY <3>1, <1>0 DEF RestType
  <2> QED
    BY <1>3, <2>1 DEF ShellPuts, threadVars, RestType
<1>4. CASE HostReads
  <2>1. used' \in 0 .. Room
    <3>1. used' \in 0 .. used - 1
      BY <1>4 DEF HostReads
    <3> QED
      BY <3>1, <1>0 DEF RestType
  <2> QED
    BY <1>4, <2>1 DEF HostReads, threadVars, RestType
<1>5. CASE PortChanges
  BY <1>5, <1>0 DEF PortChanges, threadVars, RestType
<1>6. CASE UNCHANGED vars
  BY <1>6 DEF vars, threadVars, portVars, RestType
<1> QED
  BY <1>1, <1>2, <1>3, <1>4, <1>5, <1>6 DEF Next

LEMMA Start == Init => BusType /\ RestType /\ OneTransaction
<1> SUFFICES ASSUME Init PROVE BusType /\ RestType /\ OneTransaction
  OBVIOUS
<1>1. BusType
  BY DEF Init, BusType, Pcs
<1>2. RestType
  BY Counts, BusAssumption DEF Init, RestType
<1>3. OneTransaction
  BY NoneAssumption DEF Init, OneTransaction
<1> QED
  BY <1>1, <1>2, <1>3

(* Types, and a buffer that never holds more than its room. *)
THEOREM BusTypeCorrect == Spec => []TypeOK
<1>1. Init => BusType /\ RestType /\ OneTransaction
  BY Start
<1>2. BusType /\ RestType /\ OneTransaction /\ [Next]_vars
        => (BusType /\ RestType /\ OneTransaction)'
  BY BusStep, RestStep
<1>3. BusType /\ RestType /\ OneTransaction => TypeOK
  BY Types
<1> QED
  BY <1>1, <1>2, <1>3, PTL DEF Spec

(* The transactions of all sensors exclude one another, and the queue of   *)
(* the bus holds each waiting thread once and no other (i2c_util.c:9-14).  *)
THEOREM TransactionsExclude == Spec => []OneTransaction
<1>1. Init => BusType /\ OneTransaction
  BY Start
<1>2. BusType /\ OneTransaction /\ [Next]_vars => (BusType /\ OneTransaction)'
  BY BusStep
<1> QED
  BY <1>1, <1>2, PTL DEF Spec
-----------------------------------------------------------------------------
(* Who prints is not on the bus; who has the lock has not printed yet.     *)
Printing == \A t \in Threads :
    /\ left[t] > 0 => pc[t] \in {"report", "notfound"}
    /\ lock = t => pc[t] = "notfound" /\ left[t] = Message

(* Where a release of the bus leaves the threads.                          *)
LEMMA ReleaseMoves ==
    ASSUME BusType, OneTransaction, NEW t \in Threads, NEW l,
           pc[t] = "transfer", ReleaseAndGoto(t, l)
    PROVE  /\ pc'[t] = l
           /\ \A u \in Threads \ {t} : pc'[u] = pc[u] \/ (pc[u] = "wait" /\ pc'[u] = "transfer")
<1>1. CASE waiting = << >>
  <2>1. pc' = [pc EXCEPT ![t] = l]
    BY <1>1 DEF ReleaseAndGoto, Goto
  <2>2. \A u \in Threads : pc'[u] = IF u = t THEN l ELSE pc[u]
    BY <2>1 DEF BusType
  <2> QED
    BY <2>2
<1>2. CASE waiting # << >>
  <2> DEFINE h == Head(waiting)
  <2>1. pc' = [pc EXCEPT ![t] = l, ![h] = "transfer"]
    BY <1>2 DEF ReleaseAndGoto
  <2>2. h = waiting[1] /\ 1 \in DOMAIN waiting /\ h \in Threads
    BY <1>2 DEF BusType
  <2> HIDE DEF h
  <2>3. pc[h] = "wait" /\ h # t
    BY <2>2, Parts DEF Queued
  <2>4. \A u \in Threads : pc'[u] = IF u = h THEN "transfer" ELSE IF u = t THEN l ELSE pc[u]
    BY <2>1, <2>2, <2>3 DEF BusType
  <2> QED
    BY <2>2, <2>3, <2>4
<1> QED
  BY <1>1, <1>2

(* A step that moves a thread which prints nothing, and others only from   *)
(* the queue to the bus.                                                   *)
LEMMA MovesKeepPrinting ==
    ASSUME RestType, Printing, NEW t \in Threads, UNCHANGED <<left, lock>>,
           left[t] = 0, lock # t,
           \A u \in Threads \ {t} : pc'[u] = pc[u] \/ (pc[u] = "wait" /\ pc'[u] = "transfer")
    PROVE  Printing'
<1> SUFFICES ASSUME NEW u \in Threads
             PROVE  /\ left[u] > 0 => pc'[u] \in {"report", "notfound"}
                    /\ lock = u => pc'[u] = "notfound" /\ left[u] = Message
  BY DEF Printing
<1>1. CASE u = t
  BY <1>1
<1>2. CASE u # t
  <2>1. left[u] > 0 \/ lock = u => pc[u] # "wait"
    BY DEF Printing
  <2> QED
    BY <1>2, <2>1 DEF Printing
<1> QED
  BY <1>1, <1>2

LEMMA PrintStep ==
    ASSUME BusType, RestType, OneTransaction, Printing, [Next]_vars
    PROVE  Printing'
<1>0. Message \in Nat \ {0} /\ left \in [Threads -> Nat] /\ pc \in [Threads -> Pcs]
  BY BusAssumption DEF RestType, BusType
<1>1. ASSUME NEW t \in Threads, TransferOk(t) PROVE Printing'
  <2>1. PICK l : pc[t] = "transfer" /\ ReleaseAndGoto(t, l)
    BY <1>1, Zenon DEF TransferOk
  <2>2. left[t] = 0 /\ lock # t /\ UNCHANGED <<left, lock>>
    BY <1>0, <1>1, <2>1 DEF TransferOk, Printing
  <2> QED
    BY <2>1, <2>2, ReleaseMoves, MovesKeepPrinting
<1>2. ASSUME NEW t \in Threads, TransferFails(t) PROVE Printing'
  <2>1. pc[t] = "transfer" /\ ReleaseAndGoto(t, "report") /\ lock' = lock
        /\ left' = [left EXCEPT ![t] = Message]
    BY <1>2 DEF TransferFails
  <2>2. lock # t
    BY <2>1 DEF Printing
  <2>3. \A u \in Threads \ {t} : pc'[u] = pc[u] \/ (pc[u] = "wait" /\ pc'[u] = "transfer")
    BY <2>1, ReleaseMoves
  <2>4. pc'[t] = "report"
    BY <2>1, ReleaseMoves
  <2> SUFFICES ASSUME NEW u \in Threads
               PROVE  /\ left'[u] > 0 => pc'[u] \in {"report", "notfound"}
                      /\ lock = u => pc'[u] = "notfound" /\ left'[u] = Message
    BY <2>1 DEF Printing
  <2>5. CASE u = t
    BY <2>2, <2>4, <2>5
  <2>6. CASE u # t
    <3>1. left'[u] = left[u]
      BY <1>0, <2>1, <2>6
    <3>2. left[u] > 0 \/ lock = u => pc[u] # "wait"
      BY DEF Printing
    <3> QED
      BY <2>3, <2>6, <3>1, <3>2 DEF Printing
  <2> QED
    BY <2>5, <2>6
<1>3. ASSUME NEW t \in Threads, Acquire(t) \/ Convert(t) \/ Sample(t) \/ Exit(t)
      PROVE  Printing'
  <2>1. PICK l : pc' = [pc EXCEPT ![t] = l]
    BY <1>3 DEF Acquire, Convert, Sample, Exit, Goto
  <2>2. UNCHANGED <<left, lock>>
    BY <1>3 DEF Acquire, Convert, Sample, Exit
  <2>3. left[t] = 0 /\ lock # t
    <3>1. CASE Exit(t)
      BY <3>1, <1>0 DEF Exit, Printing
    <3>2. CASE ~ Exit(t)
      BY <3>2, <1>0, <1>3 DEF Acquire, Convert, Sample, Printing
    <3> QED
      BY <3>1, <3>2
  <2>4. \A u \in Threads \ {t} : pc'[u] = pc[u]
    BY <1>0, <2>1
  <2> QED
    BY <2>2, <2>3, <2>4, MovesKeepPrinting
<1>4. ASSUME NEW t \in Threads, Reported(t) PROVE Printing'
  <2>1. pc[t] = "report" /\ left[t] = 0 /\ lock = None
    BY <1>4 DEF Reported, Runs, Printing
  <2>2. CASE phase[t] = "init"
    <3>1. pc' = [pc EXCEPT ![t] = "notfound"] /\ left' = [left EXCEPT ![t] = Message] /\ lock' = t
      BY <1>4, <2>2 DEF Reported, Goto
    <3> QED
      BY <1>0, <3>1 DEF Printing
  <2>3. CASE phase[t] # "init"
    <3>1. pc' = [pc EXCEPT ![t] = "sample"] /\ UNCHANGED <<left, lock>>
      BY <1>4, <2>3 DEF Reported, Goto
    <3> QED
      BY <1>0, <2>1, <3>1, NoneAssumption DEF Printing
  <2> QED
    BY <2>2, <2>3
<1>5. ASSUME NEW t \in Threads, Put(t) PROVE Printing'
  <2>1. left' = [left EXCEPT ![t] = @ - 1] /\ lock' = None /\ pc' = pc /\ left[t] > 0
    BY <1>5 DEF Put
  <2>2. \A u \in Threads : left'[u] > 0 => left[u] > 0
    BY <1>0, <2>1
  <2> QED
    BY <2>1, <2>2, NoneAssumption DEF Printing
<1>6. ASSUME NEW t \in Threads, WaitForRoom(t) PROVE Printing'
  BY <1>6, NoneAssumption DEF WaitForRoom, threadVars, Printing
<1>7. ASSUME ShellPuts \/ HostReads \/ PortChanges \/ UNCHANGED vars PROVE Printing'
  BY <1>7 DEF ShellPuts, HostReads, PortChanges, vars, threadVars, Printing
<1> QED
  BY <1>1, <1>2, <1>3, <1>4, <1>5, <1>6, <1>7 DEF Next, ThreadStep

(* A host that does not read, or a message under the system lock, keeps no *)
(* thread on the bus or in its queue (i2c_util.c:14-20, printf.h:7).       *)
THEOREM PrintersAreOffBus == Spec => []PrintsOffBus
<1> DEFINE Inv == BusType /\ RestType /\ OneTransaction /\ Printing
<1>1. Init => Inv
  <2>1. Init => Printing
    BY NoneAssumption DEF Init, Printing
  <2> QED
    BY <2>1, Start
<1>2. Inv /\ [Next]_vars => Inv'
  BY BusStep, RestStep, PrintStep
<1>3. Inv => PrintsOffBus
  BY Parts DEF Printing, PrintsOffBus, Transferring, Queued
<1> HIDE DEF Inv
<1> QED
  BY <1>1, <1>2, <1>3, PTL DEF Spec

-----------------------------------------------------------------------------
(* The filter. *)

LEMMA Sizes ==
    /\ Byte \in Int /\ Byte > 0
    /\ Size \in Int /\ Half \in Int /\ Half > 0 /\ Size = 2 * Half /\ Size = Byte * Byte
<1> DEFINE h == Byte \div 2
<1>1. Byte \in Int /\ Byte > 0 /\ Byte % 2 = 0
  BY ByteAssumption
<1>2. h \in Int /\ Byte = 2 * h /\ h > 0
  BY <1>1
<1> HIDE DEF h
<1>3. Byte * h \in Int /\ Byte * h > 0
  BY <1>1, <1>2
<1>4. Byte * Byte = 2 * (Byte * h)
  BY <1>1, <1>2
<1>5. Half = Byte * h /\ Size = Byte * Byte
  BY DEF Half, Size, h
<1> QED
  BY <1>1, <1>3, <1>4, <1>5

(* A remainder is unique. *)
LEMMA Remainder ==
    ASSUME NEW a \in Int, NEW b \in Int, b > 0, NEW q \in Int, NEW r \in Int,
           a = b * q + r, 0 <= r, r < b
    PROVE  a % b = r /\ a \div b = q
<1>1. PICK p \in Int, s \in Int : p = a \div b /\ s = a % b /\ a = b * p + s /\ 0 <= s /\ s < b
  OBVIOUS
<1>2. b * (p - q) = r - s
  BY <1>1
<1>3. p = q
  <2>1. ASSUME p - q >= 1 PROVE FALSE
    BY <1>1, <1>2, <2>1
  <2>2. ASSUME p - q <= -1 PROVE FALSE
    BY <1>1, <1>2, <2>2
  <2> QED
    BY <2>1, <2>2, <1>1
<1> QED
  BY <1>1, <1>3

(* An assignment to an int16_t: the value that differs by a multiple of    *)
(* Size.                                                                   *)
LEMMA Int16Fits ==
    ASSUME NEW v \in Int
    PROVE  /\ Int16(v) \in Words
           /\ Int16(v) \in Int
           /\ v \in Words => Int16(v) = v
<1> USE Sizes
<1>1. (v + Half) % Size \in 0 .. Size - 1
  OBVIOUS
<1>2. Int16(v) \in Words /\ Int16(v) \in Int
  BY <1>1 DEF Int16, Words
<1>3. ASSUME v \in Words PROVE Int16(v) = v
  <2>1. v + Half = Size * 0 + (v + Half) /\ 0 <= v + Half /\ v + Half < Size
    BY <1>3 DEF Words
  <2>2. (v + Half) % Size = v + Half
    BY <2>1, Remainder
  <2> QED
    BY <2>2 DEF Int16
<1> QED
  BY <1>2, <1>3

LEMMA WordsAreInts == Words \subseteq Int /\ 0 \in Words
BY Sizes DEF Words

(* The bytes that are sent give back the value. *)
LEMMA RoundTrip ==
    ASSUME NEW v \in Words
    PROVE  FromBytes(Bytes(v)) = v
<1> USE Sizes
<1>1. v \in Int /\ -Half <= v /\ v < Half
  BY DEF Words
<1> DEFINE u == v % Size
<1>2. PICK q \in Int : v = Size * q + u /\ u \in Int /\ 0 <= u /\ u < Size
  <2>1. Size \in Int /\ Size > 0
    OBVIOUS
  <2>2. v = Size * (v \div Size) + (v % Size) /\ v \div Size \in Int
        /\ v % Size \in Int /\ 0 <= v % Size /\ v % Size < Size
    BY ONLY <1>1, <2>1
  <2> QED
    BY <2>2
<1> HIDE DEF u
<1>3. q = 0 \/ q = -1
  <2>1. ASSUME q >= 1 PROVE FALSE
    BY <1>1, <1>2, <2>1
  <2>2. ASSUME q <= -2 PROVE FALSE
    BY <1>1, <1>2, <2>2
  <2> QED
    BY <2>1, <2>2
<1>4. v % Byte = u % Byte
  <2> DEFINE a == u \div Byte
             r == u % Byte
  <2>1. a \in Int /\ r \in Int /\ u = Byte * a + r /\ 0 <= r /\ r < Byte
    BY <1>2
  <2> HIDE DEF a, r
  <2>2. Size * q = Byte * (Byte * q)
    BY <1>2
  <2>3. v = Byte * (Byte * q + a) + r /\ Byte * q + a \in Int
    BY <1>2, <2>1, <2>2
  <2>4. v % Byte = r
    BY <1>1, <2>1, <2>3, Remainder
  <2> QED
    BY <2>4 DEF r
<1>5. (u \div Byte) * Byte + (u % Byte) = u
  BY <1>2
<1>6. FromBytes(Bytes(v)) = Int16(u)
  <2>1. FromBytes(Bytes(v)) = Int16((u \div Byte) * Byte + (v % Byte))
    BY DEF FromBytes, Bytes, u
  <2> QED
    BY <2>1, <1>4, <1>5
<1>7. Int16(u) = v
  <2>1. CASE q = 0
    BY <2>1, <1>1, <1>2, Int16Fits
  <2>2. CASE q = -1
    <3>1. u + Half = Size * 1 + (v + Half) /\ 0 <= v + Half /\ v + Half < Size
      BY <2>2, <1>1, <1>2
    <3>2. (u + Half) % Size = v + Half
      BY <3>1, <1>1, <1>2, Remainder
    <3> QED
      BY <3>2, <1>1 DEF Int16
  <2> QED
    BY <2>1, <2>2, <1>3
<1> QED
  BY <1>6, <1>7

(* The division by eight goes from the old value towards the sample.       *)
LEMMA Div8Between ==
    ASSUME NEW b \in Int, NEW d \in Int
    PROVE  Div8(b * 7 + d) \in Int /\ Between(Div8(b * 7 + d), b, d)
<1> DEFINE w == b * 7 + d
<1>1. w \in Int
  OBVIOUS
<1>2. CASE w >= 0
  <2>1. Div8(w) = w \div 8
    BY <1>2 DEF Div8
  <2>2. PICK z \in Int : z = w \div 8 /\ 8 * z <= w /\ w < 8 * z + 8
    BY <1>1
  <2>3. z \in Int /\ Between(z, b, d)
    BY <2>2, <1>2 DEF Between
  <2> QED
    BY <2>1, <2>2, <2>3
<1>3. CASE w < 0
  <2>1. Div8(w) = -((-w) \div 8)
    BY <1>3, <1>1 DEF Div8
  <2>2. PICK z \in Int : z = (-w) \div 8 /\ 8 * z <= -w /\ -w < 8 * z + 8
    BY <1>1
  <2>3. -z \in Int /\ Between(-z, b, d)
    BY <2>2, <1>3 DEF Between
  <2> QED
    BY <2>1, <2>2, <2>3
<1> QED
  BY <1>1, <1>2, <1>3

(* It stays where it is only near the sample.                              *)
LEMMA Div8Stays ==
    ASSUME NEW b \in Int, NEW d \in Int, Div8(b * 7 + d) = b
    PROVE  b - d \in -7 .. 7
<1> DEFINE w == b * 7 + d
<1>1. w \in Int
  OBVIOUS
<1>2. CASE w >= 0
  <2>1. b = w \div 8
    BY <1>2 DEF Div8
  <2>2. 8 * b <= w /\ w < 8 * b + 8
    BY <1>1, <2>1
  <2> QED
    BY <2>2
<1>3. CASE w < 0
  <2>1. b = -((-w) \div 8)
    BY <1>3, <1>1 DEF Div8
  <2>2. PICK z \in Int : z = (-w) \div 8 /\ 8 * z <= -w /\ -w < 8 * z + 8
    BY <1>1
  <2> QED
    BY <2>1, <2>2
<1> QED
  BY <1>1, <1>2, <1>3

(* What is stored is what was computed: it fits. *)
LEMMA SmoothBetween ==
    ASSUME NEW b \in Words, NEW d \in Words
    PROVE  /\ Smooth(b, d) \in Words /\ Between(Smooth(b, d), b, d)
           /\ Smooth(b, d) = Div8(b * 7 + d)
<1> USE Sizes
<1> DEFINE m == Div8(b * 7 + d)
<1>1. b \in Int /\ d \in Int /\ -Half <= b /\ b < Half /\ -Half <= d /\ d < Half
  BY DEF Words
<1>2. m \in Int /\ Between(m, b, d)
  BY <1>1, Div8Between
<1> HIDE DEF m
<1>3. m \in Words
  BY <1>1, <1>2 DEF Between, Words
<1>4. Smooth(b, d) = m
  BY <1>2, <1>3, Int16Fits DEF Smooth, m
<1> QED
  BY <1>2, <1>3, <1>4 DEF m
-----------------------------------------------------------------------------
LEMMA FilterStepType ==
    ASSUME FilterTypeOK, [FilterNext]_filterVars
    PROVE  FilterTypeOK'
<1>1. CASE SampleOk
  <2>1. field' \in Words /\ data' \in Words
    BY <1>1, RoundTrip DEF SampleOk
  <2>2. buf' \in Words
    BY <1>1, <2>1, SmoothBetween DEF SampleOk, FilterTypeOK
  <2>3. good' \in BOOLEAN
    BY <1>1 DEF SampleOk
  <2> QED
    BY <2>1, <2>2, <2>3 DEF FilterTypeOK
<1>2. CASE SampleFails
  <2>1. field' \in Words /\ data' \in Words
    BY <1>2 DEF SampleFails, FilterTypeOK
  <2>2. buf' \in Words
    BY <1>2, SmoothBetween DEF SampleFails, FilterTypeOK
  <2>3. good' \in BOOLEAN
    BY <1>2 DEF SampleFails
  <2> QED
    BY <2>1, <2>2, <2>3 DEF FilterTypeOK
<1>3. CASE UNCHANGED filterVars
  BY <1>3 DEF filterVars, FilterTypeOK
<1> QED
  BY <1>1, <1>2, <1>3 DEF FilterNext

(* Samples and smoothed values stay what an int16_t can hold. *)
THEOREM FilterTypeCorrect == FilterSpec => []FilterTypeOK
<1>1. FilterInit => FilterTypeOK
  BY WordsAreInts DEF FilterInit, FilterTypeOK
<1>2. FilterTypeOK /\ [FilterNext]_filterVars => FilterTypeOK'
  BY FilterStepType
<1> QED
  BY <1>1, <1>2, PTL DEF FilterSpec

(* After a reading that succeeded the sample is the value that was sent,   *)
(* whatever the size of a byte (lsm303.c:48-50).                           *)
THEOREM SamplesAreTheField == FilterSpec => []SampleIsField
<1>1. FilterInit => SampleIsField
  BY DEF FilterInit, SampleIsField
<1>2. SampleIsField /\ [FilterNext]_filterVars => SampleIsField'
  <2> SUFFICES ASSUME SampleIsField, [FilterNext]_filterVars PROVE SampleIsField'
    OBVIOUS
  <2>1. CASE SampleOk
    BY <2>1, RoundTrip DEF SampleOk, SampleIsField
  <2>2. CASE SampleFails
    BY <2>2 DEF SampleFails, SampleIsField
  <2>3. CASE UNCHANGED filterVars
    BY <2>3 DEF filterVars, SampleIsField
  <2> QED
    BY <2>1, <2>2, <2>3 DEF FilterNext
<1> QED
  BY <1>1, <1>2, PTL DEF FilterSpec

(* The variant of Settles: a turn of the filter brings the smoothed value  *)
(* nearer to the sample until it is within 7 of it, at the ends of an      *)
(* int16_t included (joystick.c:179-180).  That it gets there takes no     *)
(* more than the thread going on.                                          *)
THEOREM FilterApproaches ==
    \A b, d \in Words :
        /\ Between(Smooth(b, d), b, d)
        /\ b - d \in -7 .. 7 \/ Smooth(b, d) # b
<1> SUFFICES ASSUME NEW b \in Words, NEW d \in Words
             PROVE  Between(Smooth(b, d), b, d) /\ (b - d \in -7 .. 7 \/ Smooth(b, d) # b)
  OBVIOUS
<1>1. b \in Int /\ d \in Int
  BY WordsAreInts
<1>2. Smooth(b, d) = Div8(b * 7 + d) /\ Between(Smooth(b, d), b, d)
  BY SmoothBetween
<1>3. ASSUME Div8(b * 7 + d) = b PROVE b - d \in -7 .. 7
  BY <1>1, <1>3, Div8Stays
<1> QED
  BY <1>2, <1>3

(* No step of the filter goes past the sample, or wraps                    *)
(* (joystick.c:179-180).                                                   *)
THEOREM NeverOvershoots == FilterSpec => NoOvershoot
<1>1. FilterTypeOK /\ [FilterNext]_filterVars => [Between(buf', buf, data')]_filterVars
  <2> SUFFICES ASSUME FilterTypeOK, FilterNext PROVE Between(buf', buf, data')
    OBVIOUS
  <2>1. CASE SampleOk
    <3>1. data' \in Words
      BY <2>1, RoundTrip DEF SampleOk
    <3> QED
      BY <2>1, <3>1, SmoothBetween DEF SampleOk, FilterTypeOK
  <2>2. CASE SampleFails
    BY <2>2, SmoothBetween DEF SampleFails, FilterTypeOK
  <2> QED
    BY <2>1, <2>2 DEF FilterNext
<1> QED
  <2>1. FilterSpec => [][Between(buf', buf, data')]_filterVars
    BY <1>1, FilterTypeCorrect, PTL DEF FilterSpec
  <2> QED
    BY <2>1 DEF NoOvershoot
=============================================================================
