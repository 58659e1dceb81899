------------------------------- MODULE I2cBus -------------------------------
(***************************************************************************)
(* The sensor threads on one I2C bus (i2c_util.c, lsm303.c, mlx90393.c):   *)
(* every transaction takes the bus and may fail, and a failure is printed  *)
(* to the serial port, where a writer waits while the buffer is full and   *)
(* the host does not read.                                                 *)
(***************************************************************************)
EXTENDS Integers, Sequences, FiniteSets

CONSTANTS Threads,      \* the sensor threads (main.c:67, cmd.c:27)
          Kind,         \* the sensor that each one reads
          Room,         \* the output buffer, and a message, in units of
          Message       \*   any size

Kinds == {"lsm303c", "lsm303dlhc", "mlx90393"}

ASSUME BusAssumption ==
    /\ IsFiniteSet(Threads) /\ Kind \in [Threads -> Kinds]
    /\ Room \in Nat \ {0} /\ Message \in Nat \ {0}

None == "none"
ASSUME NoneAssumption == None \notin Threads

VARIABLES
    pc,         \* where a thread is
    phase,      \* it sets its sensor up, or reads it
    todo,       \* transactions left of the set-up or of the reading
    left,       \* what it has still to print of a message
    holder,     \* the owner of the bus
    waiting,    \* the threads in the queue of the bus
    lock,       \* the thread that has the system lock, in printf
    used,       \* what the output buffer holds
    open        \* the serial port takes data

threadVars == <<pc, phase, todo, left>>
portVars == <<used, open>>
vars == <<threadVars, holder, waiting, lock, portVars>>

(* mlx90393_init writes three registers and reads one back; with the two   *)
(* for the other sensors, lsm303c_init and lsm303dlhc_init: transactions   *)
(* until a sensor is set up.                                               *)
Mlx90393Init == 4
InitWrites == [lsm303c |-> 4, lsm303dlhc |-> 3, mlx90393 |-> Mlx90393Init]

(* A reading of the MLX90393 is a command and, 20 ms later, its result.    *)
Reads == [lsm303c |-> 1, lsm303dlhc |-> 1, mlx90393 |-> 2]

Init ==
    /\ pc = [t \in Threads |-> "ask"]
    /\ phase = [t \in Threads |-> "init"]
    /\ todo = [t \in Threads |-> InitWrites[Kind[t]]]
    /\ left = [t \in Threads |-> 0]
    /\ holder = None /\ waiting = << >>
    /\ lock = None
    /\ used = 0 /\ open = TRUE
-----------------------------------------------------------------------------
Goto(t, l) == pc' = [pc EXCEPT ![t] = l]

(* While a thread has the system lock, nothing else runs. *)
Runs(t) == lock \in {None, t}

(* The bus is not locked. *)
MutAcquire(t) ==
    /\ Runs(t) /\ pc[t] = "ask"
    /\ holder' = t /\ Goto(t, "transfer")
    /\ UNCHANGED <<phase, todo, left, waiting, lock, portVars>>

(* i2cAcquireBus. *)
Acquire(t) ==
    /\ Runs(t) /\ pc[t] = "ask"
    /\ \/ /\ holder = None
          /\ holder' = t /\ Goto(t, "transfer")
          /\ UNCHANGED waiting
       \/ /\ holder # None
          /\ waiting' = Append(waiting, t) /\ Goto(t, "wait")
          /\ UNCHANGED holder
    /\ UNCHANGED <<phase, todo, left, lock, portVars>>

(* i2cReleaseBus gives the bus to the first in its queue; the thread       *)
(* itself goes on at l.                                                    *)
ReleaseAndGoto(t, l) ==
    IF waiting = << >>
    THEN holder' = None /\ Goto(t, l) /\ UNCHANGED waiting
    ELSE /\ holder' = Head(waiting)
         /\ waiting' = Tail(waiting)
         /\ pc' = [pc EXCEPT ![t] = l, ![Head(waiting)] = "transfer"]

(* The transfer is over, after 100 ticks at the latest, and has succeeded: *)
(* the next transaction, the first reading, or the sample.                 *)
TransferOk(t) ==
    /\ Runs(t) /\ pc[t] = "transfer"
    /\ IF todo[t] > 1
       THEN /\ todo' = [todo EXCEPT ![t] = @ - 1]
            /\ ReleaseAndGoto(t, IF phase[t] = "read" THEN "convert" ELSE "ask")
            /\ UNCHANGED phase
       ELSE /\ todo' = [todo EXCEPT ![t] = Reads[Kind[t]]]
            /\ phase' = [phase EXCEPT ![t] = "read"]
            /\ ReleaseAndGoto(t, IF phase[t] = "read" THEN "sample" ELSE "ask")
    /\ UNCHANGED <<left, lock, portVars>>

(* The wait for the MLX90393 to convert. *)
Convert(t) ==
    /\ Runs(t) /\ pc[t] = "convert"
    /\ Goto(t, "ask")
    /\ UNCHANGED <<phase, todo, left, holder, waiting, lock, portVars>>

(* An error returns without releasing the bus. *)
MutTransferFails(t) ==
    /\ Runs(t) /\ pc[t] = "transfer"
    /\ left' = [left EXCEPT ![t] = Message]
    /\ Goto(t, "report")
    /\ UNCHANGED <<phase, todo, holder, waiting, lock, portVars>>

(* A reset or a timeout: the bus is released, and then the error printed. *)
TransferFails(t) ==
    /\ Runs(t) /\ pc[t] = "transfer"
    /\ left' = [left EXCEPT ![t] = Message]
    /\ ReleaseAndGoto(t, "report")
    /\ UNCHANGED <<phase, todo, lock, portVars>>

(* One piece too many. *)
MutPut(t) ==
    /\ Runs(t) /\ left[t] > 0
    /\ open => used <= Room
    /\ used' = IF open THEN used + 1 ELSE used
    /\ left' = [left EXCEPT ![t] = @ - 1]
    /\ lock' = None
    /\ UNCHANGED <<pc, phase, todo, holder, waiting, open>>

(* A piece of a message goes into the buffer, or is lost while the port is *)
(* closed.  The first one that is put with the system lock gives it back:  *)
(* the lock does not nest.                                                 *)
Put(t) ==
    /\ Runs(t) /\ left[t] > 0
    /\ open => used < Room
    /\ used' = IF open THEN used + 1 ELSE used
    /\ left' = [left EXCEPT ![t] = @ - 1]
    /\ lock' = None
    /\ UNCHANGED <<pc, phase, todo, holder, waiting, open>>

(* The lock is kept while the writer waits. *)
MutWaitForRoom(t) == lock = t /\ open /\ used = Room /\ UNCHANGED vars

(* A writer that has to wait gives up the lock as well. *)
WaitForRoom(t) ==
    /\ lock = t /\ open /\ used = Room
    /\ lock' = None
    /\ UNCHANGED <<threadVars, holder, waiting, portVars>>

(* The error is printed.  A sensor that could not be set up is given up    *)
(* with a message under the system lock; a reading that failed is not      *)
(* looked at, the sample is the one before.                                *)
Reported(t) ==
    /\ Runs(t) /\ pc[t] = "report" /\ left[t] = 0
    /\ IF phase[t] = "init"
       THEN /\ Goto(t, "notfound")
            /\ left' = [left EXCEPT ![t] = Message]
            /\ lock' = t
       ELSE /\ Goto(t, "sample")
            /\ UNCHANGED <<left, lock>>
    /\ todo' = [todo EXCEPT ![t] = Reads[Kind[t]]]
    /\ UNCHANGED <<phase, holder, waiting, portVars>>

(* chThdExit. *)
Exit(t) ==
    /\ Runs(t) /\ pc[t] = "notfound" /\ left[t] = 0
    /\ Goto(t, "exit")
    /\ UNCHANGED <<phase, todo, left, holder, waiting, lock, portVars>>

(* transmit, which never waits. *)
Sample(t) ==
    /\ Runs(t) /\ pc[t] = "sample"
    /\ Goto(t, "ask")
    /\ UNCHANGED <<phase, todo, left, holder, waiting, lock, portVars>>

ThreadStep(t) ==
    \/ Acquire(t) \/ TransferOk(t) \/ TransferFails(t) \/ Convert(t)
    \/ WaitForRoom(t) \/ Reported(t) \/ Exit(t) \/ Sample(t)

(* The shell prints; the host takes what it likes, and closes and opens    *)
(* the port (usb_event), which empties the buffer.                         *)
ShellPuts ==
    /\ Runs(None) /\ open /\ used < Room
    /\ used' = used + 1
    /\ UNCHANGED <<threadVars, holder, waiting, lock, open>>

HostReads ==
    /\ Runs(None) /\ used > 0
    /\ used' \in 0 .. used - 1
    /\ UNCHANGED <<threadVars, holder, waiting, lock, open>>

PortChanges ==
    /\ Runs(None)
    /\ open' = ~open /\ used' = 0
    /\ UNCHANGED <<threadVars, holder, waiting, lock>>

Next ==
    \/ \E t \in Threads : ThreadStep(t) \/ Put(t)
    \/ ShellPuts \/ HostReads \/ PortChanges

(* The sensor threads have the highest priority, a transfer ends, and the  *)
(* queue of the buffer wakes its writers in the order they came.           *)
Fairness == \A t \in Threads : WF_vars(ThreadStep(t)) /\ SF_vars(Put(t))

Spec == Init /\ [][Next]_vars /\ Fairness
-----------------------------------------------------------------------------
(* Types. *)
TypeOK ==
    /\ pc \in [Threads -> {"ask", "wait", "transfer", "convert", "report",
                           "notfound", "sample", "exit"}]
    /\ phase \in [Threads -> {"init", "read"}]
    /\ todo \in [Threads -> Nat]
    /\ left \in [Threads -> Nat]
    /\ holder \in Threads \cup {None}
    /\ waiting \in Seq(Threads)
    /\ lock \in Threads \cup {None}
    /\ used \in 0 .. Room
    /\ open \in BOOLEAN

(* One transaction at a time: a thread transfers exactly while it owns the *)
(* bus, and waits exactly while it is queued, once (i2c_util.c:12-14).     *)
OneTransaction ==
    /\ \A t \in Threads : pc[t] = "transfer" <=> holder = t
    /\ \A t \in Threads : pc[t] = "wait" <=> \E i \in DOMAIN waiting : waiting[i] = t
    /\ \A i, j \in DOMAIN waiting : waiting[i] = waiting[j] => i = j
    /\ holder = None => waiting = << >>

(* Messages are printed off the bus: a thread that waits for the host to   *)
(* read one neither owns the bus nor is queued for it (i2c_util.c:14-20).  *)
(* The system lock, under which nothing else runs, is held only by a       *)
(* thread that gives its sensor up, and not beyond the first piece of its  *)
(* message (joystick.c:193-200, printf.h:7).                               *)
PrintsOffBus == \A t \in Threads :
    /\ left[t] > 0 =>
        pc[t] \in {"report", "notfound"} /\ holder # t /\ \A i \in DOMAIN waiting : waiting[i] # t
    /\ lock = t => pc[t] = "notfound" /\ left[t] = Message

(* The bus comes free, whatever the host does: a thread that waits for the *)
(* host to read an error does not keep the others from their sensors.      *)
BusComesFree == \A t \in Threads : holder = t ~> holder # t

(* As long as the host empties the buffer again and again, unless the      *)
(* system lock keeps it from that, or the port is closed, every sensor     *)
(* thread goes on reporting, or has given up: no error, and no message     *)
(* under the lock (printf.h:7), stops it.                                  *)
SensorsGoOn ==
    []<>(used = 0 \/ lock # None) => \A t \in Threads : []<>(pc[t] \in {"sample", "exit"})
=============================================================================
