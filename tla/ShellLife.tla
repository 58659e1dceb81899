----------------------------- MODULE ShellLife -----------------------------
(***************************************************************************)
(* The life of the shell (main.c): usb_init waits for the host, main       *)
(* starts the sensor thread and then keeps one shell alive, through every  *)
(* reset and suspension of the bus, while `restart' takes memory from the  *)
(* heap for sensor threads that is never given back.                       *)
(***************************************************************************)
EXTENDS Integers

CONSTANTS HeapSize,     \* the heap, and what the threads take from it, in
          ShellSize,    \* units of any size
          SensorSize

(* The first shell fits beside the sensor thread that main starts. *)
ASSUME HeapAssumption ==
    /\ HeapSize \in Nat /\ ShellSize \in Nat \ {0} /\ SensorSize \in Nat \ {0}
    /\ ShellSize + SensorSize <= HeapSize

NULL == "NULL"

VARIABLES
    main,           \* where main is
    bus,            \* the state of the USB driver
    resume,         \* the state a wake-up of the bus goes back to
    open,           \* the serial port takes and gives data
    usbInitState,
    asked,          \* the host has made a request that ends usb_init
    shelltp,        \* the shell thread main knows of, or NULL
    shell,          \* what that thread is doing
    sensors,        \* sensor threads created from the heap
    heap            \* what is left of the heap

busVars == <<bus, resume, open>>
threadVars == <<shelltp, shell, sensors, heap>>
vars == <<main, busVars, usbInitState, asked, threadVars>>

Init ==
    /\ main = "init"
    /\ bus = "stopped" /\ resume = "stopped" /\ open = FALSE
    /\ usbInitState = 0 /\ asked = FALSE
    /\ shelltp = NULL /\ shell = "none"
    /\ sensors = 0 /\ heap = HeapSize
-----------------------------------------------------------------------------
(* The memory of one more sensor thread: chThdCreateFromHeap gives NULL,   *)
(* and nothing happens, when there is not enough.  A number is enough for  *)
(* the heap: it has at most one hole, that of the last shell, and only     *)
(* the next shell asks for memory while it is there.                       *)
CreateSensor ==
    IF heap >= SensorSize
    THEN sensors' = sensors + 1 /\ heap' = heap - SensorSize
    ELSE UNCHANGED <<sensors, heap>>

(* main, up to its loop. *)

(* usb_init: nothing else happens before usbStart. *)
UsbInit ==
    /\ main = "init"
    /\ usbInitState' = 0
    /\ bus' = "ready"
    /\ main' = "wait"
    /\ UNCHANGED <<resume, open, asked, threadVars>>

InitDone ==
    /\ main = "wait" /\ usbInitState # 0
    /\ main' = "boot"
    /\ UNCHANGED <<busVars, usbInitState, asked, threadVars>>

Boot ==
    /\ main = "boot"
    /\ CreateSensor
    /\ main' = "loop"
    /\ UNCHANGED <<busVars, usbInitState, asked, shelltp, shell>>

(* The loop of main: one turn does one of these, or nothing. *)

SpawnShell ==
    /\ main = "loop" /\ shelltp = NULL
    /\ bus = "active" /\ heap >= ShellSize
    /\ shelltp' = "thread" /\ shell' = "reading"
    /\ heap' = heap - ShellSize
    /\ UNCHANGED <<main, busVars, usbInitState, asked, sensors>>

MutReleaseNoMemory ==
    /\ main = "loop" /\ shelltp # NULL /\ shell = "ended"
    /\ shelltp' = NULL /\ shell' = "none"
    /\ UNCHANGED <<main, busVars, usbInitState, asked, sensors, heap>>
MutReleaseKeepsPointer ==
    /\ main = "loop" /\ shelltp # NULL /\ shell = "ended"
    /\ shell' = "none"
    /\ heap' = heap + ShellSize
    /\ UNCHANGED <<main, busVars, usbInitState, asked, shelltp, sensors>>
ReleaseShell ==
    /\ main = "loop" /\ shelltp # NULL /\ shell = "ended"
    /\ shelltp' = NULL /\ shell' = "none"
    /\ heap' = heap + ShellSize
    /\ UNCHANGED <<main, busVars, usbInitState, asked, sensors>>
-----------------------------------------------------------------------------
(* The shell.  Its thread ends when a read of the port fails. *)

Command ==
    /\ shell = "reading" /\ open
    /\ shell' = "command"
    /\ UNCHANGED <<main, busVars, usbInitState, asked, shelltp, sensors, heap>>

CommandEnds ==
    /\ shell = "command"
    /\ shell' = "reading"
    /\ UNCHANGED <<main, busVars, usbInitState, asked, shelltp, sensors, heap>>

(* `restart'. *)
Restart ==
    /\ shell = "command"
    /\ CreateSensor
    /\ shell' = "reading"
    /\ UNCHANGED <<main, busVars, usbInitState, asked, shelltp>>

(* The shell's own `exit'. *)
Exit ==
    /\ shell = "command"
    /\ shell' = "leaving"
    /\ UNCHANGED <<main, busVars, usbInitState, asked, shelltp, sensors, heap>>

ReadFails ==
    /\ shell = "reading" /\ ~open
    /\ shell' = "leaving"
    /\ UNCHANGED <<main, busVars, usbInitState, asked, shelltp, sensors, heap>>

ShellEnds ==
    /\ shell = "leaving"
    /\ shell' = "ended"
    /\ UNCHANGED <<main, busVars, usbInitState, asked, shelltp, sensors, heap>>

(* `reset': the program starts again. *)
Reset ==
    /\ shell = "command"
    /\ main' = "init"
    /\ bus' = "stopped" /\ resume' = "stopped" /\ open' = FALSE
    /\ usbInitState' = 0 /\ asked' = FALSE
    /\ shelltp' = NULL /\ shell' = "none"
    /\ sensors' = 0 /\ heap' = HeapSize
-----------------------------------------------------------------------------
(* What the host does, and usb_event in the interrupt. *)

(* The queues of the port are reset: a shell that waits for a character    *)
(* gets MSG_RESET.                                                         *)
PortReset == shell' = IF shell = "reading" THEN "leaving" ELSE shell

Disconnected(newState) ==
    /\ bus' = newState /\ open' = FALSE
    /\ PortReset
    /\ UNCHANGED <<main, usbInitState, asked, shelltp, sensors, heap>>

BusReset ==
    /\ bus \in {"ready", "active", "suspended"}
    /\ Disconnected("ready")
    /\ UNCHANGED resume

Unconfigured ==
    /\ bus = "active"
    /\ Disconnected("ready")
    /\ UNCHANGED resume

Suspend ==
    /\ bus \in {"ready", "active"}
    /\ Disconnected("suspended")
    /\ resume' = bus

Wakeup ==
    /\ bus = "suspended"
    /\ bus' = resume /\ open' = TRUE
    /\ UNCHANGED <<main, resume, usbInitState, asked, threadVars>>

Configured ==
    /\ bus = "ready"
    /\ bus' = "active" /\ open' = TRUE
    /\ PortReset
    /\ UNCHANGED <<main, resume, usbInitState, asked, shelltp, sensors, heap>>

(* A request for the report descriptor or for a report. *)
MutGetDescriptorNoFlag ==
    /\ bus = "active"
    /\ asked' = TRUE
    /\ UNCHANGED <<main, busVars, usbInitState, threadVars>>
GetDescriptor ==
    /\ bus = "active"
    /\ usbInitState' = 1 /\ asked' = TRUE
    /\ UNCHANGED <<main, busVars, threadVars>>

HostStep ==
    \/ BusReset \/ Unconfigured \/ Suspend \/ Wakeup \/ Configured
    \/ GetDescriptor

MainStep == UsbInit \/ InitDone \/ Boot \/ SpawnShell \/ ReleaseShell

ShellStep ==
    \/ Command \/ CommandEnds \/ Restart \/ Exit \/ Reset
    \/ ReadFails \/ ShellEnds

Next == HostStep \/ MainStep \/ ShellStep

(* main goes round its loops, and a shell that has been told that the port *)
(* is gone ends.  Neither the host nor a command has to do anything.       *)
Fairness == WF_vars(MainStep) /\ WF_vars(ReadFails \/ ShellEnds)

Spec == Init /\ [][Next]_vars /\ Fairness
-----------------------------------------------------------------------------
(* Types; main holds a shell exactly when there is one. *)
TypeOK ==
    /\ main \in {"init", "wait", "boot", "loop"}
    /\ bus \in {"stopped", "ready", "active", "suspended"}
    /\ resume \in {"stopped", "ready", "active"}
    /\ open \in BOOLEAN /\ asked \in BOOLEAN
    /\ usbInitState \in {0, 1}
    /\ shelltp \in {NULL, "thread"}
    /\ shell \in {"none", "reading", "command", "leaving", "ended"}
    /\ shelltp = NULL <=> shell = "none"
    /\ sensors \in Nat
    /\ heap \in 0 .. HeapSize

(* main.c:77, cmd.c:27.  Whenever main has no shell there is memory for    *)
(* one: no number of `restart' commands, and no number of shells that came *)
(* and went, can lock the user out.                                        *)
ShellFits == main = "loop" => shelltp # NULL \/ heap >= ShellSize

(* main.c:72-91.  While the bus is active there is a shell, or there will  *)
(* be one, whatever resets, suspensions and commands came before.          *)
ShellComesBack ==
    main = "loop" /\ bus = "active"
        ~> shell \in {"reading", "command"} \/ bus # "active"

(* main.c:47: a request of the host ends usb_init, also when it comes      *)
(* before main looks for it.                                               *)
BootsWhenAsked == asked ~> main = "loop"

=============================================================================
