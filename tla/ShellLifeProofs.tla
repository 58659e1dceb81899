-------------------------- MODULE ShellLifeProofs --------------------------
(***************************************************************************)
(* No number of restarts and of shells locks the user out, for every size  *)
(* of the heap in which the first shell fits beside main's sensor thread.  *)
(*                                                                         *)
(* ShellFits is not inductive: that the first shell fits needs Fresh, the  *)
(* state of the heap before main has started anything.  TypeOK is not      *)
(* either: that a released shell does not overfill the heap needs Taken.   *)
(***************************************************************************)
EXTENDS ShellLife, TLAPS

(* Until main reaches its loop nothing has been taken from the heap. *)
Fresh == main # "loop" => shell = "none" /\ heap = HeapSize

(* The memory of a shell is missing from the heap as long as main holds it. *)
Taken == shelltp # NULL => heap + ShellSize <= HeapSize

IInv == TypeOK /\ Fresh /\ Taken /\ ShellFits

USE DEF busVars, threadVars, NULL

(* The invariant holds at first. *)
LEMMA InvInit == Init => IInv
<1> SUFFICES ASSUME Init PROVE IInv
  OBVIOUS
<1>1. HeapSize \in 0 .. HeapSize
  BY HeapAssumption
<1>2. open \in BOOLEAN /\ asked \in BOOLEAN
  BY DEF Init
<1>3. TypeOK
  BY <1>1, <1>2 DEF Init, TypeOK
<1> QED
  BY <1>3 DEF Init, IInv, Fresh, Taken, ShellFits

(* Every step of main, of the shell and of the host keeps it. *)
LEMMA MainKeeps == IInv /\ MainStep => IInv'
<1> SUFFICES ASSUME IInv, MainStep PROVE IInv'
  OBVIOUS
<1> USE HeapAssumption DEF IInv, TypeOK, Fresh, Taken, ShellFits
<1>1. CASE UsbInit
  BY <1>1 DEF UsbInit
<1>2. CASE InitDone
  BY <1>2 DEF InitDone
<1>3. CASE Boot
  BY <1>3 DEF Boot, CreateSensor
<1>4. CASE SpawnShell
  BY <1>4 DEF SpawnShell
<1>5. CASE ReleaseShell
  BY <1>5 DEF ReleaseShell
<1> QED
  BY <1>1, <1>2, <1>3, <1>4, <1>5 DEF MainStep

LEMMA ShellKeeps == IInv /\ ShellStep => IInv'
<1> SUFFICES ASSUME IInv, ShellStep PROVE IInv'
  OBVIOUS
<1> USE HeapAssumption DEF IInv, TypeOK, Fresh, Taken, ShellFits
<1>1. CASE Command
  BY <1>1 DEF Command
<1>2. CASE CommandEnds
  BY <1>2 DEF CommandEnds
<1>3. CASE Restart
  BY <1>3 DEF Restart, CreateSensor
<1>4. CASE Exit
  BY <1>4 DEF Exit
<1>5. CASE Reset
  <2>1. HeapSize \in 0 .. HeapSize
    OBVIOUS
  <2>2. open' \in BOOLEAN /\ asked' \in BOOLEAN
    BY <1>5 DEF Reset
  <2> QED
    BY <1>5, <2>1, <2>2 DEF Reset
<1>6. CASE ReadFails
  BY <1>6 DEF ReadFails
<1>7. CASE ShellEnds
  BY <1>7 DEF ShellEnds
<1> QED
  BY <1>1, <1>2, <1>3, <1>4, <1>5, <1>6, <1>7 DEF ShellStep

LEMMA HostKeeps == IInv /\ HostStep => IInv'
<1> SUFFICES ASSUME IInv, HostStep PROVE IInv'
  OBVIOUS
<1> USE DEF IInv, TypeOK, Fresh, Taken, ShellFits
<1>1. CASE BusReset \/ Unconfigured
  BY <1>1 DEF BusReset, Unconfigured, Disconnected, PortReset
<1>2. CASE Suspend
  BY <1>2 DEF Suspend, Disconnected, PortReset
<1>3. CASE Wakeup
  BY <1>3 DEF Wakeup
<1>4. CASE Configured
  BY <1>4 DEF Configured, PortReset
<1>5. CASE GetDescriptor
  BY <1>5 DEF GetDescriptor
<1> QED
  BY <1>1, <1>2, <1>3, <1>4, <1>5 DEF HostStep

(* The invariant holds in every reachable state. *)
LEMMA InductiveInvariant == Spec => []IInv
<1>1. IInv /\ UNCHANGED vars => IInv'
  BY DEF vars, IInv, TypeOK, Fresh, Taken, ShellFits
<1>2. IInv /\ [Next]_vars => IInv'
  BY <1>1, MainKeeps, ShellKeeps, HostKeeps DEF Next
<1> QED
  BY <1>2, InvInit, PTL DEF Spec

(* Types; main holds a shell exactly when there is one (main.c:73-90), and *)
(* the heap neither runs below zero nor overflows.                         *)
THEOREM ShellTypeCorrect == Spec => []TypeOK
<1>1. IInv => TypeOK
  BY DEF IInv
<1> QED
  BY <1>1, InductiveInvariant, PTL

(* Whenever main holds no shell there is memory for one (main.c:77),       *)
(* however many sensor threads `restart' (cmd.c:27) has created.           *)
THEOREM ShellAlwaysFits == Spec => []ShellFits
<1>1. IInv => ShellFits
  BY DEF IInv
<1> QED
  BY <1>1, InductiveInvariant, PTL
=============================================================================
