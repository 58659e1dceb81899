-------------------------- MODULE HidReportProofs --------------------------
(***************************************************************************)
(* Every report is one sample, for any number of sensor threads and        *)
(* samples, where equal priorities do not preempt each other.              *)
(*                                                                         *)
(* ReportWhole is not inductive: that the fields in hid_in_data are those  *)
(* of the sample about to be sent needs Stored, and that no other thread   *)
(* stores in between needs Alone.                                          *)
(***************************************************************************)
EXTENDS HidReport, TLAPS

(* At most one thread is in transmit. *)
Alone == \A s, t \in Sensors : s # t => sample[s] = 0 \/ sample[t] = 0

(* What it has stored so far is there, unless a GET_REPORT cleared it; its *)
(* sample is the last one.                                                 *)
Stored ==
    \A s \in Sensors : sample[s] # 0 =>
        /\ sample[s] = last
        /\ \A f \in Fields \ todo[s] :
              hid_in_data[f] = last \/ (hit /\ hid_in_data[f] = 0)

(* The reports are older than the sample in transmit, and the collected    *)
(* one is older than the one that waits.                                   *)
Order ==
    /\ packet.of <= last /\ collected.of <= last
    /\ \A s \in Sensors : sample[s] # 0 => packet.of < last /\ collected.of < last
    /\ packet = NoReport \/ (collected.of < packet.of /\ packet.of # 0)

(* A sample that is neither waiting nor in transmit has been sent. *)
Newest ==
    packet # NoReport =>
        packet.of = last \/ (packet.of = last - 1 /\ \E s \in Sensors : sample[s] # 0)

IInv == TypeOK /\ Alone /\ Stored /\ ReportWhole /\ Order /\ Newest

(* Types hold at first and are kept, whatever the scheduling. *)
LEMMA TypeInit == Init => TypeOK
<1>1. MaxSamples \in Nat
  BY HidAssumption
<1>2. NoReport \in Report
  BY <1>1 DEF NoReport, Report
<1>3. 0 \in 0 .. MaxSamples
  BY <1>1
<1> SUFFICES ASSUME Init PROVE TypeOK
  OBVIOUS
<1>4. /\ hid_in_data \in [Fields -> 0 .. MaxSamples]
      /\ last \in 0 .. MaxSamples /\ hit \in BOOLEAN
  BY <1>3 DEF Init
<1>5. /\ todo \in [Sensors -> SUBSET Fields]
      /\ sample \in [Sensors -> 0 .. MaxSamples]
      /\ \A s \in Sensors : todo[s] # {} => sample[s] # 0
  BY <1>3 DEF Init
<1>6. packet \in Report /\ collected \in Report
  BY <1>2 DEF Init
<1> QED
  BY <1>4, <1>5, <1>6 DEF TypeOK

LEMMA TypeNext == TypeOK /\ [Next]_vars => TypeOK'
<1> SUFFICES ASSUME TypeOK, [Next]_vars PROVE TypeOK'
  OBVIOUS
<1>a. MaxSamples \in Nat
  BY HidAssumption
<1>1. ASSUME NEW s \in Sensors, BeginTransmit(s) PROVE TypeOK'
  <2>1. last' = last + 1 /\ last + 1 \in 1 .. MaxSamples
    BY <1>1, <1>a DEF BeginTransmit, TypeOK
  <2>2. sample' = [sample EXCEPT ![s] = last + 1] /\ todo' = [todo EXCEPT ![s] = Fields]
    BY <1>1 DEF BeginTransmit
  <2>3. sample' \in [Sensors -> 0 .. MaxSamples] /\ todo' \in [Sensors -> SUBSET Fields]
    BY <2>1, <2>2, <1>a DEF TypeOK
  <2>4. \A t \in Sensors : todo'[t] # {} => sample'[t] # 0
    BY <2>1, <2>2 DEF TypeOK
  <2> QED
    BY <1>1, <1>a, <2>1, <2>3, <2>4 DEF BeginTransmit, TypeOK
<1>2. ASSUME NEW s \in Sensors, NEW f \in Fields, Store(s, f) PROVE TypeOK'
  BY <1>2 DEF Store, TypeOK
<1>3. ASSUME NEW s \in Sensors, HidTransmit(s) PROVE TypeOK'
  <2>1. packet' \in Report
    BY <1>3 DEF HidTransmit, TypeOK, Report
  <2>2. sample' \in [Sensors -> 0 .. MaxSamples]
    BY <1>3, <1>a DEF HidTransmit, TypeOK
  <2> QED
    BY <1>3, <2>1, <2>2 DEF HidTransmit, TypeOK
<1>4. CASE GetReport
  BY <1>4, <1>a DEF GetReport, TypeOK
<1>5. CASE HostPolls
  <2>1. packet' \in Report /\ collected' \in Report
    BY <1>5, <1>a DEF HostPolls, TypeOK, NoReport, Report
  <2> QED
    BY <1>5, <2>1 DEF HostPolls, TypeOK
<1>6. CASE UNCHANGED vars
  BY <1>6 DEF vars, TypeOK
<1> QED
  BY <1>1, <1>2, <1>3, <1>4, <1>5, <1>6 DEF Next, SensorStep

(* The invariant holds at first. *)
LEMMA InvInit == Init => IInv
<1> SUFFICES ASSUME Init PROVE IInv
  OBVIOUS
<1>1. packet = NoReport /\ collected = NoReport /\ last = 0 /\ \A s \in Sensors : sample[s] = 0
  BY DEF Init
<1>2. Alone /\ Stored /\ Newest
  BY <1>1 DEF Alone, Stored, Newest
<1>3. ReportWhole
  BY <1>1 DEF ReportWhole, Whole, NoReport
<1>4. Order
  BY <1>1 DEF Order, NoReport
<1> QED
  BY <1>2, <1>3, <1>4, TypeInit DEF IInv

(* Without a time quantum a step keeps the invariant. *)
LEMMA InvNext == TimeQuantum = 0 /\ IInv /\ [Next]_vars => IInv'
<1> SUFFICES ASSUME TimeQuantum = 0, IInv, [Next]_vars PROVE IInv'
  OBVIOUS
<1> USE DEF IInv
<1>0. TypeOK'
  BY TypeNext
<1>a. MaxSamples \in Nat
  BY HidAssumption
<1>b. PICK n \in Int : n = last
  BY DEF TypeOK
<1>1. ASSUME NEW s \in Sensors, BeginTransmit(s) PROVE IInv'
  <2>1. \A t \in Sensors : sample[t] = 0 /\ todo[t] = {}
    BY <1>1 DEF BeginTransmit, MayRun, TypeOK
  <2>2. sample' = [sample EXCEPT ![s] = last + 1] /\ last' = last + 1 /\ last + 1 \in 1 .. MaxSamples
    BY <1>1, <1>a DEF BeginTransmit, TypeOK
  <2>3. \A t \in Sensors : t # s => sample'[t] = 0
    BY <2>1, <2>2 DEF TypeOK
  <2>4. sample'[s] = last'
    BY <2>2 DEF TypeOK
  <2>6. Alone'
    BY <2>3 DEF Alone
  <2>7. Stored'
    BY <1>1, <2>3, <2>4 DEF BeginTransmit, Stored, TypeOK
  <2>8. ReportWhole'
    BY <1>1 DEF BeginTransmit, ReportWhole, Whole
  <2>9. Order'
    BY <1>1, <2>2, <1>b DEF BeginTransmit, Order, TypeOK, Report
  <2>10. Newest'
    BY <1>1, <2>1, <2>2, <2>4, <1>b DEF BeginTransmit, Newest, TypeOK, Report
  <2> QED
    BY <1>0, <2>6, <2>7, <2>8, <2>9, <2>10
<1>2. ASSUME NEW s \in Sensors, NEW f \in Fields, Store(s, f) PROVE IInv'
  <2>1. sample[s] # 0 /\ f \in todo[s]
    BY <1>2 DEF Store, TypeOK
  <2>2. sample[s] = last
    BY <2>1 DEF Stored
  <2>3. \A t \in Sensors : t # s => sample[t] = 0
    BY <2>1 DEF Alone
  <2>5. Alone'
    BY <1>2 DEF Store, Alone
  <2>6. Stored'
    <3> SUFFICES ASSUME NEW t \in Sensors, sample'[t] # 0
        PROVE  /\ sample'[t] = last'
               /\ \A g \in Fields \ todo'[t] :
                     hid_in_data'[g] = last' \/ (hit' /\ hid_in_data'[g] = 0)
      BY DEF Stored
    <3>1. t = s
      BY <1>2, <2>3 DEF Store
    <3>2. ASSUME NEW g \in Fields \ todo'[s]
          PROVE  hid_in_data'[g] = last \/ (hit /\ hid_in_data'[g] = 0)
      BY <1>2, <2>1, <2>2 DEF Store, Stored, TypeOK
    <3> QED
      BY <1>2, <2>2, <3>1, <3>2 DEF Store
  <2>7. ReportWhole' /\ Order' /\ Newest'
    BY <1>2 DEF Store, ReportWhole, Whole, Order, Newest
  <2> QED
    BY <1>0, <2>5, <2>6, <2>7
<1>3. ASSUME NEW s \in Sensors, HidTransmit(s) PROVE IInv'
  <2>1. sample[s] = last /\ last # 0
    BY <1>3 DEF HidTransmit, Stored
  <2>2. \A t \in Sensors : sample'[t] = 0
    BY <1>3 DEF HidTransmit, Alone, TypeOK
  <2>3. packet' = [data |-> hid_in_data, of |-> last, hit |-> hit]
    BY <1>3, <2>1 DEF HidTransmit
  <2>4. \A f \in Fields : hid_in_data[f] = last \/ (hit /\ hid_in_data[f] = 0)
    BY <1>3 DEF HidTransmit, Stored
  <2>6. Alone' /\ Stored'
    BY <2>2 DEF Alone, Stored
  <2>7. ReportWhole'
    BY <1>3, <2>3, <2>4 DEF HidTransmit, ReportWhole, Whole
  <2>8. collected.of < last
    BY <1>3 DEF HidTransmit, Order
  <2>9. Order'
    BY <1>3, <2>1, <2>2, <2>3, <2>8, <1>b DEF HidTransmit, Order, TypeOK
  <2>10. Newest'
    BY <1>3, <2>3 DEF HidTransmit, Newest
  <2> QED
    BY <1>0, <2>6, <2>7, <2>9, <2>10
<1>4. CASE GetReport
  <2>2. Alone' /\ ReportWhole' /\ Order' /\ Newest'
    BY <1>4 DEF GetReport, Alone, ReportWhole, Whole, Order, Newest
  <2>3. Stored'
    BY <1>4 DEF GetReport, Stored
  <2> QED
    BY <1>0, <2>2, <2>3
<1>5. CASE HostPolls
  <2>2. Alone' /\ Stored'
    BY <1>5 DEF HostPolls, Alone, Stored
  <2>3. ReportWhole'
    BY <1>5 DEF HostPolls, ReportWhole, Whole, NoReport
  <2>4. Order'
    BY <1>5, <1>b DEF HostPolls, Order, NoReport, TypeOK, Report
  <2>5. Newest'
    BY <1>5 DEF HostPolls, Newest
  <2> QED
    BY <1>0, <2>2, <2>3, <2>4, <2>5
<1>6. CASE UNCHANGED vars
  BY <1>6 DEF vars, TypeOK, Alone, Stored, ReportWhole, Whole, Order, Newest
<1> QED
  BY <1>1, <1>2, <1>3, <1>4, <1>5, <1>6 DEF Next, SensorStep

(* The invariant holds in every reachable state. *)
LEMMA InductiveInvariant == ASSUME TimeQuantum = 0 PROVE Spec => []IInv
<1>1. Init => IInv
  BY InvInit
<1>2. IInv /\ [Next]_vars => IInv'
  BY InvNext
<1> QED
  BY <1>1, <1>2, PTL DEF Spec

(* Types, and that a thread with something left to store is in transmit    *)
(* (joystick.c:156-161).                                                   *)
THEOREM ReportTypeCorrect == Spec => []TypeOK
  BY TypeInit, TypeNext, PTL DEF Spec

(* Every report is one sample (joystick.c:156-161, usb_hid.c:63), for any  *)
(* number of sensor threads, where threads of one priority do not preempt  *)
(* each other (chconf.h:97).                                               *)
THEOREM ReportsAreWhole == ASSUME TimeQuantum = 0 PROVE Spec => []ReportWhole
<1>1. IInv => ReportWhole
  BY DEF IInv
<1> QED
  BY <1>1, InductiveInvariant, PTL

(* A waiting report is the newest one (usb_hid.c:34). *)
THEOREM ReportsAreFresh == ASSUME TimeQuantum = 0 PROVE Spec => []FreshReport
<1>1. IInv => FreshReport
  BY DEF IInv, Newest, Stored, FreshReport
<1> QED
  BY <1>1, InductiveInvariant, PTL

(* The host gets the samples in their order and none twice. *)
THEOREM SamplesInOrder == ASSUME TimeQuantum = 0 PROVE Spec => ReportsInOrder
<1>1. IInv /\ [Next]_vars => [collected' # collected => collected'.of > collected.of]_vars
  <2> SUFFICES ASSUME IInv, Next, collected' # collected
      PROVE  collected'.of > collected.of
    OBVIOUS
  <2>1. CASE HostPolls
    BY <2>1 DEF HostPolls, IInv, Order, TypeOK, Report
  <2> QED
    BY <2>1 DEF Next, SensorStep, BeginTransmit, Store, HidTransmit, GetReport
<1> QED
  BY <1>1, InductiveInvariant, PTL DEF Spec, ReportsInOrder
=============================================================================
