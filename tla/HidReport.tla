----------------------------- MODULE HidReport -----------------------------
(***************************************************************************)
(* The way of a sample into a report: transmit stores the four fields of   *)
(* hid_in_data and starts a transfer, while the USB interrupt may clear    *)
(* the same fields (GET_REPORT) and the host collects what was sent.       *)
(* `restart' adds a sensor thread, so there may be several.                *)
(*                                                                         *)
(* A field holds the number of the sample it was computed from, 0 when it  *)
(* was cleared.                                                            *)
(***************************************************************************)
EXTENDS Integers, FiniteSets

CONSTANTS Sensors,      \* the sensor threads
          TimeQuantum,  \* CH_CFG_TIME_QUANTUM
          MaxSamples    \* bounds the number of samples

ASSUME HidAssumption == TimeQuantum \in Nat /\ MaxSamples \in Nat

Fields == {"x", "y", "z", "button"}
NoReport == [data |-> [f \in Fields |-> 0], of |-> 0, hit |-> FALSE]

VARIABLES
    hid_in_data,
    todo,       \* for every sensor thread, the fields transmit has yet to store
    sample,     \* for every sensor thread, the sample it is at; 0 in lsm303c_read
    last,       \* the samples taken so far, by all threads
    hit,        \* a GET_REPORT came since the present transmit began
    packet,     \* what endpoint HID_IN_EP_ADDRESS will send, or NoReport
    collected   \* the report the host got last

vars == <<hid_in_data, todo, sample, last, hit, packet, collected>>

Init ==
    /\ hid_in_data = [f \in Fields |-> 0]
    /\ todo = [s \in Sensors |-> {}]
    /\ sample = [s \in Sensors |-> 0]
    /\ last = 0 /\ hit = FALSE
    /\ packet = NoReport /\ collected = NoReport

(* chconf.h:91: without a quantum a thread is not preempted by one of its  *)
(* own priority.  transmit never waits, so no other sensor thread runs     *)
(* before it is through.                                                   *)
MutMayRunAlways(s) == TRUE
MayRun(s) == TimeQuantum = 0 => \A t \in Sensors \ {s} : sample[t] = 0

(* A sample was read: transmit computes its report. *)
BeginTransmit(s) ==
    /\ sample[s] = 0 /\ MayRun(s) /\ last < MaxSamples
    /\ last' = last + 1
    /\ sample' = [sample EXCEPT ![s] = last + 1]
    /\ todo' = [todo EXCEPT ![s] = Fields]
    /\ hit' = FALSE
    /\ UNCHANGED <<hid_in_data, packet, collected>>

(* One store.  hid_in_data is neither volatile nor locked, the compiler    *)
(* may store the fields in any order.                                      *)
Store(s, f) ==
    /\ f \in todo[s]
    /\ hid_in_data' = [hid_in_data EXCEPT ![f] = sample[s]]
    /\ todo' = [todo EXCEPT ![s] = @ \ {f}]
    /\ UNCHANGED <<sample, last, hit, packet, collected>>

(* hid_transmit: the endpoint takes over the report, whether or not the    *)
(* host has got the one before.                                            *)
MutHidTransmitIfIdle(s) ==
    /\ sample[s] # 0 /\ todo[s] = {}
    /\ packet' = IF packet = NoReport
                 THEN [data |-> hid_in_data, of |-> sample[s], hit |-> hit] ELSE packet
    /\ sample' = [sample EXCEPT ![s] = 0]
    /\ UNCHANGED <<hid_in_data, todo, last, hit, collected>>
MutHidTransmitEarly(s) ==
    /\ sample[s] # 0
    /\ packet' = [data |-> hid_in_data, of |-> sample[s], hit |-> hit]
    /\ sample' = [sample EXCEPT ![s] = 0]
    /\ UNCHANGED <<hid_in_data, todo, last, hit, collected>>
HidTransmit(s) ==
    /\ sample[s] # 0 /\ todo[s] = {}
    /\ packet' = [data |-> hid_in_data, of |-> sample[s], hit |-> hit]
    /\ sample' = [sample EXCEPT ![s] = 0]
    /\ UNCHANGED <<hid_in_data, todo, last, hit, collected>>

(* The interrupt handles a GET_REPORT request. *)
GetReport ==
    /\ hid_in_data' = [f \in Fields |-> 0]
    /\ hit' = TRUE
    /\ UNCHANGED <<todo, sample, last, packet, collected>>

(* The host polls the endpoint. *)
HostPolls ==
    /\ packet # NoReport
    /\ collected' = packet /\ packet' = NoReport
    /\ UNCHANGED <<hid_in_data, todo, sample, last, hit>>

SensorStep(s) ==
    \/ BeginTransmit(s)
    \/ \E f \in Fields : Store(s, f)
    \/ HidTransmit(s)

Next == (\E s \in Sensors : SensorStep(s)) \/ GetReport \/ HostPolls

Spec == Init /\ [][Next]_vars
-----------------------------------------------------------------------------
(* Types; a thread has something to store only while it is in transmit. *)
Report == [data : [Fields -> 0 .. MaxSamples], of : 0 .. MaxSamples, hit : BOOLEAN]
TypeOK ==
    /\ hid_in_data \in [Fields -> 0 .. MaxSamples]
    /\ todo \in [Sensors -> SUBSET Fields]
    /\ sample \in [Sensors -> 0 .. MaxSamples]
    /\ \A s \in Sensors : todo[s] # {} => sample[s] # 0
    /\ last \in 0 .. MaxSamples
    /\ hit \in BOOLEAN
    /\ packet \in Report /\ collected \in Report

(* joystick.c:156-161 against usb_hid.c:63.  A report is one sample: of    *)
(* its fields none comes from another sample, and none is cleared unless a *)
(* GET_REPORT fell between the stores.  This is so with several sensor     *)
(* threads, although nothing locks hid_in_data.                            *)
Whole(r) ==
    \A f \in Fields : r.data[f] = r.of \/ (r.hit /\ r.data[f] = 0)
ReportWhole == Whole(packet) /\ Whole(collected)

(* usb_hid.c:34: a report that waits is the newest, however long the host  *)
(* did not poll; only a sample that is still in transmit is newer.         *)
FreshReport ==
    packet # NoReport =>
        \/ packet.of = last
        \/ packet.of = last - 1 /\ \E s \in Sensors : sample[s] = last

(* The host gets the samples in their order, and none twice.               *)
ReportsInOrder == [][collected' # collected => collected'.of > collected.of]_vars

=============================================================================
