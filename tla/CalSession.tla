----------------------------- MODULE CalSession -----------------------------
(***************************************************************************)
(* The hand-shake of a calibration: cal (cmd.c) turns jscal_switch on,     *)
(* polls the serial port for a key, turns the switch off and sleeps; the   *)
(* sensor thread looks at the switch once a sample.  Nothing but time      *)
(* couples the two, so the model has a clock: the sensor thread finishes a *)
(* sample within SampleMax units, unless a transaction of it fails, and    *)
(* the shell sleeps SleepTime units at least.  Both print, the sensor      *)
(* thread about every failure (i2c_util.c:18-27), and what they print      *)
(* waits for a host that does not read.                                    *)
(***************************************************************************)
EXTENDS Integers

CONSTANTS SleepTime,    \* of the shell, 200 ms (cmd.c:41, 46)
          SampleMax     \* of the sensor thread, if nothing fails

ASSUME SessionAssumption == SleepTime \in Nat /\ SampleMax \in Nat

(* What cal relies on: two samples fit into one sleep. *)
TwoSamplesFit == 2 * SampleMax < SleepTime

VARIABLES
    jscal_switch, state,    \* as in Calibrate
    pc,                     \* what the shell is doing
    key,                    \* a character (or a reset) waits in the channel
    left,                   \* what is left of the shell's sleep
    elapsed,                \* since the sensor thread began its sample
    running,                \* the sensor thread runs: lsm303c_init succeeded
    stalled,                \* a transaction of this sample failed: it takes as long
                            \* as its time-out and its message
    reading,                \* the host reads what is printed
    late,                   \* history: such a sample fell into this cal, or
                            \* the calibration before it was not over
    waited,                 \* history: this cal has slept before its key came
    done                    \* history: cal_data was written since cal began

vars == <<jscal_switch, state, pc, key, left, elapsed, running,
          stalled, reading, late, waited, done>>

Init ==
    /\ jscal_switch = FALSE /\ state = "JSCAL_OFF"
    /\ pc = "prompt" /\ key = FALSE
    /\ left = 0 /\ elapsed = 0
    /\ running \in BOOLEAN /\ stalled = FALSE
    /\ reading = TRUE /\ late = FALSE
    /\ waited = FALSE /\ done = FALSE
-----------------------------------------------------------------------------
(* The shell.  A character may have been typed ahead, if only the line     *)
(* feed after the carriage return that ended the command.                  *)
Cal ==
    /\ pc = "prompt"
    /\ jscal_switch' = TRUE
    /\ pc' = "ask"
    /\ key' \in BOOLEAN
    /\ waited' = FALSE /\ done' = FALSE
    /\ late' = (stalled \/ state # "JSCAL_OFF")
    /\ UNCHANGED <<state, left, elapsed, running, stalled, reading>>

(* "Move joystick to both end points ..." *)
Ask ==
    /\ pc = "ask" /\ reading
    /\ pc' = "poll"
    /\ UNCHANGED <<jscal_switch, state, key, left, elapsed, running, stalled, reading,
                   late, waited, done>>

TypeKey ==
    /\ pc \in {"ask", "poll", "sleep"} /\ ~key
    /\ key' = TRUE
    /\ UNCHANGED <<jscal_switch, state, pc, left, elapsed, running, stalled, reading,
                   late, waited, done>>

MutPollEmptyAlways ==
    /\ pc = "poll"
    /\ pc' = "sleep" /\ left' = SleepTime
    /\ UNCHANGED <<jscal_switch, state, key, elapsed, running, stalled, reading,
                   late, waited, done>>
PollEmpty ==
    /\ pc = "poll" /\ ~key
    /\ pc' = "sleep" /\ left' = SleepTime
    /\ UNCHANGED <<jscal_switch, state, key, elapsed, running, stalled, reading,
                   late, waited, done>>

SleepOver ==
    /\ pc = "sleep" /\ left = 0
    /\ pc' = "poll" /\ waited' = TRUE
    /\ UNCHANGED <<jscal_switch, state, key, left, elapsed, running, stalled, reading,
                   late, done>>

PollKey ==
    /\ pc = "poll" /\ key
    /\ key' = FALSE
    /\ jscal_switch' = FALSE
    /\ pc' = "complete"
    /\ UNCHANGED <<state, left, elapsed, running, stalled, reading, late, waited, done>>

(* "Calibration complete", then the sleep. *)
MutCompleteSleepsLonger ==
    /\ pc = "complete" /\ reading
    /\ pc' = "settle" /\ left' = SleepTime + 1
    /\ UNCHANGED <<jscal_switch, state, key, elapsed, running, stalled, reading,
                   late, waited, done>>
MutCompleteNoSleep ==
    /\ pc = "complete" /\ reading
    /\ pc' = "settle" /\ left' = 0
    /\ UNCHANGED <<jscal_switch, state, key, elapsed, running, stalled, reading,
                   late, waited, done>>
Complete ==
    /\ pc = "complete" /\ reading
    /\ pc' = "settle" /\ left' = SleepTime
    /\ UNCHANGED <<jscal_switch, state, key, elapsed, running, stalled, reading,
                   late, waited, done>>

Settled ==
    /\ pc = "settle" /\ left = 0
    /\ pc' = "print"
    /\ UNCHANGED <<jscal_switch, state, key, left, elapsed, running, stalled, reading,
                   late, waited, done>>

PrintCal ==
    /\ pc = "print" /\ reading
    /\ pc' = "prompt"
    /\ UNCHANGED <<jscal_switch, state, key, left, elapsed, running, stalled, reading,
                   late, waited, done>>
-----------------------------------------------------------------------------
(* The sensor thread.  A transaction fails ... *)
SensorFails ==
    /\ running /\ ~stalled
    /\ stalled' = TRUE /\ late' = TRUE
    /\ UNCHANGED <<jscal_switch, state, pc, key, left, elapsed, running, reading, waited, done>>

(* ... and each of the others ends a sample, once its message is printed:  *)
(* it calls calibrate and begins the next one.                             *)
EndSample ==
    /\ running /\ (stalled => reading)
    /\ elapsed' = 0 /\ stalled' = FALSE
    /\ UNCHANGED <<jscal_switch, pc, key, left, running, reading, late, waited>>

SensorStays ==
    /\ jscal_switch = (state = "JSCAL_ON") /\ state # "JSCAL_END"
    /\ EndSample
    /\ UNCHANGED <<state, done>>

SensorBegin ==
    /\ state = "JSCAL_OFF" /\ jscal_switch
    /\ state' = "JSCAL_ON"
    /\ EndSample
    /\ UNCHANGED done

MutSeesOffSkipsEnd ==
    /\ state = "JSCAL_ON" /\ ~jscal_switch
    /\ state' = "JSCAL_OFF"
    /\ EndSample
    /\ UNCHANGED done
SensorSeesOff ==
    /\ state = "JSCAL_ON" /\ ~jscal_switch
    /\ state' = "JSCAL_END"
    /\ EndSample
    /\ UNCHANGED done

MutEndStays ==
    /\ state = "JSCAL_END"
    /\ done' = TRUE
    /\ EndSample
    /\ UNCHANGED state
SensorEnd ==
    /\ state = "JSCAL_END"
    /\ done' = TRUE
    /\ state' = "JSCAL_OFF"
    /\ EndSample

(* The host stops reading and takes it up again. *)
Host ==
    /\ reading' = ~reading
    /\ UNCHANGED <<jscal_switch, state, pc, key, left, elapsed, running, stalled, late,
                   waited, done>>

(* Time passes, but not past the end of a sample in which nothing failed.  *)
Tick ==
    /\ running /\ ~stalled => elapsed < SampleMax
    /\ elapsed' = IF running /\ ~stalled THEN elapsed + 1 ELSE elapsed
    /\ left' = IF left > 0 THEN left - 1 ELSE 0
    /\ UNCHANGED <<jscal_switch, state, pc, key, running, stalled, reading, late, waited, done>>

ShellStep == Ask \/ PollEmpty \/ SleepOver \/ PollKey \/ Complete \/ Settled \/ PrintCal
SensorStep == SensorStays \/ SensorBegin \/ SensorSeesOff \/ SensorEnd
Next == Cal \/ TypeKey \/ ShellStep \/ SensorFails \/ SensorStep \/ Host \/ Tick

(* Time does not stop; the sensor thread loops for ever (joystick.c:176),  *)
(* and it and the shell run whenever they are neither asleep nor waiting   *)
(* for the host.  Nobody has to type, the host need not read, and every    *)
(* transaction may fail.                                                   *)
Fairness == WF_vars(ShellStep) /\ WF_vars(SensorStep) /\ WF_vars(Tick)
Spec == Init /\ [][Next]_vars /\ Fairness
-----------------------------------------------------------------------------
(* Every variable stays in its type. *)
TypeOK ==
    /\ jscal_switch \in BOOLEAN /\ key \in BOOLEAN /\ running \in BOOLEAN
    /\ stalled \in BOOLEAN /\ reading \in BOOLEAN /\ late \in BOOLEAN
    /\ waited \in BOOLEAN /\ done \in BOOLEAN
    /\ state \in {"JSCAL_OFF", "JSCAL_ON", "JSCAL_END"}
    /\ pc \in {"prompt", "ask", "poll", "sleep", "complete", "settle", "print"}
    /\ left \in 0 .. SleepTime
    /\ elapsed \in 0 .. SampleMax

(* When cal_data is printed and the shell takes the next command (cal_save *)
(* among them), the sensor thread is through with the calibration, if no   *)
(* transaction failed during cal.                                          *)
SensorInTime == pc \in {"print", "prompt"} /\ ~late => state = "JSCAL_OFF"

(* A cal that slept before its key came has a calibration to show for it:  *)
(* unless a transaction failed, the sensor thread cannot have missed the   *)
(* switch.                                                                 *)
CalibratedIfWaited == pc = "print" /\ waited /\ running /\ ~late => done

(* cmd.c:45: "Calibration complete" -- whenever cal says so and there is a *)
(* sensor to calibrate, which answers.                                     *)
CompleteMeansCalibrated == pc = "print" /\ running /\ ~late => done

(* A key ends cal, whatever the sensor thread does, when the host reads    *)
(* from some time on.                                                      *)
KeyEndsCal == <>[]reading => (pc \in {"ask", "poll", "sleep"} /\ key ~> pc = "prompt")

(* However many transactions fail, the sensor thread ends a calibration    *)
(* whose switch was turned off, unless the next cal overtakes it, when the *)
(* host reads from some time on: without that, one failed transaction      *)
(* leaves the thread waiting with its message.                             *)
CalibrationEnds ==
    <>[]reading =>
        (state # "JSCAL_OFF" /\ ~jscal_switch ~> state = "JSCAL_OFF" \/ jscal_switch)
=============================================================================
