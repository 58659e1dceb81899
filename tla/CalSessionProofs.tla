-------------------------- MODULE CalSessionProofs --------------------------
(***************************************************************************)
(* For every duration of the sleep and of a sample, when two samples fit   *)
(* into one sleep and no transaction fails during cal: the sensor thread   *)
(* is in time, and a cal that slept before its key came has a calibration  *)
(* to show for it.                                                         *)
(***************************************************************************)
EXTENDS CalSession, TLAPS

Asking == pc \in {"ask", "poll", "sleep"}

(* The switch is on exactly while cal asks for a key, and only a running   *)
(* sensor thread leaves JSCAL_OFF.                                         *)
Switch ==
    /\ jscal_switch <=> Asking
    /\ ~running => state = "JSCAL_OFF"
    /\ stalled => late
    /\ ~late /\ state = "JSCAL_END" => ~jscal_switch
    /\ ~late /\ pc \in {"prompt", "print"} => state = "JSCAL_OFF"

TwoSamples == 2 * SampleMax

(* What is left of a sleep is more than the sensor thread still needs.     *)
Margin ==
    ~late =>
        /\ pc = "settle" /\ state = "JSCAL_ON" => left > TwoSamples - elapsed
        /\ pc = "settle" /\ state = "JSCAL_END" => left > SampleMax - elapsed
        /\ pc = "sleep" /\ running /\ state = "JSCAL_OFF" => left > SampleMax - elapsed

(* After one sleep the sensor thread has seen the switch.                  *)
Seen ==
    ~late /\ waited /\ running =>
        /\ Asking => state = "JSCAL_ON"
        /\ pc \in {"complete", "settle", "print"} => done \/ state # "JSCAL_OFF"

IInv == TypeOK /\ Switch /\ Margin /\ Seen
-----------------------------------------------------------------------------
LEMMA Durations ==
    /\ SleepTime \in Int /\ SampleMax \in Int /\ 0 <= SleepTime /\ 0 <= SampleMax
    /\ TwoSamples \in Int /\ TwoSamples = 2 * SampleMax
    /\ TwoSamplesFit => TwoSamples < SleepTime
BY SessionAssumption DEF TwoSamples, TwoSamplesFit

LEMMA IInvInit == Init => IInv
<1> SUFFICES ASSUME Init PROVE IInv
  OBVIOUS
<1>1. left \in 0 .. SleepTime /\ elapsed \in 0 .. SampleMax
  BY Durations DEF Init
<1>2. TypeOK
  BY <1>1 DEF Init, TypeOK
<1>3. Switch
  BY DEF Init, Switch, Asking
<1>4. Margin /\ Seen
  BY DEF Init, Margin, Seen
<1> QED
  BY <1>2, <1>3, <1>4 DEF IInv

LEMMA TypeNext == TypeOK /\ [Next]_vars => TypeOK'
<1> SUFFICES ASSUME TypeOK, [Next]_vars PROVE TypeOK'
  OBVIOUS
<1>1. 0 \in 0 .. SleepTime /\ SleepTime \in 0 .. SleepTime /\ 0 \in 0 .. SampleMax
  BY Durations
<1>2. CASE Cal \/ Ask \/ TypeKey \/ SensorFails \/ Host
  <2>1. CASE Cal
    <3>1. late' \in BOOLEAN
      BY <2>1, Zenon DEF Cal
    <3> QED
      BY <2>1, <3>1 DEF Cal, TypeOK
  <2>2. CASE Host
    <3>1. reading' \in BOOLEAN
      BY <2>2, Zenon DEF Host
    <3> QED
      BY <2>2, <3>1 DEF Host, TypeOK
  <2>3. CASE Ask \/ TypeKey \/ SensorFails
    BY <2>3 DEF Ask, TypeKey, SensorFails, TypeOK
  <2> QED
    BY <1>2, <2>1, <2>2, <2>3
<1>3. CASE PollEmpty \/ SleepOver \/ PollKey
  BY <1>1, <1>3 DEF PollEmpty, SleepOver, PollKey, TypeOK
<1>4. CASE Complete \/ Settled \/ PrintCal
  BY <1>1, <1>4 DEF Complete, Settled, PrintCal, TypeOK
<1>5. CASE SensorStep
  BY <1>1, <1>5 DEF SensorStep, SensorStays, SensorBegin, SensorSeesOff, SensorEnd,
                    EndSample, TypeOK
<1>6. CASE Tick
  <2>1. elapsed' \in 0 .. SampleMax
    <3>1. CASE running /\ ~stalled
      <4>1. elapsed \in Int /\ 0 <= elapsed /\ elapsed < SampleMax /\ elapsed' = elapsed + 1
        BY <1>6, <3>1, Durations DEF Tick, TypeOK
      <4> QED
        BY <4>1, Durations
    <3>2. CASE ~(running /\ ~stalled)
      BY <1>6, <3>2 DEF Tick, TypeOK
    <3> QED
      BY <3>1, <3>2
  <2>2. left' \in 0 .. SleepTime
    <3>1. left \in Int /\ 0 <= left /\ left <= SleepTime
      BY Durations DEF TypeOK
    <3>2. left' = IF left > 0 THEN left - 1 ELSE 0
      BY <1>6 DEF Tick
    <3> QED
      BY <3>1, <3>2, Durations
  <2> QED
    BY <1>6, <2>1, <2>2 DEF Tick, TypeOK
<1>7. CASE UNCHANGED vars
  BY <1>7 DEF vars, TypeOK
<1> QED
  BY <1>2, <1>3, <1>4, <1>5, <1>6, <1>7 DEF Next, ShellStep

(* The margin is never used up before the sensor thread is through.        *)
LEMMA NotLate ==
    ASSUME IInv, ~late, left = 0
    PROVE  /\ pc = "settle" => state = "JSCAL_OFF"
           /\ pc = "sleep" /\ running => state # "JSCAL_OFF"
<1>1. left \in Int /\ elapsed \in Int /\ elapsed <= SampleMax
  BY Durations DEF IInv, TypeOK
<1>2. ~(left > TwoSamples - elapsed) /\ ~(left > SampleMax - elapsed)
  BY <1>1, Durations
<1>3. state \in {"JSCAL_OFF", "JSCAL_ON", "JSCAL_END"}
  BY DEF IInv, TypeOK
<1> QED
  BY <1>2, <1>3 DEF IInv, Margin

LEMMA SwitchNext == ASSUME IInv, [Next]_vars PROVE Switch'
<1>1. TypeOK /\ Switch
  BY DEF IInv
<1>2. CASE Cal \/ Ask \/ TypeKey \/ SensorFails \/ Host
  <2>1. CASE Cal
    <3>1. (stalled => late') /\ (~late' => state = "JSCAL_OFF")
      BY <2>1, Zenon DEF Cal
    <3> QED
      BY <1>1, <2>1, <3>1 DEF Cal, Switch, Asking
  <2>2. CASE Ask \/ TypeKey \/ SensorFails \/ Host
    BY <1>1, <2>2 DEF Ask, TypeKey, SensorFails, Host, Switch, Asking
  <2> QED
    BY <1>2, <2>1, <2>2
<1>3. CASE PollEmpty \/ SleepOver
  BY <1>1, <1>3 DEF PollEmpty, SleepOver, Switch, Asking
<1>4. CASE PollKey \/ Complete
  BY <1>1, <1>4 DEF PollKey, Complete, Switch, Asking
<1>5. CASE Settled
  <2>1. ~late => state = "JSCAL_OFF"
    BY <1>5, NotLate DEF Settled
  <2> QED
    BY <1>1, <1>5, <2>1 DEF Settled, Switch, Asking
<1>6. CASE PrintCal \/ Tick
  BY <1>1, <1>6 DEF PrintCal, Tick, Switch, Asking
<1>7. CASE SensorStep
  BY <1>1, <1>7 DEF SensorStep, SensorStays, SensorBegin, SensorSeesOff, SensorEnd,
                    EndSample, Switch, Asking, TypeOK
<1>8. CASE UNCHANGED vars
  BY <1>1, <1>8 DEF vars, Switch, Asking
<1> QED
  BY <1>2, <1>3, <1>4, <1>5, <1>6, <1>7, <1>8 DEF Next, ShellStep

LEMMA MarginNext == ASSUME TwoSamplesFit, IInv, [Next]_vars PROVE Margin'
<1>1. /\ left \in Int /\ elapsed \in Int /\ 0 <= left /\ 0 <= elapsed /\ elapsed <= SampleMax
  BY Durations DEF IInv, TypeOK
<1>2. CASE Cal \/ SensorFails
  <2>1. ~late' => Cal /\ state = "JSCAL_OFF" /\ pc' = "ask"
    BY <1>2 DEF Cal, SensorFails
  <2> QED
    BY <2>1 DEF Margin
<1>3. CASE Ask \/ TypeKey \/ PollKey \/ SleepOver \/ Settled \/ PrintCal \/ Host
  BY <1>3 DEF Ask, TypeKey, PollKey, SleepOver, Settled, PrintCal, Host, IInv, Margin
<1>4. CASE PollEmpty \/ Complete
  <2>1. elapsed' = elapsed /\ left' = SleepTime
    BY <1>4 DEF PollEmpty, Complete
  <2>2. SleepTime > TwoSamples - elapsed /\ SleepTime > SampleMax - elapsed
    BY <1>1, Durations
  <2> QED
    BY <2>1, <2>2 DEF Margin
<1>5. CASE SensorStays \/ SensorBegin
  <2>1. /\ pc' = pc /\ left' = left /\ running' = running /\ late' = late
        /\ state' # "JSCAL_END" /\ (state' = "JSCAL_OFF" => pc # "sleep")
        /\ (pc = "settle" => state' # "JSCAL_ON")
    BY <1>5 DEF SensorStays, SensorBegin, EndSample, IInv, Switch, Asking
  <2> QED
    BY <2>1 DEF Margin
<1>6. CASE SensorSeesOff
  <2>1. /\ pc' = pc /\ left' = left /\ elapsed' = 0 /\ state' = "JSCAL_END"
        /\ state = "JSCAL_ON" /\ late' = late
    BY <1>6 DEF SensorSeesOff, EndSample
  <2>2. ~late /\ pc = "settle" => left > TwoSamples - elapsed
    BY <2>1 DEF IInv, Margin
  <2>3. left > TwoSamples - elapsed => left > SampleMax - 0
    BY <1>1, Durations
  <2> QED
    BY <2>1, <2>2, <2>3 DEF Margin
<1>7. CASE SensorEnd
  BY <1>7 DEF SensorEnd, EndSample, IInv, Switch, Asking, Margin
<1>8. CASE Tick
  <2>1. ASSUME running, ~stalled, NEW m \in {SampleMax, TwoSamples}, left > m - elapsed
        PROVE  left' > m - elapsed'
    <3>1. elapsed' = elapsed + 1 /\ elapsed < SampleMax
      BY <1>8, <2>1 DEF Tick
    <3>2. m \in Int /\ m >= SampleMax
      BY Durations
    <3>3. left > 0
      BY <1>1, <2>1, <3>2, Durations
    <3>4. left' = left - 1
      BY <1>8, <3>3 DEF Tick
    <3> QED
      BY <1>1, <2>1, <3>1, <3>2, <3>4
  <2>2. pc' = pc /\ state' = state /\ running' = running /\ late' = late
    BY <1>8 DEF Tick
  <2>3. (state # "JSCAL_OFF" => running) /\ (~late => ~stalled)
    BY DEF IInv, Switch
  <2>4. ~late /\ pc = "settle" /\ state = "JSCAL_ON" => left' > TwoSamples - elapsed'
    BY <2>1, <2>3 DEF IInv, Margin
  <2>5. ~late /\ pc = "settle" /\ state = "JSCAL_END" => left' > SampleMax - elapsed'
    BY <2>1, <2>3 DEF IInv, Margin
  <2>6. ~late /\ pc = "sleep" /\ running /\ state = "JSCAL_OFF" => left' > SampleMax - elapsed'
    BY <2>1, <2>3 DEF IInv, Margin
  <2> QED
    BY <2>2, <2>4, <2>5, <2>6 DEF Margin
<1>9. CASE UNCHANGED vars
  BY <1>9 DEF vars, IInv, Margin
<1> QED
  BY <1>2, <1>3, <1>4, <1>5, <1>6, <1>7, <1>8, <1>9 DEF Next, ShellStep, SensorStep

LEMMA SeenNext == ASSUME IInv, [Next]_vars PROVE Seen'
<1>1. TypeOK /\ Switch /\ Seen
  BY DEF IInv
<1>2. CASE Cal \/ SensorFails
  BY <1>2 DEF Cal, SensorFails, Seen
<1>3. CASE SleepOver
  <2>1. ~late /\ running => state = "JSCAL_ON"
    BY <1>1, <1>3, NotLate DEF SleepOver, TypeOK, Switch, Asking
  <2> QED
    BY <1>3, <2>1 DEF SleepOver, Seen, Asking
<1>4. CASE Ask \/ TypeKey \/ PollEmpty \/ PollKey
  BY <1>1, <1>4 DEF Ask, TypeKey, PollEmpty, PollKey, Seen, Asking
<1>5. CASE Complete \/ Settled \/ PrintCal
  BY <1>1, <1>5 DEF Complete, Settled, PrintCal, Seen, Asking
<1>6. CASE SensorStep
  BY <1>1, <1>6 DEF SensorStep, SensorStays, SensorBegin, SensorSeesOff, SensorEnd,
                    EndSample, Switch, Seen, Asking
<1>7. CASE Host \/ Tick
  BY <1>1, <1>7 DEF Host, Tick, Seen, Asking
<1>8. CASE UNCHANGED vars
  BY <1>1, <1>8 DEF vars, Seen, Asking
<1> QED
  BY <1>2, <1>3, <1>4, <1>5, <1>6, <1>7, <1>8 DEF Next, ShellStep

LEMMA InductiveInvariant == ASSUME TwoSamplesFit PROVE Spec => []IInv
<1>1. IInv /\ [Next]_vars => IInv'
  BY TypeNext, SwitchNext, MarginNext, SeenNext DEF IInv
<1> QED
  BY <1>1, IInvInit, PTL DEF Spec

(* Every variable of the session stays in its type; the sleep never runs   *)
(* below zero and no sample lasts longer than it may.                      *)
THEOREM SessionTypeCorrect == Spec => []TypeOK
<1>1. Init => TypeOK
  BY IInvInit DEF IInv
<1> QED
  BY <1>1, TypeNext, PTL DEF Spec

(* The sleep at cmd.c:46 is long enough: cal_data is printed, and the next *)
(* command taken, only when the sensor thread is through, unless one of    *)
(* its transactions failed since cal began.                                *)
THEOREM SensorAlwaysInTime == ASSUME TwoSamplesFit PROVE Spec => []SensorInTime
<1>1. IInv => SensorInTime
  BY DEF IInv, Switch, SensorInTime
<1> QED
  BY <1>1, InductiveInvariant, PTL

(* The sleep in the polling loop (cmd.c:41) is long enough for the sensor  *)
(* thread to see the switch, unless one of its transactions failed.        *)
THEOREM WaitingCalibrates == ASSUME TwoSamplesFit PROVE Spec => []CalibratedIfWaited
<1>1. IInv => CalibratedIfWaited
  BY DEF IInv, Switch, Seen, CalibratedIfWaited
<1> QED
  BY <1>1, InductiveInvariant, PTL
=============================================================================
