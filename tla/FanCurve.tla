------------------------------ MODULE FanCurve ------------------------------
(***************************************************************************)
(* The software fan curve: the controller (control/fan_curve.rs), the curve *)
(* (FanCurve in policy.rs), its gate (safety.rs) and the places where the   *)
(* coordinator uses them: the fan modes, the safety tick, the heartbeat,    *)
(* and the handback to the firmware with max fan as its fallback.  Max fan  *)
(* (0x27) lies over the levels (0x2E).                                      *)
(*                                                                          *)
(* Temperatures and levels are integers; the halving of the distance in the *)
(* smoothing ends when it is below one degree.  The samples stay below the  *)
(* thermal override, which ControlCoordinator models.                       *)
(***************************************************************************)
EXTENDS Integers, Sequences

CONSTANTS
  Curves,      \* curves that are asked for: sequences of [temp, left, right]
  CpuTemps,    \* CPU temperatures in this instance
  GpuTemps,    \* GPU temperatures in this instance
  Clamp,       \* the levels the board allows
  MaxFaults    \* bound: failing operations and claw-backs

NoTemp == -1
FirmwareAuto == <<0, 0>>

ASSUME FanCurveAssumption ==
  /\ CpuTemps \subseteq Nat /\ GpuTemps \subseteq Nat
  /\ Clamp \subseteq Nat /\ (\A l, h \in Clamp : l..h \subseteq Clamp) /\ MaxFaults \in Nat
  /\ \A c \in Curves : c \in Seq([temp : Nat, left : Nat, right : Nat]) /\ Len(c) > 0

VARIABLES
  fans,       \* firmware: the levels it drives the fans at, FirmwareAuto when it decides itself
  maxFan,     \* max fan: what it is, "stray" when a call of unknown outcome turned it on,
              \* and the observed max_fan
  fanMode,    \* observed fan_mode: "unknown", "auto", "curve", or "other" (manual, max)
  fanDirty,   \* fan_control_dirty
  curve,      \* the curve of that mode
  ctl,        \* FanCurveController: last_target, smoothed_temp_c, written within the last second
  temps,      \* latest samples, NoTemp when older than five seconds
  faults      \* counter for the bound

fanVars == <<fans, maxFan, fanMode, fanDirty, curve, ctl, temps, faults>>

Cleared == [last |-> FirmwareAuto, smoothed |-> NoTemp, recent |-> FALSE]
NoCurve == <<>>

-----------------------------------------------------------------------------
(* FanCurve::validate, validate_fan_levels *)

ValidCurve(c) ==
  /\ \A i \in 1..Len(c) - 1 : c[i].temp < c[i + 1].temp
  /\ \A i \in 1..Len(c) : {c[i].left, c[i].right} \subseteq Clamp \ {0}

(* FanCurve::target_at *)

\* Rounded half up, as round() does for positive numbers.
Interpolated(low, high, part, span) == (2 * (low * span + (high - low) * part) + span) \div (2 * span)

Levels_(point) == <<point.left, point.right>>

\* The first point at or above the temperature, or the last one.
Upper(c, t) ==
  IF t > c[Len(c)].temp THEN Len(c)
  ELSE CHOOSE i \in 1..Len(c) : t <= c[i].temp /\ \A j \in 1..i - 1 : c[j].temp < t

TargetAt(c, t) ==
  LET i == Upper(c, t) IN
    IF i = 1 \/ t > c[i].temp THEN Levels_(c[i])
    ELSE LET part == t - c[i - 1].temp
             span == c[i].temp - c[i - 1].temp
         IN <<Interpolated(c[i - 1].left, c[i].left, part, span),
              Interpolated(c[i - 1].right, c[i].right, part, span)>>

\* effective_temperature: the hotter of the two, but never without the CPU's.
Effective ==
  IF temps.cpu = NoTemp THEN NoTemp
  ELSE IF temps.gpu > temps.cpu THEN temps.gpu ELSE temps.cpu

\* Half of the way from the smoothed temperature to the sample.
Smoothed(previous, t) ==
  IF previous = NoTemp THEN t
  ELSE IF previous <= t THEN t - (t - previous) \div 2 ELSE t + (previous - t) \div 2

-----------------------------------------------------------------------------
FanLevels == {FirmwareAuto} \cup (Clamp \X Clamp)
MaxFans == [is : {"on", "off", "stray"}, seen : {"unknown", "on", "off"}]

CurveTypeOK ==
  /\ fans \in FanLevels /\ fanMode \in {"unknown", "auto", "curve", "other"}
  /\ maxFan \in MaxFans /\ fanDirty \in BOOLEAN
  /\ curve \in Curves \cup {NoCurve} /\ (fanMode = "curve" => ValidCurve(curve))
  /\ ctl \in [last : FanLevels, smoothed : Int, recent : BOOLEAN]
  /\ temps \in [cpu : CpuTemps \cup {NoTemp}, gpu : GpuTemps \cup {NoTemp}]
  /\ faults \in 0..MaxFaults

\* A session that ended without its handback may have left max fan on, and its record.
CurveInit ==
  /\ fans = FirmwareAuto /\ fanMode = "unknown" /\ curve = NoCurve
  /\ fanDirty \in BOOLEAN
  /\ maxFan = [is |-> IF fanDirty THEN "stray" ELSE "off", seen |-> "unknown"]
  /\ ctl = Cleared
  /\ temps = [cpu |-> NoTemp, gpu |-> NoTemp]
  /\ faults = 0

Faulty == faults < MaxFaults /\ faults' = faults + 1

\* record_failure: the target counts as not sent.
RecordFailure(c) == [c EXCEPT !.recent = TRUE]

MaxOn  == [is |-> "on", seen |-> "on"]
MaxOff == [is |-> "off", seen |-> "off"]

\* A call for max fan that fails may have arrived all the same.
TriedOff(m) == {m, [m EXCEPT !.is = "off"]}
TriedOn(m)  == {m} \cup (IF m.is = "off" THEN {[m EXCEPT !.is = "stray"]} ELSE {})

\* restore_firmware_auto, for the fans: max fan is released first, unless it is known to
\* be off.
FansRestored(m) ==
  /\ fans' = FirmwareAuto /\ fanMode' = "auto" /\ curve' = NoCurve
  /\ maxFan' = IF m.seen = "off" THEN m ELSE MaxOff
  /\ ctl' = Cleared /\ fanDirty' = FALSE

\* Its fallback where one of the two calls failed.
Rearmed(m) == maxFan' \in {MaxOn} \cup TriedOn(m)

\* The restore fails too: max fan goes on, the obligation and the observed mode stay, and
\* a handback that timed out may have arrived.
FansNotRestored(mine, possible, m) ==
  /\ \/ m.seen # "off" /\ fans' \in possible /\ (\E tried \in TriedOff(m) : Rearmed(tried))
     \/ /\ fans' \in possible \cup {FirmwareAuto}
        /\ Rearmed(IF m.seen = "off" THEN m ELSE MaxOff)
  /\ ctl' = mine /\ fanDirty' = TRUE
  /\ UNCHANGED <<fanMode, curve>>

\* A write of `target` fails, in place or not, and the fans go back to the firmware.
WriteFails(target, m) ==
  /\ Faulty
  /\ \/ FansRestored(m)
     \/ FansNotRestored(RecordFailure(ctl), {fans, target}, m)

\* Before levels are set, max fan is released where it is shown to be on; a session that
\* does not know leaves it.
MaxReleased(m) == IF m.seen = "on" THEN MaxOff ELSE m

\* That call fails, and the mode is not changed.
ReleaseFails ==
  /\ Faulty /\ maxFan' \in TriedOff(maxFan) /\ fanDirty' = TRUE
  /\ UNCHANGED <<fans, fanMode, curve, ctl>>

-----------------------------------------------------------------------------
\* exec_fan_mode(Curve): the first target from the sample itself.
ActivatesCurve(c) ==
  /\ ValidCurve(c) /\ Effective # NoTemp
  /\ LET target == TargetAt(c, Effective) IN
       \/ /\ fans' = target /\ fanMode' = "curve" /\ curve' = c
          /\ maxFan' = [MaxReleased(maxFan) EXCEPT !.seen = "off"]
          /\ ctl' = [last |-> target, smoothed |-> Effective, recent |-> TRUE]
          /\ fanDirty' = TRUE /\ UNCHANGED faults
       \/ maxFan.seen = "on" /\ ReleaseFails
       \/ WriteFails(target, MaxReleased(maxFan))
  /\ UNCHANGED temps

\* exec_fan_mode(Manual): only after a release is a failed write handed back.
ActivatesManual(target) ==
  /\ \/ /\ fans' = target /\ fanMode' = "other" /\ curve' = NoCurve
        /\ maxFan' = [MaxReleased(maxFan) EXCEPT !.seen = "off"]
        /\ ctl' = Cleared /\ fanDirty' = TRUE /\ UNCHANGED faults
     \/ maxFan.seen = "on" /\ ReleaseFails
     \/ /\ maxFan.seen = "on" /\ Faulty
        /\ FansRestored(MaxOff) \/ FansNotRestored(ctl, {fans, target}, MaxOff)
     \/ /\ maxFan.seen # "on" /\ Faulty
        /\ fans' \in {fans, target} /\ fanDirty' = TRUE
        /\ UNCHANGED <<maxFan, fanMode, curve, ctl>>
  /\ UNCHANGED temps

\* exec_fan_mode(Max): the levels below it stay.
ActivatesMax ==
  /\ \/ /\ maxFan' = MaxOn /\ fanMode' = "other" /\ curve' = NoCurve
        /\ ctl' = Cleared /\ UNCHANGED faults
     \/ Faulty /\ maxFan' \in TriedOn(maxFan) /\ UNCHANGED <<fanMode, curve, ctl>>
  /\ fanDirty' = TRUE
  /\ UNCHANGED <<fans, temps>>

\* exec_fan_mode(FirmwareAuto) has no fallback, and no level to write where the mode is
\* "auto" already.
ActivatesAuto ==
  /\ LET m == IF maxFan.seen = "off" THEN maxFan ELSE MaxOff IN
       \/ /\ fans' = IF fanMode = "auto" THEN fans ELSE FirmwareAuto
          /\ maxFan' = m /\ fanMode' = "auto" /\ curve' = NoCurve
          /\ ctl' = Cleared /\ fanDirty' = FALSE /\ UNCHANGED faults
       \/ maxFan.seen # "off" /\ ReleaseFails
       \/ /\ fanMode # "auto" /\ Faulty
          /\ fans' \in {fans, FirmwareAuto} /\ maxFan' = m /\ fanDirty' = TRUE
          /\ UNCHANGED <<fanMode, curve, ctl>>
  /\ UNCHANGED temps

\* run_fan_curve at a safety tick.
CurveTick ==
  /\ fanMode = "curve" /\ Effective # NoTemp
  /\ LET smoothed == Smoothed(ctl.smoothed, Effective)
         target == TargetAt(curve, smoothed)
     IN IF target = ctl.last \/ ctl.recent
        THEN ctl' = [ctl EXCEPT !.smoothed = smoothed] /\ UNCHANGED fans
        ELSE /\ fans' = target
             /\ ctl' = [last |-> target, smoothed |-> smoothed, recent |-> TRUE]
  /\ UNCHANGED <<maxFan, fanMode, fanDirty, curve, temps, faults>>

CurveTickFails ==
  /\ fanMode = "curve" /\ Effective # NoTemp
  /\ LET smoothed == Smoothed(ctl.smoothed, Effective)
         target == TargetAt(curve, smoothed)
     IN /\ target # ctl.last /\ ~ctl.recent
        /\ Faulty
        /\ \/ FansRestored(maxFan)
           \/ FansNotRestored(RecordFailure([ctl EXCEPT !.smoothed = smoothed]),
                              {fans, target}, maxFan)
  /\ UNCHANGED temps

SecondPasses ==
  /\ ctl.recent
  /\ ctl' = [ctl EXCEPT !.recent = FALSE]
  /\ UNCHANGED <<fans, maxFan, fanMode, fanDirty, curve, temps, faults>>

Reasserted_never(last) == fans

\* The heartbeat repeats the last target (ReAssert::FanLevels), once there is one, and max
\* fan where it is shown to be on (ReAssert::MaxFan).
Reasserted(last) == IF last = FirmwareAuto THEN fans ELSE last

Heartbeat ==
  /\ fanMode = "curve"
  /\ fans' = Reasserted(ctl.last)
  /\ maxFan' = IF maxFan.seen = "on" THEN MaxOn ELSE maxFan
  /\ UNCHANGED <<fanMode, fanDirty, curve, ctl, temps, faults>>

\* It stops at the first of its calls that fails.
HeartbeatFails ==
  /\ fanMode = "curve" /\ Faulty
  /\ fans' \in {fans, Reasserted(ctl.last)}
  /\ maxFan' \in {maxFan} \cup (IF maxFan.seen = "on" THEN TriedOn(maxFan) ELSE {})
  /\ UNCHANGED <<fanMode, fanDirty, curve, ctl, temps>>

\* The user, the watchdog, repeated heartbeat failures and the shutdown end the curve.
HandsBack ==
  /\ fanDirty
  /\ \/ FansRestored(maxFan) /\ UNCHANGED faults
     \/ Faulty /\ FansNotRestored(ctl, {fans}, maxFan)
  /\ UNCHANGED temps

\* External: the firmware takes the fans back (no heartbeat in time, a change of the
\* power source).
FansClawedBack ==
  /\ (fans # FirmwareAuto \/ maxFan.is # "off") /\ Faulty
  /\ fans' = FirmwareAuto /\ maxFan' = [maxFan EXCEPT !.is = "off"]
  /\ UNCHANGED <<fanMode, fanDirty, curve, ctl, temps>>

\* Telemetry: samples come, or stop coming.
SamplesArrive ==
  /\ temps' \in [cpu : CpuTemps \cup {NoTemp}, gpu : GpuTemps \cup {NoTemp}]
  /\ temps' # temps
  /\ UNCHANGED <<fans, maxFan, fanMode, fanDirty, curve, ctl, faults>>

CurveNext ==
  \/ \E c \in Curves : ActivatesCurve(c)
  \/ \E c \in Curves : ValidCurve(c) /\ ActivatesManual(Levels_(c[1]))
  \/ ActivatesMax \/ ActivatesAuto
  \/ CurveTick \/ CurveTickFails \/ SecondPasses \/ Heartbeat \/ HeartbeatFails
  \/ HandsBack \/ FansClawedBack \/ SamplesArrive

CurveSpec == CurveInit /\ [][CurveNext]_fanVars

\* The coordinator's loop wakes at least once a second while a curve is held, and its
\* heartbeat is due once a minute.
CurveFairness ==
  /\ WF_fanVars(CurveTick)
  /\ WF_fanVars(SecondPasses)
  /\ WF_fanVars(Heartbeat)

-----------------------------------------------------------------------------
(* Properties *)

\* Max fan never lies over the levels unseen, unless a call that failed put it there.
MaxFanIsShown == maxFan.is = "on" => maxFan.seen = "on"

\* A held curve and temperatures that stay: the levels end up at the curve's for them,
\* through smoothing, the one write per second, writes that fail or arrive late, failed
\* handbacks and claw-backs; and where a failed handback has put max fan over them, the
\* coordinator shows so.
CurveSettles ==
  <>[][UNCHANGED <<temps, fanMode, curve>>]_fanVars =>
    <>[](fanMode = "curve" /\ Effective # NoTemp =>
           fans = TargetAt(curve, Effective) /\ MaxFanIsShown)

=============================================================================
