-------------------------- MODULE SafetySupervisor --------------------------
(***************************************************************************)
(* control/safety.rs: the thermal hysteresis, the sensor watchdog and the  *)
(* write-time gate, as operators over what the coordinator passes in: the  *)
(* observed fan state, the saved mode of an active override ("none" when   *)
(* no override is active) and the class of the latest samples.             *)
(*                                                                         *)
(* Sample classes (evaluate() compares ages with 5 s and 90 s and values   *)
(* with 85 and 90 degrees):                                                *)
(*   "cool"     CPU fresh and <= 85, GPU absent or fresh and <= 85         *)
(*   "warm"     CPU fresh, neither cool nor hot                            *)
(*   "hot"      CPU fresh, a fresh CPU or GPU value >= 90                  *)
(*   "gpuHot"   CPU fresh and below 90, GPU sample 5..90 s old and >= 90   *)
(*   "gpuOnly"  CPU sample 5..90 s old, GPU fresh and >= 90                *)
(*   "staleHot" CPU sample 5..90 s old, a value >= 90 but no fresh one     *)
(*   "stale"    CPU sample 5..90 s old, last values below 90               *)
(*   "fanless"  CPU fresh, fan samples older than 90 s or absent           *)
(*   "frozen"   CPU sample older than 90 s or absent, or 5..90 s old and   *)
(*              no fan sample                                              *)
(***************************************************************************)

Samples == {"cool", "warm", "hot", "gpuHot", "gpuOnly", "staleHot", "stale", "fanless", "frozen"}
FreshSamples == {"cool", "warm", "hot", "gpuHot", "fanless"}
HotSamples == {"hot", "gpuHot", "gpuOnly", "staleHot"}
FreshHotSamples == {"hot", "gpuOnly"}

FanModes == {"auto", "max", "manual", "curve"}
HeldModes == {"manual", "curve"}
NoOverride == "none"
Overrides == FanModes \cup {NoOverride}

\* The user, not the firmware curve, decides the fan speed.
UserHolds(o) == o.fan \in HeldModes \/ o.max = "on"

\* Watchdog: samples stopped while the fans are held or overridden.
Blind(o, ov, s) ==
  /\ UserHolds(o) \/ ov # NoOverride
  /\ s \in {"frozen", "fanless"}

\* Hysteresis release: fresh and cool again.
Releases(o, ov, s) ==
  /\ ~Blind(o, ov, s)
  /\ ov # NoOverride
  /\ s = "cool"

\* Mutant: a user on max fan is not taken for a holder of the fans.
Engages_ForgetsMax(o, ov, s) ==
  ov = NoOverride /\ o.fan \in HeldModes /\ s \in HotSamples

\* Hysteresis engage: the ceiling is reached while the user holds the fans.
Engages(o, ov, s) ==
  /\ ov = NoOverride
  /\ UserHolds(o)
  /\ s \in HotSamples

\* Mutant: the first failure of the max-fan write is final.
Retries_Never(o, ov, s) == FALSE

\* A failed max-fan write is retried while a fresh sample is hot.
Retries(o, ov, s) ==
  /\ ov # NoOverride
  /\ s \in FreshHotSamples
  /\ o.max # "on"

\* The mode the override hands back on release.
SavedMode(o) == IF o.fan = "unknown" THEN "auto" ELSE o.fan

\* note_user_fan_mode: auto ends the override, another mode replaces the saved one.
NoteUserFanMode(ov, mode) ==
  IF mode = "auto" \/ ov = NoOverride THEN NoOverride ELSE mode

\* Mutant: the gate looks at the samples only.
FanStepAllowed_UnderOverride(mode, ov, s) == mode \in HeldModes => s \in FreshSamples

\* validate() of a fan step: held levels need fresh samples and no override.
FanStepAllowed(mode, ov, s) ==
  mode \in HeldModes => ov = NoOverride /\ s \in FreshSamples

=============================================================================
