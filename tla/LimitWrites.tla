---------------------------- MODULE LimitWrites -----------------------------
(***************************************************************************)
(* The two domains with values of their own to give back: the GPU platform  *)
(* policy and the power limits (exec_gpu_policy, exec_gpu_policy_patch,      *)
(* exec_power_limits and the restore of control/coordinator.rs, the gate of *)
(* control/safety.rs, the comparison of control/verification.rs).  What     *)
(* ControlCoordinator calls "user" and "base" are values here.              *)
(***************************************************************************)
EXTENDS HpTransport

CONSTANTS
  Originals,     \* what the firmware may hold before the session
  LimitRequests, \* SetPowerLimits
  GpuRequests,   \* SetGpuPlatformPolicy
  Patches,       \* SetGpuPlatformPolicyPatch: functions on some fields
  Polls          \* verify_polls

\* Registers hold eighths of a watt, and the policy is four bytes.
Registers == [pl1 : Nat, pl2 : Nat, pl4 : Nat]
ASSUME LimitAssumption ==
  /\ Originals \subseteq [limits : Registers, factory : Registers, gpu : [1..4 -> 0..255]]
  /\ Polls \in Nat

VARIABLES
  feed,      \* the last samples of 0x610 and of the MCHBAR channel
  owed,      \* the dirty flags and the values captured for the restore
  doing,     \* the exec or the restore arm that runs
  before,    \* history: what the firmware held when a value was captured
  doubted    \* history: domains with a rejected call that landed

limitVars == <<hpVars, feed, owed, doing, before, doubted>>

NoValue == [none |-> TRUE]
NothingSampled == [pl1 |-> -1, pl2 |-> -1, pl4 |-> -1, after |-> FALSE, after4 |-> FALSE]
Resting == [what |-> "nothing", domain |-> "gpu", was |-> FALSE, polls |-> 0,
            ok |-> {}, arms |-> <<>>]

LimitInit ==
  /\ \E original \in Originals : TransportInit(original)
  /\ feed = NothingSampled
  /\ owed = [dirty |-> {}, startup |-> NoValue, baseline |-> NoValue]
  /\ doing = Resting
  /\ before = [gpu |-> NoValue, limits |-> NoValue]
  /\ doubted = {}

-----------------------------------------------------------------------------
(* The feed *)

\* A sample taken during a call decides nothing: what is captured is older, and what a
\* restore looks at must be younger.
SamplesLimits ==
  /\ hpCall = NoCall
  /\ feed' = [feed EXCEPT !.pl1 = firmware.limits.pl1, !.pl2 = firmware.limits.pl2,
                          !.after = TRUE]
  /\ UNCHANGED <<hpVars, owed, doing, before, doubted>>

SamplesPl4 ==
  /\ hpCall = NoCall
  /\ feed' = [feed EXCEPT !.pl4 = firmware.limits.pl4, !.after4 = TRUE]
  /\ UNCHANGED <<hpVars, owed, doing, before, doubted>>

\* written_at: the samples there are were taken before.
SamplesAreOld == feed' = [feed EXCEPT !.after = FALSE, !.after4 = FALSE]

HasLimits == feed.pl1 # -1
HasPl4 == feed.pl4 # -1

-----------------------------------------------------------------------------
(* The gate *)

LimitsAllowed(l) ==
  /\ l.pl4 # 0 => l.pl4 \in 30..200 /\ HasPl4
  /\ l.pl1 \in 15..130 /\ l.pl2 \in 15..157
  /\ l.pl2 >= l.pl1
  /\ HasLimits

FieldAllowed(f, v) ==
  /\ f = "dstate" => v \in 1..4
  /\ f = "slowdown" => v = 0 \/ v \in 30..110

GpuAllowed(patch) ==
  DOMAIN patch # {} /\ \A f \in DOMAIN patch : FieldAllowed(f, patch[f])

-----------------------------------------------------------------------------
(* Writing *)

Rests == doing.what = "nothing"
Executes(d) ==
  doing' = [Resting EXCEPT !.what = "exec", !.domain = d, !.was = d \in owed.dirty]

\* The first write of the session, of this process, decides what is restored.
Baseline ==
  IF owed.baseline # NoValue THEN owed.baseline
  ELSE [pl1 |-> RoundedWatts(feed.pl1), pl2 |-> RoundedWatts(feed.pl2),
        pl4 |-> IF HasPl4 THEN RoundedWatts(feed.pl4) ELSE 0]

CapturesLimits ==
  before' = [before EXCEPT !.limits =
               IF owed.baseline = NoValue THEN firmware.limits ELSE @]

SetPowerLimits(l) ==
  /\ Rests /\ LimitsAllowed(l)
  /\ owed' = [owed EXCEPT !.baseline = Baseline, !.dirty = @ \cup {"limits"}]
  /\ CapturesLimits
  /\ Executes("limits")
  /\ StartsCall("limits", EncodeLimits(l))
  /\ SamplesAreOld
  /\ UNCHANGED <<firmware, misses, doubted>>

\* The ledger cannot be saved: no write, and the baseline is captured already.
LimitsUnsaved(l) ==
  /\ Rests /\ LimitsAllowed(l)
  /\ owed' = [owed EXCEPT !.baseline = Baseline]
  /\ CapturesLimits
  /\ UNCHANGED <<hpVars, feed, doing, doubted>>

\* The startup value is read again for as long as nothing is owed.
Startup == IF "gpu" \in owed.dirty THEN owed.startup ELSE DecodeGpu(firmware.gpu)
CapturesGpu ==
  before' = [before EXCEPT !.gpu = IF "gpu" \in owed.dirty THEN @ ELSE DecodeGpu(firmware.gpu)]

\* A patch is laid over what the firmware holds now; a whole policy is a patch
\* of every field.
Patched(patch) ==
  LET now == DecodeGpu(firmware.gpu) IN
  [f \in DOMAIN now |-> IF f \in DOMAIN patch THEN patch[f] ELSE now[f]]

SetGpuPolicy(patch) ==
  /\ Rests /\ GpuAllowed(patch)
  /\ owed' = [owed EXCEPT !.startup = Startup, !.dirty = @ \cup {"gpu"}]
  /\ CapturesGpu
  /\ Executes("gpu")
  /\ StartsCall("gpu", EncodeGpu(Patched(patch)))
  /\ UNCHANGED <<firmware, misses, feed, doubted>>

GpuUnsaved(patch) ==
  /\ Rests /\ GpuAllowed(patch)
  /\ owed' = [owed EXCEPT !.startup = Startup]
  /\ CapturesGpu
  /\ UNCHANGED <<hpVars, feed, doing, doubted>>

\* A definite rejection takes back the obligation this write brought with it.
Revokes(d) == IF Rejected /\ ~doing.was THEN owed.dirty \ {d} ELSE owed.dirty

ExecEnds ==
  /\ doing.what = "exec" /\ Ended
  /\ owed' = [owed EXCEPT !.dirty = Revokes(doing.domain)]
  /\ doubted' = IF RejectedInPart THEN doubted \cup {doing.domain} ELSE doubted
  /\ doing' = Resting
  /\ hpCall' = NoCall
  /\ UNCHANGED <<firmware, misses, feed, before>>

-----------------------------------------------------------------------------
(* Restoring *)

ArmOf(d) == IF d \in owed.dirty THEN <<d>> ELSE <<>>
Arms == ArmOf("gpu") \o ArmOf("limits")
Arm == Head(doing.arms)

RestoreStarts ==
  /\ Rests /\ owed.dirty # {}
  /\ doing' = [Resting EXCEPT !.what = "arm", !.arms = Arms]
  /\ UNCHANGED <<hpVars, feed, owed, before, doubted>>

RestoreWrites ==
  /\ doing.what = "arm" /\ doing.arms # <<>>
  /\ StartsCall(Arm, IF Arm = "gpu" THEN EncodeGpu(owed.startup) ELSE EncodeLimits(owed.baseline))
  /\ doing' = [doing EXCEPT !.what = "writes"]
  /\ UNCHANGED <<firmware, misses, feed, owed, before, doubted>>

\* Only an accepted write is worth a look at the readback.
WriteEnds ==
  /\ doing.what = "writes" /\ Ended
  /\ hpCall' = NoCall
  /\ IF hpCall.end = "accepted"
     THEN doing' = [doing EXCEPT !.what = "verifies", !.polls = Polls]
     ELSE doing' = [doing EXCEPT !.what = "arm", !.arms = Tail(@)]
  /\ SamplesAreOld
  /\ UNCHANGED <<firmware, misses, owed, before, doubted>>

Within(raw, w, eighths) == raw - PerWatt * w \in (-eighths)..eighths

ShowsRestored_anySample(d) ==
  IF d = "gpu"
  THEN [DecodeGpu(firmware.gpu) EXCEPT !.dstate = 0] = [owed.startup EXCEPT !.dstate = 0]
  ELSE /\ Within(feed.pl1, owed.baseline.pl1, PerWatt)
       /\ Within(feed.pl2, owed.baseline.pl2, PerWatt)
       /\ owed.baseline.pl4 # 0 => Within(feed.pl4, owed.baseline.pl4, PerWatt)

\* 0x21 for the policy, without the D-state the firmware moves by itself; for
\* the limits, samples taken after the write, within one watt.
ShowsRestored(d) ==
  IF d = "gpu"
  THEN [DecodeGpu(firmware.gpu) EXCEPT !.dstate = 0] = [owed.startup EXCEPT !.dstate = 0]
  ELSE /\ feed.after
       /\ Within(feed.pl1, owed.baseline.pl1, PerWatt)
       /\ Within(feed.pl2, owed.baseline.pl2, PerWatt)
       /\ owed.baseline.pl4 # 0 =>
            feed.after4 /\ Within(feed.pl4, owed.baseline.pl4, PerWatt)

ArmEnds(ok) ==
  /\ doing' = [doing EXCEPT !.what = "arm", !.arms = Tail(@),
                            !.ok = IF ok THEN @ \cup {Arm} ELSE @]
  /\ UNCHANGED <<hpVars, feed, owed, before, doubted>>

PollConfirms == doing.what = "verifies" /\ ShowsRestored(Arm) /\ ArmEnds(TRUE)

PollAgain ==
  /\ doing.what = "verifies" /\ ~ShowsRestored(Arm) /\ doing.polls > 1
  /\ doing' = [doing EXCEPT !.polls = @ - 1]
  /\ UNCHANGED <<hpVars, feed, owed, before, doubted>>

\* The last poll, or the deadline both domains share, or an unreadable 0x21.
PollFails == doing.what = "verifies" /\ (Arm = "gpu" \/ ~ShowsRestored(Arm)) /\ ArmEnds(FALSE)

RestoreEnds ==
  /\ doing.what = "arm" /\ doing.arms = <<>>
  /\ owed' = [owed EXCEPT !.dirty = @ \ doing.ok]
  /\ doing' = Resting
  /\ UNCHANGED <<hpVars, feed, before, doubted>>

\* The firmware changes the D-state by itself; without an obligation it makes no
\* difference.
DstateDrifts ==
  /\ "gpu" \in owed.dirty
  /\ firmware' = [firmware EXCEPT !.gpu[3] = 3 - @]
  /\ UNCHANGED <<hpCall, misses, feed, owed, doing, before, doubted>>

LimitNext ==
  \/ SamplesLimits \/ SamplesPl4 \/ DstateDrifts
  \/ Attempt /\ UNCHANGED <<feed, owed, doing, before, doubted>>
  \/ \E l \in LimitRequests : SetPowerLimits(l) \/ LimitsUnsaved(l)
  \/ \E p \in GpuRequests \cup Patches : SetGpuPolicy(p) \/ GpuUnsaved(p)
  \/ ExecEnds
  \/ RestoreStarts \/ RestoreWrites \/ WriteEnds
  \/ PollConfirms \/ PollAgain \/ PollFails \/ RestoreEnds

LimitSpec == LimitInit /\ [][LimitNext]_limitVars

-----------------------------------------------------------------------------
SamePolicy(p, q) == [p EXCEPT !.dstate = 0] = [q EXCEPT !.dstate = 0]

\* Rounding to whole watts and the tolerance of the readback add up.
SameLimits(x, y, fields) ==
  \A f \in fields : 2 * (x[f] - y[f]) \in (-3 * PerWatt)..(3 * PerWatt)

GivenBack(d) ==
  IF d = "gpu" THEN SamePolicy(DecodeGpu(firmware.gpu), before.gpu)
  ELSE SameLimits(firmware.limits, before.limits,
         {"pl1", "pl2"} \cup IF owed.baseline.pl4 # 0 THEN {"pl4"} ELSE {})

\* An obligation is dropped, by a restore or by a rejection, only when the
\* firmware holds what it held before the session's first write: through the
\* rounding of a baseline to bytes, the two sentinels of 0x29, the shapes a
\* write is tried in, writes that are accepted and do nothing and samples that
\* are older than the write.  Left out are a domain of which a rejected call
\* did land, and PL4 when its channel was silent as the baseline was captured.
DroppedIsGivenBack ==
  [][\A d \in owed.dirty \ owed'.dirty : d \in doubted' \/ GivenBack(d)]_limitVars

=============================================================================
