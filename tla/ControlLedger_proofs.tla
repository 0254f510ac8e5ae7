------------------------- MODULE ControlLedger_proofs -------------------------
(***************************************************************************)
(* Safety of the restore ledger and of the safety override, for every set  *)
(* of plans, sessions, schemes and samples.                                *)
(*                                                                         *)
(* LedgerCovers speaks of the firmware and the file only, so it is far     *)
(* from inductive: the coordinator decides what to write, and what it owes *)
(* no longer, on what it has observed and where it stands in a handler.    *)
(* IInv ties these together: the obligations in memory cover what was      *)
(* touched, an observed "off" or "auto" really is the firmware state, and  *)
(* at every point before a write the obligation is both in memory and on   *)
(* disk.                                                                   *)
(***************************************************************************)
EXTENDS ControlCoordinator_proofs

\* A fan write that may still land is in doubt.
StuckDoubted == stuck.ch \in FanChannels => doubt[stuck.ch] # "none"

-----------------------------------------------------------------------------
(* Obligations *)

OnDisk == \A ch \in Touched : DomainOf(ch) \in disk.dom

InMemory ==
  ~Pending(prev) /\ pc # "crashed" => \A ch \in Touched : DomainOf(ch) \in dirty

\* Only a forced max fan may be owed without being saved.
DirtyOnDisk == dirty \subseteq disk.dom \cup {"fan"}

Unobserved == obs.fan = "unknown" /\ obs.max = "unknown" /\ obs.thermal = "unknown"

\* While an earlier session's record is pending nothing is written.
OldSession ==
  Pending(prev) =>
    /\ disk = prev /\ dirty = {} /\ ~scope.on /\ Unobserved /\ override = NoOverride
    /\ active.plan \in {<<>>, <<RestoreSession>>} /\ active.waiting = "none"
    /\ pc \in {"loop", "heartbeat", "session", "r.end", "failed", "finish", "stopped"}
    /\ pc \in {"session", "failed"} => frame.ctx = "plan"
    /\ pc = "r.end" => frame.ret = "stop" /\ frame.done = {}

LedgerInv == OnDisk /\ InMemory /\ DirtyOnDisk /\ OldSession /\ SessionIsDurable

(* What was observed *)

OffIsOff == obs.max = "off" => "max" \notin Touched
AutoIsAuto == obs.fan = "auto" => "level" \notin Touched
HeldIsOwned == obs.fan \in HeldModes => "fan" \in dirty /\ "fan" \in disk.dom
OnIsOwned == obs.max = "on" => "fan" \in dirty
ThermalIsOwned == obs.thermal = "user" => "thermal" \in dirty

ObsInv == OffIsOff /\ AutoIsAuto /\ HeldIsOwned /\ OnIsOwned /\ ThermalIsOwned

(* Where a handler stands *)

WriteLabels == {"set"} \cup FanLabels

RestoredIsBase ==
  pc \in RestoreLabels =>
    /\ Touched \cap frame.done = {}
    /\ "max" \in frame.done => obs.max = "off"
    /\ pc \in {"r.max", "r.auto", "r.rearm"} => "fan" \in dirty
    /\ active.plan # <<>> => active.stale

OwnedAtWrite ==
  /\ pc \in WriteLabels => frame.cur.op \in dirty /\ frame.cur.op \in disk.dom
  /\ pc = "set" /\ ~frame.wasDirty =>
       /\ frame.cur.op \notin Touched
       /\ frame.cur.op = "thermal" => obs.thermal # "user"

FanPoints ==
  /\ pc \in {"auto.level", "auto.done"} => obs.max = "off"
  /\ pc = "auto.done" => "level" \notin Touched
  /\ pc = "held.level" => obs.max # "on"
  /\ pc = "curve" => obs.fan = "curve"

\* Held levels are written, and max fan released for them, under no override.
NoOverrideAtHeld ==
  pc \in {"own", "release"} \cup WriteLabels
    /\ (frame.ctx = "release" \/ frame.cur.val \in HeldModes) => override = NoOverride

\* A manual level waits for its readback: only an override and its release come between.
FanReadback ==
  /\ active.waiting = "fan" /\ ~active.stale =>
       /\ obs.fan = "manual" /\ override \in {NoOverride, "manual"}
       /\ InRelease /\ pc # "applied" => frame.cur.val = "manual"
  /\ InPlan /\ pc # "applied" => active.waiting = "none"

PointInv ==
  /\ RestoredIsBase /\ OwnedAtWrite /\ FanPoints /\ NoOverrideAtHeld /\ FanReadback
  /\ StalePlanNeverWrites

IInv == StuckDoubted /\ LedgerInv /\ ObsInv /\ PointInv

-----------------------------------------------------------------------------
(* What the firmware calls touch *)

LEMMA TouchedByCalls ==
  ASSUME HwTypeOK, StuckDoubted, NEW ch \in Channels
  PROVE  /\ Accepted(ch, "base") => Touched' \subseteq Touched \ {ch} /\ StuckDoubted'
         /\ Accepted(ch, "user") => Touched' \subseteq Touched \cup {ch} /\ StuckDoubted'
         /\ Refused => Touched' \subseteq Touched /\ StuckDoubted'
         /\ Unknown(ch, "base") => Touched' \subseteq Touched /\ StuckDoubted'
         /\ Unknown(ch, "user") =>
              Touched' \subseteq Touched \cup ({ch} \ FanChannels) /\ StuckDoubted'
  <1>1. \A c \in Channels : Settled[c] = "user" => Changed(c)
    BY DEF HwTypeOK, Settled, Changed, Writes, NoWrite, Channels, Values
  <1>2. \A c : stuck' = NoWrite => (Changed(c)' <=> hw'[c] = "user") /\ StuckDoubted'
    BY DEF Changed, NoWrite, StuckDoubted, FanChannels
  <1>3. ASSUME NEW v \in Values, Accepted(ch, v)
        PROVE  /\ Touched' \subseteq Touched \cup {ch} /\ StuckDoubted'
               /\ v = "base" => ch \notin Touched'
    <2>1. \A c \in Channels \ {ch} : hw'[c] = Settled[c] /\ (Vouched(c)' <=> Vouched(c))
      BY <1>3 DEF Accepted, HwTypeOK, Settled, Doubted, Vouched
    <2>2. hw'[ch] = v
      BY <1>3 DEF Accepted, HwTypeOK, Settled
    <2> QED BY <1>1, <1>2, <1>3, <2>1, <2>2 DEF Accepted, Touched
  <1>4. Refused => Touched' \subseteq Touched /\ StuckDoubted'
    BY <1>1, <1>2 DEF Refused, Touched, Vouched
  <1>5. ASSUME NEW v \in Values, Unknown(ch, v)
        PROVE  /\ Touched' \subseteq Touched \cup (IF v = "user" THEN {ch} \ FanChannels ELSE {})
               /\ StuckDoubted'
    <2>1. /\ hw' = hw /\ stuck' \in {stuck, [ch |-> ch, val |-> v]}
          /\ \A c \in FanChannels : doubt'[c] = IF c = ch THEN "unknown" ELSE doubt[c]
      BY <1>5 DEF Unknown, Doubted
    <2>2. StuckDoubted'
      BY <2>1 DEF StuckDoubted
    <2>3. \A c \in Channels : Vouched(c)' => Vouched(c) /\ (c = ch => c \notin FanChannels)
      BY <2>1 DEF Vouched
    <2>4. \A c \in Channels : Changed(c)' => Changed(c) \/ (c = ch /\ v = "user")
      BY <2>1 DEF Changed
    <2> QED BY <2>2, <2>3, <2>4 DEF Touched
  <1> QED BY <1>3, <1>4, <1>5 DEF Values

LEMMA TouchedByFirmware ==
  ASSUME HwTypeOK, StuckDoubted, LateLanding \/ Clawback
  PROVE  Touched' \subseteq Touched /\ StuckDoubted'
  <1>1. CASE LateLanding
    <2>1. Refused
      BY <1>1 DEF LateLanding, Refused
    <2> QED BY <2>1, TouchedByCalls DEF Channels
  <1>2. CASE Clawback
    BY <1>2 DEF Clawback, Touched, Vouched, Changed, StuckDoubted
  <1> QED BY <1>1, <1>2

\* A forced max fan is vouched for only where the file already holds "fan".
LEMMA TouchedByForce ==
  ASSUME HwTypeOK, StuckDoubted, MaxOnUnsaved
  PROVE  /\ Touched' \subseteq Touched \cup {"max"} /\ StuckDoubted'
         /\ "fan" \notin disk.dom => "max" \notin Touched'
  <1>1. \A c \in Channels : Settled[c] = "user" => Changed(c)
    BY DEF HwTypeOK, Settled, Changed, Writes, NoWrite, Channels, Values
  <1>2. \A c \in Channels \ {"max"} : hw'[c] = Settled[c] /\ (Vouched(c)' <=> Vouched(c))
    BY DEF MaxOnUnsaved, HwTypeOK, Settled, Doubted, Vouched
  <1>3. \A c : Changed(c)' <=> hw'[c] = "user"
    BY DEF MaxOnUnsaved, Changed, NoWrite
  <1>4. "fan" \notin disk.dom => ~Vouched("max")'
    BY DEF MaxOnUnsaved, Doubted, Vouched, FanChannels
  <1>5. StuckDoubted'
    BY DEF MaxOnUnsaved, StuckDoubted, NoWrite, FanChannels
  <1> QED BY <1>1, <1>2, <1>3, <1>4, <1>5 DEF Touched

\* So is what the heartbeat re-asserts, which is tracked.
LEMMA TouchedByHeartbeat ==
  ASSUME TypeInv, StuckDoubted, HeartbeatOk \/ HeartbeatFails
  PROVE  /\ Touched' \subseteq Touched \cup Tracked(obs, dirty) /\ StuckDoubted'
         /\ "fan" \notin disk.dom => Touched' \cap FanChannels \subseteq Touched
  <1>0. HwTypeOK
    BY DEF TypeInv, TypeOK
  <1>1. \A c \in Channels : Settled[c] = "user" => Changed(c)
    BY <1>0 DEF HwTypeOK, Settled, Changed, Writes, NoWrite, Channels, Values
  <1>2. ASSUME NEW chs \in SUBSET Tracked(obs, dirty), NEW failing,
               failing \in Tracked(obs, dirty) \/ failing = "none",
               hw' = ReassertAll(chs),
               stuck' \in {NoWrite, [ch |-> failing, val |-> ReassertValue(failing)]},
               failing = "none" => stuck' = NoWrite,
               \A c \in FanChannels :
                 doubt'[c] = IF c = failing THEN "unknown" ELSE Reasserted(chs)[c]
        PROVE  /\ Touched' \subseteq Touched \cup Tracked(obs, dirty) /\ StuckDoubted'
               /\ "fan" \notin disk.dom => Touched' \cap FanChannels \subseteq Touched
    <2>1. \A c \in Channels \ chs : hw'[c] = Settled[c]
      BY <1>2 DEF ReassertAll
    <2>2. \A c \in FanChannels : Reasserted(chs)[c] =
            IF c \in chs THEN IF "fan" \in disk.dom THEN "none" ELSE "unsaved" ELSE doubt[c]
      BY DEF Reasserted, Doubted
    <2>3. StuckDoubted'
      BY <1>2 DEF StuckDoubted, NoWrite, FanChannels
    <2>4. \A c \in Channels \ (chs \cup {failing}) :
            /\ Changed(c)' => Changed(c)
            /\ Vouched(c)' => Vouched(c)
      BY <1>1, <1>2, <2>1, <2>2 DEF Changed, Vouched, NoWrite, FanChannels, Channels
    <2>5. "fan" \notin disk.dom => \A c \in FanChannels \cap (chs \cup {failing}) : ~Vouched(c)'
      BY <1>2, <2>2 DEF Vouched
    <2> QED BY <1>2, <2>3, <2>4, <2>5 DEF Touched, FanChannels, Channels
  <1>3. ASSUME HeartbeatOk
        PROVE  /\ Touched' \subseteq Touched \cup Tracked(obs, dirty) /\ StuckDoubted'
               /\ "fan" \notin disk.dom => Touched' \cap FanChannels \subseteq Touched
    <2>1. hw' = ReassertAll(Tracked(obs, dirty)) /\ stuck' = NoWrite
          /\ doubt' = Reasserted(Tracked(obs, dirty))
      BY <1>3 DEF HeartbeatOk
    <2>2. "none" \notin FanChannels
      BY DEF FanChannels
    <2> QED BY <1>2, <2>1, <2>2
  <1>4. ASSUME HeartbeatFails
        PROVE  /\ Touched' \subseteq Touched \cup Tracked(obs, dirty) /\ StuckDoubted'
               /\ "fan" \notin disk.dom => Touched' \cap FanChannels \subseteq Touched
    <2>1. CASE UNCHANGED hwVars
      BY <2>1 DEF hwVars, Touched, Vouched, Changed, StuckDoubted
    <2>2. ASSUME NEW ch \in Tracked(obs, dirty), hw' = ReassertAll(Before(ch)),
                 stuck' = NoWrite /\ doubt' = Reasserted(Before(ch))
          PROVE  /\ Touched' \subseteq Touched \cup Tracked(obs, dirty) /\ StuckDoubted'
                 /\ "fan" \notin disk.dom => Touched' \cap FanChannels \subseteq Touched
      <3>1. Before(ch) \in SUBSET Tracked(obs, dirty) /\ "none" \notin FanChannels
        BY HeartbeatTypes DEF FanChannels
      <3> QED BY <1>2, <2>2, <3>1
    <2>3. ASSUME NEW ch \in Tracked(obs, dirty), hw' = ReassertAll(Before(ch)),
                 stuck' \in {NoWrite, [ch |-> ch, val |-> ReassertValue(ch)]},
                 doubt' = [c \in FanChannels |-> IF c = ch THEN "unknown"
                                                 ELSE Reasserted(Before(ch))[c]]
          PROVE  /\ Touched' \subseteq Touched \cup Tracked(obs, dirty) /\ StuckDoubted'
                 /\ "fan" \notin disk.dom => Touched' \cap FanChannels \subseteq Touched
      <3>1. Before(ch) \in SUBSET Tracked(obs, dirty) /\ ch # "none"
        BY HeartbeatTypes DEF Channels
      <3> QED BY <1>2, <2>3, <3>1
    <2> QED BY <1>4, <2>1, <2>2, <2>3 DEF HeartbeatFails
  <1> QED BY <1>3, <1>4

-----------------------------------------------------------------------------
(* What saving and staying quiet preserve *)

\* A step that touches nothing more and leaves memory and file alone.
LEMMA QuietStep ==
  ASSUME LedgerInv, ObsInv, pc = "crashed" => pc' = "crashed", Touched' \subseteq Touched,
         UNCHANGED <<disk, prev, dirty>>,
         obs'.fan = obs.fan, obs'.max = obs.max, obs'.thermal = obs.thermal
  PROVE  OnDisk' /\ InMemory' /\ DirtyOnDisk' /\ ObsInv'
  BY DEF LedgerInv, OnDisk, InMemory, DirtyOnDisk, ObsInv, OffIsOff, AutoIsAuto, HeldIsOwned,
         OnIsOwned, ThermalIsOwned

\* A save of obligations that cover what is touched.
LEMMA SavedCovers ==
  ASSUME TypeOK, LedgerInv, ~Pending(prev) \/ dirty' = {}, NEW s,
         Saved(dirty', s) \/ (SaveFails /\ dirty' \subseteq disk.dom \cup {"fan"} /\ OnDisk'),
         ~Pending(prev) => \A ch \in Touched' : DomainOf(ch) \in dirty',
         Touched' \subseteq Touched, prev' = prev
  PROVE  /\ OnDisk' /\ InMemory' /\ DirtyOnDisk'
         /\ Pending(prev) => disk' = prev
         /\ ~Pending(prev) => disk'.dom = dirty' \/ disk' = disk
         /\ ~Pending(prev) /\ Saved(dirty', s) => disk' = [dom |-> dirty', scope |-> s]
  <1>1. CASE Pending(prev)
    BY <1>1 DEF Saved, SaveFails, Record, LedgerInv, OldSession, OnDisk, InMemory, DirtyOnDisk
  <1>2. CASE ~Pending(prev)
    BY <1>2 DEF Saved, SaveFails, Record, OnDisk, InMemory, DirtyOnDisk
  <1> QED BY <1>1, <1>2

\* A save of the obligations as they are, or its failure.
LEMMA PersistKeeps ==
  ASSUME TypeOK, LedgerInv, ObsInv, pc # "crashed", NEW s, Persist(dirty, s) \/ Saved(dirty, s),
         UNCHANGED <<prev, dirty>>, Touched' \subseteq Touched,
         obs'.fan = obs.fan, obs'.max = obs.max, obs'.thermal = obs.thermal
  PROVE  /\ OnDisk' /\ InMemory' /\ DirtyOnDisk' /\ ObsInv'
         /\ Pending(prev) => disk' = prev
         /\ ~Pending(prev) => disk' = disk \/ disk' = [dom |-> dirty, scope |-> s]
  <1>1. CASE SaveFails
    BY <1>1, QuietStep DEF SaveFails, LedgerInv, OldSession
  <1>2. CASE Saved(dirty, s)
    <2>1. ~Pending(prev) => \A ch \in Touched' : DomainOf(ch) \in dirty'
      BY DEF LedgerInv, InMemory
    <2>2. ~Pending(prev) \/ dirty' = {}
      BY DEF LedgerInv, OldSession
    <2>3. OnDisk' /\ InMemory' /\ DirtyOnDisk'
          /\ (Pending(prev) => disk' = prev)
          /\ (~Pending(prev) => disk' = [dom |-> dirty, scope |-> s])
      BY <1>2, <2>1, <2>2, SavedCovers
    <2>4. ObsInv'
      BY <2>3 DEF ObsInv, OffIsOff, AutoIsAuto, HeldIsOwned, OnIsOwned, ThermalIsOwned,
                  LedgerInv, OldSession, Unobserved, HeldModes
    <2> QED BY <2>3, <2>4
  <1> QED BY <1>1, <1>2 DEF Persist

-----------------------------------------------------------------------------
(* Each group of actions preserves IInv *)

LEMMA InitIInv == Init => IInv
  <1> SUFFICES ASSUME Init PROVE IInv
    OBVIOUS
  <1>1. Touched = {} /\ StuckDoubted
    BY DEF Init, HwInit, Touched, Changed, StuckDoubted, NoWrite, FanChannels, Channels
  <1>2. LedgerInv
    BY <1>1 DEF Init, LedgerInv, OnDisk, InMemory, DirtyOnDisk, OldSession, SessionIsDurable,
                Pending, NoLedger, NoScope, Running
  <1>3. ObsInv
    BY <1>1 DEF Init, NothingObserved, ObsInv, OffIsOff, AutoIsAuto, HeldIsOwned, OnIsOwned,
                ThermalIsOwned, HeldModes
  <1>4. PointInv
    BY <1>1, InitialValues
    DEF Init, PointInv, RestoredIsBase, OwnedAtWrite, FanPoints, NoOverrideAtHeld, FanReadback,
        StalePlanNeverWrites, WriteLabels, FanLabels, ExecLabels, RestoreLabels, InPlan,
        InRelease, InCall
  <1> QED BY <1>1, <1>2, <1>3, <1>4 DEF IInv

\* A process that has died, or has just started, remembers nothing but the file.
LEMMA FreshIInv ==
  ASSUME TypeOK, StuckDoubted, LedgerInv, UNCHANGED <<hwVars, disk>>, FreshMemory,
         \/ pc' = "crashed" /\ prev' = NoLedger
         \/ pc' = "loop" /\ prev' = IF Pending(disk) THEN disk ELSE NoLedger
  PROVE  IInv'
  <1>1. Touched' = Touched /\ StuckDoubted'
    BY DEF hwVars, Touched, Vouched, Changed, StuckDoubted
  <1>2. ~Pending(NoLedger)
    BY DEF Pending, NoLedger, NoScope
  <1>3. dirty' = {} /\ scope' = NoScope /\ ~NoScope.on /\ obs' = NothingObserved
        /\ override' = NoOverride /\ active' = Idle /\ frame' = EmptyFrame /\ Unobserved'
    BY DEF FreshMemory, NoScope, NothingObserved, Unobserved
  <1>4. OnDisk' /\ DirtyOnDisk'
    BY <1>1, <1>3 DEF LedgerInv, OnDisk, DirtyOnDisk
  <1>5. InMemory'
    BY <1>1, <1>2, <1>3 DEF InMemory, LedgerInv, OnDisk, Pending
  <1>6. OldSession' /\ SessionIsDurable'
    BY <1>2, <1>3, InitialValues DEF OldSession, SessionIsDurable
  <1>7. ObsInv'
    BY <1>3 DEF NothingObserved, ObsInv, OffIsOff, AutoIsAuto, HeldIsOwned, OnIsOwned,
                ThermalIsOwned, HeldModes
  <1>8. PointInv'
    BY <1>3, InitialValues
    DEF PointInv, RestoredIsBase, OwnedAtWrite, FanPoints, NoOverrideAtHeld, FanReadback,
        StalePlanNeverWrites, WriteLabels, FanLabels, ExecLabels, RestoreLabels, InPlan,
        InRelease, InCall
  <1> QED BY <1>1, <1>4, <1>5, <1>6, <1>7, <1>8 DEF IInv, LedgerInv

LEMMA EnvironmentIInv == TypeInv /\ IInv /\ Environment => IInv'
  <1> SUFFICES ASSUME TypeInv, IInv, Environment PROVE IInv'
    OBVIOUS
  <1>0. /\ TypeOK /\ HwTypeOK /\ StuckDoubted /\ LedgerInv /\ ObsInv /\ PointInv
    BY DEF TypeInv, TypeOK, IInv
  <1>1. ASSUME Touched' \subseteq Touched, StuckDoubted',
               UNCHANGED <<ledger, obs, dirty, scope, override, pc>>,
               active'.plan = active.plan, active'.index = active.index,
               active'.stale = active.stale, active'.waiting = active.waiting,
               frame'.cur = frame.cur, frame'.wasDirty = frame.wasDirty,
               frame'.ctx = frame.ctx, frame'.ret = frame.ret, frame'.done = frame.done
        PROVE  IInv'
    <2>1. OnDisk' /\ InMemory' /\ DirtyOnDisk' /\ ObsInv'
      BY <1>0, <1>1, QuietStep DEF ledger
    <2>2. OldSession' /\ SessionIsDurable'
      BY <1>0, <1>1 DEF LedgerInv, OldSession, SessionIsDurable, Unobserved, ledger, Running
    <2>3. RestoredIsBase'
      BY <1>0, <1>1 DEF PointInv, RestoredIsBase
    <2>4. OwnedAtWrite' /\ FanPoints'
      BY <1>0, <1>1 DEF PointInv, OwnedAtWrite, FanPoints, ledger
    <2>5. NoOverrideAtHeld' /\ StalePlanNeverWrites'
      BY <1>0, <1>1 DEF PointInv, NoOverrideAtHeld, StalePlanNeverWrites
    <2>6. FanReadback'
      BY <1>0, <1>1 DEF PointInv, FanReadback, InPlan, InRelease, InCall
    <2> QED BY <1>1, <2>1, <2>2, <2>3, <2>4, <2>5, <2>6 DEF IInv, LedgerInv, PointInv
  <1>2. CASE Sense \/ SwitchScheme
    <2>1. UNCHANGED <<hwVars, ledger, obs, dirty, scope, override, pc>>
          /\ active'.plan = active.plan /\ active'.index = active.index
          /\ active'.stale = active.stale /\ active'.waiting = active.waiting
          /\ frame'.cur = frame.cur /\ frame'.wasDirty = frame.wasDirty
          /\ frame'.ctx = frame.ctx /\ frame'.ret = frame.ret /\ frame'.done = frame.done
      BY <1>0, <1>2 DEF Sense, SwitchScheme, TypeOK, Progress, Frames, world, hwVars
    <2>2. Touched' = Touched /\ StuckDoubted'
      BY <1>0, <2>1 DEF hwVars, Touched, Vouched, Changed, StuckDoubted
    <2> QED BY <1>1, <2>1, <2>2
  <1>3. CASE Firmware
    BY <1>0, <1>1, <1>3, TouchedByFirmware DEF Firmware
  <1>4. CASE Crash
    <2>1. UNCHANGED <<hwVars, disk>> /\ prev' = NoLedger /\ FreshMemory /\ pc' = "crashed"
      BY <1>4 DEF Crash, world, hwVars
    <2> QED BY <1>0, <2>1, FreshIInv
  <1>5. CASE Restart
    <2>1. UNCHANGED <<hwVars, disk>> /\ prev' = (IF Pending(disk) THEN disk ELSE NoLedger)
          /\ FreshMemory /\ pc' = "loop"
      BY <1>5 DEF Restart, world, hwVars
    <2> QED BY <1>0, <2>1, FreshIInv
  <1> QED BY <1>2, <1>3, <1>4, <1>5 DEF Environment

LEMMA TouchedByFailure ==
  ASSUME HwTypeOK, StuckDoubted, NEW ch \in Channels, NEW v \in Values, CallFails(ch, v),
         v = "base" \/ ch \in FanChannels
  PROVE  Touched' \subseteq Touched /\ StuckDoubted'
  BY TouchedByCalls DEF CallFails, Values

\* Moving on inside the restore sequence.
LEMMA RestorePoint ==
  ASSUME TypeInv, IInv, pc \in RestoreLabels, pc' \in RestoreLabels, active' = active,
         frame'.ctx = frame.ctx, frame'.ret = frame.ret,
         Touched' \cap frame'.done = {}, "max" \in frame'.done => obs'.max = "off",
         pc' \in {"r.max", "r.auto", "r.rearm"} => "fan" \in dirty'
  PROVE  PointInv'
  <1>1. active.waiting # "none" => active.plan # <<>>
    BY DEF TypeInv, ControlOK, PlanInProgress
  <1>2. RestoredIsBase'
    BY DEF IInv, PointInv, RestoredIsBase
  <1>3. OwnedAtWrite' /\ FanPoints' /\ NoOverrideAtHeld' /\ StalePlanNeverWrites'
    BY DEF OwnedAtWrite, FanPoints, NoOverrideAtHeld, StalePlanNeverWrites, RestoreLabels,
           WriteLabels, FanLabels, ExecLabels
  <1>4. FanReadback'
    <2>1. ~(active'.waiting = "fan" /\ ~active'.stale)
      BY <1>1 DEF IInv, PointInv, RestoredIsBase
    <2>2. InPlan' => InPlan /\ pc # "applied"
      BY DEF InPlan, InCall, RestoreLabels, ExecLabels
    <2> QED BY <2>1, <2>2 DEF IInv, PointInv, FanReadback
  <1> QED BY <1>2, <1>3, <1>4 DEF PointInv

LEMMA RestoringIInv == TypeInv /\ IInv /\ Restoring => IInv'
  <1> SUFFICES ASSUME TypeInv, IInv, Restoring PROVE IInv'
    OBVIOUS
  <1>0. /\ TypeOK /\ HwTypeOK /\ StuckDoubted /\ LedgerInv /\ ObsInv /\ PointInv
        /\ obs \in Observations /\ frame \in Frames /\ active \in Progress
    BY DEF TypeInv, TypeOK, IInv
  <1>a. ASSUME pc \in RestoreLabels \ {"r.end"}, UNCHANGED <<disk, prev, scope>>, pc' # "crashed"
        PROVE  ~Pending(prev) /\ OldSession' /\ SessionIsDurable'
    BY <1>0, <1>a DEF LedgerInv, OldSession, SessionIsDurable, Pending, RestoreLabels, Running
  <1>b. ASSUME pc \in RestoreLabels
        PROVE  Touched \cap frame.done = {} /\ ("max" \in frame.done => obs.max = "off")
               /\ (pc \in {"r.max", "r.auto", "r.rearm"} => "fan" \in dirty)
    BY <1>0, <1>b DEF PointInv, RestoredIsBase
  <1>1. CASE RestoreMax
    <2>1. pc = "r.max" /\ pc \in RestoreLabels \ {"r.end"}
          /\ UNCHANGED <<disk, prev, scope, dirty, active>>
      BY <1>1 DEF RestoreMax, RestoreLabels, ledger
    <2>2. CASE Accepted("max", "base") /\ obs' = [obs EXCEPT !.max = "off"]
               /\ frame' = [frame EXCEPT !.done = @ \cup {"max"}] /\ pc' = "r.auto"
      <3>1. Touched' \subseteq Touched \ {"max"} /\ StuckDoubted'
        BY <1>0, <2>2, TouchedByCalls DEF Channels
      <3>2. OnDisk' /\ InMemory' /\ DirtyOnDisk' /\ ObsInv'
        BY <1>0, <2>1, <2>2, <3>1
        DEF LedgerInv, OnDisk, InMemory, DirtyOnDisk, ObsInv, OffIsOff, AutoIsAuto, HeldIsOwned,
            OnIsOwned, ThermalIsOwned, Observations
      <3>3. frame'.done = frame.done \cup {"max"} /\ frame'.ctx = frame.ctx
            /\ frame'.ret = frame.ret /\ obs'.max = "off"
        BY <1>0, <2>2 DEF Frames, Observations
      <3>4. PointInv'
        BY <1>b, <2>1, <2>2, <3>1, <3>3, RestorePoint DEF RestoreLabels
      <3> QED BY <1>a, <2>1, <2>2, <3>1, <3>2, <3>4 DEF IInv, LedgerInv
    <2>3. CASE CallFails("max", "base") /\ pc' = "r.rearm" /\ UNCHANGED <<obs, frame>>
      <3>1. Touched' \subseteq Touched /\ StuckDoubted'
        BY <1>0, <2>3, TouchedByFailure DEF Channels, Values
      <3>2. OnDisk' /\ InMemory' /\ DirtyOnDisk' /\ ObsInv'
        BY <1>0, <2>1, <2>3, <3>1, QuietStep
      <3>3. PointInv'
        BY <1>b, <2>1, <2>3, <3>1, RestorePoint DEF RestoreLabels
      <3> QED BY <1>a, <2>1, <2>3, <3>1, <3>2, <3>3 DEF IInv, LedgerInv
    <2> QED BY <1>1, <2>2, <2>3 DEF RestoreMax
  <1>2. CASE RestoreLevel
    <2>1. pc = "r.auto" /\ pc \in RestoreLabels \ {"r.end"}
          /\ UNCHANGED <<disk, prev, scope, dirty, active, obs>>
      BY <1>2 DEF RestoreLevel, RestoreLabels, ledger
    <2>2. pc' \in RestoreLabels /\ (pc' \in {"r.max", "r.auto", "r.rearm"} => "fan" \in dirty)
      BY <1>2, <1>b, <2>1, AfterTypes DEF RestoreLevel, RestoreLabels
    <2>3. /\ Touched' \subseteq Touched /\ StuckDoubted' /\ Touched' \cap frame'.done = {}
          /\ frame'.ctx = frame.ctx /\ frame'.ret = frame.ret
          /\ ("max" \in frame'.done => "max" \in frame.done)
      <3>1. CASE Accepted("level", "base") /\ frame' = [frame EXCEPT !.done = @ \cup {"level"}]
        <4>1. Touched' \subseteq Touched \ {"level"} /\ StuckDoubted'
          BY <1>0, <3>1, TouchedByCalls DEF Channels
        <4> QED BY <1>0, <1>b, <2>1, <3>1, <4>1 DEF Frames
      <3>2. CASE CallFails("level", "base") /\ UNCHANGED frame
        <4>1. Touched' \subseteq Touched /\ StuckDoubted'
          BY <1>0, <3>2, TouchedByFailure DEF Channels, Values
        <4> QED BY <1>b, <2>1, <3>2, <4>1
      <3> QED BY <1>2, <3>1, <3>2 DEF RestoreLevel
    <2>4. OnDisk' /\ InMemory' /\ DirtyOnDisk' /\ ObsInv'
      BY <1>0, <2>1, <2>3, QuietStep
    <2>5. PointInv'
      BY <1>b, <2>1, <2>2, <2>3, RestorePoint
    <2> QED BY <1>a, <2>1, <2>2, <2>3, <2>4, <2>5 DEF IInv, LedgerInv, RestoreLabels
  <1>3. CASE RestoreRearm
    <2>1. pc = "r.rearm" /\ pc \in RestoreLabels \ {"r.end"} /\ "fan" \in dirty
          /\ UNCHANGED <<disk, prev, scope, dirty, active>>
      BY <1>3, <1>b DEF RestoreRearm, RestoreLabels, ledger
    <2>2. pc' \in RestoreLabels /\ (pc' \in {"r.max", "r.auto", "r.rearm"} => "fan" \in dirty)
      BY <1>3, <2>1, AfterTypes DEF RestoreRearm, RestoreLabels
    <2>3. CASE MaxOnUnsaved /\ obs' = [obs EXCEPT !.max = "on"]
               /\ frame' = [frame EXCEPT !.done = @ \ {"max"}]
      <3>1. Touched' \subseteq Touched \cup {"max"} /\ StuckDoubted'
            /\ ("fan" \notin disk.dom => "max" \notin Touched')
        BY <1>0, <2>3, TouchedByForce
      <3>2. frame'.done = frame.done \ {"max"} /\ frame'.ctx = frame.ctx
            /\ frame'.ret = frame.ret /\ obs'.max = "on" /\ obs'.fan = obs.fan
            /\ obs'.thermal = obs.thermal
        BY <1>0, <2>3 DEF Frames, Observations
      <3>3. OnDisk' /\ InMemory' /\ DirtyOnDisk' /\ ObsInv'
        BY <1>0, <2>1, <3>1, <3>2
        DEF LedgerInv, OnDisk, InMemory, DirtyOnDisk, ObsInv, OffIsOff, AutoIsAuto, HeldIsOwned,
            OnIsOwned, ThermalIsOwned, DomainOf, FanChannels, RestoreLabels
      <3>4. PointInv'
        BY <1>b, <2>1, <2>2, <3>1, <3>2, RestorePoint
      <3> QED BY <1>a, <2>1, <2>2, <3>1, <3>3, <3>4 DEF IInv, LedgerInv, RestoreLabels
    <2>4. CASE CallFails("max", "user") /\ UNCHANGED <<obs, frame>>
      <3>1. Touched' \subseteq Touched /\ StuckDoubted'
        BY <1>0, <2>4, TouchedByFailure DEF Channels, Values, FanChannels
      <3>2. OnDisk' /\ InMemory' /\ DirtyOnDisk' /\ ObsInv'
        BY <1>0, <2>1, <2>4, <3>1, QuietStep
      <3>3. PointInv'
        BY <1>b, <2>1, <2>2, <2>4, <3>1, RestorePoint
      <3> QED BY <1>a, <2>1, <2>2, <3>1, <3>2, <3>3 DEF IInv, LedgerInv, RestoreLabels
    <2> QED BY <1>3, <2>3, <2>4 DEF RestoreRearm
  <1>4. ASSUME NEW d \in {"gpu", "power", "thermal"}, NEW next,
               NEW here \in RestoreLabels \ {"r.max", "r.auto", "r.rearm", "r.end"},
               next \in RestoreLabels \ {"r.max", "r.auto", "r.rearm"},
               RestoreDomain(d, here, next)
        PROVE  IInv'
    <2>1. pc = here /\ pc \in RestoreLabels \ {"r.end"} /\ pc' = next
          /\ UNCHANGED <<disk, prev, scope, dirty, active, obs>>
      BY <1>4 DEF RestoreDomain, ledger
    <2>2. /\ Touched' \subseteq Touched /\ StuckDoubted' /\ Touched' \cap frame'.done = {}
          /\ frame'.ctx = frame.ctx /\ frame'.ret = frame.ret
          /\ ("max" \in frame'.done => "max" \in frame.done)
      <3>1. CASE Accepted(d, "base")
                 /\ frame' \in {frame, [frame EXCEPT !.done = @ \cup {d}]}
        <4>1. Touched' \subseteq Touched \ {d} /\ StuckDoubted'
          BY <1>0, <1>4, <3>1, TouchedByCalls DEF Channels
        <4> QED BY <1>0, <1>4, <1>b, <2>1, <3>1, <4>1 DEF Frames
      <3>2. CASE CallFails(d, "base") /\ UNCHANGED frame
        <4>1. Touched' \subseteq Touched /\ StuckDoubted'
          BY <1>0, <1>4, <3>2, TouchedByFailure DEF Channels, Values
        <4> QED BY <1>b, <2>1, <3>2, <4>1
      <3> QED BY <1>4, <3>1, <3>2 DEF RestoreDomain
    <2>3. OnDisk' /\ InMemory' /\ DirtyOnDisk' /\ ObsInv'
      BY <1>0, <2>1, <2>2, QuietStep DEF RestoreLabels
    <2>4. PointInv'
      BY <1>4, <1>b, <2>1, <2>2, RestorePoint
    <2> QED BY <1>4, <1>a, <2>1, <2>2, <2>3, <2>4 DEF IInv, LedgerInv, RestoreLabels
  <1>5. CASE RestoreScope \/ RestoreCpu
    <2>1. pc \in {"r.scope", "r.cpu"} /\ pc \in RestoreLabels \ {"r.end"}
          /\ pc' \in {"r.cpu", "r.end"}
          /\ UNCHANGED <<hwVars, disk, prev, dirty, active, obs>>
          /\ frame'.ctx = frame.ctx /\ frame'.ret = frame.ret /\ frame'.done = frame.done
          /\ (scope' = scope \/ scope' = NoScope)
      BY <1>0, <1>5 DEF RestoreScope, RestoreCpu, RestoreLabels, Frames, ledger, world, hwVars
    <2>2. Touched' = Touched /\ StuckDoubted'
      BY <1>0, <2>1 DEF hwVars, Touched, Vouched, Changed, StuckDoubted
    <2>3. OnDisk' /\ InMemory' /\ DirtyOnDisk' /\ ObsInv'
      BY <1>0, <2>1, <2>2, QuietStep
    <2>4. OldSession' /\ SessionIsDurable'
      BY <1>0, <2>1
      DEF LedgerInv, OldSession, SessionIsDurable, Pending, NoScope, RestoreLabels, Running
    <2>5. PointInv'
      BY <1>b, <2>1, <2>2, RestorePoint DEF RestoreLabels
    <2> QED BY <2>2, <2>3, <2>4, <2>5 DEF IInv, LedgerInv
  <1>6. CASE RestoreEnd
    <2>1. pc = "r.end" /\ pc \in RestoreLabels /\ dirty' = dirty \ HandedBack
          /\ UNCHANGED <<hwVars, prev, scope, active>> /\ Persist(dirty', scope)
      BY <1>6 DEF RestoreEnd, RestoreLabels, world, hwVars
    <2>2. Touched' = Touched /\ StuckDoubted'
      BY <1>0, <2>1 DEF hwVars, Touched, Vouched, Changed, StuckDoubted
    <2>3. \A ch \in Touched : DomainOf(ch) \notin HandedBack
      BY <1>b, <2>1 DEF Touched, HandedBack, ChannelsOf, DomainOf, FanChannels, Channels
    <2>4. ~Pending(prev) => \A ch \in Touched' : DomainOf(ch) \in dirty'
      BY <1>0, <2>1, <2>2, <2>3 DEF LedgerInv, InMemory
    <2>5. Pending(prev) => dirty = {} /\ frame.done = {} /\ frame.ret = "stop" /\ disk = prev
                           /\ ~scope.on /\ Unobserved /\ override = NoOverride
                           /\ active.plan \in {<<>>, <<RestoreSession>>}
                           /\ active.waiting = "none"
      BY <1>0, <2>1 DEF LedgerInv, OldSession
    <2>6. /\ OnDisk' /\ InMemory' /\ DirtyOnDisk'
          /\ Pending(prev) => disk' = prev
          /\ ~Pending(prev) => disk'.dom = dirty' \/ disk' = disk
          /\ ~Pending(prev) /\ Saved(dirty', scope) => disk' = [dom |-> dirty', scope |-> scope]
      <3>1. ~Pending(prev) \/ dirty' = {}
        BY <2>1, <2>5
      <3>2. SaveFails => dirty' \subseteq disk.dom \cup {"fan"} /\ OnDisk'
        BY <1>0, <2>1, <2>2 DEF SaveFails, LedgerInv, OnDisk, DirtyOnDisk
      <3> QED BY <1>0, <2>1, <2>2, <2>4, <3>1, <3>2, SavedCovers DEF Persist
    <2>7. /\ obs'.fan = IF "level" \in frame.done THEN "auto" ELSE obs.fan
          /\ obs'.max = IF "max" \in frame.done THEN "off" ELSE obs.max
          /\ obs'.thermal = IF "thermal" \in frame.done THEN "base" ELSE obs.thermal
      BY <1>0, <1>6 DEF RestoreEnd, Observations
    <2>8. ObsInv'
      <3>1. OffIsOff' /\ AutoIsAuto'
        BY <1>0, <1>b, <2>1, <2>2, <2>7 DEF ObsInv, OffIsOff, AutoIsAuto
      <3>2. /\ "fan" \in HandedBack => "level" \in frame.done /\ "max" \in frame.done
            /\ "thermal" \in HandedBack => "thermal" \in frame.done
        BY DEF HandedBack, ChannelsOf, FanChannels
      <3>3. OnIsOwned' /\ ThermalIsOwned'
        BY <1>0, <2>1, <2>7, <3>2 DEF ObsInv, OnIsOwned, ThermalIsOwned
      <3>4. HeldIsOwned'
        BY <1>0, <2>1, <2>5, <2>6, <2>7, <3>2 DEF ObsInv, HeldIsOwned, HeldModes, Unobserved
      <3> QED BY <3>1, <3>3, <3>4 DEF ObsInv
    <2>9. SessionIsDurable'
      BY <1>0, <2>1, <2>6
      DEF LedgerInv, SessionIsDurable, Running, Persist, SaveFails, Ledgers, TypeOK
    <2>10. OldSession'
      <3>1. Pending(prev) => HandedBack = {} /\ obs'.fan = obs.fan /\ obs'.max = obs.max
                             /\ obs'.thermal = obs.thermal
        BY <2>5, <2>7 DEF HandedBack
      <3>2. Pending(prev) => pc' = "stopped" /\ override' = override
        BY <1>6, <2>5, <3>1 DEF RestoreEnd
      <3> QED BY <2>1, <2>5, <2>6, <3>1, <3>2 DEF OldSession, Unobserved
    <2>11. PointInv'
      <3>1. pc' \in {"heartbeat", "loop", "failed", "stopped", "applied"}
            /\ (pc' \in {"failed", "applied"} =>
                  frame' = frame /\ frame.ret \in {"exec", "session"})
        BY <1>0, <1>6 DEF RestoreEnd, Frames
      <3>2. RestoredIsBase' /\ OwnedAtWrite' /\ FanPoints' /\ NoOverrideAtHeld'
            /\ StalePlanNeverWrites'
        BY <3>1 DEF RestoredIsBase, OwnedAtWrite, FanPoints, NoOverrideAtHeld,
                    StalePlanNeverWrites, RestoreLabels, WriteLabels, FanLabels, ExecLabels
      <3>3. ~(active.waiting = "fan" /\ ~active.stale)
        BY <1>0, <2>1
        DEF TypeInv, ControlOK, PlanInProgress, PointInv, RestoredIsBase
      <3>4. InPlan' /\ pc' # "applied" => InPlan /\ pc # "applied"
        BY <2>1, <3>1 DEF InPlan, InCall, RestoreLabels, ExecLabels
      <3>5. FanReadback'
        BY <1>0, <2>1, <3>3, <3>4 DEF PointInv, FanReadback
      <3> QED BY <3>2, <3>5 DEF PointInv
    <2> QED BY <2>2, <2>6, <2>8, <2>9, <2>10, <2>11 DEF IInv, LedgerInv
  <1>7. AfterGpu(dirty, scope) \in RestoreLabels \ {"r.max", "r.auto", "r.rearm"}
        /\ AfterPower(dirty, scope) \in RestoreLabels \ {"r.max", "r.auto", "r.rearm"}
        /\ AfterThermal(scope) \in RestoreLabels \ {"r.max", "r.auto", "r.rearm"}
    BY AfterTypes
  <1> QED BY <1>1, <1>2, <1>3, <1>4, <1>5, <1>6, <1>7 DEF Restoring, RestoreLabels

-----------------------------------------------------------------------------
(* Points between and inside the steps of a plan *)

\* Outside every call.
LEMMA OutsidePoint ==
  ASSUME pc' \in {"loop", "finish", "heartbeat", "force", "rearm", "curve"},
         pc' = "curve" => obs'.fan = "curve",
         active'.waiting = "fan" /\ ~active'.stale
           => obs'.fan = "manual" /\ override' \in {NoOverride, "manual"}
  PROVE  PointInv'
  BY DEF PointInv, RestoredIsBase, OwnedAtWrite, FanPoints, NoOverrideAtHeld, FanReadback,
         StalePlanNeverWrites, RestoreLabels, WriteLabels, FanLabels, ExecLabels, InPlan,
         InRelease, InCall

\* At the first point of the restore sequence.
LEMMA EnterPoint ==
  ASSUME IInv, frame \in Frames, NEW r \in {"tick", "loop", "exec", "session", "stop"},
         EnterRestore(r, dirty', scope'), obs' = obs, Touched' \subseteq Touched,
         active'.plan # <<>> => active'.stale, active'.waiting # "none" => active'.plan # <<>>,
         r \in {"exec", "session"} /\ frame.ctx = "plan" => active'.waiting = "none"
  PROVE  PointInv'
  <1>1. /\ pc' \in RestoreLabels /\ frame'.ret = r /\ frame'.ctx = frame.ctx
        /\ frame'.done = IF "fan" \in dirty' /\ obs.max = "off" THEN {"max"} ELSE {}
        /\ pc' \in {"r.max", "r.auto", "r.rearm"} => "fan" \in dirty'
    BY EnterRestoreTypes
  <1>2. RestoredIsBase'
    BY <1>1 DEF RestoredIsBase, IInv, ObsInv, OffIsOff
  <1>3. OwnedAtWrite' /\ FanPoints' /\ NoOverrideAtHeld' /\ StalePlanNeverWrites'
    BY <1>1 DEF OwnedAtWrite, FanPoints, NoOverrideAtHeld, StalePlanNeverWrites, RestoreLabels,
                WriteLabels, FanLabels, ExecLabels
  <1>4. FanReadback'
    BY <1>1 DEF FanReadback, InPlan, InCall, RestoreLabels, ExecLabels
  <1> QED BY <1>2, <1>3, <1>4 DEF PointInv

\* From one write of a step to the next, or to its failure.
LEMMA WritePoint ==
  ASSUME IInv, pc \in {"own"} \cup WriteLabels, pc' \in WriteLabels \cup {"failed"},
         active' = active, override' = override, obs'.fan = obs.fan,
         frame'.cur = frame.cur, frame'.ctx = frame.ctx,
         OwnedAtWrite', FanPoints'
  PROVE  PointInv'
  <1>1. InPlan' => InPlan /\ pc # "applied"
    BY DEF InPlan, InCall, ExecLabels, WriteLabels, FanLabels, RestoreLabels
  <1>2. InRelease' => InRelease /\ pc # "applied"
    BY DEF InRelease, InCall, ExecLabels, WriteLabels, FanLabels, RestoreLabels
  <1>3. FanReadback'
    BY <1>1, <1>2 DEF IInv, PointInv, FanReadback
  <1>4. RestoredIsBase' /\ NoOverrideAtHeld' /\ StalePlanNeverWrites'
    BY DEF IInv, PointInv, RestoredIsBase, NoOverrideAtHeld, StalePlanNeverWrites,
           RestoreLabels, WriteLabels, FanLabels, ExecLabels
  <1> QED BY <1>3, <1>4 DEF PointInv

\* At the success or failure of a step.
LEMMA EndPoint ==
  ASSUME pc' \in {"applied", "failed"},
         active'.waiting = "fan" /\ ~active'.stale =>
           /\ obs'.fan = "manual" /\ override' \in {NoOverride, "manual"}
           /\ pc' = "failed" /\ frame'.ctx = "release" => frame'.cur.val = "manual",
         pc' = "failed" /\ frame'.ctx = "plan" => active'.waiting = "none"
  PROVE  PointInv'
  BY DEF PointInv, RestoredIsBase, OwnedAtWrite, FanPoints, NoOverrideAtHeld, FanReadback,
         StalePlanNeverWrites, RestoreLabels, WriteLabels, FanLabels, ExecLabels, InPlan,
         InRelease, InCall

\* What AfterOwn() knows of the observed state at the points it chooses.
LEMMA AfterOwnPoints ==
  ASSUME NEW step \in Steps
  PROVE  /\ AfterOwn(step) \in {"auto.level", "auto.done"} => obs.max = "off"
         /\ AfterOwn(step) = "auto.done" => obs.fan = "auto"
         /\ AfterOwn(step) = "held.level" => obs.max # "on"
  <1>1. CASE step.op # "fan"
    BY <1>1, AfterOwnTypes DEF AfterOwnFits
  <1>2. CASE step.op = "fan"
    <2>1. step.val \in FanModes
      BY <1>2 DEF Steps
    <2> QED BY <1>2, <2>1 DEF AfterOwn, FanModes, HeldModes
  <1> QED BY <1>1, <1>2

\* A held level touches its own channel only: max fan recorded as off unwritten is in doubt.
LEMMA TouchedByHeld ==
  ASSUME HwTypeOK, StuckDoubted, HeldWritten, OffIsOff, obs.max \in {"unknown", "off"}
  PROVE  Touched' \subseteq (Touched \cup {"level"}) \ {"max"} /\ StuckDoubted'
  <1>1. \A c \in Channels : Settled[c] = "user" => Changed(c)
    BY DEF HwTypeOK, Settled, Changed, Writes, NoWrite, Channels, Values
  <1>2. \A c \in Channels \ {"level"} : hw'[c] = Settled[c]
    BY DEF HeldWritten, HwTypeOK, Settled
  <1>3. \A c : Changed(c)' <=> hw'[c] = "user"
    BY DEF HeldWritten, Changed, NoWrite
  <1>4. doubt'["max"] = IF obs.max = "unknown" /\ hw'["max"] = "user" THEN "assumed" ELSE doubt["max"]
    BY DEF HeldWritten, HwTypeOK, FanChannels
  <1>5. "max" \in Touched' => obs.max = "off" /\ "max" \in Touched
    BY <1>1, <1>2, <1>3, <1>4 DEF Touched, Vouched, Channels, FanChannels
  <1>6. \A c \in Channels \ FanChannels : Vouched(c)
    BY DEF Vouched
  <1>7. Touched' \subseteq Touched \cup FanChannels
    BY <1>1, <1>2, <1>3, <1>6 DEF Touched, FanChannels
  <1>8. StuckDoubted'
    BY DEF HeldWritten, StuckDoubted, NoWrite, FanChannels
  <1> QED BY <1>5, <1>7, <1>8 DEF OffIsOff, FanChannels

LEMMA ExecutingIInv == TypeInv /\ IInv /\ Executing => IInv'
  <1> SUFFICES ASSUME TypeInv, IInv, Executing PROVE IInv'
    OBVIOUS
  <1>0. /\ TypeOK /\ HwTypeOK /\ StuckDoubted /\ LedgerInv /\ ObsInv /\ PointInv
        /\ obs \in Observations /\ frame \in Frames /\ active \in Progress
        /\ PointMatches /\ CallMatches /\ OwnedAtWrite /\ FanPoints /\ FanReadback
    BY DEF TypeInv, TypeOK, IInv, ControlOK, PointInv
  <1>a. ASSUME pc \in ExecLabels \ {"session"}, UNCHANGED <<prev, scope>>,
               disk' = disk \/ disk'.scope = scope, pc' # "crashed"
        PROVE  ~Pending(prev) /\ OldSession' /\ SessionIsDurable'
    BY <1>0, <1>a DEF LedgerInv, OldSession, SessionIsDurable, Pending, ExecLabels, Running
  <1>1. CASE Own
    <2>1. pc = "own" /\ frame.cur \in Steps /\ frame.cur.op \in Domains /\ ~Pending(prev)
          /\ UNCHANGED <<prev, scope, active, obs, override>>
      BY <1>0, <1>1
      DEF Own, PointMatches, Steps, Domains, LedgerInv, OldSession
    <2>2. Touched' \subseteq Touched /\ StuckDoubted'
      <3>1. CASE Refused
        BY <1>0, <3>1, TouchedByCalls DEF Channels
      <3>2. CASE UNCHANGED hwVars
        BY <1>0, <3>2 DEF hwVars, Touched, Vouched, Changed, StuckDoubted
      <3> QED BY <1>1, <3>1, <3>2 DEF Own
    <2>3. CASE SaveFails /\ pc' = "failed" /\ UNCHANGED <<dirty, frame>>
      <3>1. OnDisk' /\ InMemory' /\ DirtyOnDisk' /\ ObsInv'
        BY <1>0, <2>1, <2>2, <2>3, QuietStep DEF SaveFails
      <3>2. OwnedAtWrite' /\ FanPoints'
        BY <2>3 DEF OwnedAtWrite, FanPoints, WriteLabels, FanLabels
      <3>3. PointInv'
        BY <2>1, <2>3, <3>2, WritePoint
      <3> QED BY <1>a, <2>1, <2>2, <2>3, <3>1, <3>3
              DEF IInv, LedgerInv, SaveFails, ExecLabels
    <2>4. CASE /\ dirty' = dirty \cup {frame.cur.op} /\ Saved(dirty', scope)
               /\ frame' = [frame EXCEPT !.wasDirty = (frame.cur.op \in dirty)]
               /\ pc' \in {AfterOwn(frame.cur), "failed"}
      <3>1. \A ch \in Touched' : DomainOf(ch) \in dirty'
        BY <1>0, <2>1, <2>2, <2>4 DEF LedgerInv, InMemory
      <3>2. OnDisk' /\ InMemory' /\ DirtyOnDisk' /\ disk' = [dom |-> dirty', scope |-> scope]
        BY <1>0, <2>1, <2>2, <2>4, <3>1, SavedCovers
      <3>3. ObsInv'
        BY <1>0, <2>1, <2>2, <2>4, <3>2
        DEF ObsInv, OffIsOff, AutoIsAuto, HeldIsOwned, OnIsOwned, ThermalIsOwned
      <3>4. frame'.cur = frame.cur /\ frame'.ctx = frame.ctx
            /\ (~frame'.wasDirty => frame.cur.op \notin dirty)
        BY <1>0, <2>4 DEF Frames
      <3>5. frame.cur.op # "fan" /\ frame.cur.op \in Touched => frame.cur.op \in dirty
        <4>1. frame.cur.op # "fan" => DomainOf(frame.cur.op) = frame.cur.op
          BY <2>1 DEF DomainOf, Domains, FanChannels
        <4>2. \A ch \in Touched : DomainOf(ch) \in dirty
          BY <1>0, <2>1 DEF LedgerInv, InMemory
        <4> QED BY <4>1, <4>2
      <3>6. OwnedAtWrite'
        <4>1. frame'.cur.op \in dirty' /\ frame'.cur.op \in disk'.dom
          BY <2>4, <3>2, <3>4
        <4>2. pc' = "set" => frame.cur.op # "fan"
          BY <2>1, <2>4, AfterOwnTypes DEF AfterOwnFits, FanLabels
        <4>3. pc' = "set" /\ ~frame'.wasDirty => frame'.cur.op \notin Touched'
          BY <2>2, <3>4, <3>5, <4>2
        <4>4. ~frame'.wasDirty /\ frame'.cur.op = "thermal" => obs'.thermal # "user"
          BY <1>0, <2>1, <3>4 DEF ObsInv, ThermalIsOwned
        <4> QED BY <4>1, <4>3, <4>4 DEF OwnedAtWrite
      <3>7. FanPoints'
        BY <1>0, <2>1, <2>2, <2>4, AfterOwnPoints, AfterOwnTypes
        DEF FanPoints, ObsInv, AutoIsAuto, AfterOwnFits, FanLabels
      <3>8. PointInv'
        BY <2>1, <2>4, <3>4, <3>6, <3>7, WritePoint, AfterOwnTypes DEF AfterOwnFits, WriteLabels
      <3> QED BY <1>a, <2>1, <2>2, <2>4, <3>2, <3>3, <3>8, AfterOwnTypes
              DEF IInv, LedgerInv, AfterOwnFits, ExecLabels, FanLabels
    <2> QED BY <1>1, <2>3, <2>4 DEF Own
  <1>2. CASE Set
    <2>1. pc = "set" /\ pc \in ExecLabels \ {"session"} /\ pc \in WriteLabels
          /\ frame.cur \in Steps /\ frame.cur.op \in {"thermal", "gpu", "power"}
          /\ frame.cur.val \in Values /\ frame.cur.op \in Channels \ FanChannels
          /\ frame.cur.op \in dirty /\ frame.cur.op \in disk.dom /\ frame.ctx = "plan"
          /\ UNCHANGED <<disk, prev, scope, override, frame>>
      BY <1>0, <1>2
      DEF Set, PointMatches, Steps, OwnedAtWrite, CallMatches, InRelease, InCall, Frames,
          ExecLabels, WriteLabels, Channels, FanChannels, ledger
    <2>2. DomainOf(frame.cur.op) = frame.cur.op /\ active.waiting = "none"
      BY <1>0, <2>1 DEF DomainOf, FanReadback, InPlan, InCall
    <2>3. CASE Accepted(frame.cur.op, frame.cur.val) /\ UNCHANGED dirty /\ pc' = "applied"
      <3>1. Touched' \subseteq Touched \cup {frame.cur.op} /\ StuckDoubted'
        BY <1>0, <2>1, <2>3, TouchedByCalls DEF Values
      <3>2. obs'.fan = obs.fan /\ obs'.max = obs.max
            /\ (obs'.thermal = obs.thermal \/ frame.cur.op = "thermal")
        BY <1>0, <1>2, <2>1, <2>3 DEF Set, Observations, Accepted
      <3>3. active'.waiting # "fan"
        BY <1>0, <1>2, <2>1, <2>2, <2>3 DEF Set, Progress
      <3>4. OnDisk' /\ InMemory' /\ DirtyOnDisk'
        BY <1>0, <2>1, <2>2, <2>3, <3>1 DEF LedgerInv, OnDisk, InMemory, DirtyOnDisk
      <3>5. ObsInv'
        BY <1>0, <2>1, <2>3, <3>1, <3>2
        DEF ObsInv, OffIsOff, AutoIsAuto, HeldIsOwned, OnIsOwned, ThermalIsOwned, FanChannels
      <3>6. PointInv'
        BY <2>3, <3>3, EndPoint
      <3> QED BY <1>a, <2>1, <2>3, <3>1, <3>4, <3>5, <3>6 DEF IInv, LedgerInv
    <2>4. CASE Refused /\ dirty' = Revoked /\ pc' = "failed" /\ UNCHANGED <<obs, active>>
      <3>1. Touched' \subseteq Touched /\ StuckDoubted'
        BY <1>0, <2>4, TouchedByCalls DEF Channels
      <3>2. \A ch \in Touched : DomainOf(ch) = frame.cur.op => ch = frame.cur.op
        BY <2>1 DEF DomainOf
      <3>3. ~Pending(prev)
        BY <1>a, <2>1, <2>4
      <3>4. OnDisk' /\ DirtyOnDisk'
        BY <1>0, <2>1, <2>4, <3>1 DEF LedgerInv, OnDisk, DirtyOnDisk, Revoked
      <3>5. InMemory'
        BY <1>0, <2>1, <2>4, <3>1, <3>2, <3>3
        DEF LedgerInv, InMemory, Revoked, OwnedAtWrite
      <3>6. ObsInv'
        BY <1>0, <2>1, <2>4, <3>1
        DEF ObsInv, OffIsOff, AutoIsAuto, HeldIsOwned, OnIsOwned, ThermalIsOwned, Revoked,
            OwnedAtWrite
      <3>7. PointInv'
        BY <2>1, <2>2, <2>4, EndPoint
      <3> QED BY <1>a, <2>1, <2>4, <3>1, <3>4, <3>5, <3>6, <3>7 DEF IInv, LedgerInv
    <2>5. CASE Unknown(frame.cur.op, frame.cur.val) /\ pc' = "failed"
               /\ UNCHANGED <<dirty, obs, active>>
      <3>1. Touched' \subseteq Touched \cup {frame.cur.op} /\ StuckDoubted'
        BY <1>0, <2>1, <2>5, TouchedByCalls DEF Values
      <3>2. OnDisk' /\ InMemory' /\ DirtyOnDisk'
        BY <1>0, <2>1, <2>2, <2>5, <3>1 DEF LedgerInv, OnDisk, InMemory, DirtyOnDisk
      <3>3. ObsInv'
        BY <1>0, <2>1, <2>5, <3>1
        DEF ObsInv, OffIsOff, AutoIsAuto, HeldIsOwned, OnIsOwned, ThermalIsOwned, FanChannels
      <3>4. PointInv'
        BY <2>1, <2>2, <2>5, EndPoint
      <3> QED BY <1>a, <2>1, <2>5, <3>1, <3>2, <3>3, <3>4 DEF IInv, LedgerInv
    <2> QED BY <1>2, <2>3, <2>4, <2>5 DEF Set
  <1>b. ASSUME pc \in FanLabels
        PROVE  /\ pc \in ExecLabels \ {"session"} /\ pc \in WriteLabels
               /\ frame.cur.op = "fan" /\ "fan" \in dirty /\ "fan" \in disk.dom
               /\ active.waiting = "fan" /\ ~active.stale =>
                    frame.ctx = "release" /\ frame.cur.val = "manual" /\ obs.fan = "manual"
               /\ frame.ctx = "plan" => active.waiting = "none"
    <2>1. frame.cur.op = "fan" /\ pc \in ExecLabels \ {"session"} /\ pc \in WriteLabels
      BY <1>0, <1>b DEF PointMatches, ExecLabels, WriteLabels, FanLabels
    <2>2. frame.ctx \in {"plan", "release"} /\ InCall /\ pc # "applied"
      BY <1>0, <2>1 DEF InCall, Frames, ExecLabels
    <2> QED BY <1>0, <2>1, <2>2 DEF OwnedAtWrite, FanReadback, InPlan, InRelease
  <1>3. CASE AutoMax \/ AutoLevel
    <2>1. pc \in {"auto.max", "auto.level"} /\ pc \in FanLabels
          /\ UNCHANGED <<disk, prev, scope, dirty, override, active, frame>>
      BY <1>3 DEF AutoMax, AutoLevel, FanLabels, ledger
    <2>2. CASE Accepted("max", "base") /\ obs' = [obs EXCEPT !.max = "off"]
               /\ pc' = (IF obs.fan # "auto" THEN "auto.level" ELSE "auto.done")
      <3>1. Touched' \subseteq Touched \ {"max"} /\ StuckDoubted'
        BY <1>0, <2>2, TouchedByCalls DEF Channels
      <3>2. obs'.max = "off" /\ obs'.fan = obs.fan /\ obs'.thermal = obs.thermal
        BY <1>0, <2>2 DEF Observations
      <3>3. OnDisk' /\ InMemory' /\ DirtyOnDisk' /\ ObsInv'
        BY <1>0, <2>1, <2>2, <3>1, <3>2
        DEF LedgerInv, OnDisk, InMemory, DirtyOnDisk, ObsInv, OffIsOff, AutoIsAuto, HeldIsOwned,
            OnIsOwned, ThermalIsOwned, FanLabels
      <3>4. OwnedAtWrite' /\ FanPoints'
        BY <1>0, <1>b, <2>1, <2>2, <3>1, <3>2
        DEF OwnedAtWrite, FanPoints, ObsInv, AutoIsAuto
      <3>5. PointInv'
        BY <1>b, <2>1, <2>2, <3>2, <3>4, WritePoint DEF WriteLabels, FanLabels
      <3> QED BY <1>a, <1>b, <2>1, <2>2, <3>1, <3>3, <3>5 DEF IInv, LedgerInv
    <2>3. CASE pc = "auto.level" /\ Accepted("level", "base") /\ pc' = "auto.done"
               /\ UNCHANGED obs
      <3>1. Touched' \subseteq Touched \ {"level"} /\ StuckDoubted'
        BY <1>0, <2>3, TouchedByCalls DEF Channels
      <3>2. OnDisk' /\ InMemory' /\ DirtyOnDisk' /\ ObsInv'
        BY <1>0, <2>1, <2>3, <3>1, QuietStep
      <3>3. OwnedAtWrite' /\ FanPoints'
        BY <1>0, <1>b, <2>1, <2>3, <3>1 DEF OwnedAtWrite, FanPoints
      <3>4. PointInv'
        BY <1>b, <2>1, <2>3, <3>3, WritePoint DEF WriteLabels, FanLabels
      <3> QED BY <1>a, <1>b, <2>1, <2>3, <3>1, <3>2, <3>4 DEF IInv, LedgerInv
    <2>4. CASE /\ CallFails("max", "base") \/ CallFails("level", "base")
               /\ pc' = "failed" /\ UNCHANGED obs
      <3>1. Touched' \subseteq Touched /\ StuckDoubted'
        BY <1>0, <2>4, TouchedByFailure DEF Channels, Values
      <3>2. OnDisk' /\ InMemory' /\ DirtyOnDisk' /\ ObsInv'
        BY <1>0, <2>1, <2>4, <3>1, QuietStep
      <3>3. OwnedAtWrite' /\ FanPoints'
        BY <2>4 DEF OwnedAtWrite, FanPoints, WriteLabels, FanLabels
      <3>4. PointInv'
        BY <1>b, <2>1, <2>4, <3>3, WritePoint
      <3> QED BY <1>a, <1>b, <2>1, <2>4, <3>1, <3>2, <3>4 DEF IInv, LedgerInv
    <2> QED BY <1>3, <2>2, <2>3, <2>4 DEF AutoMax, AutoLevel
  <1>4. CASE AutoDone
    <2>1. pc = "auto.done" /\ pc \in FanLabels /\ pc' = "applied" /\ dirty' = dirty \ {"fan"}
          /\ UNCHANGED <<hwVars, disk, prev, scope, active, frame>>
      BY <1>4 DEF AutoDone, FanLabels, world, hwVars, ledger
    <2>2. frame.cur.val = "auto" /\ obs.max = "off" /\ "level" \notin Touched /\ "max" \notin Touched
      BY <1>0, <2>1 DEF PointMatches, FanPoints, ObsInv, OffIsOff
    <2>3. Touched' = Touched /\ StuckDoubted'
      BY <1>0, <2>1 DEF hwVars, Touched, Vouched, Changed, StuckDoubted
    <2>4. obs'.fan = "auto" /\ obs'.max = "off" /\ obs'.thermal = obs.thermal
      BY <1>0, <1>4, <2>2 DEF AutoDone, Observations
    <2>5. \A ch \in Touched : DomainOf(ch) # "fan"
      BY <2>2 DEF Touched, DomainOf, Channels, FanChannels
    <2>6. OnDisk' /\ InMemory' /\ DirtyOnDisk'
      BY <1>0, <2>1, <2>3, <2>5 DEF LedgerInv, OnDisk, InMemory, DirtyOnDisk
    <2>7. ObsInv'
      BY <1>0, <2>1, <2>2, <2>3, <2>4
      DEF ObsInv, OffIsOff, AutoIsAuto, HeldIsOwned, OnIsOwned, ThermalIsOwned, HeldModes
    <2>8. PointInv'
      BY <1>b, <2>1, <2>2, EndPoint
    <2> QED BY <1>a, <1>b, <2>1, <2>3, <2>6, <2>7, <2>8 DEF IInv, LedgerInv
  <1>5. CASE MaxOn
    <2>1. pc = "max.on" /\ pc \in FanLabels
          /\ UNCHANGED <<disk, prev, scope, dirty, active, frame>>
      BY <1>5 DEF MaxOn, FanLabels, ledger
    <2>2. frame.cur.val = "max"
      BY <1>0, <2>1 DEF PointMatches
    <2>3. CASE Accepted("max", "user") /\ obs' = [obs EXCEPT !.fan = "max", !.max = "on"]
               /\ pc' = "applied"
      <3>1. Touched' \subseteq Touched \cup {"max"} /\ StuckDoubted'
        BY <1>0, <2>3, TouchedByCalls DEF Channels
      <3>2. obs'.fan = "max" /\ obs'.max = "on" /\ obs'.thermal = obs.thermal
        BY <1>0, <2>3 DEF Observations
      <3>3. OnDisk' /\ InMemory' /\ DirtyOnDisk'
        BY <1>0, <1>b, <2>1, <2>3, <3>1
        DEF LedgerInv, OnDisk, InMemory, DirtyOnDisk, DomainOf, FanChannels, FanLabels
      <3>4. ObsInv'
        BY <1>0, <1>b, <2>1, <3>1, <3>2
        DEF ObsInv, OffIsOff, AutoIsAuto, HeldIsOwned, OnIsOwned, ThermalIsOwned, HeldModes
      <3>5. PointInv'
        BY <1>b, <2>1, <2>2, <2>3, EndPoint
      <3> QED BY <1>a, <1>b, <2>1, <2>3, <3>1, <3>3, <3>4, <3>5 DEF IInv, LedgerInv
    <2>4. CASE CallFails("max", "user") /\ pc' = "failed" /\ UNCHANGED <<obs, override>>
      <3>1. Touched' \subseteq Touched /\ StuckDoubted'
        BY <1>0, <2>4, TouchedByFailure DEF Channels, FanChannels, Values
      <3>2. OnDisk' /\ InMemory' /\ DirtyOnDisk' /\ ObsInv'
        BY <1>0, <2>1, <2>4, <3>1, QuietStep
      <3>3. PointInv'
        BY <1>b, <2>1, <2>2, <2>4, EndPoint
      <3> QED BY <1>a, <1>b, <2>1, <2>4, <3>1, <3>2, <3>3 DEF IInv, LedgerInv
    <2> QED BY <1>5, <2>3, <2>4 DEF MaxOn
  <1>6. CASE HeldMax
    <2>1. pc = "held.max" /\ pc \in FanLabels
          /\ UNCHANGED <<disk, prev, scope, dirty, override, active>>
      BY <1>6 DEF HeldMax, FanLabels, ledger
    <2>2. CASE Accepted("max", "base") /\ obs' = [obs EXCEPT !.max = "off"]
               /\ frame' = [frame EXCEPT !.released = TRUE] /\ pc' = "held.level"
      <3>1. Touched' \subseteq Touched \ {"max"} /\ StuckDoubted'
        BY <1>0, <2>2, TouchedByCalls DEF Channels
      <3>2. /\ obs'.max = "off" /\ obs'.fan = obs.fan /\ obs'.thermal = obs.thermal
            /\ frame'.cur = frame.cur /\ frame'.ctx = frame.ctx
        BY <1>0, <2>2 DEF Observations, Frames
      <3>3. OnDisk' /\ InMemory' /\ DirtyOnDisk' /\ ObsInv'
        BY <1>0, <2>1, <2>2, <3>1, <3>2
        DEF LedgerInv, OnDisk, InMemory, DirtyOnDisk, ObsInv, OffIsOff, AutoIsAuto, HeldIsOwned,
            OnIsOwned, ThermalIsOwned, FanLabels
      <3>4. OwnedAtWrite' /\ FanPoints'
        BY <1>b, <2>1, <2>2, <3>2 DEF OwnedAtWrite, FanPoints
      <3>5. PointInv'
        BY <1>b, <2>1, <2>2, <3>2, <3>4, WritePoint DEF WriteLabels, FanLabels
      <3> QED BY <1>a, <1>b, <2>1, <2>2, <3>1, <3>3, <3>5 DEF IInv, LedgerInv
    <2>3. CASE CallFails("max", "base") /\ pc' = "failed" /\ UNCHANGED <<obs, frame>>
      <3>1. Touched' \subseteq Touched /\ StuckDoubted'
        BY <1>0, <2>3, TouchedByFailure DEF Channels, Values
      <3>2. OnDisk' /\ InMemory' /\ DirtyOnDisk' /\ ObsInv'
        BY <1>0, <2>1, <2>3, <3>1, QuietStep
      <3>3. OwnedAtWrite' /\ FanPoints'
        BY <2>3 DEF OwnedAtWrite, FanPoints, WriteLabels, FanLabels
      <3>4. PointInv'
        BY <1>b, <2>1, <2>3, <3>3, WritePoint
      <3> QED BY <1>a, <1>b, <2>1, <2>3, <3>1, <3>2, <3>4 DEF IInv, LedgerInv
    <2> QED BY <1>6, <2>2, <2>3 DEF HeldMax
  <1>7. CASE HeldLevel
    <2>1. pc = "held.level" /\ pc \in FanLabels /\ UNCHANGED <<disk, prev, scope, dirty>>
      BY <1>7 DEF HeldLevel, FanLabels, ledger
    <2>2. frame.cur.val \in HeldModes /\ obs.max # "on" /\ override = NoOverride
      BY <1>0, <2>1 DEF PointMatches, FanPoints, PointInv, NoOverrideAtHeld, WriteLabels, FanLabels
    <2>3. CASE /\ HeldWritten /\ pc' = "applied" /\ UNCHANGED frame
               /\ obs' = [obs EXCEPT !.fan = frame.cur.val, !.max = "off"]
               /\ override' = NoteUserFanMode(override, frame.cur.val)
               /\ active' = IF frame.ctx = "plan" /\ frame.cur.val = "manual"
                            THEN [active EXCEPT !.waiting = "fan", !.polls = VerifyPolls]
                            ELSE active
      <3>1. Touched' \subseteq (Touched \cup {"level"}) \ {"max"} /\ StuckDoubted'
        BY <1>0, <2>2, <2>3, TouchedByHeld DEF Observations, ObsInv
      <3>2. obs'.fan = frame.cur.val /\ obs'.max = "off" /\ obs'.thermal = obs.thermal
            /\ override' = NoOverride
        BY <1>0, <2>2, <2>3 DEF Observations, NoteUserFanMode
      <3>3. OnDisk' /\ InMemory' /\ DirtyOnDisk'
        BY <1>0, <1>b, <2>1, <2>3, <3>1
        DEF LedgerInv, OnDisk, InMemory, DirtyOnDisk, DomainOf, FanChannels, FanLabels
      <3>4. ObsInv'
        BY <1>0, <1>b, <2>1, <2>2, <3>1, <3>2
        DEF ObsInv, OffIsOff, AutoIsAuto, HeldIsOwned, OnIsOwned, ThermalIsOwned, HeldModes
      <3>5. active'.waiting = "fan" /\ ~active'.stale => obs'.fan = "manual"
        BY <1>b, <2>1, <2>3, <3>2
      <3>6. PointInv'
        BY <2>3, <3>2, <3>5, EndPoint
      <3> QED BY <1>a, <1>b, <2>1, <2>3, <3>1, <3>3, <3>4, <3>6 DEF IInv, LedgerInv
    <2>4. CASE /\ CallFails("level", "user") /\ UNCHANGED <<obs, override>>
               /\ \/ EpochMoved /\ EnterRestore("exec", dirty, scope)
                  \/ pc' = "failed" /\ UNCHANGED <<active, frame>>
      <3>1. Touched' \subseteq Touched /\ StuckDoubted'
        BY <1>0, <2>4, TouchedByFailure DEF Channels, FanChannels, Values
      <3>2. PointInv' /\ pc' # "crashed"
        <4>1. CASE EpochMoved /\ EnterRestore("exec", dirty, scope)
          <5>1. /\ active'.plan = active.plan /\ active'.waiting = active.waiting
                /\ active'.stale = (active.plan # <<>>)
            BY <1>0, <4>1, EpochMovedTypes
          <5>2. active.waiting # "none" => active.plan # <<>>
            BY DEF TypeInv, ControlOK, PlanInProgress
          <5>3. EnterRestore("exec", dirty', scope')
            BY <2>1, <4>1
          <5>4. PointInv'
            BY <1>0, <1>b, <2>1, <2>4, <3>1, <5>1, <5>2, <5>3, EnterPoint
          <5>5. pc' \in RestoreLabels
            BY <1>0, <4>1, EnterRestoreTypes
          <5> QED BY <5>4, <5>5 DEF RestoreLabels
        <4>2. CASE pc' = "failed" /\ UNCHANGED <<active, frame>>
          <5>1. OwnedAtWrite' /\ FanPoints'
            BY <4>2 DEF OwnedAtWrite, FanPoints, WriteLabels, FanLabels
          <5> QED BY <1>b, <2>1, <2>4, <4>2, <5>1, WritePoint
        <4> QED BY <2>4, <4>1, <4>2
      <3>3. OnDisk' /\ InMemory' /\ DirtyOnDisk' /\ ObsInv'
        BY <1>0, <2>1, <2>4, <3>1, <3>2, QuietStep
      <3> QED BY <1>a, <1>b, <2>1, <3>1, <3>2, <3>3 DEF IInv, LedgerInv
    <2> QED BY <1>7, <2>3, <2>4 DEF HeldLevel
  <1>8. CASE ExecCpu
    <2>1. pc = "cpu" /\ pc \in ExecLabels \ {"session"} /\ pc' \in {"applied", "failed"}
          /\ UNCHANGED <<hwVars, disk, prev, scope, dirty, obs, override, active, frame>>
      BY <1>8 DEF ExecCpu, ExecLabels, ledger
    <2>2. active.waiting = "none"
      <3>1. frame.cur.op = "cpu" /\ InCall /\ frame.ctx \in {"plan", "release"}
        BY <1>0, <2>1 DEF PointMatches, InCall, Frames
      <3>2. InPlan
        BY <1>0, <3>1 DEF CallMatches, InPlan, InRelease
      <3> QED BY <1>0, <2>1, <3>2 DEF FanReadback
    <2>3. Touched' = Touched /\ StuckDoubted'
      BY <1>0, <2>1 DEF hwVars, Touched, Vouched, Changed, StuckDoubted
    <2>4. OnDisk' /\ InMemory' /\ DirtyOnDisk' /\ ObsInv'
      BY <1>0, <2>1, <2>3, QuietStep
    <2>5. PointInv'
      BY <2>1, <2>2, EndPoint
    <2> QED BY <1>a, <2>1, <2>3, <2>4, <2>5 DEF IInv, LedgerInv
  <1>9. CASE ExecSession
    <2>1. pc = "session" /\ UNCHANGED <<hwVars, disk, obs, override>>
      BY <1>9 DEF ExecSession, world, hwVars
    <2>2. Touched' = Touched /\ StuckDoubted'
      BY <1>0, <2>1 DEF hwVars, Touched, Vouched, Changed, StuckDoubted
    <2>3. /\ frame.ctx = "plan" => active.waiting = "none"
          /\ Pending(prev) => frame.ctx = "plan" /\ disk = prev /\ dirty = {} /\ Unobserved
      BY <1>0, <2>1 DEF FanReadback, InPlan, InCall, ExecLabels, LedgerInv, OldSession
    <2>4. CASE /\ pc' = "failed" /\ Pending(prev)
               /\ UNCHANGED <<prev, foreign, dirty, scope, active, frame>>
      <3>1. OnDisk' /\ InMemory' /\ DirtyOnDisk' /\ ObsInv'
        BY <1>0, <2>1, <2>2, <2>4, QuietStep
      <3>2. OldSession' /\ SessionIsDurable'
        BY <1>0, <2>1, <2>3, <2>4 DEF LedgerInv, OldSession, SessionIsDurable, Unobserved
      <3>3. PointInv'
        BY <2>3, <2>4, EndPoint
      <3> QED BY <2>2, <3>1, <3>2, <3>3 DEF IInv, LedgerInv
    <2>5. CASE /\ prev' = NoLedger
               /\ dirty' = (IF Pending(prev) THEN prev.dom ELSE dirty)
               /\ scope' = (IF Pending(prev) THEN prev.scope ELSE scope)
               /\ EpochMoved /\ EnterRestore("session", dirty', scope')
      <3>1. ~Pending(prev)'
        BY <2>5 DEF Pending, NoLedger, NoScope
      <3>2. OnDisk' /\ DirtyOnDisk'
        BY <1>0, <2>1, <2>2, <2>3, <2>5 DEF LedgerInv, OnDisk, DirtyOnDisk
      <3>3. InMemory'
        BY <1>0, <2>1, <2>2, <2>3, <2>5 DEF LedgerInv, OnDisk, InMemory
      <3>4. OldSession' /\ SessionIsDurable'
        BY <1>0, <2>1, <2>3, <2>5, <3>1 DEF LedgerInv, OldSession, SessionIsDurable, Running
      <3>5. ObsInv'
        BY <1>0, <2>1, <2>2, <2>3, <2>5
        DEF ObsInv, OffIsOff, AutoIsAuto, HeldIsOwned, OnIsOwned, ThermalIsOwned, Unobserved,
            HeldModes
      <3>6. PointInv'
        <4>1. /\ active'.plan = active.plan /\ active'.waiting = active.waiting
              /\ active'.stale = (active.plan # <<>>)
          BY <1>0, <2>5, EpochMovedTypes
        <4>2. active.waiting # "none" => active.plan # <<>>
          BY DEF TypeInv, ControlOK, PlanInProgress
        <4> QED BY <1>0, <2>1, <2>2, <2>3, <2>5, <4>1, <4>2, EnterPoint
      <3> QED BY <2>2, <3>2, <3>3, <3>4, <3>5, <3>6 DEF IInv, LedgerInv
    <2> QED BY <1>9, <2>4, <2>5 DEF ExecSession
  <1> QED BY <1>1, <1>2, <1>3, <1>4, <1>5, <1>6, <1>7, <1>8, <1>9 DEF Executing

-----------------------------------------------------------------------------
(* Between the steps of a plan *)

\* A step that leaves obligations, session and file alone.
LEMMA ThroughIInv ==
  ASSUME IInv, Running, pc' # "crashed", ~Pending(prev), Touched' \subseteq Touched,
         StuckDoubted', UNCHANGED <<disk, prev, scope, dirty>>,
         obs'.fan = obs.fan, obs'.max = obs.max, obs'.thermal = obs.thermal, PointInv'
  PROVE  IInv'
  <1>1. OnDisk' /\ InMemory' /\ DirtyOnDisk' /\ ObsInv'
    BY QuietStep DEF IInv, Running
  <1>2. OldSession' /\ SessionIsDurable'
    BY DEF IInv, LedgerInv, OldSession, SessionIsDurable
  <1> QED BY <1>1, <1>2 DEF IInv, LedgerInv

\* The end of a step: the last baseline step closes the session.
LEMMA StepDoneIInv ==
  ASSUME TypeInv, IInv, Running, ~Pending(prev), StepDone, Touched' \subseteq Touched,
         StuckDoubted', UNCHANGED <<prev, dirty>>,
         obs'.fan = obs.fan, obs'.max = obs.max, obs'.thermal = obs.thermal
  PROVE  IInv'
  <1>0. TypeOK /\ LedgerInv /\ ObsInv /\ active \in Progress
    BY DEF TypeInv, TypeOK, IInv
  <1>1. pc' \in {"loop", "finish"} /\ active'.waiting = "none"
    BY <1>0 DEF StepDone, Progress
  <1>2. PointInv'
    BY <1>1, OutsidePoint
  <1>3. CASE UNCHANGED <<disk, scope>>
    BY <1>1, <1>2, <1>3, ThroughIInv
  <1>4. CASE Persist(dirty, NoScope) /\ scope' = NoScope
    <2>1. OnDisk' /\ InMemory' /\ DirtyOnDisk' /\ ObsInv'
      BY <1>0, <1>4, PersistKeeps DEF Running
    <2>2. OldSession' /\ SessionIsDurable'
      BY <1>4 DEF OldSession, SessionIsDurable, NoScope
    <2> QED BY <1>2, <2>1, <2>2 DEF IInv, LedgerInv
  <1> QED BY <1>3, <1>4 DEF StepDone

LEMMA AdvanceIInv == TypeInv /\ IInv /\ Advance => IInv'
  <1> SUFFICES ASSUME TypeInv, IInv, Advance PROVE IInv'
    OBVIOUS
  <1>0. /\ TypeOK /\ HwTypeOK /\ StuckDoubted /\ LedgerInv /\ ObsInv /\ FanReadback
        /\ obs \in Observations /\ active \in Progress /\ PlanInProgress
    BY DEF TypeInv, TypeOK, IInv, PointInv, ControlOK
  <1>a. pc = "loop" /\ Running
    BY DEF Advance, AdvanceStale, AdvanceRefuse, AdvanceExec, NextStepDue, ReadbackMatches,
           ReadbackAgain, ReadbackFails, Running
  <1>b. ASSUME UNCHANGED <<hwVars, disk, prev, scope, dirty, obs, override, frame>>,
               active'.plan = active.plan, active'.stale = active.stale,
               active'.waiting \in {active.waiting, "none"}, pc' \in {"loop", "finish"}
        PROVE  IInv'
    <2>1. Touched' = Touched /\ StuckDoubted'
      BY <1>0, <1>b DEF hwVars, Touched, Vouched, Changed, StuckDoubted
    <2>2. OnDisk' /\ InMemory' /\ DirtyOnDisk' /\ ObsInv'
      BY <1>0, <1>a, <1>b, <2>1, QuietStep
    <2>3. OldSession' /\ SessionIsDurable'
      BY <1>0, <1>a, <1>b DEF LedgerInv, OldSession, SessionIsDurable, Unobserved
    <2>4. PointInv'
      BY <1>0, <1>b, OutsidePoint DEF FanReadback
    <2> QED BY <2>1, <2>2, <2>3, <2>4 DEF IInv, LedgerInv
  <1>1. CASE AdvanceStale \/ AdvanceRefuse \/ ReadbackAgain \/ ReadbackFails
    <2>1. /\ UNCHANGED <<hwVars, disk, prev, scope, dirty, obs, override, frame>>
          /\ pc' \in {"loop", "finish"}
      BY <1>1 DEF AdvanceStale, AdvanceRefuse, NextStepDue, ReadbackAgain, ReadbackFails, ledger,
                  world, hwVars
    <2>2. /\ active'.plan = active.plan /\ active'.stale = active.stale
          /\ active'.waiting \in {active.waiting, "none"}
      BY <1>0, <1>1 DEF AdvanceStale, AdvanceRefuse, ReadbackAgain, ReadbackFails, Progress
    <2> QED BY <1>b, <2>1, <2>2
  <1>2. CASE AdvanceExec
    <2>1. /\ UNCHANGED <<hwVars, disk, prev, scope, dirty, obs, override, active>>
          /\ active.plan # <<>> /\ ~active.stale /\ active.waiting = "none" /\ Allowed(Current)
          /\ frame' = Call("plan", Current)
          /\ pc' = IF Current.op \in {"cpu", "session"} THEN Current.op ELSE "own"
      BY <1>2 DEF AdvanceExec, NextStepDue, ledger, world, hwVars
    <2>2. Current \in Commands /\ frame'.cur = Current /\ frame'.ctx = "plan"
      BY <1>0, <2>1, CurrentType DEF Call, EmptyFrame
    <2>3. Touched' = Touched /\ StuckDoubted'
      BY <1>0, <2>1 DEF hwVars, Touched, Vouched, Changed, StuckDoubted
    <2>4. OnDisk' /\ InMemory' /\ DirtyOnDisk' /\ ObsInv'
      BY <1>0, <1>a, <2>1, <2>3, QuietStep
    <2>5. Pending(prev) => pc' = "session"
      <3>1. Pending(prev) => active.plan = <<RestoreSession>>
        BY <1>0, <2>1 DEF LedgerInv, OldSession
      <3>2. Pending(prev) => Current = RestoreSession
        BY <1>0, <2>1, <3>1 DEF PlanInProgress, Current
      <3> QED BY <2>1, <3>2 DEF RestoreSession
    <2>6. OldSession' /\ SessionIsDurable'
      BY <1>0, <1>a, <2>1, <2>2, <2>5
      DEF LedgerInv, OldSession, SessionIsDurable, Unobserved
    <2>7. Current.op # "fan" => Current.val \notin HeldModes
      BY <2>2 DEF Commands, Steps, RestoreSession, Values, HeldModes
    <2>8. NoOverrideAtHeld'
      BY <2>1, <2>2, <2>7
      DEF NoOverrideAtHeld, Allowed, FanStepAllowed, WriteLabels, FanLabels
    <2>9. PointInv'
      BY <2>1, <2>2, <2>8
      DEF PointInv, RestoredIsBase, OwnedAtWrite, FanPoints, FanReadback, StalePlanNeverWrites,
          RestoreLabels, WriteLabels, FanLabels
    <2> QED BY <2>3, <2>4, <2>6, <2>9 DEF IInv, LedgerInv
  <1>3. CASE ReadbackMatches
    <2>1. /\ UNCHANGED <<prev, dirty>> /\ StepDone
          /\ active.waiting # "none" /\ ~active.stale
          /\ Refused \/ UNCHANGED hwVars
      BY <1>3 DEF ReadbackMatches
    <2>2. ~Pending(prev)
      BY <1>0, <2>1 DEF LedgerInv, OldSession
    <2>3. Touched' \subseteq Touched /\ StuckDoubted'
      <3>1. CASE Refused
        BY <1>0, <3>1, TouchedByCalls DEF Channels
      <3>2. CASE UNCHANGED hwVars
        BY <1>0, <3>2 DEF hwVars, Touched, Vouched, Changed, StuckDoubted
      <3> QED BY <2>1, <3>1, <3>2
    <2>4. obs'.fan = obs.fan /\ obs'.max = obs.max /\ obs'.thermal = obs.thermal
      <3>1. CASE active.waiting = "fan"
        BY <1>0, <1>3, <2>1, <3>1 DEF ReadbackMatches, FanReadback, Observations
      <3>2. CASE active.waiting = "power"
        BY <1>0, <1>3, <3>2 DEF ReadbackMatches, Observations
      <3>3. CASE active.waiting \notin {"fan", "power"}
        BY <1>3, <3>3 DEF ReadbackMatches
      <3> QED BY <3>1, <3>2, <3>3
    <2> QED BY <1>a, <2>1, <2>2, <2>3, <2>4, StepDoneIInv
  <1> QED BY <1>1, <1>2, <1>3 DEF Advance

LEMMA PlanIInv == TypeInv /\ IInv /\ (PlanApplied \/ FinishPlan) => IInv'
  <1> SUFFICES ASSUME TypeInv, IInv, PlanApplied \/ FinishPlan PROVE IInv'
    OBVIOUS
  <1>0. /\ TypeOK /\ StuckDoubted /\ LedgerInv /\ ObsInv /\ FanReadback
    BY DEF TypeInv, TypeOK, IInv, PointInv
  <1>1. UNCHANGED <<hwVars, prev, obs, dirty, override>>
    BY DEF PlanApplied, FinishPlan, world, hwVars
  <1>2. Touched' = Touched /\ StuckDoubted'
    BY <1>0, <1>1 DEF hwVars, Touched, Vouched, Changed, StuckDoubted
  <1>3. CASE PlanApplied
    <2>1. pc = "applied" /\ Running /\ ~Pending(prev)
      BY <1>0, <1>3 DEF PlanApplied, LedgerInv, OldSession, Running
    <2>2. CASE pc' = "loop" /\ UNCHANGED <<disk, scope, active>>
      <3>1. PointInv'
        BY <1>0, <1>1, <2>2, OutsidePoint DEF FanReadback
      <3> QED BY <1>1, <1>2, <2>1, <2>2, <3>1, ThroughIInv
    <2>3. CASE StepDone
      BY <1>1, <1>2, <2>1, <2>3, StepDoneIInv
    <2> QED BY <1>3, <2>2, <2>3 DEF PlanApplied
  <1>4. CASE FinishPlan
    <2>1. pc \in {"finish", "failed"} /\ pc' = "loop" /\ Persist(dirty, scope)
          /\ active' = Idle /\ scope' = scope
      BY <1>4 DEF FinishPlan
    <2>2. /\ OnDisk' /\ InMemory' /\ DirtyOnDisk' /\ ObsInv'
          /\ Pending(prev) => disk' = prev
          /\ ~Pending(prev) => disk' = disk \/ disk' = [dom |-> dirty, scope |-> scope]
      BY <1>0, <1>1, <1>2, <2>1, PersistKeeps
    <2>3. OldSession' /\ SessionIsDurable'
      BY <1>0, <1>1, <2>1, <2>2, InitialValues
      DEF LedgerInv, OldSession, SessionIsDurable, Unobserved, Running
    <2>4. PointInv'
      BY <2>1, InitialValues, OutsidePoint
    <2> QED BY <1>2, <2>2, <2>3, <2>4 DEF IInv, LedgerInv
  <1> QED BY <1>3, <1>4

-----------------------------------------------------------------------------
(* Requests, the safety tick and the heartbeat *)

LEMMA RequestIInv == TypeInv /\ IInv /\ Request => IInv'
  <1> SUFFICES ASSUME TypeInv, IInv, Request PROVE IInv'
    OBVIOUS
  <1>0. /\ TypeOK /\ StuckDoubted /\ LedgerInv /\ ObsInv /\ frame \in Frames
    BY DEF TypeInv, TypeOK, IInv
  <1>1. /\ pc = "loop" /\ Running /\ UNCHANGED <<hwVars, prev, dirty, obs, override>>
    BY DEF Request, BeginDirect, BeginScoped, BeginUnscope, BeginSession, Shutdown, Running,
           ledger, world, hwVars
  <1>2. Touched' = Touched /\ StuckDoubted'
    BY <1>0, <1>1 DEF hwVars, Touched, Vouched, Changed, StuckDoubted
  <1>a. ASSUME NEW p, NEW len, active' = Begun(p, len), pc' = pc
        PROVE  active'.plan = p /\ active'.waiting = "none" /\ PointInv'
    <2>1. active'.plan = p /\ active'.waiting = "none"
      BY <1>a DEF Begun, Idle
    <2> QED BY <1>1, <1>a, <2>1, OutsidePoint
  <1>3. CASE \/ \E p \in Plans : BeginDirect(p)
             \/ \E id \in SessionIds : BeginUnscope(id)
    <2>1. /\ ~Pending(prev) /\ UNCHANGED <<disk, scope, pc>>
          /\ \E p, len : active' = Begun(p, len)
      BY <1>3 DEF BeginDirect, BeginUnscope, ledger
    <2>2. PointInv'
      BY <1>a, <2>1
    <2> QED BY <1>1, <1>2, <2>1, <2>2, ThroughIInv
  <1>4. CASE \E id \in SessionIds, p \in ScopedPlans : BeginScoped(id, p)
    <2>1. PICK new, p : /\ ~Pending(prev) /\ Saved(dirty, new) /\ scope' = new /\ pc' = pc
                        /\ active' = Begun(p, 0)
      BY <1>4 DEF BeginScoped
    <2>2. OnDisk' /\ InMemory' /\ DirtyOnDisk' /\ ObsInv'
      BY <1>0, <1>1, <1>2, <2>1, PersistKeeps
    <2>3. disk' = [dom |-> dirty, scope |-> new]
      BY <2>1 DEF Saved, Record
    <2>4. OldSession' /\ SessionIsDurable'
      BY <1>1, <2>1, <2>3 DEF OldSession, SessionIsDurable
    <2>5. PointInv'
      BY <1>a, <2>1
    <2> QED BY <1>2, <2>2, <2>4, <2>5 DEF IInv, LedgerInv
  <1>5. CASE BeginSession
    <2>1. UNCHANGED <<disk, scope, pc, frame>> /\ active' = Begun(<<RestoreSession>>, 0)
      BY <1>5 DEF BeginSession, ledger
    <2>2. active'.plan = <<RestoreSession>> /\ active'.waiting = "none" /\ PointInv'
      BY <1>a, <2>1
    <2>3. OnDisk' /\ InMemory' /\ DirtyOnDisk' /\ ObsInv'
      BY <1>0, <1>1, <1>2, <2>1, QuietStep
    <2>4. OldSession' /\ SessionIsDurable'
      BY <1>0, <1>1, <2>1, <2>2 DEF LedgerInv, OldSession, SessionIsDurable, Unobserved, Running
    <2> QED BY <1>2, <2>2, <2>3, <2>4 DEF IInv, LedgerInv
  <1>6. CASE Shutdown
    <2>1. /\ disk' = disk \/ Persist(dirty, scope)
          /\ active' = Idle /\ scope' = scope /\ EnterRestore("stop", dirty, scope)
      BY <1>6 DEF Shutdown
    <2>2. /\ OnDisk' /\ InMemory' /\ DirtyOnDisk' /\ ObsInv'
          /\ Pending(prev) => disk' = prev
          /\ ~Pending(prev) => disk' = disk \/ disk' = [dom |-> dirty, scope |-> scope]
      BY <1>0, <1>1, <1>2, <2>1, PersistKeeps DEF Persist, SaveFails
    <2>3. PointInv'
      BY <1>0, <1>1, <1>2, <2>1, InitialValues, EnterPoint
    <2>4. frame'.ret = "stop" /\ pc' \in RestoreLabels
          /\ (dirty = {} /\ ~scope.on => pc' = "r.end" /\ frame'.done = {})
      BY <1>0, <2>1, EnterRestoreTypes
      DEF EnterRestore, AfterFan, AfterGpu, AfterPower, AfterThermal
    <2>5. OldSession' /\ SessionIsDurable'
      BY <1>0, <1>1, <2>1, <2>2, <2>4, InitialValues
      DEF LedgerInv, OldSession, SessionIsDurable, Unobserved, Running
    <2> QED BY <1>2, <2>2, <2>3, <2>5 DEF IInv, LedgerInv
  <1> QED BY <1>3, <1>4, <1>5, <1>6 DEF Request

LEMMA TickIInv == TypeInv /\ IInv /\ Tick => IInv'
  <1> SUFFICES ASSUME TypeInv, IInv, Tick PROVE IInv'
    OBVIOUS
  <1>0. /\ TypeOK /\ StuckDoubted /\ LedgerInv /\ ObsInv /\ FanReadback
        /\ frame \in Frames /\ active \in Progress /\ PlanInProgress
    BY DEF TypeInv, TypeOK, IInv, PointInv, ControlOK
  <1>1. /\ pc = "loop" /\ Running
        /\ UNCHANGED <<hwVars, disk, prev, scope, dirty, obs>>
    BY DEF Tick, TickWatchdog, TickRelease, TickForce, TickCurve, TickQuiet, Running, ledger,
           world, hwVars
  <1>2. Touched' = Touched /\ StuckDoubted'
    BY <1>0, <1>1 DEF hwVars, Touched, Vouched, Changed, StuckDoubted
  <1>3. Pending(prev) => ~UserHolds(obs) /\ override = NoOverride /\ obs.fan # "curve"
    BY <1>0 DEF LedgerInv, OldSession, Unobserved, UserHolds, HeldModes
  <1>4. CASE TickWatchdog
    <2>1. ~Pending(prev) /\ EpochMoved /\ EnterRestore("tick", dirty, scope)
      BY <1>3, <1>4 DEF TickWatchdog, Blind
    <2>2. /\ active'.plan = active.plan /\ active'.waiting = active.waiting
          /\ active'.stale = (active.plan # <<>>)
      BY <1>0, <2>1, EpochMovedTypes
    <2>3. active.waiting # "none" => active.plan # <<>>
      BY <1>0 DEF PlanInProgress
    <2>4. EnterRestore("tick", dirty', scope')
      BY <1>1, <2>1
    <2>5. PointInv'
      BY <1>0, <1>1, <1>2, <2>2, <2>3, <2>4, EnterPoint
    <2>6. pc' # "crashed"
      BY <1>0, <2>1, EnterRestoreTypes DEF RestoreLabels
    <2> QED BY <1>1, <1>2, <2>1, <2>5, <2>6, ThroughIInv
  <1>5. CASE TickRelease
    <2>1. /\ override # NoOverride /\ override' = NoOverride /\ active' = active
          /\ frame' = Call("release", [op |-> "fan", val |-> override])
          /\ pc' \in {"release", "own"}
      BY <1>5 DEF TickRelease, Releases
    <2>2. frame'.ctx = "release" /\ frame'.cur.val = override
      BY <2>1 DEF Call, EmptyFrame
    <2>3. FanReadback'
      BY <1>0, <1>1, <2>1, <2>2 DEF FanReadback, InPlan
    <2>4. PointInv'
      BY <2>1, <2>2, <2>3
      DEF PointInv, RestoredIsBase, OwnedAtWrite, FanPoints, NoOverrideAtHeld,
          StalePlanNeverWrites, RestoreLabels, WriteLabels, FanLabels
    <2> QED BY <1>1, <1>2, <1>3, <2>1, <2>4, ThroughIInv
  <1>6. CASE TickForce
    <2>1. ~Pending(prev)
      BY <1>3, <1>6 DEF TickForce, Engages, Retries
    <2>2. pc' = "force" /\ active' = active
          /\ (obs.fan = "manual" => override' \in {override, "manual"})
      BY <1>6 DEF TickForce, SavedMode
    <2>3. PointInv'
      BY <1>0, <1>1, <2>2, OutsidePoint DEF FanReadback
    <2> QED BY <1>1, <1>2, <2>1, <2>2, <2>3, ThroughIInv
  <1>7. CASE TickCurve
    <2>1. ~Pending(prev) /\ pc' = "curve" /\ UNCHANGED <<active, override>> /\ obs.fan = "curve"
      BY <1>3, <1>7 DEF TickCurve
    <2>2. PointInv'
      BY <1>0, <1>1, <2>1, OutsidePoint DEF FanReadback
    <2> QED BY <1>1, <1>2, <2>1, <2>2, ThroughIInv
  <1>8. CASE TickQuiet
    <2>1. pc' = "heartbeat" /\ UNCHANGED <<active, override, frame>>
      BY <1>8 DEF TickQuiet
    <2>2. PointInv'
      BY <1>0, <1>1, <2>1, OutsidePoint DEF FanReadback
    <2>3. OnDisk' /\ InMemory' /\ DirtyOnDisk' /\ ObsInv'
      BY <1>0, <1>1, <1>2, <2>1, QuietStep
    <2>4. OldSession' /\ SessionIsDurable'
      BY <1>0, <1>1, <2>1 DEF LedgerInv, OldSession, SessionIsDurable, Unobserved, Running
    <2> QED BY <1>2, <2>2, <2>3, <2>4 DEF IInv, LedgerInv
  <1> QED BY <1>4, <1>5, <1>6, <1>7, <1>8 DEF Tick

\* What the heartbeat keeps alive is owed.
LEMMA TrackedOwned ==
  ASSUME ObsInv
  PROVE  \A ch \in Tracked(obs, dirty) : DomainOf(ch) \in dirty
  BY DEF ObsInv, HeldIsOwned, OnIsOwned, ThermalIsOwned, Tracked, DomainOf, FanChannels, Channels

\* Max fan switched on unsaved: owed from now on.
LEMMA ForcedIInv ==
  ASSUME TypeInv, IInv, ~Pending(prev), Running, MaxOnUnsaved, obs' = [obs EXCEPT !.max = "on"],
         dirty' = dirty \cup {"fan"}, UNCHANGED <<disk, prev, scope>>, PointInv', pc' # "crashed"
  PROVE  IInv'
  <1>0. /\ HwTypeOK /\ StuckDoubted /\ LedgerInv /\ ObsInv /\ obs \in Observations
    BY DEF TypeInv, TypeOK, IInv
  <1>1. Touched' \subseteq Touched \cup {"max"} /\ StuckDoubted'
        /\ ("fan" \notin disk.dom => "max" \notin Touched')
    BY <1>0, TouchedByForce
  <1>2. obs'.max = "on" /\ obs'.fan = obs.fan /\ obs'.thermal = obs.thermal
    BY <1>0 DEF Observations
  <1>3. DomainOf("max") = "fan"
    BY DEF DomainOf, FanChannels
  <1>4. OnDisk' /\ InMemory' /\ DirtyOnDisk'
    BY <1>0, <1>1, <1>3 DEF LedgerInv, OnDisk, InMemory, DirtyOnDisk, Running
  <1>5. ObsInv'
    BY <1>0, <1>1, <1>2
    DEF ObsInv, OffIsOff, AutoIsAuto, HeldIsOwned, OnIsOwned, ThermalIsOwned
  <1>6. OldSession' /\ SessionIsDurable'
    BY <1>0 DEF LedgerInv, OldSession, SessionIsDurable
  <1> QED BY <1>1, <1>4, <1>5, <1>6 DEF IInv, LedgerInv

LEMMA HeartbeatIInv == TypeInv /\ IInv /\ (HeartbeatOk \/ HeartbeatFails) => IInv'
  <1> SUFFICES ASSUME TypeInv, IInv, HeartbeatOk \/ HeartbeatFails PROVE IInv'
    OBVIOUS
  <1>0. /\ TypeOK /\ StuckDoubted /\ LedgerInv /\ ObsInv /\ FanReadback
        /\ frame \in Frames /\ active \in Progress /\ PlanInProgress
    BY DEF TypeInv, TypeOK, IInv, PointInv, ControlOK
  <1>1. /\ pc = "heartbeat" /\ Running /\ Tracked(obs, dirty) # {}
        /\ UNCHANGED <<disk, prev, scope, dirty, obs, override>>
    BY DEF HeartbeatOk, HeartbeatFails, Running, ledger
  <1>2. ~Pending(prev)
    BY <1>0, <1>1 DEF LedgerInv, OldSession, Unobserved, Tracked, HeldModes
  <1>3. /\ Touched' \subseteq Touched \cup Tracked(obs, dirty) /\ StuckDoubted'
        /\ "fan" \notin disk.dom => Touched' \cap FanChannels \subseteq Touched
    BY <1>0, TouchedByHeartbeat
  <1>4. \A ch \in Touched' : DomainOf(ch) \in dirty
    BY <1>0, <1>1, <1>2, <1>3, TrackedOwned DEF LedgerInv, InMemory, Running
  <1>5. OnDisk'
    <2>1. ASSUME NEW ch \in Touched' \ Touched
          PROVE  DomainOf(ch) \in disk.dom
      <3>1. CASE ch \in FanChannels
        BY <1>3, <2>1, <3>1 DEF DomainOf
      <3>2. CASE ch \notin FanChannels
        <4>1. ch \in Channels /\ DomainOf(ch) = ch /\ ch # "fan"
          BY <2>1, <3>2 DEF Touched, DomainOf, Channels
        <4> QED BY <1>0, <1>4, <2>1, <4>1 DEF LedgerInv, DirtyOnDisk
      <3> QED BY <3>1, <3>2
    <2> QED BY <1>0, <1>1, <2>1 DEF LedgerInv, OnDisk
  <1>6. InMemory' /\ DirtyOnDisk'
    BY <1>0, <1>1, <1>4 DEF LedgerInv, InMemory, DirtyOnDisk
  <1>7. ObsInv'
    BY <1>0, <1>1, <1>3
    DEF ObsInv, OffIsOff, AutoIsAuto, HeldIsOwned, OnIsOwned, ThermalIsOwned, Tracked, HeldModes
  <1>8. OldSession' /\ SessionIsDurable'
    BY <1>0, <1>1, <1>2 DEF LedgerInv, OldSession, SessionIsDurable
  <1>9. CASE pc' = "loop" /\ UNCHANGED active
    <2>1. PointInv'
      BY <1>0, <1>1, <1>9, OutsidePoint DEF FanReadback
    <2> QED BY <1>3, <1>5, <1>6, <1>7, <1>8, <2>1 DEF IInv, LedgerInv
  <1>10. CASE EpochMoved /\ EnterRestore("loop", dirty, scope)
    <2>1. /\ active'.plan = active.plan /\ active'.waiting = active.waiting
          /\ active'.stale = (active.plan # <<>>)
      BY <1>0, <1>10, EpochMovedTypes
    <2>2. /\ pc' \in RestoreLabels /\ frame'.ret = "loop" /\ frame'.ctx = frame.ctx
          /\ frame'.done = IF "fan" \in dirty /\ obs.max = "off" THEN {"max"} ELSE {}
          /\ pc' \in {"r.max", "r.auto", "r.rearm"} => "fan" \in dirty
      BY <1>0, <1>10, EnterRestoreTypes
    <2>3. RestoredIsBase'
      BY <1>1, <1>7, <2>1, <2>2 DEF RestoredIsBase, ObsInv, OffIsOff
    <2>4. PointInv'
      BY <1>0, <2>1, <2>2, <2>3
      DEF PointInv, OwnedAtWrite, FanPoints, NoOverrideAtHeld, FanReadback, StalePlanNeverWrites,
          RestoreLabels, WriteLabels, FanLabels, ExecLabels, InPlan, InCall, PlanInProgress
    <2> QED BY <1>3, <1>5, <1>6, <1>7, <1>8, <2>4 DEF IInv, LedgerInv
  <1> QED BY <1>9, <1>10 DEF HeartbeatOk, HeartbeatFails

LEMMA ActingIInv == TypeInv /\ IInv /\ Acting => IInv'
  <1> SUFFICES ASSUME TypeInv, IInv, Acting PROVE IInv'
    OBVIOUS
  <1>0. /\ TypeOK /\ HwTypeOK /\ StuckDoubted /\ LedgerInv /\ ObsInv /\ FanReadback /\ FanPoints
        /\ NoOverrideAtHeld /\ obs \in Observations /\ frame \in Frames /\ active \in Progress
        /\ PlanInProgress /\ PointMatches
    BY DEF TypeInv, TypeOK, IInv, PointInv, ControlOK
  <1>a. ASSUME pc \in {"curve", "force", "release", "rearm", "applied"}
                 \/ (pc = "failed" /\ frame.ctx = "release")
        PROVE  ~Pending(prev) /\ Running
    BY <1>0, <1>a DEF LedgerInv, OldSession, Running
  <1>b. ASSUME UNCHANGED <<active, obs, override>>, pc' \in {"loop", "heartbeat", "rearm"}
        PROVE  PointInv'
    BY <1>0, <1>b, OutsidePoint DEF FanReadback
  <1>1. CASE CurveWrite
    <2>1. pc = "curve" /\ obs.fan = "curve" /\ ~Pending(prev) /\ Running
          /\ "fan" \in dirty /\ "fan" \in disk.dom
          /\ UNCHANGED <<disk, prev, scope, dirty, obs, override>>
      BY <1>0, <1>a, <1>1 DEF CurveWrite, FanPoints, ObsInv, HeldIsOwned, HeldModes, ledger
    <2>2. CASE Accepted("level", "user") /\ pc' = "heartbeat" /\ UNCHANGED active
      <3>1. Touched' \subseteq Touched \cup {"level"} /\ StuckDoubted'
        BY <1>0, <2>2, TouchedByCalls DEF Channels
      <3>2. DomainOf("level") = "fan"
        BY DEF DomainOf, FanChannels
      <3>3. OnDisk' /\ InMemory' /\ DirtyOnDisk'
        BY <1>0, <2>1, <3>1, <3>2 DEF LedgerInv, OnDisk, InMemory, DirtyOnDisk, Running
      <3>4. ObsInv'
        BY <1>0, <2>1, <3>1
        DEF ObsInv, OffIsOff, AutoIsAuto, HeldIsOwned, OnIsOwned, ThermalIsOwned
      <3>5. OldSession' /\ SessionIsDurable'
        BY <1>0, <2>1 DEF LedgerInv, OldSession, SessionIsDurable
      <3>6. PointInv'
        BY <1>b, <2>1, <2>2
      <3> QED BY <3>1, <3>3, <3>4, <3>5, <3>6 DEF IInv, LedgerInv
    <2>3. CASE CallFails("level", "user") /\ EpochMoved /\ EnterRestore("tick", dirty, scope)
      <3>1. Touched' \subseteq Touched /\ StuckDoubted'
        BY <1>0, <2>3, TouchedByFailure DEF Channels, FanChannels, Values
      <3>2. /\ active'.plan = active.plan /\ active'.waiting = active.waiting
            /\ active'.stale = (active.plan # <<>>)
        BY <1>0, <2>3, EpochMovedTypes
      <3>3. active.waiting # "none" => active.plan # <<>>
        BY <1>0 DEF PlanInProgress
      <3>4. EnterRestore("tick", dirty', scope')
        BY <2>1, <2>3
      <3>5. PointInv'
        BY <1>0, <2>1, <3>1, <3>2, <3>3, <3>4, EnterPoint
      <3>6. pc' # "crashed"
        BY <1>0, <2>3, EnterRestoreTypes DEF RestoreLabels
      <3> QED BY <2>1, <3>1, <3>5, <3>6, ThroughIInv
    <2> QED BY <1>1, <2>2, <2>3 DEF CurveWrite
  <1>2. CASE ForceMax \/ Rearm
    <2>1. pc \in {"force", "rearm"} /\ pc' = "heartbeat" /\ ~Pending(prev) /\ Running
          /\ UNCHANGED <<disk, prev, scope, override, active>>
      BY <1>a, <1>2 DEF ForceMax, Rearm, ledger
    <2>2. CASE MaxOnUnsaved /\ obs' = [obs EXCEPT !.max = "on"] /\ dirty' = dirty \cup {"fan"}
      <3>1. obs'.fan = obs.fan
        BY <1>0, <2>2 DEF Observations
      <3>2. PointInv'
        BY <1>0, <2>1, <3>1, OutsidePoint DEF FanReadback
      <3> QED BY <2>1, <2>2, <3>2, ForcedIInv
    <2>3. CASE CallFails("max", "user") /\ UNCHANGED <<obs, dirty>>
      <3>1. Touched' \subseteq Touched /\ StuckDoubted'
        BY <1>0, <2>3, TouchedByFailure DEF Channels, FanChannels, Values
      <3>2. PointInv'
        BY <1>b, <2>1, <2>3
      <3> QED BY <2>1, <2>3, <3>1, <3>2, ThroughIInv
    <2> QED BY <1>2, <2>2, <2>3 DEF ForceMax, Rearm
  <1>3. CASE ReleaseMax
    <2>1. pc = "release" /\ frame.ctx = "release" /\ ~Pending(prev) /\ Running
          /\ override = NoOverride
          /\ UNCHANGED <<disk, prev, scope, dirty, override, active, frame>>
      BY <1>0, <1>a, <1>3 DEF ReleaseMax, PointMatches, NoOverrideAtHeld, ledger
    <2>2. active.waiting = "fan" /\ ~active.stale => obs.fan = "manual" /\ frame.cur.val = "manual"
      BY <1>0, <2>1 DEF FanReadback, InRelease
    <2>3. CASE Accepted("max", "base") /\ obs' = [obs EXCEPT !.max = "off"] /\ pc' = "own"
      <3>1. Touched' \subseteq Touched \ {"max"} /\ StuckDoubted'
        BY <1>0, <2>3, TouchedByCalls DEF Channels
      <3>2. obs'.max = "off" /\ obs'.fan = obs.fan /\ obs'.thermal = obs.thermal
        BY <1>0, <2>3 DEF Observations
      <3>3. OnDisk' /\ InMemory' /\ DirtyOnDisk' /\ ObsInv'
        BY <1>0, <2>1, <2>3, <3>1, <3>2
        DEF LedgerInv, OnDisk, InMemory, DirtyOnDisk, ObsInv, OffIsOff, AutoIsAuto, HeldIsOwned,
            OnIsOwned, ThermalIsOwned
      <3>4. OldSession' /\ SessionIsDurable'
        BY <1>0, <2>1 DEF LedgerInv, OldSession, SessionIsDurable
      <3>5. PointInv'
        BY <2>1, <2>2, <2>3, <3>2
        DEF PointInv, RestoredIsBase, OwnedAtWrite, FanPoints, NoOverrideAtHeld, FanReadback,
            StalePlanNeverWrites, RestoreLabels, WriteLabels, FanLabels, InPlan
      <3> QED BY <3>1, <3>3, <3>4, <3>5 DEF IInv, LedgerInv
    <2>4. CASE CallFails("max", "base") /\ pc' = "failed" /\ UNCHANGED obs
      <3>1. Touched' \subseteq Touched /\ StuckDoubted'
        BY <1>0, <2>4, TouchedByFailure DEF Channels, Values
      <3>2. PointInv'
        BY <2>1, <2>2, <2>4, EndPoint
      <3> QED BY <2>1, <2>4, <3>1, <3>2, ThroughIInv
    <2> QED BY <1>3, <2>3, <2>4 DEF ReleaseMax
  <1>4. CASE ReleaseApplied \/ ReleaseFailed
    <2>1. /\ UNCHANGED <<hwVars, disk, prev, scope, dirty, obs, active>>
          /\ pc' \in {"heartbeat", "rearm"} /\ ~Pending(prev) /\ Running
      BY <1>a, <1>4 DEF ReleaseApplied, ReleaseFailed, ledger, world, hwVars
    <2>2. active.waiting = "fan" /\ ~active.stale
            => obs.fan = "manual" /\ override' \in {NoOverride, "manual"}
      <3>1. CASE ReleaseApplied
        BY <1>0, <3>1 DEF ReleaseApplied, FanReadback
      <3>2. CASE ReleaseFailed
        BY <1>0, <3>2 DEF ReleaseFailed, FanReadback, InRelease, InCall
      <3> QED BY <1>4, <3>1, <3>2
    <2>3. PointInv'
      BY <2>1, <2>2, OutsidePoint
    <2>4. Touched' = Touched /\ StuckDoubted'
      BY <1>0, <2>1 DEF hwVars, Touched, Vouched, Changed, StuckDoubted
    <2> QED BY <2>1, <2>3, <2>4, ThroughIInv
  <1>5. CASE HeartbeatIdle
    <2>1. /\ UNCHANGED <<hwVars, disk, prev, scope, dirty, obs, override, active, frame>>
          /\ pc = "heartbeat" /\ pc' = "loop"
      BY <1>5 DEF HeartbeatIdle, ledger, world, hwVars
    <2>2. Touched' = Touched /\ StuckDoubted'
      BY <1>0, <2>1 DEF hwVars, Touched, Vouched, Changed, StuckDoubted
    <2>3. PointInv'
      BY <1>b, <2>1
    <2>4. OnDisk' /\ InMemory' /\ DirtyOnDisk' /\ ObsInv'
      BY <1>0, <2>1, <2>2, QuietStep
    <2>5. OldSession' /\ SessionIsDurable'
      BY <1>0, <2>1 DEF LedgerInv, OldSession, SessionIsDurable, Unobserved, Running
    <2> QED BY <2>2, <2>3, <2>4, <2>5 DEF IInv, LedgerInv
  <1>6. CASE HeartbeatOk \/ HeartbeatFails
    BY <1>6, HeartbeatIInv
  <1> QED BY <1>1, <1>2, <1>3, <1>4, <1>5, <1>6 DEF Acting

-----------------------------------------------------------------------------
LEMMA NextIInv == TypeInv /\ IInv /\ [Next]_vars => IInv'
  <1> SUFFICES ASSUME TypeInv, IInv, [Next]_vars PROVE IInv'
    OBVIOUS
  <1>1. CASE UNCHANGED vars
    BY <1>1
    DEF vars, IInv, StuckDoubted, LedgerInv, OnDisk, InMemory, DirtyOnDisk, OldSession,
        SessionIsDurable, Unobserved, Running, ObsInv, OffIsOff, AutoIsAuto, HeldIsOwned,
        OnIsOwned, ThermalIsOwned, PointInv, RestoredIsBase, OwnedAtWrite, FanPoints,
        NoOverrideAtHeld, FanReadback, StalePlanNeverWrites, InPlan, InRelease, InCall,
        Touched, Vouched, Changed
  <1>2. CASE Next
    BY <1>2, RestoringIInv, ExecutingIInv, ActingIInv, PlanIInv, AdvanceIInv, TickIInv,
       RequestIInv, EnvironmentIInv
    DEF Next, Inside
  <1> QED BY <1>1, <1>2

\* The strengthened invariant holds in every reachable state.
THEOREM LedgerInvariance == Spec => [](TypeInv /\ IInv)
  <1>1. Init => TypeInv /\ IInv
    BY InitTypeInv, InitIInv
  <1>2. TypeInv /\ IInv /\ [Next]_vars => (TypeInv /\ IInv)'
    BY NextTypeInv, NextIInv
  <1> QED BY <1>1, <1>2, PTL DEF Spec

\* Whatever the session really changed, and the ledger answers for, is in the
\* recovery record on disk: at every point of every handler and across crashes.
THEOREM LedgerAlwaysCovers == Spec => []LedgerCovers
  <1>1. IInv => LedgerCovers
    BY DEF IInv, LedgerInv, OnDisk, Touched, Vouched, Changed, LedgerCovers
  <1> QED BY <1>1, LedgerInvariance, PTL

\* No re-assertion of the heartbeat outlives the restore obligation of its domain.
THEOREM TrackedAlwaysOwned == Spec => []TrackedIsOwned
  <1>1. IInv => TrackedIsOwned
    BY TrackedOwned DEF IInv, TrackedIsOwned
  <1> QED BY <1>1, LedgerInvariance, PTL

\* No save overwrites the record of an earlier session before it is adopted.
THEOREM EarlierRecordAlwaysKept == Spec => []EarlierRecordKept
  <1>1. IInv => EarlierRecordKept
    BY DEF IInv, LedgerInv, OldSession, EarlierRecordKept
  <1> QED BY <1>1, LedgerInvariance, PTL

\* An open automation session and its baseline are on disk, so a crash keeps them.
THEOREM SessionAlwaysDurable == Spec => []SessionIsDurable
  <1>1. IInv => SessionIsDurable
    BY DEF IInv, LedgerInv
  <1> QED BY <1>1, LedgerInvariance, PTL

\* A plan overtaken by a restore writes nothing more.
THEOREM StalePlanNeverWritesHolds == Spec => []StalePlanNeverWrites
  <1>1. IInv => StalePlanNeverWrites
    BY DEF IInv, PointInv
  <1> QED BY <1>1, LedgerInvariance, PTL

-----------------------------------------------------------------------------
(* The override *)

\* The steps after which max fan is observed off where it was on before.
LEMMA MaxSwitchedOff ==
  ASSUME TypeInv, IInv, Next, obs.max = "on", obs'.max = "off"
  PROVE  \/ RestoreMax \/ AutoMax
         \/ (HeldMax \/ HeldLevel \/ ReleaseMax) /\ override = NoOverride
  <1>0. /\ obs \in Observations /\ FanPoints /\ NoOverrideAtHeld /\ RestoredIsBase /\ PointMatches
    BY DEF TypeInv, TypeOK, ControlOK, IInv, PointInv
  <1>1. obs' # obs
    OBVIOUS
  <1>2. ~Environment
    <2>1. obs' # NothingObserved
      BY DEF NothingObserved
    <2>2. ~Crash /\ ~Restart
      BY <2>1 DEF Crash, Restart, FreshMemory
    <2> QED BY <1>1, <2>2 DEF Environment, Sense, SwitchScheme, Firmware
  <1>3. ~Request /\ ~Tick
    BY <1>1 DEF Request, BeginDirect, BeginScoped, BeginUnscope, BeginSession, Shutdown, Tick,
                TickWatchdog, TickRelease, TickForce, TickCurve, TickQuiet
  <1>4. ~Advance
    <2>1. ~ReadbackMatches
      BY <1>0 DEF ReadbackMatches, Observations
    <2> QED BY <1>1, <2>1 DEF Advance, AdvanceStale, AdvanceRefuse, AdvanceExec, ReadbackAgain,
                              ReadbackFails
  <1>5. ~PlanApplied /\ ~FinishPlan
    BY <1>1 DEF PlanApplied, FinishPlan
  <1>6. Restoring => RestoreMax
    <2>1. ~RestoreRearm
      BY <1>0 DEF RestoreRearm, Observations
    <2>2. ~RestoreEnd
      BY <1>0 DEF RestoreEnd, RestoredIsBase, RestoreLabels, Observations
    <2> QED BY <1>1, <2>1, <2>2 DEF Restoring, RestoreLevel, RestoreDomain, RestoreScope, RestoreCpu
  <1>7. Executing => AutoMax \/ ((HeldMax \/ HeldLevel) /\ override = NoOverride)
    <2>1. ~Set /\ ~AutoDone /\ ~MaxOn
      BY <1>0 DEF Set, AutoDone, MaxOn, Observations
    <2>2. ~Own /\ ~AutoLevel /\ ~ExecCpu /\ ~ExecSession
      BY <1>1 DEF Own, AutoLevel, ExecCpu, ExecSession
    <2>3. HeldMax \/ HeldLevel => override = NoOverride
      BY <1>0 DEF HeldMax, HeldLevel, PointMatches, NoOverrideAtHeld, WriteLabels, FanLabels
    <2> QED BY <2>1, <2>2, <2>3 DEF Executing
  <1>8. Acting => ReleaseMax /\ override = NoOverride
    <2>1. ~ForceMax /\ ~Rearm
      BY <1>0 DEF ForceMax, Rearm, Observations
    <2>2. ~CurveWrite /\ ~ReleaseApplied /\ ~ReleaseFailed /\ ~HeartbeatIdle /\ ~HeartbeatOk
          /\ ~HeartbeatFails
      BY <1>1 DEF CurveWrite, ReleaseApplied, ReleaseFailed, HeartbeatIdle, HeartbeatOk,
                  HeartbeatFails
    <2>3. ReleaseMax => override = NoOverride
      BY <1>0 DEF ReleaseMax, PointMatches, NoOverrideAtHeld
    <2> QED BY <2>1, <2>2, <2>3 DEF Acting
  <1> QED BY <1>2, <1>3, <1>4, <1>5, <1>6, <1>7, <1>8 DEF Next, Inside

\* While an override is latched, only the user's auto command and a restore
\* switch max fan off; a plan, a level or a release of its own never does.
THEOREM OverrideAlwaysHoldsMax == Spec => OverrideHoldsMax
  <1>1. TypeInv /\ IInv /\ [Next]_vars =>
          [override # NoOverride /\ obs.max = "on" /\ obs'.max = "off"
             => pc \in {"auto.max", "r.max"}]_vars
    <2> SUFFICES ASSUME TypeInv, IInv, Next, override # NoOverride, obs.max = "on",
                        obs'.max = "off"
                 PROVE  pc \in {"auto.max", "r.max"}
      OBVIOUS
    <2> QED BY MaxSwitchedOff DEF RestoreMax, AutoMax
  <1> QED BY <1>1, LedgerInvariance, PTL DEF Spec, OverrideHoldsMax

-----------------------------------------------------------------------------
(* Sessions and the CPU policy stored in the scheme they were opened under.  *)
(* Closing compares nothing: that the policy is back follows from where the  *)
(* plan stands, so SessionInv says how far the baseline at its head has come.*)

\* A baseline has one value of the CPU policy, and a session that is not open has none.
Consistent(s) ==
  /\ ~s.on => s.plan = <<>>
  /\ \A i, j \in DOMAIN s.plan :
       s.plan[i].op = "cpu" /\ s.plan[j].op = "cpu" => s.plan[i].val = s.plan[j].val
SessionsConsistent == Consistent(scope) /\ Consistent(disk.scope) /\ Consistent(prev.scope)

\* A plan that ends a session restores nothing else on the way.
ClosersAreSteps ==
  active.scopeLen # 0 =>
    /\ active.plan \in Seq(Steps) /\ active.plan # <<>>
    /\ pc # "session"
    /\ pc \in RestoreLabels => frame.ret # "session"
    /\ pc = "applied" /\ frame.ctx = "plan" => ~active.stale

\* The plan in progress is still at the baseline it began with.
Closing ==
  /\ active.scopeLen # 0 /\ active.index <= active.scopeLen
  /\ ~active.stale /\ pc # "finish"

\* Step i of the plan is applied.
Done(i) == i < active.index \/ (i = active.index /\ pc = "applied" /\ frame.ctx = "plan")

\* It is the open session's baseline, and what is applied of it is in the scheme.
AtBaseline ==
  /\ scope.on /\ active.scopeLen = Len(scope.plan)
  /\ \A i \in DOMAIN scope.plan : i \in DOMAIN active.plan /\ active.plan[i] = scope.plan[i]
  /\ ~active.moved =>
       /\ SchemeUnmoved
       /\ \A i \in DOMAIN scope.plan :
            Done(i) /\ scope.plan[i].op = "cpu" => cpu[scheme] = scope.plan[i].val
ClosesSession == Closing => AtBaseline

SessionInv == SessionsConsistent /\ ClosersAreSteps /\ ClosesSession

-----------------------------------------------------------------------------
(* What every kind of step leaves of it *)

LEMMA NoSessionConsistent == Consistent(NoScope) /\ Consistent(NoLedger.scope)
  BY DEF Consistent, NoScope, NoLedger

LEMMA PersistConsistent ==
  ASSUME SessionsConsistent, NEW d, NEW s, Consistent(s), Persist(d, s) \/ Saved(d, s) \/ SaveFails
  PROVE  Consistent(disk'.scope)
  BY DEF SessionsConsistent, Persist, Saved, SaveFails, Record

\* No session hangs on the plan in progress.
LEMMA NoCloser ==
  ASSUME SessionsConsistent', active'.scopeLen = 0
  PROVE  SessionInv'
  BY DEF SessionInv, ClosersAreSteps, ClosesSession, AtBaseline, Closing

\* A handler that has nothing to do with the plan's steps.
LEMMA Undisturbed ==
  ASSUME SessionInv, UNCHANGED <<cpu, scheme, scope, prev>>, Consistent(disk'.scope),
         active'.plan = active.plan, active'.index = active.index,
         active'.scopeLen = active.scopeLen, active'.stale = active.stale,
         active'.moved = active.moved, pc # "finish",
         pc' \notin RestoreLabels \cup {"session"},
         pc' = "applied" /\ frame'.ctx = "plan" => pc = "applied" /\ frame.ctx = "plan"
  PROVE  SessionInv'
  <1>1. SessionsConsistent'
    BY DEF SessionInv, SessionsConsistent
  <1>2. ClosersAreSteps'
    BY DEF SessionInv, ClosersAreSteps
  <1>3. ClosesSession'
    BY DEF SessionInv, ClosesSession, AtBaseline, Closing, Done, SchemeUnmoved
  <1> QED BY <1>1, <1>2, <1>3 DEF SessionInv

\* A step that does not write the CPU policy is applied.
LEMMA OtherStepApplied ==
  ASSUME SessionInv, UNCHANGED <<cpu, scheme, scope, prev, disk>>,
         active'.plan = active.plan, active'.index = active.index,
         active'.scopeLen = active.scopeLen, active'.stale = active.stale,
         active'.moved = active.moved, pc # "finish", pc' = "applied",
         frame'.ctx = "plan" => ~active.stale /\ Current.op # "cpu"
  PROVE  SessionInv'
  <1>1. SessionsConsistent'
    BY DEF SessionInv, SessionsConsistent
  <1>2. ClosersAreSteps'
    BY DEF SessionInv, ClosersAreSteps, RestoreLabels
  <1>3. ClosesSession'
    BY DEF SessionInv, ClosesSession, AtBaseline, Closing, Done, Current, SchemeUnmoved
  <1> QED BY <1>1, <1>2, <1>3 DEF SessionInv

\* A restore has overtaken the plan in progress.
LEMMA Overtaken ==
  ASSUME SessionInv, SessionsConsistent', active'.plan = active.plan,
         active'.scopeLen = active.scopeLen, active.scopeLen # 0 => active'.stale,
         pc' # "session",
         active.scopeLen # 0 /\ pc' \in RestoreLabels => frame'.ret # "session",
         active.scopeLen # 0 => ~(pc' = "applied" /\ frame'.ctx = "plan")
  PROVE  SessionInv'
  <1>1. ClosersAreSteps'
    BY DEF SessionInv, ClosersAreSteps
  <1>2. ClosesSession'
    BY DEF ClosesSession, AtBaseline, Closing
  <1> QED BY <1>1, <1>2 DEF SessionInv

\* The same, at the step that enters it.
LEMMA EntersRestore ==
  ASSUME TypeInv, SessionInv, EpochMoved, NEW r \in {"tick", "loop", "exec", "stop"},
         EnterRestore(r, dirty, scope), UNCHANGED <<scope, prev, disk>>
  PROVE  SessionInv'
  <1>1. active \in Progress /\ frame \in Frames
    BY DEF TypeInv, TypeOK
  <1>2. /\ active'.plan = active.plan /\ active'.scopeLen = active.scopeLen
        /\ active'.stale = (active.plan # <<>>)
    BY <1>1 DEF EpochMoved, Progress
  <1>3. pc' \in RestoreLabels /\ frame'.ret = r
    BY <1>1, EnterRestoreTypes
  <1>4. SessionsConsistent'
    BY DEF SessionInv, SessionsConsistent
  <1>5. active.scopeLen # 0 => active'.stale
    BY <1>2 DEF SessionInv, ClosersAreSteps
  <1> QED BY <1>2, <1>3, <1>4, <1>5, Overtaken DEF RestoreLabels

\* The plan in progress is given up.
LEMMA Finishing ==
  ASSUME SessionInv, UNCHANGED <<scope, prev, disk>>, active'.plan = active.plan,
         active'.scopeLen = active.scopeLen, pc' = "finish"
  PROVE  SessionInv'
  BY DEF SessionInv, SessionsConsistent, ClosersAreSteps, ClosesSession, AtBaseline, Closing, RestoreLabels

-----------------------------------------------------------------------------
(* Every step preserves it *)

LEMMA InitSession == Init => SessionInv
  <1> SUFFICES ASSUME Init PROVE SessionInv
    OBVIOUS
  <1>1. SessionsConsistent
    BY NoSessionConsistent DEF Init, SessionsConsistent
  <1>2. active.scopeLen = 0
    BY DEF Init, Idle
  <1> QED BY <1>1, <1>2 DEF SessionInv, ClosersAreSteps, ClosesSession, AtBaseline, Closing

LEMMA EnvironmentSession == TypeInv /\ SessionInv /\ Environment => SessionInv'
  <1> SUFFICES ASSUME TypeInv, SessionInv, Environment PROVE SessionInv'
    OBVIOUS
  <1>0. active \in Progress /\ SessionsConsistent /\ ClosersAreSteps /\ ClosesSession
    BY DEF TypeInv, TypeOK, SessionInv
  <1>1. CASE Sense \/ Firmware
    <2>1. UNCHANGED <<cpu, scheme, disk, prev, scope, active, pc, frame>>
      BY <1>1 DEF Sense, Firmware, world, ledger
    <2> QED
      BY <1>0, <2>1
      DEF SessionInv, SessionsConsistent, ClosersAreSteps, ClosesSession, AtBaseline, Closing, Done,
          SchemeUnmoved
  <1>2. CASE SwitchScheme
    <2>1. /\ UNCHANGED <<cpu, disk, prev, scope, pc>>
          /\ frame'.ctx = frame.ctx /\ frame'.ret = frame.ret
          /\ active'.plan = active.plan /\ active'.scopeLen = active.scopeLen
          /\ active'.index = active.index /\ active'.stale = active.stale
          /\ active'.moved = (active.plan # <<>>)
      BY <1>0, <1>2 DEF SwitchScheme, ledger, Progress, Frames, TypeInv, TypeOK
    <2>2. Closing' => Closing /\ active'.moved
      BY <1>0, <2>1 DEF Closing, ClosersAreSteps
    <2>3. ClosesSession'
      BY <1>0, <2>1, <2>2 DEF ClosesSession, AtBaseline
    <2> QED BY <1>0, <2>1, <2>3 DEF SessionInv, SessionsConsistent, ClosersAreSteps
  <1>3. CASE Crash \/ Restart
    <2>1. active' = Idle /\ scope' = NoScope /\ disk' = disk /\ prev' \in {disk, NoLedger}
      BY <1>3 DEF Crash, Restart, FreshMemory
    <2>2. SessionsConsistent'
      BY <1>0, <2>1, NoSessionConsistent DEF SessionsConsistent
    <2> QED BY <2>1, <2>2, NoCloser DEF Idle
  <1> QED BY <1>1, <1>2, <1>3 DEF Environment

LEMMA RestoringSession == TypeInv /\ IInv /\ SessionInv /\ Restoring => SessionInv'
  <1> SUFFICES ASSUME TypeInv, IInv, SessionInv, Restoring PROVE SessionInv'
    OBVIOUS
  <1>0. /\ SessionsConsistent /\ ClosersAreSteps /\ frame \in Frames
        /\ pc \in RestoreLabels /\ active' = active
    BY DEF TypeInv, TypeOK, SessionInv, Restoring, RestoreMax, RestoreLevel, RestoreRearm,
           RestoreDomain, RestoreScope, RestoreCpu, RestoreEnd, RestoreLabels
  <1>1. active.scopeLen # 0 => active.stale /\ frame.ret # "session"
    BY <1>0 DEF IInv, PointInv, RestoredIsBase, ClosersAreSteps
  <1>2. CASE ~RestoreEnd
    <2>1. pc' \in RestoreLabels
      BY <1>2, AfterTypes
      DEF Restoring, RestoreMax, RestoreLevel, RestoreRearm, RestoreDomain, RestoreScope,
          RestoreCpu, RestoreLabels
    <2>2. frame'.ret = frame.ret
      BY <1>0, <1>2
      DEF Restoring, RestoreMax, RestoreLevel, RestoreRearm, RestoreDomain, RestoreScope,
          RestoreCpu, Frames
    <2>3. disk' = disk /\ prev' = prev /\ scope' \in {scope, NoScope}
      BY <1>2
      DEF Restoring, RestoreMax, RestoreLevel, RestoreRearm, RestoreDomain, RestoreScope,
          RestoreCpu, ledger
    <2>4. SessionsConsistent'
      BY <1>0, <2>3, NoSessionConsistent DEF SessionsConsistent
    <2> QED BY <1>0, <1>1, <2>1, <2>2, <2>4, Overtaken DEF RestoreLabels
  <1>3. CASE RestoreEnd
    <2>1. pc' \notin RestoreLabels \cup {"session"} /\ (pc' = "applied" => frame.ret = "session")
      BY <1>0, <1>3 DEF RestoreEnd, RestoreLabels, Frames
    <2>2. Consistent(disk'.scope)
      BY <1>0, <1>3, PersistConsistent DEF RestoreEnd, SessionsConsistent
    <2>3. SessionsConsistent'
      BY <1>0, <1>3, <2>2 DEF RestoreEnd, SessionsConsistent
    <2> QED BY <1>0, <1>1, <2>1, <2>3, Overtaken
  <1> QED BY <1>2, <1>3

LEMMA ExecCpuSession == TypeInv /\ SessionInv /\ ExecCpu /\ ~active.stale => SessionInv'
  <1> SUFFICES ASSUME TypeInv, SessionInv, ExecCpu, ~active.stale PROVE SessionInv'
    OBVIOUS
  <1>0. /\ SessionsConsistent /\ ClosersAreSteps /\ ClosesSession /\ active \in Progress
        /\ frame \in Frames /\ cpu \in [Schemes -> Values] /\ scheme \in Schemes
        /\ CallMatches /\ PointMatches
    BY DEF TypeInv, TypeOK, ControlOK, SessionInv, Scopes
  <1>1. /\ pc = "cpu" /\ pc' \in {"applied", "failed"}
        /\ UNCHANGED <<scheme, disk, prev, scope, active, frame>>
        /\ cpu' \in {cpu, [cpu EXCEPT ![scheme] = frame.cur.val]}
        /\ pc' = "applied" => cpu' = [cpu EXCEPT ![scheme] = frame.cur.val]
    BY DEF ExecCpu, ledger
  <1>2. frame.cur.op = "cpu" /\ frame.ctx = "plan" /\ frame.cur = Current
    BY <1>0, <1>1 DEF PointMatches, CallMatches, InPlan, InRelease, InCall, ExecLabels, Frames
  <1>3. ClosesSession'
    <2> SUFFICES ASSUME Closing' PROVE AtBaseline'
      BY DEF ClosesSession, AtBaseline
    <2>1. Closing
      BY <1>1 DEF Closing
    <2>2. /\ scope.on /\ active.scopeLen = Len(scope.plan)
          /\ \A i \in DOMAIN scope.plan : i \in DOMAIN active.plan /\ active.plan[i] = scope.plan[i]
          /\ ~active.moved => SchemeUnmoved'
      BY <1>0, <1>1, <2>1 DEF ClosesSession, AtBaseline, SchemeUnmoved
    <2>3. active.index \in DOMAIN scope.plan
      <3>1. scope.plan \in Seq(Steps) /\ active.index \in Nat \ {0} /\ active.index <= Len(scope.plan)
        BY <1>0, <2>1, <2>2 DEF Closing, Progress, TypeInv, TypeOK, Scopes
      <3> QED BY <3>1
    <2>4. scope.plan[active.index] = frame.cur
      BY <1>2, <2>2, <2>3 DEF Current
    <2>5. ASSUME ~active.moved, NEW i \in DOMAIN scope.plan, Done(i)', scope.plan[i].op = "cpu"
          PROVE  cpu'[scheme] = scope.plan[i].val
      <3>1. CASE cpu' = [cpu EXCEPT ![scheme] = frame.cur.val]
        <4>1. frame.cur.val = scope.plan[i].val
          BY <1>0, <1>2, <2>3, <2>4, <2>5 DEF SessionsConsistent, Consistent
        <4> QED BY <1>0, <2>2, <2>5, <3>1, <4>1
      <3>2. CASE cpu' = cpu /\ pc' # "applied"
        <4>1. Done(i)
          BY <1>1, <2>5, <3>2 DEF Done
        <4> QED BY <1>0, <2>1, <2>5, <3>2, <4>1 DEF ClosesSession, AtBaseline
      <3> QED BY <1>1, <3>1, <3>2
    <2> QED BY <1>1, <2>2, <2>5 DEF AtBaseline
  <1>4. ClosersAreSteps'
    BY <1>0, <1>1 DEF ClosersAreSteps, RestoreLabels
  <1> QED BY <1>0, <1>1, <1>3, <1>4 DEF SessionInv, SessionsConsistent

LEMMA ExecutingSession == TypeInv /\ IInv /\ SessionInv /\ Executing => SessionInv'
  <1> SUFFICES ASSUME TypeInv, IInv, SessionInv, Executing PROVE SessionInv'
    OBVIOUS
  <1>0. /\ SessionsConsistent /\ ClosersAreSteps /\ active \in Progress /\ frame \in Frames
        /\ CallMatches /\ PointMatches
    BY DEF TypeInv, TypeOK, ControlOK, SessionInv
  <1>1. pc \in ExecLabels /\ (frame.ctx = "plan" => ~active.stale /\ frame.cur = Current)
    <2>1. pc \in ExecLabels
      BY DEF Executing, Own, Set, AutoMax, AutoLevel, AutoDone, MaxOn, HeldMax, HeldLevel,
             ExecCpu, ExecSession, ExecLabels
    <2> QED BY <1>0, <2>1 DEF IInv, PointInv, StalePlanNeverWrites, CallMatches, InPlan, InCall
  <1>2. CASE Own
    <2>1. Consistent(disk'.scope)
      BY <1>0, <1>2, PersistConsistent DEF Own, SessionsConsistent
    <2>2. pc' \notin RestoreLabels \cup {"session", "applied"}
      <3>1. pc' \in {AfterOwn(frame.cur), "failed"}
        BY <1>2 DEF Own
      <3>2. frame.cur \in Steps
        BY <1>0, <1>2 DEF Own, PointMatches
      <3>3. AfterOwn(frame.cur) \in {"set"} \cup FanLabels
        BY <3>2, AfterOwnTypes DEF AfterOwnFits
      <3> QED BY <3>1, <3>3 DEF FanLabels, RestoreLabels
    <2> QED BY <1>2, <2>1, <2>2, Undisturbed DEF Own
  <1>3. CASE Set \/ AutoDone \/ MaxOn \/ (HeldLevel /\ pc' = "applied")
    <2>1. /\ UNCHANGED <<cpu, scheme, disk, prev, scope>> /\ frame'.ctx = frame.ctx
          /\ pc \in {"set"} \cup FanLabels
          /\ pc' \in {"applied", "failed"}
      BY <1>3, AfterTypes
      DEF Set, AutoDone, MaxOn, HeldLevel, EnterRestore, FanLabels, RestoreLabels, world, ledger
    <2>2. /\ active'.plan = active.plan /\ active'.index = active.index
          /\ active'.scopeLen = active.scopeLen /\ active'.stale = active.stale
          /\ active'.moved = active.moved
      BY ZenonT(60), <1>0, <1>3, AfterTypes
      DEF Set, AutoDone, MaxOn, HeldLevel, EnterRestore, RestoreLabels, Progress
    <2>3. frame.ctx = "plan" => ~active.stale /\ Current.op # "cpu"
      BY <1>0, <1>1, <2>1 DEF PointMatches
    <2>4. CASE pc' = "applied"
      BY <1>1, <2>1, <2>2, <2>3, <2>4, OtherStepApplied DEF ExecLabels
    <2>5. CASE pc' = "failed"
      BY <1>0, <1>1, <2>1, <2>2, <2>5, Undisturbed DEF SessionsConsistent, ExecLabels, RestoreLabels
    <2> QED BY <2>1, <2>4, <2>5
  <1>4. CASE AutoMax \/ AutoLevel \/ HeldMax
    <2>1. /\ UNCHANGED <<cpu, scheme, disk, prev, scope, active>> /\ pc # "finish"
          /\ pc' \notin RestoreLabels \cup {"session", "applied"}
      BY <1>4 DEF AutoMax, AutoLevel, HeldMax, RestoreLabels, ledger
    <2> QED BY <1>0, <2>1, Undisturbed DEF SessionsConsistent
  <1>5. CASE HeldLevel /\ pc' # "applied"
    <2>1. UNCHANGED <<cpu, scheme, disk, prev, scope>> /\ pc = "held.level"
      BY <1>5 DEF HeldLevel, ledger
    <2>2. CASE EpochMoved /\ EnterRestore("exec", dirty, scope)
      BY <2>1, <2>2, EntersRestore
    <2>3. CASE pc' = "failed" /\ UNCHANGED <<active, frame>>
      BY <1>0, <2>1, <2>3, Undisturbed DEF SessionsConsistent, RestoreLabels
    <2> QED BY <1>5, <2>2, <2>3 DEF HeldLevel
  <1>6. CASE ExecCpu
    <2>1. frame.ctx = "plan"
      BY <1>0, <1>6 DEF ExecCpu, PointMatches, CallMatches, InRelease, InCall, ExecLabels, Frames
    <2> QED BY <1>1, <1>6, <2>1, ExecCpuSession
  <1>7. CASE ExecSession
    <2>1. active.scopeLen = 0
      BY <1>0, <1>7 DEF ExecSession, ClosersAreSteps
    <2>2. active'.scopeLen = 0
      BY <1>0, <1>7, <2>1 DEF ExecSession, EpochMoved, Progress
    <2>3. disk' = disk /\ prev' \in {prev, NoLedger} /\ scope' \in {scope, prev.scope}
      BY <1>7 DEF ExecSession
    <2>4. SessionsConsistent'
      BY <1>0, <2>3, NoSessionConsistent DEF SessionsConsistent
    <2> QED BY <2>2, <2>4, NoCloser
  <1> QED BY <1>2, <1>3, <1>4, <1>5, <1>6, <1>7 DEF Executing

LEMMA ActingSession == TypeInv /\ SessionInv /\ Acting => SessionInv'
  <1> SUFFICES ASSUME TypeInv, SessionInv, Acting PROVE SessionInv'
    OBVIOUS
  <1>0. SessionsConsistent
    BY DEF SessionInv
  <1>1. UNCHANGED <<cpu, scheme, disk, prev, scope>> /\ pc # "finish"
    BY DEF Acting, CurveWrite, ForceMax, ReleaseMax, ReleaseApplied, ReleaseFailed, Rearm,
           HeartbeatIdle, HeartbeatOk, HeartbeatFails, world, ledger
  <1>2. CASE /\ active' = active
             /\ pc' \notin RestoreLabels \cup {"session", "applied"}
    BY <1>0, <1>1, <1>2, Undisturbed DEF SessionsConsistent
  <1>3. CASE \E r \in {"tick", "loop"} : EpochMoved /\ EnterRestore(r, dirty, scope)
    BY <1>1, <1>3, EntersRestore
  <1>4. (~\E r \in {"tick", "loop"} : EpochMoved /\ EnterRestore(r, dirty, scope))
          => active' = active /\ pc' \notin RestoreLabels \cup {"session", "applied"}
    BY DEF Acting, CurveWrite, ForceMax, ReleaseMax, ReleaseApplied, ReleaseFailed, Rearm,
           HeartbeatIdle, HeartbeatOk, HeartbeatFails, RestoreLabels
  <1> QED BY <1>2, <1>3, <1>4

LEMMA TickSession == TypeInv /\ SessionInv /\ Tick => SessionInv'
  <1> SUFFICES ASSUME TypeInv, SessionInv, Tick PROVE SessionInv'
    OBVIOUS
  <1>0. SessionsConsistent
    BY DEF SessionInv
  <1>1. UNCHANGED <<cpu, scheme, disk, prev, scope>> /\ pc = "loop"
    BY DEF Tick, TickWatchdog, TickRelease, TickForce, TickCurve, TickQuiet, world, ledger
  <1>2. CASE TickWatchdog
    BY <1>1, <1>2, EntersRestore DEF TickWatchdog
  <1>3. CASE ~TickWatchdog
    <2>1. active' = active /\ pc' \notin RestoreLabels \cup {"session", "applied"}
      BY <1>3 DEF Tick, TickRelease, TickForce, TickCurve, TickQuiet, RestoreLabels
    <2> QED BY <1>0, <1>1, <2>1, Undisturbed DEF SessionsConsistent
  <1> QED BY <1>2, <1>3

\* The plan goes on to its next step, and ends the session after the last of the baseline.
LEMMA StepDoneSession ==
  ASSUME TypeInv, SessionInv, StepDone, UNCHANGED <<cpu, scheme, prev>>,
         pc # "finish", active.plan # <<>>, active.scopeLen # 0 => ~active.stale,
         (pc = "applied" /\ frame.ctx = "plan") \/ Current.op # "cpu"
  PROVE  SessionInv'
  <1>0. /\ SessionsConsistent /\ ClosersAreSteps /\ ClosesSession /\ active \in Progress
        /\ scope.plan \in Seq(Steps)
    BY DEF TypeInv, TypeOK, SessionInv, Scopes
  <1> DEFINE ends == active.scopeLen # 0 /\ active.index = active.scopeLen
             last == active.index = Len(active.plan)
  <1>1. /\ active'.plan = active.plan /\ active'.scopeLen = active.scopeLen
        /\ active'.stale = active.stale /\ active'.moved = active.moved
        /\ active'.index = IF last THEN active.index ELSE active.index + 1
    BY <1>0 DEF StepDone, Progress
  <1>2. pc' = (IF last THEN "finish" ELSE "loop") /\ scope' = (IF ends THEN NoScope ELSE scope)
        /\ (ends => Persist(dirty, NoScope)) /\ (~ends => disk' = disk)
    BY DEF StepDone
  <1>3. SessionsConsistent'
    <2>1. Consistent(disk'.scope)
      BY <1>0, <1>2, NoSessionConsistent, PersistConsistent DEF SessionsConsistent
    <2> QED BY <1>0, <1>2, <2>1, NoSessionConsistent DEF SessionsConsistent
  <1>4. ClosersAreSteps'
    BY <1>0, <1>1, <1>2 DEF ClosersAreSteps, RestoreLabels
  <1>5. ClosesSession'
    <2> SUFFICES ASSUME Closing' PROVE AtBaseline'
      BY DEF ClosesSession
    <2>1. ~last /\ active'.index = active.index + 1 /\ active.index \in Nat /\ active.scopeLen \in Nat
      BY <1>0, <1>1, <1>2 DEF Closing, Progress
    <2>2. Closing /\ ~ends
      BY <1>1, <2>1 DEF Closing
    <2>3. scope' = scope /\ AtBaseline
      BY <1>0, <1>2, <2>2 DEF ClosesSession
    <2>4. ASSUME NEW i \in DOMAIN scope.plan, Done(i)', scope.plan[i].op = "cpu"
          PROVE  Done(i)
      <3>1. i \in Nat /\ i < active.index + 1
        BY <1>0, <1>2, <2>1, <2>4 DEF Done
      <3>2. CASE i = active.index
        <4>1. scope.plan[i] = Current
          BY <2>3, <3>2 DEF AtBaseline, Current
        <4> QED BY <2>4, <3>2, <4>1 DEF Done
      <3>3. CASE i # active.index
        BY <2>1, <3>1, <3>3 DEF Done
      <3> QED BY <3>2, <3>3
    <2> QED BY <1>1, <2>3, <2>4 DEF AtBaseline, SchemeUnmoved
  <1> QED BY <1>3, <1>4, <1>5 DEF SessionInv

LEMMA AdvanceSession == TypeInv /\ SessionInv /\ Advance => SessionInv'
  <1> SUFFICES ASSUME TypeInv, SessionInv, Advance PROVE SessionInv'
    OBVIOUS
  <1>0. /\ SessionsConsistent /\ ClosersAreSteps /\ active \in Progress /\ PlanInProgress
    BY DEF TypeInv, TypeOK, ControlOK, SessionInv
  <1>1. pc = "loop" /\ UNCHANGED <<cpu, scheme, prev>>
    BY DEF Advance, AdvanceStale, AdvanceRefuse, AdvanceExec, ReadbackMatches, ReadbackAgain,
           ReadbackFails, NextStepDue, world, ledger
  <1>2. CASE AdvanceStale \/ AdvanceRefuse \/ ReadbackFails
    <2>1. /\ UNCHANGED <<disk, prev, scope>> /\ pc' = "finish"
          /\ active'.plan = active.plan /\ active'.scopeLen = active.scopeLen
      BY <1>0, <1>2 DEF AdvanceStale, AdvanceRefuse, ReadbackFails, ledger, Progress
    <2> QED BY <2>1, Finishing
  <1>3. CASE AdvanceExec
    <2>1. /\ UNCHANGED <<disk, scope, active>> /\ active.plan # <<>> /\ pc' # "applied"
          /\ pc' = IF Current.op \in {"cpu", "session"} THEN Current.op ELSE "own"
      BY <1>3 DEF AdvanceExec, NextStepDue, ledger
    <2>2. CASE Current.op = "session"
      <3>1. active.scopeLen = 0
        <4>1. active.plan \in Seq(Steps) => Current \in Steps
          BY <1>0, <2>1, ElementOfSeq, LenProperties DEF PlanInProgress, Current
        <4> QED BY <1>0, <2>2, <4>1 DEF ClosersAreSteps, Steps
      <3> QED BY <1>0, <1>1, <2>1, <3>1, NoCloser DEF SessionsConsistent
    <2>3. CASE Current.op # "session"
      BY <1>0, <1>1, <2>1, <2>3, Undisturbed DEF SessionsConsistent, RestoreLabels
    <2> QED BY <2>2, <2>3
  <1>4. CASE ReadbackMatches
    <2>1. StepDone /\ ~active.stale /\ active.waiting # "none"
      BY <1>4 DEF ReadbackMatches
    <2>2. active.plan # <<>> /\ Current.op = active.waiting /\ Current.op # "cpu"
      BY <1>0, <2>1 DEF PlanInProgress, Progress
    <2> QED BY <1>1, <2>1, <2>2, StepDoneSession
  <1>5. CASE ReadbackAgain
    <2>1. /\ UNCHANGED <<disk, scope, pc>> /\ active'.plan = active.plan
          /\ active'.index = active.index /\ active'.scopeLen = active.scopeLen
          /\ active'.stale = active.stale /\ active'.moved = active.moved
      BY <1>0, <1>5 DEF ReadbackAgain, ledger, Progress
    <2> QED BY <1>0, <1>1, <2>1, Undisturbed DEF SessionsConsistent, RestoreLabels
  <1> QED BY <1>2, <1>3, <1>4, <1>5 DEF Advance

LEMMA PlanSession == TypeInv /\ SessionInv /\ (PlanApplied \/ FinishPlan) => SessionInv'
  <1> SUFFICES ASSUME TypeInv, SessionInv, PlanApplied \/ FinishPlan PROVE SessionInv'
    OBVIOUS
  <1>0. SessionsConsistent /\ ClosersAreSteps /\ CallMatches
    BY DEF TypeInv, ControlOK, SessionInv
  <1>1. CASE PlanApplied
    <2>1. pc = "applied" /\ frame.ctx = "plan" /\ UNCHANGED <<cpu, scheme, prev>>
      BY <1>1 DEF PlanApplied, world
    <2>2. active.plan # <<>> /\ (active.scopeLen # 0 => ~active.stale)
      BY <1>0, <2>1 DEF ClosersAreSteps, CallMatches, InPlan, InCall
    <2>3. CASE StepDone
      BY <2>1, <2>2, <2>3, StepDoneSession
    <2>4. CASE pc' = "loop" /\ UNCHANGED <<disk, scope, active>>
      BY <1>0, <2>1, <2>4, Undisturbed DEF SessionsConsistent, RestoreLabels
    <2> QED BY <1>1, <2>3, <2>4 DEF PlanApplied
  <1>2. CASE FinishPlan
    <2>1. active' = Idle /\ UNCHANGED <<prev, scope>> /\ Persist(dirty, scope)
      BY <1>2 DEF FinishPlan
    <2>2. SessionsConsistent'
      BY <1>0, <2>1, PersistConsistent DEF SessionsConsistent
    <2> QED BY <2>1, <2>2, NoCloser DEF Idle
  <1> QED BY <1>1, <1>2

\* A plan that begins with the open session's baseline.
LEMMA BegunSession ==
  ASSUME TypeInv, SessionInv, NEW p \in Seq(Steps), SchemeUnmoved,
         active' = Begun(scope.plan \o p, Len(scope.plan)), pc' = "loop",
         UNCHANGED <<cpu, scheme, disk, prev, scope, frame>>
  PROVE  SessionInv'
  <1>0. SessionsConsistent /\ scope.plan \in Seq(Steps)
    BY DEF TypeInv, TypeOK, SessionInv, Scopes
  <1>1. /\ active'.plan = scope.plan \o p /\ active'.scopeLen = Len(scope.plan)
        /\ active'.index = 1 /\ ~active'.stale
    BY DEF Begun, Idle
  <1>2. scope.plan \o p \in Seq(Steps) /\ (Len(scope.plan) # 0 => scope.plan \o p # <<>>)
    BY <1>0
  <1>3. ClosersAreSteps'
    BY <1>1, <1>2 DEF ClosersAreSteps, RestoreLabels
  <1>4. ClosesSession'
    <2> SUFFICES ASSUME Len(scope.plan) # 0 PROVE AtBaseline'
      BY <1>1 DEF ClosesSession, Closing
    <2>1. scope.on /\ SchemeUnmoved'
      BY <1>0 DEF SessionsConsistent, Consistent, SchemeUnmoved
    <2>2. \A i \in DOMAIN scope.plan :
             i \in DOMAIN (scope.plan \o p) /\ (scope.plan \o p)[i] = scope.plan[i]
      BY <1>0
    <2>3. \A i \in DOMAIN scope.plan : ~Done(i)'
      BY <1>0, <1>1 DEF Done
    <2> QED BY <1>1, <2>1, <2>2, <2>3 DEF AtBaseline
  <1> QED BY <1>0, <1>3, <1>4 DEF SessionInv, SessionsConsistent

LEMMA RequestSession == TypeInv /\ SessionInv /\ Request => SessionInv'
  <1> SUFFICES ASSUME TypeInv, SessionInv, Request PROVE SessionInv'
    OBVIOUS
  <1>0. SessionsConsistent /\ scope.plan \in Seq(Steps)
    BY DEF TypeInv, TypeOK, SessionInv, Scopes
  <1>1. ASSUME NEW p \in Plans, BeginDirect(p) PROVE SessionInv'
    BY <1>1, PlansAssumption, BegunSession DEF BeginDirect, world, ledger
  <1>2. ASSUME NEW id \in SessionIds, NEW p \in ScopedPlans, BeginScoped(id, p)
        PROVE  SessionInv'
    <2>1. PICK new : /\ new.plan = [i \in DOMAIN p |-> Captured(p[i])] /\ new.on
                     /\ Saved(dirty, new) /\ scope' = new
      BY <1>2 DEF BeginScoped
    <2>2. prev' = prev /\ active' = Begun(p, 0)
      BY <1>2 DEF BeginScoped
    <2>3. Consistent(new)
      <3>1. \A i \in DOMAIN p : Captured(p[i]).op = "cpu" => Captured(p[i]).val = cpu[scheme]
        BY DEF Captured
      <3> QED BY <2>1, <3>1 DEF Consistent
    <2>4. SessionsConsistent'
      BY <1>0, <2>1, <2>2, <2>3, PersistConsistent DEF SessionsConsistent
    <2> QED BY <2>2, <2>4, NoCloser DEF Begun, Idle
  <1>3. ASSUME NEW id \in SessionIds, BeginUnscope(id) PROVE SessionInv'
    <2>1. scope.plan = scope.plan \o <<>> /\ <<>> \in Seq(Steps)
      BY <1>0
    <2> QED BY <1>3, <2>1, BegunSession DEF BeginUnscope, world, ledger
  <1>4. CASE BeginSession \/ Shutdown
    <2>1. active'.scopeLen = 0 /\ UNCHANGED <<prev, scope>>
      <3>1. BeginSession => active' = Begun(<<RestoreSession>>, 0) /\ UNCHANGED <<prev, scope>>
        BY DEF BeginSession, ledger
      <3>2. Shutdown => active' = Idle /\ UNCHANGED <<prev, scope>>
        BY DEF Shutdown
      <3>3. Begun(<<RestoreSession>>, 0).scopeLen = 0 /\ Idle.scopeLen = 0
        BY DEF Begun, Idle
      <3> QED BY <1>4, <3>1, <3>2, <3>3
    <2>2. Consistent(disk'.scope)
      BY <1>0, <1>4, PersistConsistent DEF BeginSession, Shutdown, ledger, SessionsConsistent
    <2> QED BY <1>0, <2>1, <2>2, NoCloser DEF SessionsConsistent
  <1> QED BY <1>1, <1>2, <1>3, <1>4 DEF Request

LEMMA NextSession == TypeInv /\ IInv /\ SessionInv /\ [Next]_vars => SessionInv'
  <1> SUFFICES ASSUME TypeInv, IInv, SessionInv, [Next]_vars PROVE SessionInv'
    OBVIOUS
  <1>1. CASE UNCHANGED vars
    BY <1>1
    DEF vars, SessionInv, SessionsConsistent, ClosersAreSteps, ClosesSession, AtBaseline, Closing,
        Done, SchemeUnmoved
  <1>2. CASE Next
    BY <1>2, RestoringSession, ExecutingSession, ActingSession, PlanSession, AdvanceSession,
       TickSession, RequestSession, EnvironmentSession
    DEF Next, Inside
  <1> QED BY <1>1, <1>2

\* Between the check of a restore and its writes the scheme is as it was checked, unless
\* it has been switched since.
CheckHolds == pc = "r.cpu" /\ ~frame.moved => SchemeUnmoved

LEMMA NextCheck == TypeInv /\ CheckHolds /\ [Next]_vars => CheckHolds'
  <1> SUFFICES ASSUME TypeInv, CheckHolds, [Next]_vars, pc' = "r.cpu", ~frame'.moved
               PROVE  SchemeUnmoved'
    BY DEF CheckHolds
  <1>0. frame \in Frames
    BY DEF TypeInv, TypeOK
  <1>1. CASE UNCHANGED vars
    BY <1>1 DEF vars, CheckHolds, SchemeUnmoved
  <1>2. CASE Environment
    BY <1>0, <1>2
    DEF Environment, Sense, SwitchScheme, Firmware, Crash, Restart, CheckHolds, SchemeUnmoved,
        world, Frames
  <1>3. CASE Restoring
    <2>1. RestoreScope
      BY <1>3, AfterTypes
      DEF Restoring, RestoreMax, RestoreLevel, RestoreRearm, RestoreDomain, RestoreCpu, RestoreEnd,
          Frames, TypeInv, TypeOK
    <2> QED BY <2>1 DEF RestoreScope, SchemeUnmoved, world
  <1>4. ~\E r, d, s : EnterRestore(r, d, s)
    BY AfterTypes DEF EnterRestore
  <1>5. ~Executing
    <2>1. ~Own
      <3> SUFFICES ASSUME Own PROVE FALSE
        OBVIOUS
      <3>1. frame.cur \in Steps
        BY DEF Own, TypeInv, ControlOK, PointMatches
      <3>2. AfterOwn(frame.cur) # "r.cpu"
        BY <3>1, AfterOwnTypes DEF AfterOwnFits, FanLabels
      <3> QED BY <3>2 DEF Own
    <2> QED
      BY <1>4, <2>1
      DEF Executing, Set, AutoMax, AutoLevel, AutoDone, MaxOn, HeldMax, HeldLevel, ExecCpu, ExecSession
  <1>6. ~Acting /\ ~Tick
    BY <1>4
    DEF Acting, CurveWrite, ForceMax, ReleaseMax, ReleaseApplied, ReleaseFailed, Rearm, HeartbeatIdle,
        HeartbeatOk, HeartbeatFails, Tick, TickWatchdog, TickRelease, TickForce, TickCurve, TickQuiet
  <1>7. ~PlanApplied /\ ~FinishPlan
    BY DEF PlanApplied, FinishPlan, StepDone
  <1>8. ~Advance
    BY DEF Advance, AdvanceStale, AdvanceRefuse, AdvanceExec, ReadbackMatches, ReadbackAgain,
           ReadbackFails, StepDone, NextStepDue
  <1>9. ~Request
    BY <1>4 DEF Request, BeginDirect, BeginScoped, BeginUnscope, BeginSession, Shutdown
  <1> QED BY <1>1, <1>2, <1>3, <1>5, <1>6, <1>7, <1>8, <1>9 DEF Next, Inside

\* Sessions, the plan that closes one, the check of a restore and the CPU policy stored in
\* the scheme go together.
THEOREM SessionsGoTogether == Spec => [](TypeInv /\ IInv /\ SessionInv /\ CheckHolds)
  <1>1. Init => CheckHolds
    BY DEF Init, CheckHolds
  <1> QED BY <1>1, InitSession, NextSession, NextCheck, LedgerInvariance, PTL DEF Spec

\* The CPU values of a consistent baseline are all written by restoring it.
LEMMA CpuRestoredBaseline ==
  ASSUME TypeInv, SessionsConsistent, scheme = scope.scheme
  PROVE  \A i \in DOMAIN scope.plan :
           scope.plan[i].op = "cpu" => CpuRestored(scope.plan)[scope.scheme] = scope.plan[i].val
  <1> DEFINE C == CHOOSE step \in {scope.plan[k] : k \in DOMAIN scope.plan} : step.op = "cpu"
  <1>0. cpu \in [Schemes -> Values] /\ scheme \in Schemes
    BY DEF TypeInv, TypeOK
  <1> SUFFICES ASSUME NEW i \in DOMAIN scope.plan, scope.plan[i].op = "cpu"
               PROVE  CpuRestored(scope.plan)[scope.scheme] = scope.plan[i].val
    OBVIOUS
  <1>1. C \in {scope.plan[k] : k \in DOMAIN scope.plan} /\ C.op = "cpu"
    OBVIOUS
  <1>2. C.val = scope.plan[i].val
    BY <1>1 DEF SessionsConsistent, Consistent
  <1> QED BY <1>0, <1>2 DEF CpuRestored

\* The steps that close a session.
LEMMA SessionCloses ==
  ASSUME TypeInv, IInv, Next, scope.on, ~scope'.on, Running, Running'
  PROVE  \/ pc = "r.cpu" /\ cpu' = CpuRestored(scope.plan)
         \/ /\ ReadbackMatches \/ PlanApplied
            /\ active.scopeLen # 0 /\ active.index = active.scopeLen
  <1>1. scope' # scope
    OBVIOUS
  <1>2. ~Environment
    BY <1>1 DEF Environment, Sense, SwitchScheme, Firmware, Crash, Restart, Running
  <1>3. ~Request
    BY <1>1 DEF Request, BeginDirect, BeginScoped, BeginUnscope, BeginSession, Shutdown
  <1>4. ~Tick /\ ~Acting /\ ~FinishPlan
    BY <1>1 DEF Tick, TickWatchdog, TickRelease, TickForce, TickCurve, TickQuiet, Acting, CurveWrite,
                ForceMax, ReleaseMax, ReleaseApplied, ReleaseFailed, Rearm, HeartbeatIdle,
                HeartbeatOk, HeartbeatFails, FinishPlan
  <1>5. ~Executing
    <2>1. ~ExecSession
      BY <1>1 DEF ExecSession, IInv, LedgerInv, OldSession
    <2> QED BY <1>1, <2>1 DEF Executing, Own, Set, AutoMax, AutoLevel, AutoDone, MaxOn, HeldMax,
                              HeldLevel, ExecCpu
  <1>6. Restoring => pc = "r.cpu" /\ cpu' = CpuRestored(scope.plan)
    BY <1>1 DEF Restoring, RestoreMax, RestoreLevel, RestoreRearm, RestoreDomain, RestoreScope,
                RestoreCpu, RestoreEnd
  <1>7. Advance \/ PlanApplied =>
          /\ ReadbackMatches \/ PlanApplied
          /\ active.scopeLen # 0 /\ active.index = active.scopeLen
    BY <1>1 DEF Advance, AdvanceStale, AdvanceRefuse, AdvanceExec, ReadbackMatches, ReadbackAgain,
                ReadbackFails, PlanApplied, StepDone
  <1> QED BY <1>2, <1>3, <1>4, <1>5, <1>6, <1>7 DEF Next, Inside

\* A session that is closed by a restore, or by the last step of its own baseline, has the
\* CPU policy back in the scheme it recorded, unless it recorded none or the scheme was
\* switched after it was checked.
THEOREM ClosedSessionAlwaysRestoredCpu == Spec => ClosedSessionRestoredCpu
  <1>1. TypeInv /\ IInv /\ SessionInv /\ CheckHolds /\ [Next]_vars =>
          [scope.on /\ ~scope'.on /\ Running /\ Running'
             /\ scope.scheme # NoScheme /\ ~SwitchedSinceCheck
             => \A i \in DOMAIN scope.plan :
                  scope.plan[i].op = "cpu" => cpu'[scope.scheme] = scope.plan[i].val]_vars
    <2> SUFFICES ASSUME TypeInv, IInv, SessionInv, CheckHolds, Next, scope.on, ~scope'.on, Running,
                        Running', scope.scheme # NoScheme, ~SwitchedSinceCheck,
                        NEW i \in DOMAIN scope.plan, scope.plan[i].op = "cpu"
                 PROVE  cpu'[scope.scheme] = scope.plan[i].val
      OBVIOUS
    <2>0. /\ SessionsConsistent /\ ClosersAreSteps /\ ClosesSession /\ active \in Progress
          /\ PlanInProgress /\ CallMatches /\ scope.plan \in Seq(Steps)
      BY DEF SessionInv, TypeInv, TypeOK, ControlOK, Scopes
    <2>1. CASE pc = "r.cpu" /\ cpu' = CpuRestored(scope.plan)
      <3>1. scheme = scope.scheme
        BY <2>1 DEF CheckHolds, SwitchedSinceCheck, SchemeUnmoved
      <3> QED BY <2>0, <2>1, <3>1, CpuRestoredBaseline
    <2>2. CASE /\ ReadbackMatches \/ PlanApplied
               /\ active.scopeLen # 0 /\ active.index = active.scopeLen
      <3>1. /\ cpu' = cpu /\ ~active.stale /\ pc # "finish" /\ ~active.moved
            /\ (pc = "applied" /\ frame.ctx = "plan") \/ Current.op # "cpu"
        BY <2>0, <2>2
        DEF ReadbackMatches, PlanApplied, ClosersAreSteps, PlanInProgress, Progress, world,
            SwitchedSinceCheck
      <3>2. AtBaseline
        BY <2>0, <2>2, <3>1 DEF ClosesSession, Closing, Progress
      <3>3. i \in 1..active.index
        BY <2>0, <2>2, <3>2 DEF AtBaseline
      <3>4. Done(i)
        BY <2>0, <3>1, <3>2, <3>3 DEF Done, AtBaseline, Current, Progress
      <3> QED BY <3>1, <3>2, <3>4 DEF AtBaseline, SchemeUnmoved
    <2> QED BY <2>1, <2>2, SessionCloses
  <1> QED BY <1>1, SessionsGoTogether, PTL DEF Spec, ClosedSessionRestoredCpu

-----------------------------------------------------------------------------
(* The coordinator is a write-ahead ledger: what its steps are to one. *)

LEMMA SameTouched ==
  ASSUME UNCHANGED hwVars PROVE Touched' = Touched /\ TouchedKinds' = TouchedKinds
BY DEF hwVars, Touched, TouchedKinds, Vouched, Changed

LEMMA FewerKinds ==
  ASSUME Touched' \subseteq Touched PROVE TouchedKinds' \subseteq TouchedKinds
BY DEF TouchedKinds

\* A process at work leaves the file alone.
LEMMA WorkIsAhead ==
  ASSUME TypeInv', IInv', Open, Open', disk' = disk
  PROVE  Ahead!LedgerNext
<1>1. \A ch \in Touched' : DomainOf(ch)' \in disk.dom /\ DomainOf(ch)' \in dirty'
  BY DEF IInv, LedgerInv, OnDisk, InMemory, Open, Running
<1>2. TouchedKinds' \subseteq disk.dom /\ TouchedKinds' \subseteq dirty'
  BY <1>1 DEF TouchedKinds
<1>3. Owed' = dirty' /\ dirty' \subseteq Domains
  BY DEF Owed, TypeInv, TypeOK
<1>4. Open' = Open
  BY DEF Open
<1>5. Ahead!Work
  BY <1>2, <1>3, <1>4 DEF Ahead!Work
<1> QED BY <1>5 DEF Ahead!LedgerNext

\* A save of what is owed; the process may end with it.
LEMMA SaveIsAhead ==
  ASSUME TypeInv', Open, ~Pending(prev)', NEW s, Saved(dirty', s),
         Touched' \subseteq Touched, \A ch \in Touched : DomainOf(ch) \in dirty'
  PROVE  Ahead!LedgerNext
<1>1. disk'.dom = dirty'
  BY DEF Saved, Record, Open
<1>2. TouchedKinds \subseteq dirty' /\ TouchedKinds' \subseteq TouchedKinds
  BY FewerKinds DEF TouchedKinds
<1>3. dirty' \subseteq Domains
  BY DEF TypeInv, TypeOK
<1>4. (Open' /\ Owed' = dirty') \/ (~Open' /\ Owed' = {})
  BY DEF Owed
<1>5. Ahead!Save
  BY <1>1, <1>2, <1>3, <1>4 DEF Ahead!Save, Ahead!Ends
<1> QED BY <1>5 DEF Ahead!LedgerNext

\* A process that may not write, or none at all.
LEMMA FadeIsAhead ==
  ASSUME ~Open, ~Open', disk'.dom = disk.dom, Touched' \subseteq Touched
  PROVE  Ahead!LedgerNext
<1>1. TouchedKinds' \subseteq TouchedKinds
  BY FewerKinds
<1>2. Owed' = Owed
  BY DEF Owed
<1>3. Open' = Open
  BY DEF Open
<1>4. Ahead!Fade
  BY <1>1, <1>2, <1>3 DEF Ahead!Fade
<1> QED BY <1>4 DEF Ahead!LedgerNext

LEMMA CloseIsAhead ==
  ASSUME Open, ~Open', disk' = disk, UNCHANGED hwVars
  PROVE  Ahead!LedgerNext
<1>1. TouchedKinds' = TouchedKinds
  BY SameTouched
<1>2. Owed' = {}
  BY DEF Owed
<1>3. Ahead!Close
  BY <1>1, <1>2 DEF Ahead!Close, Ahead!Ends
<1> QED BY <1>3 DEF Ahead!LedgerNext

LEMMA AdoptIsAhead ==
  ASSUME ~Open, Open', disk' = disk, dirty' = disk.dom, UNCHANGED hwVars
  PROVE  Ahead!LedgerNext
<1>1. TouchedKinds' = TouchedKinds
  BY SameTouched
<1>2. Owed' = disk.dom
  BY DEF Owed
<1>3. Ahead!Adopt
  BY <1>1, <1>2 DEF Ahead!Adopt
<1> QED BY <1>3 DEF Ahead!LedgerNext

\* Most steps neither save nor change whether the process may write.
LEMMA ThroughIsAhead ==
  ASSUME TypeInv', IInv', Running, Running', UNCHANGED <<disk, prev>>,
         Open \/ Touched' \subseteq Touched
  PROVE  Ahead!LedgerNext
<1>1. Open <=> Open'
  BY DEF Open, Pending
<1> QED BY <1>1, WorkIsAhead, FadeIsAhead

\* A save of what is owed, or its failure, by a process that goes on.
LEMMA PersistIsAhead ==
  ASSUME TypeInv', IInv, IInv', Running, Running', prev' = prev, NEW s, Persist(dirty, s),
         dirty' = dirty, Touched' \subseteq Touched
  PROVE  Ahead!LedgerNext
<1>1. CASE SaveFails
  BY <1>1, ThroughIsAhead DEF SaveFails
<1>2. CASE Saved(dirty, s)
  <2>1. CASE Pending(prev)
    <3>1. disk' = disk
      BY <1>2, <2>1 DEF Saved, Record, IInv, LedgerInv, OldSession
    <3> QED BY <3>1, ThroughIsAhead
  <2>2. CASE ~Pending(prev)
    <3>1. Open /\ ~Pending(prev)' /\ Saved(dirty', s)
      BY <1>2, <2>2 DEF Open, Pending, Saved, Record
    <3>2. \A ch \in Touched : DomainOf(ch) \in dirty'
      BY <2>2 DEF IInv, LedgerInv, InMemory, Running
    <3> QED BY <3>1, <3>2, SaveIsAhead
  <2> QED BY <2>1, <2>2
<1> QED BY <1>1, <1>2 DEF Persist

-----------------------------------------------------------------------------
\* Where an earlier session's record is pending, no handler writes.
LEMMA OpenAt ==
  ASSUME IInv, pc \notin {"loop", "heartbeat", "session", "r.end", "failed", "finish",
                          "stopped", "crashed"}
  PROVE  Open
BY DEF IInv, LedgerInv, OldSession, Open, Running

LEMMA RestoringIsAhead ==
  ASSUME TypeInv, IInv, TypeInv', IInv', Restoring PROVE Ahead!LedgerNext
<1>1. CASE RestoreEnd
  <2>0. frame.ret \in {"tick", "loop", "exec", "session", "stop"}
    BY DEF TypeInv, TypeOK, Frames
  <2>1. /\ pc = "r.end" /\ UNCHANGED hwVars /\ prev' = prev /\ Persist(dirty', scope)
        /\ dirty' = dirty \ HandedBack /\ Running
    BY <1>1 DEF RestoreEnd, world, hwVars, Running
  <2>a. pc' # "crashed"
    BY <1>1, <2>0 DEF RestoreEnd
  <2>2. Touched' = Touched
    BY <2>1, SameTouched
  <2>3. CASE Pending(prev)
    <3>1. disk' = disk /\ ~Open /\ ~Open'
      BY <2>1, <2>3 DEF Open, Persist, SaveFails, Saved, Record, IInv, LedgerInv, OldSession, Pending
    <3> QED BY <2>2, <3>1, FadeIsAhead
  <2>4. CASE ~Pending(prev)
    <3>1. Open /\ ~Pending(prev)'
      BY <2>1, <2>4 DEF Open, Pending
    <3>2. CASE Saved(dirty', scope)
      <4>1. \A ch \in Touched : DomainOf(ch) \in dirty'
        BY <2>1, <2>a, <2>2, <3>1 DEF IInv, LedgerInv, InMemory
      <4> QED BY <2>2, <3>1, <3>2, <4>1, SaveIsAhead
    <3>3. CASE SaveFails
      BY <2>1, <3>1, <3>3, WorkIsAhead, CloseIsAhead DEF SaveFails
    <3> QED BY <2>1, <3>2, <3>3 DEF Persist
  <2> QED BY <2>3, <2>4
<1>2. CASE ~RestoreEnd
  <2>1. /\ pc \in {"r.max", "r.auto", "r.rearm", "r.gpu", "r.power", "r.thermal", "r.scope", "r.cpu"}
        /\ UNCHANGED <<disk, prev>>
    BY <1>2 DEF Restoring, RestoreMax, RestoreLevel, RestoreRearm, RestoreDomain, RestoreScope,
                RestoreCpu, ledger
  <2>2. pc' \in RestoreLabels
    BY <1>2 DEF Restoring, RestoreMax, RestoreLevel, RestoreRearm, RestoreDomain, RestoreScope,
       RestoreCpu, AfterFan, AfterGpu, AfterPower, AfterThermal, RestoreLabels
  <2>3. Running /\ Running' /\ Open
    BY <2>1, <2>2, OpenAt DEF Running, RestoreLabels
  <2> QED BY <2>1, <2>3, ThroughIsAhead
<1> QED BY <1>1, <1>2

LEMMA OwnIsAhead ==
  ASSUME TypeInv, IInv, TypeInv', IInv', Own PROVE Ahead!LedgerNext
<1>1. pc = "own" /\ prev' = prev /\ Running /\ Open
  BY OpenAt DEF Own, Running
<1>2. CASE /\ IF frame.cur.op = "gpu" THEN Refused ELSE UNCHANGED hwVars
           /\ dirty' = dirty \cup {frame.cur.op}
           /\ Saved(dirty', scope)
  <2>1. Touched' \subseteq Touched
    <3>1. CASE frame.cur.op = "gpu"
      BY <1>2, <3>1, TouchedByCalls DEF TypeInv, TypeOK, IInv, Channels
    <3>2. CASE frame.cur.op # "gpu"
      BY <1>2, <3>2, SameTouched
    <3> QED BY <3>1, <3>2
  <2>2. \A ch \in Touched : DomainOf(ch) \in dirty'
    BY <1>1, <1>2 DEF IInv, LedgerInv, InMemory, Open, Running
  <2>3. ~Pending(prev)'
    BY <1>1 DEF Open, Pending
  <2> QED BY <1>1, <1>2, <2>1, <2>2, <2>3, SaveIsAhead
<1>3. CASE SaveFails /\ pc' = "failed"
  <2>1. Running' /\ disk' = disk
    BY <1>3 DEF Running, SaveFails
  <2> QED BY <1>1, <2>1, ThroughIsAhead
<1> QED BY <1>2, <1>3 DEF Own

LEMMA AdoptsIsAhead ==
  ASSUME TypeInv, IInv, TypeInv', IInv', ExecSession PROVE Ahead!LedgerNext
<1>1. pc = "session" /\ disk' = disk /\ UNCHANGED hwVars /\ Running
  BY DEF ExecSession, world, hwVars, Running
<1>2. Touched' = Touched
  BY <1>1, SameTouched
<1>3. Running'
  <2>1. CASE Pending(prev) /\ foreign
    BY <2>1 DEF ExecSession, Running
  <2>2. CASE ~(Pending(prev) /\ foreign)
    <3>1. EnterRestore("session", dirty', scope')
      BY <2>2 DEF ExecSession
    <3> QED BY <3>1 DEF EnterRestore, AfterFan, AfterGpu, AfterPower, AfterThermal, Running
  <2> QED BY <2>1, <2>2
<1>4. CASE prev' = prev
  BY <1>1, <1>2, <1>3, <1>4, ThroughIsAhead
<1>5. CASE prev' # prev
  <2>1. prev' = NoLedger /\ dirty' = IF Pending(prev) THEN prev.dom ELSE dirty
    BY <1>5 DEF ExecSession
  <2>2. ~Pending(prev)'
    BY <2>1 DEF Pending, NoLedger, NoScope
  <2>3. CASE Pending(prev)
    <3>1. ~Open /\ Open' /\ dirty' = disk.dom
      BY <1>3, <2>1, <2>2, <2>3 DEF Open, IInv, LedgerInv, OldSession
    <3> QED BY <1>1, <3>1, AdoptIsAhead
  <2>4. CASE ~Pending(prev)
    BY <1>1, <1>3, <2>2, <2>4, WorkIsAhead DEF Open
  <2> QED BY <2>3, <2>4
<1> QED BY <1>4, <1>5

LEMMA ExecutingIsAhead ==
  ASSUME TypeInv, IInv, TypeInv', IInv', Executing PROVE Ahead!LedgerNext
<1>1. CASE Own
  BY <1>1, OwnIsAhead
<1>2. CASE ExecSession
  BY <1>2, AdoptsIsAhead
<1>3. CASE Set \/ AutoMax \/ AutoLevel \/ AutoDone \/ MaxOn \/ HeldMax \/ HeldLevel \/ ExecCpu
  <2>1. /\ pc \in {"set", "auto.max", "auto.level", "auto.done", "max.on", "held.max",
                   "held.level", "cpu"}
        /\ UNCHANGED <<disk, prev>>
    BY <1>3 DEF Set, AutoMax, AutoLevel, AutoDone, MaxOn, HeldMax, HeldLevel, ExecCpu, ledger
  <2>2. pc' \notin {"stopped", "crashed"}
    BY <1>3 DEF Set, AutoMax, AutoLevel, AutoDone, MaxOn, HeldMax, HeldLevel, ExecCpu,
       EnterRestore, AfterFan, AfterGpu, AfterPower, AfterThermal
  <2>3. Running /\ Running' /\ Open
    BY <2>1, <2>2, OpenAt DEF Running
  <2> QED BY <2>1, <2>3, ThroughIsAhead
<1> QED BY <1>1, <1>2, <1>3 DEF Executing

LEMMA ActingIsAhead ==
  ASSUME TypeInv, IInv, TypeInv', IInv', Acting PROVE Ahead!LedgerNext
<1>1. /\ pc \in {"curve", "force", "release", "applied", "failed", "rearm", "heartbeat"}
      /\ UNCHANGED <<disk, prev>>
  BY DEF Acting, CurveWrite, ForceMax, ReleaseMax, ReleaseApplied, ReleaseFailed, Rearm,
     HeartbeatIdle, HeartbeatOk, HeartbeatFails, ledger
<1>2. pc' \notin {"stopped", "crashed"}
  BY DEF Acting, CurveWrite, ForceMax, ReleaseMax, ReleaseApplied, ReleaseFailed, Rearm,
     HeartbeatIdle, HeartbeatOk, HeartbeatFails,
     EnterRestore, AfterFan, AfterGpu, AfterPower, AfterThermal
<1>3. Running /\ Running'
  BY <1>1, <1>2 DEF Running
<1>4. CASE ReleaseFailed \/ HeartbeatIdle
  <2>1. UNCHANGED hwVars
    BY <1>4 DEF ReleaseFailed, HeartbeatIdle, world, hwVars
  <2> QED BY <1>1, <1>3, <2>1, SameTouched, ThroughIsAhead
<1>5. CASE HeartbeatOk \/ HeartbeatFails
  <2>1. Tracked(obs, dirty) # {}
    BY <1>5 DEF HeartbeatOk, HeartbeatFails
  <2>2. ~Pending(prev)
    BY <2>1 DEF IInv, LedgerInv, OldSession, Unobserved, Tracked, HeldModes
  <2> QED BY <1>1, <1>3, <2>2, ThroughIsAhead DEF Open
<1>6. CASE CurveWrite \/ ForceMax \/ ReleaseMax \/ ReleaseApplied \/ Rearm
  <2>1. pc \in {"curve", "force", "release", "applied", "rearm"}
    BY <1>6 DEF CurveWrite, ForceMax, ReleaseMax, ReleaseApplied, Rearm
  <2> QED BY <1>1, <1>3, <2>1, OpenAt, ThroughIsAhead
<1> QED BY <1>4, <1>5, <1>6 DEF Acting

\* The end of a step, which may close the session in the file.
LEMMA StepDoneIsAhead ==
  ASSUME TypeInv, IInv, TypeInv', IInv', Running, StepDone, UNCHANGED <<prev, dirty>>,
         Touched' \subseteq Touched
  PROVE  Ahead!LedgerNext
<1>1. Running'
  BY DEF StepDone, Running
<1>2. Persist(dirty, NoScope) \/ disk' = disk
  BY DEF StepDone
<1> QED BY <1>1, <1>2, PersistIsAhead, ThroughIsAhead

LEMMA PlanIsAhead ==
  ASSUME TypeInv, IInv, TypeInv', IInv', PlanApplied \/ FinishPlan PROVE Ahead!LedgerNext
<1>1. UNCHANGED hwVars /\ UNCHANGED <<prev, dirty>> /\ Running
  BY DEF PlanApplied, FinishPlan, world, hwVars, Running
<1>2. Touched' = Touched
  BY <1>1, SameTouched
<1>3. CASE PlanApplied
  <2>1. CASE active.waiting # "none"
    <3>1. Running' /\ disk' = disk
      BY <1>3, <2>1 DEF PlanApplied, Running
    <3> QED BY <1>1, <1>2, <3>1, ThroughIsAhead
  <2>2. CASE active.waiting = "none"
    BY <1>1, <1>2, <1>3, <2>2, StepDoneIsAhead DEF PlanApplied
  <2> QED BY <2>1, <2>2
<1>4. CASE FinishPlan
  <2>1. Running' /\ Persist(dirty, scope)
    BY <1>4 DEF FinishPlan, Running
  <2> QED BY <1>1, <1>2, <2>1, PersistIsAhead
<1> QED BY <1>3, <1>4

LEMMA AdvanceIsAhead ==
  ASSUME TypeInv, IInv, TypeInv', IInv', Advance PROVE Ahead!LedgerNext
<1>1. CASE ReadbackMatches
  <2>1. Running /\ StepDone /\ UNCHANGED <<prev, dirty>>
    BY <1>1 DEF ReadbackMatches, Running
  <2>2. Touched' \subseteq Touched
    <3>1. CASE active.waiting = "power"
      BY <1>1, <3>1, SameTouched DEF ReadbackMatches
    <3>2. CASE active.waiting # "power"
      <4>1. Refused
        BY <1>1, <3>2 DEF ReadbackMatches
      <4> QED BY <4>1, TouchedByCalls DEF TypeInv, TypeOK, IInv, Channels
    <3> QED BY <3>1, <3>2
  <2> QED BY <2>1, <2>2, StepDoneIsAhead
<1>2. CASE AdvanceStale \/ AdvanceRefuse \/ AdvanceExec \/ ReadbackAgain \/ ReadbackFails
  <2>1. UNCHANGED hwVars /\ UNCHANGED <<disk, prev>> /\ Running
    BY <1>2 DEF AdvanceStale, AdvanceRefuse, AdvanceExec, ReadbackAgain, ReadbackFails, NextStepDue,
       world, hwVars, ledger, Running
  <2>2. pc' \notin {"stopped", "crashed"}
    BY <1>2 DEF AdvanceStale, AdvanceRefuse, AdvanceExec, ReadbackAgain, ReadbackFails, NextStepDue
  <2>3. Running'
    BY <2>2 DEF Running
  <2> QED BY <2>1, <2>3, SameTouched, ThroughIsAhead
<1> QED BY <1>1, <1>2 DEF Advance

LEMMA TickIsAhead ==
  ASSUME TypeInv, IInv, TypeInv', IInv', Tick PROVE Ahead!LedgerNext
<1>1. UNCHANGED hwVars /\ UNCHANGED <<disk, prev>> /\ Running
  BY DEF Tick, TickWatchdog, TickRelease, TickForce, TickCurve, TickQuiet, world, hwVars, ledger, Running
<1>2. pc' \notin {"stopped", "crashed"}
  BY DEF Tick, TickWatchdog, TickRelease, TickForce, TickCurve, TickQuiet,
     EnterRestore, AfterFan, AfterGpu, AfterPower, AfterThermal
<1>3. Running'
  BY <1>2 DEF Running
<1> QED BY <1>1, <1>3, SameTouched, ThroughIsAhead

LEMMA RequestIsAhead ==
  ASSUME TypeInv, IInv, TypeInv', IInv', Request PROVE Ahead!LedgerNext
<1>1. UNCHANGED hwVars /\ UNCHANGED <<prev, dirty>> /\ Running
  BY DEF Request, BeginDirect, BeginScoped, BeginUnscope, BeginSession, Shutdown, world, hwVars,
     ledger, Running
<1>2. pc' \notin {"stopped", "crashed"}
  BY DEF Request, BeginDirect, BeginScoped, BeginUnscope, BeginSession, Shutdown,
     EnterRestore, AfterFan, AfterGpu, AfterPower, AfterThermal
<1>3. disk' = disk \/ \E s : Persist(dirty, s)
  BY DEF Request, BeginDirect, BeginScoped, BeginUnscope, BeginSession, Shutdown, ledger, Persist
<1>4. Running' /\ Touched' = Touched
  BY <1>1, <1>2, SameTouched DEF Running
<1> QED BY <1>1, <1>3, <1>4, PersistIsAhead, ThroughIsAhead

LEMMA EnvironmentIsAhead ==
  ASSUME TypeInv, IInv, TypeInv', IInv', Environment PROVE Ahead!LedgerNext
<1>1. CASE Sense \/ SwitchScheme
  <2>1. UNCHANGED hwVars /\ UNCHANGED <<disk, prev, pc>>
    BY <1>1 DEF Sense, SwitchScheme, world, hwVars, ledger
  <2>2. CASE Running
    BY <2>1, <2>2, SameTouched, ThroughIsAhead DEF Running
  <2>3. CASE ~Running
    BY <2>1, <2>3, SameTouched, FadeIsAhead DEF Running, Open
  <2> QED BY <2>2, <2>3
<1>2. CASE Firmware
  <2>1. Touched' \subseteq Touched
    BY <1>2, TouchedByFirmware DEF Firmware, TypeInv, TypeOK, IInv
  <2>2. UNCHANGED <<disk, prev, pc>>
    BY <1>2 DEF Firmware, ledger
  <2>3. CASE Running
    BY <2>1, <2>2, <2>3, ThroughIsAhead DEF Running
  <2>4. CASE ~Running
    BY <2>1, <2>2, <2>4, FadeIsAhead DEF Running, Open
  <2> QED BY <2>3, <2>4
<1>3. CASE Crash
  <2>1. UNCHANGED hwVars /\ disk' = disk /\ ~Open'
    BY <1>3 DEF Crash, world, hwVars, Open, Running
  <2> QED BY <2>1, SameTouched, CloseIsAhead, FadeIsAhead
<1>4. CASE Restart
  <2>1. /\ UNCHANGED hwVars /\ disk' = disk /\ ~Open /\ dirty' = {}
        /\ prev' = IF Pending(disk) THEN disk ELSE NoLedger
    BY <1>4 DEF Restart, FreshMemory, world, hwVars, Open, Running
  <2>2. CASE Open'
    <3>1. disk.dom = {}
      BY <2>1, <2>2 DEF Open, Pending
    <3> QED BY <2>1, <2>2, <3>1, AdoptIsAhead
  <2>3. CASE ~Open'
    BY <2>1, <2>3, SameTouched, FadeIsAhead
  <2> QED BY <2>2, <2>3
<1> QED BY <1>1, <1>2, <1>3, <1>4 DEF Environment

\* begin_plan, exec_*, restore_firmware_auto, tick, run_heartbeat, a crash and a restart at
\* any point: the coordinator records an obligation a step before the first write that it
\* covers, drops it only when the hardware has its old value back, and after a crash writes
\* nothing before the whole record is taken over.
THEOREM CoordinatorIsWriteAheadLedger == Spec => KeepsWriteAheadLedger
<1>1. Init => Ahead!LedgerInit
  <2> SUFFICES ASSUME Init PROVE Ahead!LedgerInit
    OBVIOUS
  <2>2. dirty = {} /\ disk = NoLedger /\ disk.dom = {} /\ disk.scope.on = FALSE
    BY DEF Init, NoLedger, NoScope
  <2>3. Open
    BY <2>2 DEF Init, Open, Running, Pending
  <2>4. Touched = {}
    BY <2>2, InitIInv DEF IInv, LedgerInv, OnDisk
  <2> QED BY <2>2, <2>3, <2>4 DEF Ahead!LedgerInit, TouchedKinds, Owed, Open
<1>2. TypeInv /\ IInv /\ (TypeInv /\ IInv)' /\ [Next]_vars => [Ahead!LedgerNext]_(Ahead!ledgerVars)
  <2> SUFFICES ASSUME TypeInv, IInv, TypeInv', IInv', [Next]_vars
               PROVE  [Ahead!LedgerNext]_(Ahead!ledgerVars)
    OBVIOUS
  <2>1. CASE UNCHANGED vars
    BY <2>1 DEF vars, Ahead!ledgerVars, TouchedKinds, Touched, Vouched, Changed, Owed, Open, Running
  <2>2. CASE Next
    BY <2>2, RestoringIsAhead, ExecutingIsAhead, ActingIsAhead, PlanIsAhead, AdvanceIsAhead,
       TickIsAhead, RequestIsAhead, EnvironmentIsAhead
    DEF Next, Inside
  <2> QED BY <2>1, <2>2
<1> QED BY <1>1, <1>2, LedgerInvariance, PTL DEF Spec, KeepsWriteAheadLedger, Ahead!LedgerSpec

\* Every write-ahead ledger, this one included, can restore all it touched after a crash at
\* any point, from the file alone.
THEOREM WriteAheadLedgerRecovers == KeepsWriteAheadLedger => []Ahead!Recoverable
<1>1. Ahead!LedgerInit => Ahead!Recoverable
  BY DEF Ahead!LedgerInit, Ahead!Recoverable
<1>2. Ahead!Recoverable /\ [Ahead!LedgerNext]_(Ahead!ledgerVars) => Ahead!Recoverable'
  BY DEF Ahead!Recoverable, Ahead!LedgerNext, Ahead!ledgerVars, Ahead!Work, Ahead!Save, Ahead!Ends,
     Ahead!Close, Ahead!Adopt, Ahead!Fade
<1> QED BY <1>1, <1>2, PTL DEF KeepsWriteAheadLedger, Ahead!LedgerSpec

=============================================================================
