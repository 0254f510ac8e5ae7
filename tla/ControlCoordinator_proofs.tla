---------------------- MODULE ControlCoordinator_proofs ----------------------
(***************************************************************************)
(* Type correctness of the control coordinator, for every set of plans,    *)
(* sessions, schemes and samples.  TypeOK alone is not inductive: what a   *)
(* handler writes comes from the step it was called with, so ControlOK     *)
(* relates the position inside a handler to that step and the step to the  *)
(* plan in progress.                                                       *)
(***************************************************************************)
EXTENDS ControlCoordinator, SequenceTheorems, TLAPS

FanLabels == {"auto.max", "auto.level", "auto.done", "max.on", "held.max", "held.level"}

\* Inside a step of a plan or of an override's release, restores it entered included.
InCall ==
  \/ pc \in ExecLabels \cup {"applied", "failed"}
  \/ pc \in RestoreLabels /\ frame.ret \in {"exec", "session"}
InPlan == InCall /\ frame.ctx = "plan"
InRelease == (InCall \/ pc = "release") /\ frame.ctx = "release"

PlanInProgress ==
  /\ active.plan # <<>> => active.index \in DOMAIN active.plan
  /\ active.waiting # "none" => active.plan # <<>> /\ Current.op = active.waiting

CallMatches ==
  /\ InPlan => active.plan # <<>> /\ frame.cur = Current
  /\ InRelease => frame.cur \in Steps /\ frame.cur.op = "fan"

PointMatches ==
  /\ pc = "own" => frame.cur \in Steps /\ frame.cur.op # "cpu"
  /\ pc = "set" => frame.cur \in Steps /\ frame.cur.op \in {"thermal", "gpu", "power"}
  /\ pc \in FanLabels => frame.cur \in Steps /\ frame.cur.op = "fan"
  /\ pc \in {"auto.max", "auto.level", "auto.done"} => frame.cur.val = "auto"
  /\ pc = "max.on" => frame.cur.val = "max"
  /\ pc \in {"held.max", "held.level"} => frame.cur.val \in HeldModes
  /\ pc = "cpu" => frame.cur \in Steps /\ frame.cur.op = "cpu"
  /\ pc = "release" => frame.ctx = "release"

PowerKnown == obs.powerOk => obs.power \in Values

ControlOK == PlanInProgress /\ CallMatches /\ PointMatches /\ PowerKnown

TypeInv == TypeOK /\ ControlOK

-----------------------------------------------------------------------------
\* The initial values of the compound variables have their types.
LEMMA InitialValues ==
  /\ NoScope \in Scopes /\ NoLedger \in Ledgers
  /\ Idle \in Progress /\ Idle.plan = <<>> /\ Idle.waiting = "none"
  /\ EmptyFrame \in Frames
  /\ NothingObserved \in Observations /\ ~NothingObserved.powerOk
  /\ NoHeartbeat \in Heartbeats
  <1>2. NoScope \in Scopes
    BY EmptySeq DEF NoScope, Scopes
  <1>3. NoLedger \in Ledgers
    BY <1>2 DEF NoLedger, Ledgers
  <1>4. Idle \in Progress /\ Idle.plan = <<>> /\ Idle.waiting = "none"
    BY PollsAssumption, EmptySeq DEF Idle, Progress
  <1>5. EmptyFrame \in Frames
    BY DEF EmptyFrame, NoStep, Frames
  <1>6. NothingObserved \in Observations /\ ~NothingObserved.powerOk
    BY DEF NothingObserved, Observations
  <1>7. NoHeartbeat \in Heartbeats
    BY DEF NoHeartbeat, Heartbeats
  <1> QED BY <1>2, <1>3, <1>4, <1>5, <1>6, <1>7

-----------------------------------------------------------------------------
(* What the operators shared by the actions return *)

\* Every outcome of a firmware call leaves typed channels.
LEMMA FirmwareTypes ==
  ASSUME HwTypeOK, NEW ch \in Channels, NEW v \in Values
  PROVE  /\ Accepted(ch, v) => HwTypeOK'
         /\ Refused => HwTypeOK'
         /\ Unknown(ch, v) => HwTypeOK'
         /\ CallFails(ch, v) => HwTypeOK'
  <1>1. Settled \in [Channels -> Values]
    BY DEF HwTypeOK, Settled, Writes
  <1>2. \A chs, why : why \in Doubts => Doubted(chs, why) \in [FanChannels -> Doubts]
    BY DEF HwTypeOK, Doubted
  <1>3. Accepted(ch, v) => HwTypeOK'
    BY <1>1, <1>2 DEF Accepted, HwTypeOK, Doubts
  <1>4. Refused => HwTypeOK'
    BY <1>1 DEF Refused, HwTypeOK
  <1>5. Unknown(ch, v) => HwTypeOK'
    BY <1>2 DEF Unknown, HwTypeOK, Doubts, Writes
  <1>6. QED BY <1>3, <1>4, <1>5 DEF CallFails

\* So do a late landing, a claw-back and max fan switched on unsaved.
LEMMA LandingTypes ==
  HwTypeOK => /\ LateLanding \/ Clawback => HwTypeOK'
              /\ MaxOnUnsaved => HwTypeOK'
  <1> SUFFICES ASSUME HwTypeOK
               PROVE  /\ LateLanding \/ Clawback => HwTypeOK'
                      /\ MaxOnUnsaved => HwTypeOK'
    OBVIOUS
  <1>1. Settled \in [Channels -> Values]
    BY DEF HwTypeOK, Settled, Writes
  <1>2. LateLanding => HwTypeOK'
    BY <1>1 DEF LateLanding, HwTypeOK
  <1>3. Clawback => HwTypeOK'
    BY DEF Clawback, HwTypeOK, Values
  <1>4. MaxOnUnsaved => HwTypeOK'
    BY <1>1 DEF MaxOnUnsaved, HwTypeOK, Doubted, Doubts, Channels, Values
  <1>5. QED BY <1>2, <1>3, <1>4

LEMMA PersistTypes ==
  ASSUME disk \in Ledgers, prev \in Ledgers, NEW d \in SUBSET Domains, NEW s \in Scopes
  PROVE  (Persist(d, s) \/ Saved(d, s) \/ SaveFails) => disk' \in Ledgers
  BY DEF Persist, Saved, SaveFails, Record, Ledgers

LEMMA RescheduledTypes ==
  ASSUME keepalive \in Heartbeats, NEW o, NEW d
  PROVE  Rescheduled(o, d) \in Heartbeats
  BY InitialValues DEF Rescheduled, Heartbeats

\* The restore sequence goes on at one of its own labels.
LEMMA AfterTypes ==
  ASSUME NEW d, NEW s
  PROVE  {AfterFan(d, s), AfterGpu(d, s), AfterPower(d, s), AfterThermal(s)}
           \subseteq RestoreLabels \ {"r.max", "r.auto", "r.rearm", "r.cpu"}
  BY DEF AfterFan, AfterGpu, AfterPower, AfterThermal, RestoreLabels

LEMMA EnterRestoreTypes ==
  ASSUME frame \in Frames, NEW d, NEW s,
         NEW r \in {"tick", "loop", "exec", "session", "stop"}, EnterRestore(r, d, s)
  PROVE  /\ frame' \in Frames /\ pc' \in RestoreLabels \ {"r.cpu"}
         /\ frame'.ret = r /\ frame'.cur = frame.cur /\ frame'.ctx = frame.ctx
         /\ frame'.done = IF "fan" \in d /\ obs.max = "off" THEN {"max"} ELSE {}
         /\ pc' \in {"r.max", "r.auto", "r.rearm"} => "fan" \in d
  BY AfterTypes DEF EnterRestore, Frames, RestoreLabels, FanChannels

LEMMA EpochMovedTypes ==
  ASSUME active \in Progress, EpochMoved
  PROVE  /\ active' \in Progress /\ active'.plan = active.plan
         /\ active'.index = active.index /\ active'.waiting = active.waiting
         /\ active'.stale = (active.plan # <<>>)
  BY DEF EpochMoved, Progress

\* Restoring a baseline writes one of its CPU values, if it has one.
LEMMA CpuRestoredTypes ==
  ASSUME cpu \in [Schemes -> Values], NEW p \in Seq(Steps)
  PROVE  CpuRestored(p) \in [Schemes -> Values]
  <1> DEFINE C == CHOOSE step \in {p[i] : i \in DOMAIN p} : step.op = "cpu"
  <1>1. ASSUME \E i \in DOMAIN p : p[i].op = "cpu"
        PROVE  C.val \in Values
    <2>1. C \in {p[i] : i \in DOMAIN p} /\ C.op = "cpu"
      BY <1>1
    <2>2. C \in Steps
      BY ZenonT(60), <2>1, ElementOfSeq, LenProperties
    <2> QED BY <2>1, <2>2 DEF Steps
  <1> QED BY <1>1 DEF CpuRestored

\* The step an unfinished plan is at is one of its commands.
LEMMA CurrentType ==
  ASSUME active \in Progress, PlanInProgress, active.plan # <<>>
  PROVE  Current \in Commands
  BY ElementOfSeq, LenProperties DEF PlanInProgress, Progress, Current

-----------------------------------------------------------------------------
LEMMA InitTypeInv == Init => TypeInv
  <1> SUFFICES ASSUME Init PROVE TypeInv
    OBVIOUS
  <1>1. TypeOK
    BY InitialValues, WeatherAssumption
    DEF Init, TypeOK, HwInit, HwTypeOK, Channels, FanChannels, Values, Doubts,
        NoOverride, Overrides, FanModes, Labels
  <1>2. ControlOK
    BY InitialValues
    DEF Init, ControlOK, PlanInProgress, CallMatches, PointMatches, PowerKnown, InPlan,
        InRelease, InCall, ExecLabels, RestoreLabels, FanLabels
  <1>3. QED BY <1>1, <1>2 DEF TypeInv

-----------------------------------------------------------------------------
(* Each group of actions preserves TypeInv *)

LEMMA EnvironmentTypes == TypeInv /\ Environment => TypeInv'
  <1> SUFFICES ASSUME TypeInv, Environment PROVE TypeInv'
    OBVIOUS
  <1>1. CASE Sense
    <2>1. TypeOK'
      BY <1>1, WeatherAssumption DEF Sense, TypeInv, TypeOK, HwTypeOK, world, ledger
    <2>2. ControlOK'
      BY <1>1 DEF Sense, TypeInv, ControlOK, PlanInProgress, CallMatches, PointMatches,
                  PowerKnown, InPlan, InRelease, InCall, Current
    <2> QED BY <2>1, <2>2 DEF TypeInv
  <1>2. CASE SwitchScheme
    <2>1. active' \in Progress /\ active'.plan = active.plan
          /\ active'.index = active.index /\ active'.waiting = active.waiting
      BY <1>2 DEF SwitchScheme, TypeInv, TypeOK, Progress
    <2>2. frame' \in Frames /\ frame'.cur = frame.cur /\ frame'.ctx = frame.ctx
          /\ frame'.ret = frame.ret
      BY <1>2 DEF SwitchScheme, TypeInv, TypeOK, Frames
    <2>3. TypeOK'
      BY <1>2, <2>1, <2>2 DEF SwitchScheme, TypeInv, TypeOK, HwTypeOK, hwVars, ledger
    <2>4. ControlOK'
      BY <1>2, <2>1, <2>2 DEF SwitchScheme, TypeInv, ControlOK, PlanInProgress, CallMatches,
                  PointMatches, PowerKnown, InPlan, InRelease, InCall, Current
    <2> QED BY <2>3, <2>4 DEF TypeInv
  <1>3. CASE Firmware
    <2>1. TypeOK'
      BY <1>3, LandingTypes DEF Firmware, TypeInv, TypeOK, ledger
    <2>2. ControlOK'
      BY <1>3 DEF Firmware, TypeInv, ControlOK, PlanInProgress, CallMatches, PointMatches,
                  PowerKnown, InPlan, InRelease, InCall, Current
    <2> QED BY <2>1, <2>2 DEF TypeInv
  <1>4. CASE Crash \/ Restart
    <2>1. FreshMemory /\ pc' \in {"crashed", "loop"}
      BY <1>4 DEF Crash, Restart
    <2>2. TypeOK'
      BY <1>4, <2>1, InitialValues
      DEF Crash, Restart, FreshMemory, TypeInv, TypeOK, HwTypeOK, world, Labels, Overrides,
          NoOverride
    <2>3. ControlOK'
      BY <2>1, InitialValues
      DEF FreshMemory, ControlOK, PlanInProgress, CallMatches, PointMatches, PowerKnown,
          InPlan, InRelease, InCall, ExecLabels, RestoreLabels, FanLabels
    <2> QED BY <2>2, <2>3 DEF TypeInv
  <1> QED BY <1>1, <1>2, <1>3, <1>4 DEF Environment

\* Outside every call and with the plan untouched ControlOK needs no more than
\* known power limits.
LEMMA NoCall ==
  ASSUME ControlOK, pc' \notin ExecLabels \cup RestoreLabels \cup {"applied", "failed", "release"},
         active'.plan = active.plan, active'.index = active.index,
         active'.waiting = active.waiting, PowerKnown'
  PROVE  ControlOK'
  BY DEF ControlOK, PlanInProgress, CallMatches, PointMatches, InPlan, InRelease, InCall,
         Current, ExecLabels, FanLabels

LEMMA RestoringTypes == TypeInv /\ Restoring => TypeInv'
  <1> SUFFICES ASSUME TypeInv, Restoring PROVE TypeInv'
    OBVIOUS
  <1>0. HwTypeOK /\ frame \in Frames /\ obs \in Observations /\ TypeOK /\ ControlOK
    BY DEF TypeInv, TypeOK
  <1> DEFINE Stays == /\ frame'.cur = frame.cur /\ frame'.ctx = frame.ctx
                      /\ frame'.ret = frame.ret /\ active' = active /\ PowerKnown'
                      /\ pc \in RestoreLabels /\ pc' \in RestoreLabels
  <1>a. Stays => ControlOK'
    BY <1>0 DEF ControlOK, PlanInProgress, CallMatches, PointMatches, InPlan, InRelease,
                InCall, Current, ExecLabels, RestoreLabels, FanLabels
  <1>1. CASE RestoreMax
    <2>1. HwTypeOK'
      BY <1>0, <1>1, FirmwareTypes DEF RestoreMax, Channels, Values
    <2>2. obs' \in Observations /\ PowerKnown'
      BY <1>0, <1>1 DEF RestoreMax, Observations, ControlOK, PowerKnown
    <2>3. frame' \in Frames /\ Stays
      BY <1>0, <1>1, <2>2 DEF RestoreMax, Frames, FanChannels, RestoreLabels
    <2>4. TypeOK'
      BY <1>0, <1>1, <2>1, <2>2, <2>3 DEF RestoreMax, TypeOK, ledger, Labels
    <2> QED BY <1>a, <2>3, <2>4 DEF TypeInv
  <1>2. CASE RestoreLevel
    <2>1. HwTypeOK'
      BY <1>0, <1>2, FirmwareTypes DEF RestoreLevel, Channels, Values
    <2>2. frame' \in Frames /\ Stays
      BY <1>0, <1>2, AfterTypes
      DEF RestoreLevel, Frames, FanChannels, RestoreLabels, ControlOK, PowerKnown
    <2>3. TypeOK'
      BY <1>0, <1>2, <2>1, <2>2 DEF RestoreLevel, TypeOK, ledger, Labels
    <2> QED BY <1>a, <2>2, <2>3 DEF TypeInv
  <1>3. CASE RestoreRearm
    <2>1. HwTypeOK'
      BY <1>0, <1>3, FirmwareTypes, LandingTypes DEF RestoreRearm, Channels, Values
    <2>2. obs' \in Observations /\ PowerKnown'
      BY <1>0, <1>3 DEF RestoreRearm, Observations, ControlOK, PowerKnown
    <2>3. frame' \in Frames /\ Stays
      BY <1>0, <1>3, <2>2, AfterTypes DEF RestoreRearm, Frames, RestoreLabels
    <2>4. TypeOK'
      BY <1>0, <1>3, <2>1, <2>2, <2>3 DEF RestoreRearm, TypeOK, ledger, Labels
    <2> QED BY <1>a, <2>3, <2>4 DEF TypeInv
  <1>4. ASSUME NEW d \in {"gpu", "power", "thermal"}, NEW here \in RestoreLabels,
               NEW next \in RestoreLabels, RestoreDomain(d, here, next)
        PROVE  TypeInv'
    <2>1. HwTypeOK'
      BY <1>0, <1>4, FirmwareTypes DEF RestoreDomain, Channels, Values
    <2>2. frame' \in Frames /\ Stays
      BY <1>0, <1>4 DEF RestoreDomain, Frames, FanChannels, Domains, ControlOK, PowerKnown
    <2>3. TypeOK'
      BY <1>0, <1>4, <2>1, <2>2 DEF RestoreDomain, TypeOK, ledger, Labels
    <2> QED BY <1>a, <2>2, <2>3 DEF TypeInv
  <1>5. CASE RestoreScope
    <2>1. Stays
      BY <1>0, <1>5 DEF RestoreScope, RestoreLabels, ControlOK, PowerKnown
    <2>2. TypeOK'
      BY <1>0, <1>5 DEF RestoreScope, TypeOK, HwTypeOK, world, ledger, Labels, RestoreLabels
    <2> QED BY <1>a, <2>1, <2>2 DEF TypeInv
  <1>6. CASE RestoreCpu
    <2>1. cpu' \in [Schemes -> Values]
      BY <1>0, <1>6, CpuRestoredTypes DEF RestoreCpu, TypeOK, Scopes
    <2>2. frame' \in Frames /\ Stays
      BY <1>0, <1>6 DEF RestoreCpu, Frames, RestoreLabels, ControlOK, PowerKnown
    <2>3. TypeOK'
      BY <1>0, <1>6, <2>1, <2>2, InitialValues
      DEF RestoreCpu, TypeOK, HwTypeOK, hwVars, ledger, Labels, RestoreLabels
    <2> QED BY <1>a, <2>2, <2>3 DEF TypeInv
  <1>7. CASE RestoreEnd
    <2>1. obs' \in Observations /\ PowerKnown'
      BY ZenonT(60), <1>0, <1>7 DEF RestoreEnd, Observations, FanModes, Values, ControlOK, PowerKnown
    <2>2. dirty' \in SUBSET Domains /\ override' \in Overrides
      BY <1>0, <1>7
      DEF RestoreEnd, HandedBack, TypeOK, NoteUserFanMode, Overrides, FanModes, NoOverride
    <2>3. keepalive' \in Heartbeats /\ disk' \in Ledgers
      BY <1>0, <1>7, <2>2, RescheduledTypes, PersistTypes DEF RestoreEnd, TypeOK
    <2>4. frame' \in Frames /\ pc' \in {"heartbeat", "loop", "failed", "stopped", "applied"}
          /\ active' = active
      BY <1>0, <1>7, InitialValues DEF RestoreEnd, Frames
    <2>5. TypeOK'
      BY <1>0, <1>7, <2>1, <2>2, <2>3, <2>4
      DEF RestoreEnd, TypeOK, HwTypeOK, world, Labels, ExecLabels
    <2>6. CASE frame.ret \in {"exec", "session"}
      <3>1. frame' = frame /\ pc' \in {"failed", "applied"} /\ InCall /\ pc \notin {"release"}
        BY <1>7, <2>6 DEF RestoreEnd, InCall, RestoreLabels
      <3>2. ControlOK'
        BY <1>0, <2>1, <2>4, <3>1
        DEF ControlOK, PlanInProgress, CallMatches, PointMatches, InPlan, InRelease, InCall,
            Current, ExecLabels, RestoreLabels, FanLabels
      <3> QED BY <2>5, <3>2 DEF TypeInv
    <2>7. CASE frame.ret \in {"tick", "loop", "stop"}
      <3>1. pc' \in {"heartbeat", "loop", "stopped"}
        BY <1>7, <2>7 DEF RestoreEnd
      <3>2. ControlOK'
        BY <1>0, <2>1, <2>4, <3>1, NoCall DEF ExecLabels, RestoreLabels
      <3> QED BY <2>5, <3>2 DEF TypeInv
    <2> QED BY <1>0, <2>6, <2>7 DEF Frames
  <1>8. AfterGpu(dirty, scope) \in RestoreLabels /\ AfterPower(dirty, scope) \in RestoreLabels
        /\ AfterThermal(scope) \in RestoreLabels
    BY AfterTypes
  <1> QED BY <1>1, <1>2, <1>3, <1>4, <1>5, <1>6, <1>7, <1>8 DEF Restoring, RestoreLabels

\* A ledgered step goes on at a write that fits it.
AfterOwnFits(step) ==
  /\ AfterOwn(step) \in {"set"} \cup FanLabels
  /\ AfterOwn(step) = "set" <=> step.op # "fan"
  /\ AfterOwn(step) \in {"auto.max", "auto.level", "auto.done"} => step.val = "auto"
  /\ AfterOwn(step) = "max.on" => step.val = "max"
  /\ AfterOwn(step) \in {"held.max", "held.level"} => step.val \in HeldModes

LEMMA AfterOwnTypes ==
  ASSUME NEW step \in Steps
  PROVE  AfterOwnFits(step)
  <1>1. CASE step.op # "fan"
    <2>1. step.val \in Values
      BY <1>1 DEF Steps
    <2>2. AfterOwn(step) = "set"
      BY <1>1, <2>1 DEF AfterOwn, Values, HeldModes
    <2> QED BY <1>1, <2>2 DEF AfterOwnFits, FanLabels
  <1>2. CASE step.op = "fan"
    <2>1. step.val \in FanModes
      BY <1>2 DEF Steps
    <2> QED BY <1>2, <2>1 DEF AfterOwn, AfterOwnFits, FanLabels, FanModes, HeldModes
  <1> QED BY <1>1, <1>2

LEMMA ExecutingTypes == TypeInv /\ Executing => TypeInv'
  <1> SUFFICES ASSUME TypeInv, Executing PROVE TypeInv'
    OBVIOUS
  <1>0. /\ HwTypeOK /\ frame \in Frames /\ obs \in Observations /\ active \in Progress
        /\ TypeOK /\ ControlOK /\ PowerKnown /\ PointMatches
    BY DEF TypeInv, TypeOK, ControlOK
  <1> DEFINE Stays == /\ frame'.cur = frame.cur /\ frame'.ctx = frame.ctx
                      /\ active'.plan = active.plan /\ active'.index = active.index
                      /\ PowerKnown' /\ PointMatches' /\ pc \in ExecLabels
  <1>a. ASSUME Stays, active'.waiting \in {active.waiting} \cup {frame.cur.op},
               active'.waiting # active.waiting => frame.ctx = "plan"
        PROVE  ControlOK'
    BY <1>0, <1>a DEF ControlOK, PlanInProgress, CallMatches, InPlan, InRelease, InCall,
                      Current, ExecLabels, RestoreLabels
  <1>1. CASE Own
    <2>1. frame.cur \in Steps /\ frame.cur.op # "cpu"
      BY <1>0, <1>1 DEF Own, PointMatches
    <2>2. frame.cur.op \in Domains /\ AfterOwnFits(frame.cur)
      BY <2>1, AfterOwnTypes DEF Steps, Domains
    <2>3. HwTypeOK'
      <3>1. Refused => HwTypeOK'
        BY <1>0, FirmwareTypes DEF Channels, Values
      <3>2. Refused \/ UNCHANGED hwVars
        BY <1>1 DEF Own
      <3> QED BY <1>0, <3>1, <3>2 DEF hwVars, HwTypeOK
    <2>4. dirty' \in SUBSET Domains /\ frame' \in Frames /\ frame'.cur = frame.cur
          /\ frame'.ctx = frame.ctx
      <3>1. dirty' \in SUBSET Domains
        BY <1>0, <1>1, <2>2 DEF Own, TypeOK
      <3>2. \A b \in BOOLEAN : /\ [frame EXCEPT !.wasDirty = b] \in Frames
                              /\ [frame EXCEPT !.wasDirty = b].cur = frame.cur
                              /\ [frame EXCEPT !.wasDirty = b].ctx = frame.ctx
        BY <1>0 DEF Frames
      <3>3. \E b \in BOOLEAN : frame' \in {frame, [frame EXCEPT !.wasDirty = b]}
        <4>1. CASE UNCHANGED frame
          BY <4>1
        <4>2. CASE frame' = [frame EXCEPT !.wasDirty = (frame.cur.op \in dirty)]
          <5>1. (frame.cur.op \in dirty) \in BOOLEAN
            OBVIOUS
          <5> QED BY <4>2, <5>1, Zenon
        <4> QED BY <1>1, <4>1, <4>2 DEF Own
      <3> QED BY <1>0, <3>1, <3>2, <3>3
    <2>5. disk' \in Ledgers
      BY <1>0, <1>1, <2>4, PersistTypes DEF Own, TypeOK
    <2>6. pc' \in {"failed", AfterOwn(frame.cur)}
      BY <1>1 DEF Own
    <2>7. TypeOK'
      BY <1>0, <1>1, <2>2, <2>3, <2>4, <2>5, <2>6
      DEF Own, TypeOK, Labels, AfterOwnFits, FanLabels, ExecLabels
    <2>8. PointMatches'
      BY <2>1, <2>2, <2>4, <2>6 DEF PointMatches, AfterOwnFits, FanLabels, Steps
    <2>9. ControlOK'
      BY <1>0, <1>1, <1>a, <2>4, <2>8 DEF Own, PowerKnown, ExecLabels
    <2> QED BY <2>7, <2>9 DEF TypeInv
  <1>2. CASE Set
    <2>1. frame.cur \in Steps /\ frame.cur.op \in {"thermal", "gpu", "power"}
          /\ frame.cur.val \in Values /\ frame.ctx = "plan"
      BY <1>0, <1>2 DEF Set, PointMatches, Steps, ControlOK, CallMatches, InRelease, InCall,
                        ExecLabels, Frames
    <2>2. HwTypeOK'
      BY <1>0, <1>2, <2>1, FirmwareTypes DEF Set, Channels
    <2>3. obs' \in Observations /\ PowerKnown'
      BY <1>0, <1>2, <2>1 DEF Set, Observations, PowerKnown
    <2>4. active' \in Progress /\ active'.plan = active.plan /\ active'.index = active.index
          /\ active'.waiting \in {active.waiting, frame.cur.op}
      <3>1. VerifyPolls \in 0..VerifyPolls
        BY PollsAssumption
      <3>2. active' \in {active, [active EXCEPT !.waiting = frame.cur.op, !.polls = VerifyPolls]}
            /\ (frame.cur.op = "thermal" => active' = active)
        BY <1>2 DEF Set
      <3> QED BY <1>0, <2>1, <3>1, <3>2 DEF Progress
    <2>5. dirty' \in SUBSET Domains /\ frame' = frame /\ pc' \in {"applied", "failed"}
      BY <1>0, <1>2 DEF Set, Revoked, TypeOK
    <2>6. TypeOK'
      BY <1>0, <1>2, <2>2, <2>3, <2>4, <2>5 DEF Set, TypeOK, ledger, Labels
    <2>7. PointMatches'
      BY <2>5 DEF PointMatches, FanLabels
    <2>8. ControlOK'
      BY <1>2, <1>a, <2>1, <2>3, <2>4, <2>5, <2>7 DEF Set, ExecLabels
    <2> QED BY <2>6, <2>8 DEF TypeInv
  <1>3. CASE AutoMax \/ AutoLevel
    <2>1. HwTypeOK'
      BY <1>0, <1>3, FirmwareTypes DEF AutoMax, AutoLevel, Channels, Values
    <2>2. obs' \in Observations /\ PowerKnown'
      BY <1>0, <1>3 DEF AutoMax, AutoLevel, Observations, PowerKnown
    <2>3. frame' = frame /\ active' = active
          /\ pc' \in {"auto.level", "auto.done", "failed"}
          /\ pc \in {"auto.max", "auto.level"}
      BY <1>3 DEF AutoMax, AutoLevel
    <2>4. TypeOK'
      BY <1>0, <1>3, <2>1, <2>2, <2>3 DEF AutoMax, AutoLevel, TypeOK, ledger, Labels, ExecLabels
    <2>5. PointMatches'
      BY <1>0, <2>3 DEF PointMatches, FanLabels
    <2>6. ControlOK'
      BY <1>a, <2>2, <2>3, <2>5 DEF ExecLabels
    <2> QED BY <2>4, <2>6 DEF TypeInv
  <1>4. CASE AutoDone
    <2>1. obs' \in Observations /\ PowerKnown'
      BY <1>0, <1>4 DEF AutoDone, Observations, PowerKnown, FanModes
    <2>2. dirty' \in SUBSET Domains /\ override' \in Overrides
      BY <1>0, <1>4 DEF AutoDone, TypeOK, NoteUserFanMode, Overrides
    <2>3. frame' = frame /\ active' = active /\ pc' = "applied" /\ pc \in ExecLabels
      BY <1>4 DEF AutoDone, ExecLabels
    <2>4. TypeOK'
      BY <1>0, <1>4, <2>1, <2>2, <2>3
      DEF AutoDone, TypeOK, HwTypeOK, world, ledger, Labels, ExecLabels
    <2>5. PointMatches'
      BY <2>3 DEF PointMatches, FanLabels
    <2>6. ControlOK'
      BY <1>a, <2>1, <2>3, <2>5
    <2> QED BY <2>4, <2>6 DEF TypeInv
  <1>5. CASE MaxOn
    <2>1. HwTypeOK'
      BY <1>0, <1>5, FirmwareTypes DEF MaxOn, Channels, Values
    <2>2. obs' \in Observations /\ PowerKnown' /\ override' \in Overrides
      BY <1>0, <1>5
      DEF MaxOn, TypeOK, Observations, PowerKnown, FanModes, NoteUserFanMode, Overrides
    <2>3. frame' = frame /\ active' = active /\ pc' \in {"applied", "failed"}
          /\ pc \in ExecLabels
      BY <1>5 DEF MaxOn, ExecLabels
    <2>4. TypeOK'
      BY <1>0, <1>5, <2>1, <2>2, <2>3 DEF MaxOn, TypeOK, ledger, Labels
    <2>5. PointMatches'
      BY <2>3 DEF PointMatches, FanLabels
    <2>6. ControlOK'
      BY <1>a, <2>2, <2>3, <2>5
    <2> QED BY <2>4, <2>6 DEF TypeInv
  <1>6. CASE HeldMax
    <2>1. HwTypeOK'
      BY <1>0, <1>6, FirmwareTypes DEF HeldMax, Channels, Values
    <2>2. obs' \in Observations /\ PowerKnown'
      BY <1>0, <1>6 DEF HeldMax, Observations, PowerKnown
    <2>3. frame' \in Frames /\ frame'.cur = frame.cur /\ frame'.ctx = frame.ctx
          /\ active' = active /\ pc' \in {"held.level", "failed"} /\ pc = "held.max"
      BY <1>0, <1>6 DEF HeldMax, Frames
    <2>4. TypeOK'
      BY <1>0, <1>6, <2>1, <2>2, <2>3 DEF HeldMax, TypeOK, ledger, Labels, ExecLabels
    <2>5. PointMatches'
      BY <1>0, <2>3 DEF PointMatches, FanLabels
    <2>6. ControlOK'
      BY <1>a, <2>2, <2>3, <2>5 DEF ExecLabels
    <2> QED BY <2>4, <2>6 DEF TypeInv
  <1>7. CASE HeldLevel
    <2>1. frame.cur \in Steps /\ frame.cur.op = "fan" /\ frame.cur.val \in HeldModes
          /\ pc = "held.level"
      BY <1>0, <1>7 DEF HeldLevel, PointMatches, FanLabels
    <2>2. HwTypeOK'
      <3>1. HeldWritten => HwTypeOK'
        BY <1>0 DEF HeldWritten, HwTypeOK, Settled, Writes, Channels, FanChannels, Values,
                    Doubts
      <3> QED BY <1>0, <1>7, <3>1, FirmwareTypes DEF HeldLevel, Channels, Values
    <2>3. obs' \in Observations /\ PowerKnown' /\ override' \in Overrides
      BY <1>0, <1>7, <2>1
      DEF HeldLevel, TypeOK, Observations, PowerKnown, FanModes, HeldModes, NoteUserFanMode,
          Overrides
    <2>4. active' \in Progress /\ active'.plan = active.plan /\ active'.index = active.index
          /\ active'.waiting \in {active.waiting, frame.cur.op}
          /\ (active'.waiting # active.waiting => frame.ctx = "plan")
      <3>1. VerifyPolls \in 0..VerifyPolls
        BY PollsAssumption
      <3>2. \/ EpochMoved
            \/ active' = active
            \/ /\ frame.ctx = "plan"
               /\ active' = [active EXCEPT !.waiting = "fan", !.polls = VerifyPolls]
        BY <1>7 DEF HeldLevel
      <3>3. CASE EpochMoved
        BY <1>0, <3>3, EpochMovedTypes
      <3> QED BY <1>0, <2>1, <3>1, <3>2, <3>3 DEF Progress
    <2>5. frame' \in Frames /\ frame'.cur = frame.cur /\ frame'.ctx = frame.ctx
          /\ pc' \in RestoreLabels \cup {"failed", "applied"}
      BY <1>0, <1>7, EnterRestoreTypes DEF HeldLevel
    <2>6. TypeOK'
      BY <1>0, <1>7, <2>2, <2>3, <2>4, <2>5 DEF HeldLevel, TypeOK, ledger, Labels
    <2>7. PointMatches'
      BY <2>5 DEF PointMatches, FanLabels, RestoreLabels
    <2>8. ControlOK'
      BY <1>a, <2>1, <2>3, <2>4, <2>5, <2>7 DEF ExecLabels
    <2> QED BY <2>6, <2>8 DEF TypeInv
  <1>8. CASE ExecCpu
    <2>1. cpu' \in [Schemes -> Values]
      BY <1>0, <1>8 DEF ExecCpu, TypeOK, PointMatches, Steps
    <2>2. frame' = frame /\ active' = active /\ obs' = obs /\ pc' \in {"applied", "failed"}
          /\ pc \in ExecLabels
      BY <1>8 DEF ExecCpu, ExecLabels
    <2>3. TypeOK'
      BY <1>0, <1>8, <2>1, <2>2 DEF ExecCpu, TypeOK, HwTypeOK, hwVars, ledger, Labels
    <2>4. PointMatches' /\ PowerKnown'
      BY <1>0, <2>2 DEF PointMatches, PowerKnown, FanLabels
    <2>5. ControlOK'
      BY <1>a, <2>2, <2>4
    <2> QED BY <2>3, <2>5 DEF TypeInv
  <1>9. CASE ExecSession
    <2>1. active' \in Progress /\ active'.plan = active.plan /\ active'.index = active.index
          /\ active'.waiting = active.waiting
      BY <1>0, <1>9, EpochMovedTypes DEF ExecSession
    <2>2. frame' \in Frames /\ frame'.cur = frame.cur /\ frame'.ctx = frame.ctx
          /\ pc' \in RestoreLabels \cup {"failed"} /\ pc \in ExecLabels /\ obs' = obs
      BY <1>0, <1>9, EnterRestoreTypes DEF ExecSession, ExecLabels
    <2>3. prev' \in Ledgers /\ foreign' \in BOOLEAN /\ dirty' \in SUBSET Domains
          /\ scope' \in Scopes
      BY <1>0, <1>9, InitialValues DEF ExecSession, TypeOK, Ledgers
    <2>4. TypeOK'
      BY <1>0, <1>9, <2>1, <2>2, <2>3 DEF ExecSession, TypeOK, HwTypeOK, world, Labels
    <2>5. PointMatches' /\ PowerKnown'
      BY <1>0, <2>2 DEF PointMatches, PowerKnown, FanLabels, RestoreLabels
    <2>6. ControlOK'
      BY <1>a, <2>1, <2>2, <2>5
    <2> QED BY <2>4, <2>6 DEF TypeInv
  <1> QED BY <1>1, <1>2, <1>3, <1>4, <1>5, <1>6, <1>7, <1>8, <1>9 DEF Executing

\* Accepting a plan puts its first step under way.
LEMMA BegunTypes ==
  ASSUME NEW p \in Seq(Commands), NEW len \in Nat
  PROVE  /\ Begun(p, len) \in Progress /\ Begun(p, len).plan = p
         /\ p # <<>> => Begun(p, len).index \in DOMAIN p
         /\ Begun(p, len).waiting = "none"
  <1>1. p # <<>> => 1 \in DOMAIN p
    BY EmptySeq, LenProperties
  <1>2. Idle \in Progress /\ Idle.index = 1 /\ Idle.waiting = "none"
    BY InitialValues DEF Idle
  <1> QED BY <1>1, <1>2 DEF Begun, Progress

LEMMA StepsAreCommands == \A p \in Seq(Steps) : p \in Seq(Commands)
  BY SeqMonotonic DEF Commands

\* A captured baseline consists of steps.
LEMMA CapturedTypes ==
  ASSUME TypeOK, NEW step \in Steps
  PROVE  Captured(step) \in Steps
  <1>0. /\ hw \in [Channels -> Values] /\ cpu \in [Schemes -> Values] /\ scheme \in Schemes
        /\ obs.fan \in FanModes \cup {"unknown"} /\ obs.thermal \in Values \cup {"unknown"}
    BY DEF TypeOK, HwTypeOK, Observations
  <1>1. CASE step.op = "cpu"
    BY <1>0, <1>1 DEF Captured, Steps
  <1>2. CASE step.op = "fan"
    BY <1>0, <1>2 DEF Captured, Steps, FanModes
  <1>3. CASE step.op = "thermal"
    BY <1>0, <1>3 DEF Captured, Steps, Values
  <1>4. CASE step.op \in {"gpu", "power"}
    <2>1. Captured(step) = [op |-> step.op, val |-> hw[step.op]]
      BY <1>4 DEF Captured
    <2>2. hw[step.op] \in Values
      BY <1>0, <1>4 DEF Channels
    <2> QED BY <1>4, <2>1, <2>2 DEF Steps
  <1> QED BY <1>1, <1>2, <1>3, <1>4 DEF Steps

LEMMA RequestTypes == TypeInv /\ Request => TypeInv'
  <1> SUFFICES ASSUME TypeInv, Request PROVE TypeInv'
    OBVIOUS
  <1>0. TypeOK /\ ControlOK /\ PowerKnown /\ scope.plan \in Seq(Steps)
    BY DEF TypeInv, ControlOK, TypeOK, Scopes
  <1>a. ASSUME active'.plan # <<>> => active'.index \in DOMAIN active'.plan,
               active'.waiting = "none", pc' = "loop", obs' = obs
        PROVE  ControlOK'
    BY <1>0, <1>a DEF ControlOK, PlanInProgress, CallMatches, PointMatches, PowerKnown,
                      InPlan, InRelease, InCall, ExecLabels, RestoreLabels, FanLabels
  <1>b. ASSUME active' \in Progress, pc' \in Labels, frame' \in Frames, disk' \in Ledgers,
               scope' \in Scopes, scheme' \in Schemes,
               UNCHANGED <<hwVars, cpu, sensor, prev, foreign, obs, dirty, override, keepalive>>
        PROVE  TypeOK'
    BY <1>0, <1>b DEF TypeOK, HwTypeOK, hwVars
  <1>1. ASSUME NEW p \in Plans, BeginDirect(p) PROVE TypeInv'
    <2>1. p \in Seq(Steps)
      BY PlansAssumption
    <2>2. scope.plan \o p \in Seq(Commands) /\ Len(scope.plan) \in Nat
      BY <1>0, <2>1, ConcatProperties, LenProperties, StepsAreCommands
    <2>3. active' \in Progress /\ active'.waiting = "none"
          /\ (active'.plan # <<>> => active'.index \in DOMAIN active'.plan)
      BY <1>1, <2>2, BegunTypes DEF BeginDirect
    <2>4. pc' = "loop" /\ UNCHANGED <<world, sensor, ledger, obs, dirty, scope, override,
                                      keepalive, frame>>
      BY <1>1 DEF BeginDirect
    <2>5. TypeOK' /\ ControlOK'
      BY <1>0, <1>a, <1>b, <2>3, <2>4 DEF TypeOK, world, hwVars, ledger, Labels
    <2> QED BY <2>5 DEF TypeInv
  <1>2. ASSUME NEW id \in SessionIds, NEW p \in ScopedPlans, BeginScoped(id, p) PROVE TypeInv'
    <2>1. p \in Seq(Steps)
      BY PlansAssumption
    <2>2. active' \in Progress /\ active'.waiting = "none"
          /\ (active'.plan # <<>> => active'.index \in DOMAIN active'.plan)
      BY <1>2, <2>1, StepsAreCommands, BegunTypes DEF BeginScoped
    <2> DEFINE base == [i \in DOMAIN p |-> Captured(p[i])]
               new(s) == [on |-> TRUE, id |-> id, scheme |-> s, plan |-> base]
    <2>3. base \in Seq(Steps)
      <3>1. Len(p) \in Nat /\ DOMAIN p = 1..Len(p) /\ \A i \in DOMAIN p : p[i] \in Steps
        BY <2>1, LenProperties, ElementOfSeq
      <3>2. \A i \in 1..Len(p) : Captured(p[i]) \in Steps
        BY <1>0, <3>1, CapturedTypes
      <3>3. base \in [1..Len(p) -> Steps]
        BY <3>1, <3>2
      <3> QED BY <3>1, <3>3, SMT
    <2>4. PICK s \in {scheme', NoScheme} : Saved(dirty, new(s)) /\ scope' = new(s)
      BY <1>2 DEF BeginScoped
    <2>5. new(s) \in Scopes
      BY <1>2, <2>3, <2>4 DEF BeginScoped, Scopes
    <2>6. disk' \in Ledgers
      BY <1>0, <2>4, <2>5, PersistTypes DEF TypeOK
    <2>7. pc' = "loop" /\ scheme' \in Schemes
          /\ UNCHANGED <<hwVars, cpu, sensor, prev, foreign, obs, dirty, override,
                         keepalive, frame>>
      BY <1>2 DEF BeginScoped
    <2>8. TypeOK' /\ ControlOK'
      BY <1>0, <1>a, <1>b, <2>2, <2>4, <2>5, <2>6, <2>7 DEF TypeOK, Labels
    <2> QED BY <2>8 DEF TypeInv
  <1>3. ASSUME NEW id \in SessionIds, BeginUnscope(id) PROVE TypeInv'
    <2>1. scope.plan \in Seq(Commands) /\ Len(scope.plan) \in Nat
      BY <1>0, LenProperties, StepsAreCommands
    <2>2. active' \in Progress /\ active'.waiting = "none"
          /\ (active'.plan # <<>> => active'.index \in DOMAIN active'.plan)
      BY <1>3, <2>1, BegunTypes DEF BeginUnscope
    <2>3. pc' = "loop" /\ UNCHANGED <<world, sensor, ledger, obs, dirty, scope, override,
                                      keepalive, frame>>
      BY <1>3 DEF BeginUnscope
    <2>4. TypeOK' /\ ControlOK'
      BY <1>0, <1>a, <1>b, <2>2, <2>3 DEF TypeOK, world, hwVars, ledger, Labels
    <2> QED BY <2>4 DEF TypeInv
  <1>4. CASE BeginSession
    <2>1. <<RestoreSession>> \in Seq(Commands)
      BY DEF Commands
    <2>2. active' \in Progress /\ active'.waiting = "none"
          /\ (active'.plan # <<>> => active'.index \in DOMAIN active'.plan)
      BY <1>4, <2>1, BegunTypes DEF BeginSession
    <2>3. pc' = "loop" /\ UNCHANGED <<world, sensor, ledger, obs, dirty, scope, override,
                                      keepalive, frame>>
      BY <1>4 DEF BeginSession
    <2>4. TypeOK' /\ ControlOK'
      BY <1>0, <1>a, <1>b, <2>2, <2>3 DEF TypeOK, world, hwVars, ledger, Labels
    <2> QED BY <2>4 DEF TypeInv
  <1>5. CASE Shutdown
    <2>1. disk' \in Ledgers /\ active' = Idle /\ obs' = obs /\ scope' = scope
      BY <1>0, <1>5, PersistTypes DEF Shutdown, TypeOK
    <2>2. frame' \in Frames /\ pc' \in RestoreLabels /\ frame'.ret = "stop"
      BY <1>0, <1>5, EnterRestoreTypes DEF Shutdown, TypeOK
    <2>3. TypeOK'
      BY <1>0, <1>5, <1>b, <2>1, <2>2, InitialValues DEF Shutdown, TypeOK, world, hwVars, Labels
    <2>4. ControlOK'
      BY <1>0, <2>1, <2>2, InitialValues
      DEF ControlOK, PlanInProgress, CallMatches, PointMatches, PowerKnown, InPlan, InRelease,
          InCall, ExecLabels, RestoreLabels, FanLabels
    <2> QED BY <2>3, <2>4 DEF TypeInv
  <1> QED BY <1>1, <1>2, <1>3, <1>4, <1>5 DEF Request

\* Moving on in a plan: to its next step, or to its end.
LEMMA StepDoneTypes ==
  ASSUME TypeOK, PlanInProgress, active.plan # <<>>, StepDone, dirty' = dirty, prev' = prev
  PROVE  /\ active' \in Progress /\ active'.plan = active.plan /\ active'.waiting = "none"
         /\ active'.index \in DOMAIN active'.plan
         /\ pc' \in {"finish", "loop"} /\ scope' \in Scopes /\ disk' \in Ledgers
  <1>1. scope' \in Scopes
    BY InitialValues DEF StepDone, TypeOK
  <1>2. disk' \in Ledgers
    BY InitialValues, PersistTypes DEF StepDone, TypeOK
  <1>3. active \in Progress /\ active.plan \in Seq(Commands) /\ active.index \in DOMAIN active.plan
    BY DEF TypeOK, Progress, PlanInProgress
  <1>4. /\ DOMAIN active.plan = 1..Len(active.plan) /\ Len(active.plan) \in Nat
        /\ 0 \in 0..VerifyPolls
    BY <1>3, LenProperties, PollsAssumption
  <1>5. \A k \in Nat \ {0} :
          LET next == [active EXCEPT !.index = k, !.waiting = "none", !.polls = 0]
          IN next \in Progress /\ next.plan = active.plan /\ next.index = k
             /\ next.waiting = "none"
    BY <1>3, <1>4 DEF Progress
  <1>6. \E k \in DOMAIN active.plan :
          active' = [active EXCEPT !.index = k, !.waiting = "none", !.polls = 0]
    <2>1. CASE active.index = Len(active.plan)
      <3>1. active' = [active EXCEPT !.index = active.index, !.waiting = "none", !.polls = 0]
        BY <2>1 DEF StepDone
      <3> QED BY <1>3, <3>1
    <2>2. CASE active.index # Len(active.plan)
      <3>1. active' = [active EXCEPT !.index = active.index + 1, !.waiting = "none", !.polls = 0]
        BY <2>2 DEF StepDone
      <3>2. active.index + 1 \in DOMAIN active.plan
        BY <1>3, <1>4, <2>2
      <3> QED BY <3>1, <3>2
    <2> QED BY <2>1, <2>2
  <1>7. pc' \in {"finish", "loop"}
    BY DEF StepDone
  <1>8. PICK k \in DOMAIN active.plan :
          active' = [active EXCEPT !.index = k, !.waiting = "none", !.polls = 0]
    BY <1>6
  <1>9. k \in Nat \ {0}
    BY <1>4
  <1>10. active' \in Progress /\ active'.plan = active.plan /\ active'.index = k
         /\ active'.waiting = "none"
    BY <1>5, <1>8, <1>9
  <1> QED BY <1>1, <1>2, <1>7, <1>8, <1>10

LEMMA AdvanceTypes == TypeInv /\ Advance => TypeInv'
  <1> SUFFICES ASSUME TypeInv, Advance PROVE TypeInv'
    OBVIOUS
  <1>0. /\ TypeOK /\ ControlOK /\ PowerKnown /\ PlanInProgress /\ active \in Progress
        /\ obs \in Observations
    BY DEF TypeInv, ControlOK, TypeOK
  <1>1. CASE AdvanceStale \/ AdvanceRefuse
    <2>1. pc' = "finish" /\ UNCHANGED <<world, sensor, ledger, obs, dirty, scope, override,
                                        keepalive, active, frame>>
      BY <1>1 DEF AdvanceStale, AdvanceRefuse, NextStepDue
    <2>2. TypeOK'
      BY <1>0, <2>1 DEF TypeOK, HwTypeOK, world, ledger, Labels
    <2>3. ControlOK'
      BY <1>0, <2>1, NoCall DEF PowerKnown, ExecLabels, RestoreLabels
    <2> QED BY <2>2, <2>3 DEF TypeInv
  <1>2. CASE AdvanceExec
    <2>1. Current \in Commands /\ active.plan # <<>>
      BY <1>0, <1>2, CurrentType DEF AdvanceExec, NextStepDue
    <2>2. frame' \in Frames /\ frame'.cur = Current /\ frame'.ctx = "plan"
      BY <1>2, <2>1, InitialValues DEF AdvanceExec, Call, Frames
    <2>3. UNCHANGED <<world, sensor, ledger, obs, dirty, scope, override, keepalive, active>>
          /\ Current' = Current
      BY <1>2 DEF AdvanceExec, Current
    <2>4. pc' = IF Current.op \in {"cpu", "session"} THEN Current.op ELSE "own"
      BY <1>2 DEF AdvanceExec
    <2>5. TypeOK'
      BY <1>0, <2>2, <2>3, <2>4 DEF TypeOK, HwTypeOK, world, ledger, Labels, ExecLabels
    <2>6. PointMatches'
      BY <2>1, <2>2, <2>4 DEF PointMatches, FanLabels, Commands, RestoreSession
    <2>7. ControlOK'
      BY <1>0, <2>1, <2>2, <2>3, <2>4, <2>6
      DEF ControlOK, PlanInProgress, CallMatches, PowerKnown, InPlan, InRelease, InCall,
          ExecLabels, RestoreLabels
    <2> QED BY <2>5, <2>7 DEF TypeInv
  <1>3. CASE ReadbackMatches
    <2>1. Current \in Commands /\ active.plan # <<>> /\ Current.op = active.waiting
      BY <1>0, <1>3, CurrentType DEF ReadbackMatches, PlanInProgress
    <2>2. HwTypeOK'
      <3>1. Refused => HwTypeOK'
        BY <1>0, FirmwareTypes DEF TypeOK, Channels, Values
      <3>2. Refused \/ UNCHANGED hwVars
        BY <1>3 DEF ReadbackMatches
      <3> QED BY <1>0, <3>1, <3>2 DEF TypeOK, HwTypeOK, hwVars
    <2>3. obs' \in Observations /\ PowerKnown'
      <3>1. active.waiting = "power" => Current.val \in Values
        BY <2>1 DEF Commands, Steps, RestoreSession
      <3>2. \/ obs' = [obs EXCEPT !.fan = "manual"]
            \/ obs' = obs
            \/ /\ active.waiting = "power"
               /\ obs' = [obs EXCEPT !.power = Current.val, !.powerOk = TRUE]
        <4>1. CASE active.waiting = "fan"
          BY <1>3, <4>1 DEF ReadbackMatches
        <4>2. CASE active.waiting = "power"
          BY <1>3, <4>2 DEF ReadbackMatches
        <4>3. CASE active.waiting = "gpu"
          BY <1>3, <4>3 DEF ReadbackMatches
        <4> QED BY <1>0, <1>3, <4>1, <4>2, <4>3 DEF ReadbackMatches, Progress
      <3> QED BY <1>0, <3>1, <3>2 DEF Observations, PowerKnown, FanModes
    <2>4. StepDone /\ dirty' = dirty /\ prev' = prev
          /\ UNCHANGED <<cpu, scheme, sensor, prev, foreign, dirty, override, keepalive, frame>>
      BY <1>3 DEF ReadbackMatches
    <2>5. TypeOK'
      BY <1>0, <2>1, <2>2, <2>3, <2>4, StepDoneTypes DEF TypeOK, Labels
    <2>6. ControlOK'
      BY <1>0, <2>1, <2>3, <2>4, StepDoneTypes
      DEF ControlOK, PlanInProgress, CallMatches, PointMatches, InPlan, InRelease, InCall,
          ExecLabels, RestoreLabels, FanLabels
    <2> QED BY <2>5, <2>6 DEF TypeInv
  <1>4. CASE ReadbackAgain
    <2>1. active' \in Progress /\ active'.plan = active.plan /\ active'.index = active.index
          /\ active'.waiting = active.waiting
      BY <1>0, <1>4, PollsAssumption DEF ReadbackAgain, Progress
    <2>2. pc' = "loop" /\ UNCHANGED <<world, sensor, ledger, obs, dirty, scope, override,
                                      keepalive, frame>>
      BY <1>4 DEF ReadbackAgain
    <2>3. TypeOK'
      BY <1>0, <2>1, <2>2 DEF TypeOK, HwTypeOK, world, ledger, Labels
    <2>4. ControlOK'
      BY <1>0, <2>1, <2>2, NoCall DEF PowerKnown, ExecLabels, RestoreLabels
    <2> QED BY <2>3, <2>4 DEF TypeInv
  <1>5. CASE ReadbackFails
    <2>1. active' \in Progress /\ active'.plan = active.plan /\ active'.index = active.index
          /\ active'.waiting = "none"
      <3>1. 0 \in 0..VerifyPolls /\ active' = [active EXCEPT !.waiting = "none", !.polls = 0]
        BY <1>5, PollsAssumption DEF ReadbackFails
      <3> QED BY <1>0, <3>1 DEF Progress
    <2>2. pc' = "finish" /\ UNCHANGED <<world, sensor, ledger, obs, dirty, scope, override,
                                        keepalive, frame>>
      BY <1>5 DEF ReadbackFails
    <2>3. TypeOK'
      BY <1>0, <2>1, <2>2 DEF TypeOK, HwTypeOK, world, ledger, Labels
    <2>4. ControlOK'
      BY <1>0, <2>1, <2>2
      DEF ControlOK, PlanInProgress, CallMatches, PointMatches, PowerKnown, InPlan, InRelease,
          InCall, ExecLabels, RestoreLabels, FanLabels
    <2> QED BY <2>3, <2>4 DEF TypeInv
  <1> QED BY <1>1, <1>2, <1>3, <1>4, <1>5 DEF Advance

LEMMA PlanTypes == TypeInv /\ (PlanApplied \/ FinishPlan) => TypeInv'
  <1> SUFFICES ASSUME TypeInv, PlanApplied \/ FinishPlan PROVE TypeInv'
    OBVIOUS
  <1>0. /\ TypeOK /\ ControlOK /\ PowerKnown /\ PlanInProgress
        /\ Rescheduled(obs, dirty) \in Heartbeats
    BY RescheduledTypes DEF TypeInv, ControlOK, TypeOK
  <1>1. CASE PlanApplied
    <2>1. active.plan # <<>>
      BY <1>0, <1>1 DEF PlanApplied, ControlOK, CallMatches, InPlan, InCall
    <2>2. UNCHANGED <<world, sensor, prev, foreign, obs, dirty, override>> /\ frame' = EmptyFrame
          /\ keepalive' \in Heartbeats
      BY <1>0, <1>1 DEF PlanApplied
    <2>3. CASE active.waiting # "none"
      <3>1. pc' = "loop" /\ UNCHANGED <<disk, scope, active>>
        BY <1>1, <2>3 DEF PlanApplied
      <3>2. TypeOK'
        BY <1>0, <2>2, <3>1, InitialValues DEF TypeOK, HwTypeOK, world, Labels
      <3>3. ControlOK'
        BY <1>0, <2>2, <3>1, NoCall DEF PowerKnown, ExecLabels, RestoreLabels
      <3> QED BY <3>2, <3>3 DEF TypeInv
    <2>4. CASE active.waiting = "none"
      <3>1. StepDone /\ dirty' = dirty /\ prev' = prev
        BY <1>1, <2>4 DEF PlanApplied
      <3>2. TypeOK'
        BY <1>0, <2>1, <2>2, <3>1, StepDoneTypes, InitialValues
        DEF TypeOK, HwTypeOK, world, Labels
      <3>3. ControlOK'
        BY <1>0, <2>1, <2>2, <3>1, StepDoneTypes
        DEF ControlOK, PlanInProgress, CallMatches, PointMatches, PowerKnown, InPlan, InRelease,
            InCall, ExecLabels, RestoreLabels, FanLabels
      <3> QED BY <3>2, <3>3 DEF TypeInv
    <2> QED BY <2>3, <2>4
  <1>2. CASE FinishPlan
    <2>1. UNCHANGED <<world, sensor, prev, foreign, obs, dirty, scope, override>>
          /\ frame' = EmptyFrame /\ active' = Idle /\ pc' = "loop" /\ keepalive' \in Heartbeats
          /\ Persist(dirty, scope)
      BY <1>0, <1>2 DEF FinishPlan
    <2>2. TypeOK'
      BY <1>0, <2>1, InitialValues, PersistTypes DEF TypeOK, HwTypeOK, world, Labels
    <2>3. ControlOK'
      BY <1>0, <2>1, InitialValues
      DEF ControlOK, PlanInProgress, CallMatches, PointMatches, PowerKnown, InPlan, InRelease,
          InCall, ExecLabels, RestoreLabels, FanLabels
    <2> QED BY <2>2, <2>3 DEF TypeInv
  <1> QED BY <1>1, <1>2

\* A step from one point outside every call to another, the plan unchanged but
\* for its staleness.
LEMMA OutsideTypes ==
  ASSUME TypeInv, HwTypeOK', pc' \in {"heartbeat", "loop", "finish", "curve", "force", "rearm"},
         active' = active, obs' \in Observations, PowerKnown',
         dirty' \in SUBSET Domains, override' \in Overrides, keepalive' \in Heartbeats,
         frame' \in Frames, UNCHANGED <<cpu, scheme, sensor, ledger, scope>>
  PROVE  TypeInv'
  <1>1. TypeOK'
    BY DEF TypeInv, TypeOK, ledger, Labels
  <1>2. ControlOK'
    BY NoCall DEF TypeInv, ExecLabels, RestoreLabels
  <1> QED BY <1>1, <1>2 DEF TypeInv

\* A step into the restore sequence from the safety tick or the heartbeat.
LEMMA IntoRestoreTypes ==
  ASSUME TypeInv, HwTypeOK', EpochMoved, NEW r \in {"tick", "loop"},
         EnterRestore(r, dirty, scope), override' \in Overrides, keepalive' \in Heartbeats,
         UNCHANGED <<cpu, scheme, sensor, ledger, obs, dirty, scope>>
  PROVE  TypeInv'
  <1>0. frame \in Frames /\ active \in Progress
    BY DEF TypeInv, TypeOK
  <1>1. /\ active' \in Progress /\ active'.plan = active.plan /\ active'.index = active.index
        /\ active'.waiting = active.waiting
    BY <1>0, EpochMovedTypes
  <1>2. frame' \in Frames /\ pc' \in RestoreLabels /\ frame'.ret = r
    BY <1>0, EnterRestoreTypes
  <1>3. TypeOK'
    BY <1>1, <1>2 DEF TypeInv, TypeOK, ledger, Labels
  <1>4. ControlOK'
    BY <1>1, <1>2
    DEF TypeInv, ControlOK, PlanInProgress, CallMatches, PointMatches, PowerKnown, InPlan,
        InRelease, InCall, Current, ExecLabels, RestoreLabels, FanLabels
  <1> QED BY <1>3, <1>4 DEF TypeInv

LEMMA TickTypes == TypeInv /\ Tick => TypeInv'
  <1> SUFFICES ASSUME TypeInv, Tick PROVE TypeInv'
    OBVIOUS
  <1>0. /\ TypeOK /\ HwTypeOK /\ ControlOK /\ PowerKnown /\ PlanInProgress
        /\ obs \in Observations /\ override \in Overrides
    BY DEF TypeInv, ControlOK, TypeOK
  <1>1. CASE TickWatchdog
    <2>1. EpochMoved /\ EnterRestore("tick", dirty, scope) /\ override' = NoOverride
          /\ UNCHANGED <<world, sensor, ledger, obs, dirty, scope, keepalive>>
      BY <1>1 DEF TickWatchdog
    <2>2. HwTypeOK' /\ override' \in Overrides /\ keepalive' \in Heartbeats
      BY <1>0, <2>1 DEF HwTypeOK, world, Overrides, TypeOK
    <2> QED BY <2>1, <2>2, IntoRestoreTypes DEF world, ledger
  <1>2. CASE TickRelease
    <2>1. override \in FanModes
      BY <1>0, <1>2 DEF TickRelease, Releases, Overrides
    <2> DEFINE step == [op |-> "fan", val |-> override]
    <2>2. step \in Steps /\ frame' = Call("release", step)
      BY <1>2, <2>1 DEF TickRelease, Steps
    <2>3. frame' \in Frames /\ frame'.cur = step /\ frame'.ctx = "release"
      BY <2>2, InitialValues DEF Call, Frames, Commands
    <2>4. pc' \in {"release", "own"} /\ override' = NoOverride
          /\ UNCHANGED <<world, sensor, ledger, obs, dirty, scope, keepalive, active>>
      BY <1>2 DEF TickRelease
    <2>5. TypeOK'
      BY <1>0, <2>3, <2>4
      DEF TypeOK, HwTypeOK, world, ledger, Labels, ExecLabels, Overrides
    <2>6. ControlOK'
      BY <1>0, <2>2, <2>3, <2>4
      DEF ControlOK, PlanInProgress, CallMatches, PointMatches, PowerKnown, InPlan, InRelease,
          InCall, Current, ExecLabels, RestoreLabels, FanLabels
    <2> QED BY <2>5, <2>6 DEF TypeInv
  <1>3. CASE TickForce
    <2>1. override' \in Overrides
      BY <1>0, <1>3 DEF TickForce, SavedMode, Observations, Overrides, FanModes
    <2>2. pc' = "force" /\ UNCHANGED <<world, sensor, ledger, obs, dirty, scope, keepalive,
                                       active, frame>>
      BY <1>3 DEF TickForce
    <2> QED BY <1>0, <2>1, <2>2, OutsideTypes DEF TypeOK, HwTypeOK, world, ledger, PowerKnown
  <1>4. CASE TickCurve \/ TickQuiet
    <2>1. pc' \in {"curve", "heartbeat"}
          /\ UNCHANGED <<world, sensor, ledger, obs, dirty, scope, override, keepalive, active,
                         frame>>
      BY <1>4 DEF TickCurve, TickQuiet
    <2> QED BY <1>0, <2>1, OutsideTypes DEF TypeOK, HwTypeOK, world, ledger, PowerKnown
  <1> QED BY <1>1, <1>2, <1>3, <1>4 DEF Tick

\* What the heartbeat re-asserts is typed: tracked power limits are known ones.
LEMMA HeartbeatTypes ==
  ASSUME TypeInv
  PROVE  /\ \A ch \in Tracked(obs, dirty) : ch \in Channels /\ ReassertValue(ch) \in Values
         /\ \A chs \in SUBSET Tracked(obs, dirty) : ReassertAll(chs) \in [Channels -> Values]
         /\ \A chs : Reasserted(chs) \in [FanChannels -> Doubts]
         /\ \A ch : Before(ch) \subseteq Tracked(obs, dirty)
  <1>1. HwTypeOK /\ PowerKnown
    BY DEF TypeInv, TypeOK, ControlOK
  <1>2. \A ch \in Tracked(obs, dirty) : ch \in Channels /\ ReassertValue(ch) \in Values
    BY <1>1 DEF Tracked, ReassertValue, PowerKnown, Values
  <1>3. Settled \in [Channels -> Values]
    BY <1>1 DEF HwTypeOK, Settled, Writes
  <1>4. \A chs \in SUBSET Tracked(obs, dirty) : ReassertAll(chs) \in [Channels -> Values]
    BY <1>2, <1>3 DEF ReassertAll
  <1>5. \A chs : Reasserted(chs) \in [FanChannels -> Doubts]
    BY <1>1 DEF Reasserted, Doubted, HwTypeOK, Doubts
  <1>6. \A ch : Before(ch) \subseteq Tracked(obs, dirty)
    BY DEF Before, Tracked
  <1> QED BY <1>2, <1>4, <1>5, <1>6

LEMMA ActingTypes == TypeInv /\ Acting => TypeInv'
  <1> SUFFICES ASSUME TypeInv, Acting PROVE TypeInv'
    OBVIOUS
  <1>0. /\ TypeOK /\ HwTypeOK /\ ControlOK /\ PowerKnown /\ PlanInProgress
        /\ obs \in Observations /\ override \in Overrides /\ dirty \in SUBSET Domains
        /\ keepalive \in Heartbeats /\ frame \in Frames
    BY DEF TypeInv, ControlOK, TypeOK
  <1>1. CASE CurveWrite
    <2>1. HwTypeOK'
      BY <1>0, <1>1, FirmwareTypes DEF CurveWrite, Channels, Values
    <2>2. UNCHANGED <<cpu, scheme, sensor, ledger, obs, dirty, scope, override, keepalive>>
      BY <1>1 DEF CurveWrite
    <2>3. CASE pc' = "heartbeat" /\ UNCHANGED <<active, frame>>
      BY <1>0, <2>1, <2>2, <2>3, OutsideTypes DEF PowerKnown
    <2>4. CASE EpochMoved /\ EnterRestore("tick", dirty, scope)
      BY <1>0, <2>1, <2>2, <2>4, IntoRestoreTypes
    <2> QED BY <1>1, <2>3, <2>4 DEF CurveWrite
  <1>2. CASE ForceMax \/ Rearm
    <2>1. HwTypeOK'
      BY <1>0, <1>2, FirmwareTypes, LandingTypes DEF ForceMax, Rearm, Channels, Values
    <2>2. obs' \in Observations /\ PowerKnown' /\ dirty' \in SUBSET Domains
      BY <1>0, <1>2 DEF ForceMax, Rearm, Observations, PowerKnown, Domains
    <2>3. pc' = "heartbeat"
          /\ UNCHANGED <<cpu, scheme, sensor, ledger, scope, override, keepalive, active, frame>>
      BY <1>2 DEF ForceMax, Rearm
    <2> QED BY <1>0, <2>1, <2>2, <2>3, OutsideTypes
  <1>3. CASE ReleaseMax
    <2>1. HwTypeOK'
      BY <1>0, <1>3, FirmwareTypes DEF ReleaseMax, Channels, Values
    <2>2. obs' \in Observations /\ PowerKnown'
      BY <1>0, <1>3 DEF ReleaseMax, Observations, PowerKnown
    <2>3. pc = "release" /\ pc' \in {"own", "failed"}
          /\ UNCHANGED <<cpu, scheme, sensor, ledger, dirty, scope, override, keepalive, active,
                         frame>>
      BY <1>3 DEF ReleaseMax
    <2>4. TypeOK'
      BY <1>0, <2>1, <2>2, <2>3 DEF TypeOK, ledger, Labels, ExecLabels
    <2>5. frame.cur \in Steps /\ frame.cur.op = "fan"
      BY <1>0, <1>3 DEF ReleaseMax, ControlOK, CallMatches, PointMatches, InRelease
    <2>6. ControlOK'
      BY <1>0, <2>2, <2>3, <2>5
      DEF ControlOK, PlanInProgress, CallMatches, PointMatches, InPlan, InRelease, InCall,
          Current, ExecLabels, RestoreLabels, FanLabels
    <2> QED BY <2>4, <2>6 DEF TypeInv
  <1>4. CASE ReleaseApplied \/ ReleaseFailed
    <2>1. frame' \in Frames /\ pc' \in {"heartbeat", "rearm"}
          /\ UNCHANGED <<world, sensor, ledger, obs, dirty, scope, keepalive, active>>
      BY <1>4, InitialValues DEF ReleaseApplied, ReleaseFailed
    <2>2. override' \in Overrides
      <3>1. CASE ReleaseApplied
        BY <1>0, <3>1 DEF ReleaseApplied
      <3>2. CASE ReleaseFailed
        <4>1. frame.cur \in Steps /\ frame.cur.op = "fan"
          BY <1>0, <3>2 DEF ReleaseFailed, ControlOK, CallMatches, InRelease, InCall
        <4> QED BY <3>2, <4>1 DEF ReleaseFailed, Steps, Overrides, Values
      <3> QED BY <1>4, <3>1, <3>2
    <2> QED BY <1>0, <2>1, <2>2, OutsideTypes DEF HwTypeOK, world, ledger, PowerKnown
  <1>5. CASE HeartbeatIdle
    <2>1. keepalive' \in Heartbeats /\ pc' = "loop"
          /\ UNCHANGED <<world, sensor, ledger, obs, dirty, scope, override, active, frame>>
      BY <1>0, <1>5, InitialValues DEF HeartbeatIdle
    <2> QED BY <1>0, <2>1, OutsideTypes DEF HwTypeOK, world, ledger, PowerKnown
  <1>6. CASE HeartbeatOk
    <2>1. HwTypeOK'
      BY <1>6, HeartbeatTypes DEF HeartbeatOk, HwTypeOK
    <2>2. keepalive' \in Heartbeats
      BY <1>6 DEF HeartbeatOk, Heartbeats
    <2>3. pc' = "loop"
          /\ UNCHANGED <<cpu, scheme, sensor, ledger, obs, dirty, scope, override, active, frame>>
      BY <1>6 DEF HeartbeatOk
    <2> QED BY <1>0, <2>1, <2>2, <2>3, OutsideTypes DEF PowerKnown
  <1>7. CASE HeartbeatFails
    <2>1. HwTypeOK'
      <3>1. CASE UNCHANGED hwVars
        BY <1>0, <3>1 DEF hwVars, HwTypeOK
      <3>2. ASSUME NEW ch \in Tracked(obs, dirty), hw' = ReassertAll(Before(ch)),
                   \/ stuck' = NoWrite /\ doubt' = Reasserted(Before(ch))
                   \/ /\ stuck' \in {NoWrite, [ch |-> ch, val |-> ReassertValue(ch)]}
                      /\ doubt' = [c \in FanChannels |-> IF c = ch THEN "unknown"
                                                         ELSE Reasserted(Before(ch))[c]]
            PROVE  HwTypeOK'
        <4>1. hw' \in [Channels -> Values]
          BY <3>2, HeartbeatTypes
        <4>2. stuck' \in Writes \cup {NoWrite}
          BY <3>2, HeartbeatTypes DEF Writes
        <4>3. doubt' \in [FanChannels -> Doubts]
          BY <3>2, HeartbeatTypes DEF Doubts
        <4> QED BY <4>1, <4>2, <4>3 DEF HwTypeOK
      <3> QED BY <1>7, <3>1, <3>2 DEF HeartbeatFails
    <2>2. keepalive' \in Heartbeats
      BY <1>0, <1>7 DEF HeartbeatFails, Heartbeats, FailClosedAfter
    <2>3. UNCHANGED <<cpu, scheme, sensor, ledger, obs, dirty, scope, override>>
      BY <1>7 DEF HeartbeatFails
    <2>4. CASE EpochMoved /\ EnterRestore("loop", dirty, scope)
      BY <1>0, <2>1, <2>2, <2>3, <2>4, IntoRestoreTypes
    <2>5. CASE pc' = "loop" /\ UNCHANGED <<active, frame>>
      BY <1>0, <2>1, <2>2, <2>3, <2>5, OutsideTypes DEF PowerKnown
    <2> QED BY <1>7, <2>4, <2>5 DEF HeartbeatFails
  <1> QED BY <1>1, <1>2, <1>3, <1>4, <1>5, <1>6, <1>7 DEF Acting

-----------------------------------------------------------------------------
LEMMA NextTypeInv == TypeInv /\ [Next]_vars => TypeInv'
  <1> SUFFICES ASSUME TypeInv, [Next]_vars PROVE TypeInv'
    OBVIOUS
  <1>1. CASE UNCHANGED vars
    BY <1>1 DEF vars, TypeInv, TypeOK, HwTypeOK, ControlOK, PlanInProgress, CallMatches,
                PointMatches, PowerKnown, InPlan, InRelease, InCall, Current
  <1> QED BY <1>1, EnvironmentTypes, RestoringTypes, ExecutingTypes, ActingTypes, PlanTypes,
             AdvanceTypes, TickTypes, RequestTypes DEF Next, Inside

\* Every reachable state is typed and its handlers work on the step they were called with.
THEOREM TypeInvariance == Spec => []TypeInv
  BY InitTypeInv, NextTypeInv, PTL DEF Spec

\* Type correctness, which the run of the HP domains checks on a small instance.
THEOREM TypeCorrectness == Spec => []TypeOK
  <1>1. TypeInv => TypeOK
    BY DEF TypeInv
  <1> QED BY <1>1, TypeInvariance, PTL

=============================================================================
