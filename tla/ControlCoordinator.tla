------------------------ MODULE ControlCoordinator ------------------------
(***************************************************************************)
(* The control-coord thread (control/coordinator.rs): the single writer of *)
(* HP hardware state and its durable restore ledger (control/recovery.rs). *)
(*                                                                         *)
(* The thread is a loop; pc = "loop" is the point between two iterations.  *)
(* Every other value of pc is a point inside a handler right before a call *)
(* that can fail or be cut off by a crash: a ledger save or a firmware     *)
(* write.  Everything between two such calls is one step.                  *)
(*                                                                         *)
(* Abstracted: concrete levels, watts and policies ("base" / "user"),      *)
(* clocks (due times are nondeterministic), the journal, notices and the   *)
(* profile-name stamp shown by the UI, and the request queue (any request  *)
(* may arrive whenever the loop would take one).                           *)
(***************************************************************************)
EXTENDS HpFirmware, SafetySupervisor, Sequences

CONSTANTS
  Weather,      \* sample classes the telemetry delivers
  Plans,        \* step sequences a direct command or a profile expands to
  ScopedPlans,  \* step sequences of the profiles used by automation sessions
  SessionIds,   \* automation session ids
  Schemes,      \* Windows power schemes
  NoScheme,     \* what a session records when the active scheme could not be read
  VerifyPolls   \* readbacks before a deferred verification fails

Steps == [op : {"fan"}, val : FanModes]
         \cup [op : {"thermal", "gpu", "power", "cpu"}, val : Values]
RestoreSession == [op |-> "session", val |-> "base"]

ASSUME PlansAssumption ==
  /\ Plans \subseteq Seq(Steps) /\ <<>> \notin Plans
  /\ ScopedPlans \subseteq Seq(Steps) /\ <<>> \notin ScopedPlans
ASSUME SchemesAssumption == Schemes # {} /\ NoScheme \notin Schemes
ASSUME WeatherAssumption == Weather \subseteq Samples /\ Weather # {}
ASSUME PollsAssumption == VerifyPolls \in Nat \ {0}

NoScope == [on |-> FALSE, id |-> 0, scheme |-> NoScheme, plan |-> <<>>]
NoLedger == [dom |-> {}, scope |-> NoScope]
Idle == [plan |-> <<>>, index |-> 1, scopeLen |-> 0, stale |-> FALSE, moved |-> FALSE,
         waiting |-> "none", polls |-> 0]
NoStep == [op |-> "none", val |-> "base"]
EmptyFrame == [cur |-> NoStep, wasDirty |-> FALSE, released |-> FALSE,
               ctx |-> "plan", ret |-> "tick", done |-> {}, moved |-> FALSE]
NoHeartbeat == [due |-> FALSE, failures |-> 0]

VARIABLES
  cpu,        \* CPU policy stored in every Windows power scheme
  scheme,     \* the active scheme
  sensor,     \* class of the latest samples
  disk,       \* the recovery record on disk
  prev,       \* previous_recovery: the record an earlier session left, or NoLedger
  foreign,    \* that record was written on another board or BIOS
  obs,        \* ObservedState, the fields control decisions read
  dirty,      \* the *_dirty flags: domains this session must restore
  scope,      \* scoped_session
  override,   \* SafetySupervisor::override_saved
  keepalive,  \* KeepAliveService: a heartbeat is scheduled; consecutive failures
  active,     \* ActivePlan, or Idle
  pc, frame   \* position inside the running handler and its locals

world == <<hw, stuck, doubt, cpu, scheme>>
ledger == <<disk, prev, foreign>>
vars == <<hw, stuck, doubt, cpu, scheme, sensor, disk, prev, foreign, obs, dirty, scope,
          override, keepalive, active, pc, frame>>

-----------------------------------------------------------------------------
(* The recovery record *)

Pending(r) == r.dom # {} \/ r.scope.on

\* Mutant: a save overwrites what an earlier session left.
Record_Overwrites(d, s) == [dom |-> d, scope |-> s]

\* Mutant: with no dirty domain the file is cleared, the open session included.
Record_ForgetsSession(d, s) ==
  IF Pending(prev) THEN prev ELSE [dom |-> d, scope |-> IF d = {} THEN NoScope ELSE s]

\* recovery_record(), or the earlier session's record while it is unrestored.
Record(d, s) == IF Pending(prev) THEN prev ELSE [dom |-> d, scope |-> s]

\* persist_recovery(): atomic replacement of the file.
Saved(d, s) == disk' = Record(d, s)
SaveFails == disk' = disk

\* A save whose failure only raises a notice.
Persist(d, s) == Saved(d, s) \/ SaveFails

-----------------------------------------------------------------------------
(* KeepAliveService *)

\* tracked_set(): trusted writes the heartbeat must re-assert.
Tracked(o, d) ==
  {ch \in Channels :
     \/ ch = "thermal" /\ o.thermal = "user"
     \/ ch = "level" /\ o.fan \in HeldModes
     \/ ch = "max" /\ o.max = "on"
     \/ ch = "power" /\ "power" \in d /\ o.powerOk}

\* reschedule_tracked()
Rescheduled(o, d) ==
  IF Tracked(o, d) = {} THEN NoHeartbeat
  ELSE [keepalive EXCEPT !.due = TRUE]

-----------------------------------------------------------------------------
Scopes ==
  [on : BOOLEAN, id : SessionIds \cup {0}, scheme : Schemes \cup {NoScheme}, plan : Seq(Steps)]
Ledgers == [dom : SUBSET Domains, scope : Scopes]
Observations ==
  [fan : FanModes \cup {"unknown"}, max : {"unknown", "off", "on"},
   thermal : Values \cup {"unknown"}, power : Values \cup {"unknown"}, powerOk : BOOLEAN]
Heartbeats == [due : BOOLEAN, failures : 0..2]
Commands == Steps \cup {RestoreSession}
Progress ==
  [plan : Seq(Commands), index : Nat \ {0}, scopeLen : Nat, stale : BOOLEAN, moved : BOOLEAN,
   waiting : {"none", "fan", "gpu", "power"}, polls : 0..VerifyPolls]
Frames ==
  [cur : Commands \cup {NoStep}, wasDirty : BOOLEAN, released : BOOLEAN,
   ctx : {"plan", "release"}, ret : {"tick", "loop", "exec", "session", "stop"},
   done : SUBSET (FanChannels \cup Domains), moved : BOOLEAN]

ExecLabels == {"own", "set", "auto.max", "auto.level", "auto.done", "max.on", "held.max",
               "held.level", "cpu", "session"}
RestoreLabels == {"r.max", "r.auto", "r.rearm", "r.gpu", "r.power", "r.thermal", "r.scope",
                  "r.cpu", "r.end"}
Labels == {"loop", "applied", "failed", "finish", "curve", "force", "release", "rearm",
           "heartbeat", "stopped", "crashed"} \cup ExecLabels \cup RestoreLabels

TypeOK ==
  /\ HwTypeOK
  /\ cpu \in [Schemes -> Values] /\ scheme \in Schemes /\ sensor \in Samples
  /\ disk \in Ledgers /\ prev \in Ledgers /\ foreign \in BOOLEAN
  /\ scope \in Scopes
  /\ obs \in Observations
  /\ dirty \in SUBSET Domains
  /\ override \in Overrides
  /\ keepalive \in Heartbeats
  /\ active \in Progress
  /\ pc \in Labels
  /\ frame \in Frames

NothingObserved ==
  [fan |-> "unknown", max |-> "unknown", thermal |-> "unknown", power |-> "unknown",
   powerOk |-> FALSE]

Init ==
  /\ HwInit
  /\ cpu = [s \in Schemes |-> "base"] /\ scheme \in Schemes /\ sensor \in Weather
  /\ disk = NoLedger /\ prev = NoLedger /\ foreign = FALSE
  /\ obs = NothingObserved /\ dirty = {} /\ scope = NoScope
  /\ override = NoOverride /\ keepalive = NoHeartbeat
  /\ active = Idle /\ pc = "loop" /\ frame = EmptyFrame

-----------------------------------------------------------------------------
(* The rest of the world *)

\* Telemetry delivers new samples (read by the loop at the start of a handler).
Sense ==
  /\ pc = "loop"
  /\ sensor' \in Weather \ {sensor}
  /\ UNCHANGED <<world, ledger, obs, dirty, scope, override, keepalive, active, pc, frame>>

\* The user or Windows switches the power scheme, at any time.  History: a plan was in
\* progress, or a restore stood between its check of the scheme and its writes.
SwitchScheme ==
  /\ scheme' \in Schemes \ {scheme}
  /\ active' = [active EXCEPT !.moved = (active.plan # <<>>)]
  /\ frame' = [frame EXCEPT !.moved = (pc = "r.cpu")]
  /\ UNCHANGED <<hwVars, cpu, sensor, ledger, obs, dirty, scope, override, keepalive, pc>>

\* A timed-out write lands, or the firmware takes its states back.
Firmware ==
  /\ LateLanding \/ Clawback
  /\ UNCHANGED <<cpu, scheme, sensor, ledger, obs, dirty, scope, override, keepalive, active,
                 pc, frame>>

\* The memory of a process that has just started.
FreshMemory ==
  /\ obs' = NothingObserved /\ dirty' = {} /\ scope' = NoScope
  /\ override' = NoOverride /\ keepalive' = NoHeartbeat
  /\ active' = Idle /\ frame' = EmptyFrame

Running == pc \notin {"stopped", "crashed"}

\* The process dies at any point of any handler; its memory is gone.
Crash ==
  /\ Running
  /\ pc' = "crashed"
  /\ FreshMemory
  /\ prev' = NoLedger /\ foreign' = FALSE
  /\ UNCHANGED <<world, sensor, disk>>

\* ControlCoordinator::start: what the last session left pending is kept aside.
Restart ==
  /\ pc \in {"stopped", "crashed"}
  /\ prev' = IF Pending(disk) THEN disk ELSE NoLedger
  /\ foreign' \in IF Pending(disk) THEN BOOLEAN ELSE {FALSE}
  /\ pc' = "loop" /\ FreshMemory
  /\ UNCHANGED <<world, sensor, disk>>

-----------------------------------------------------------------------------
(* Accepting a request: begin_plan() *)

\* safety.validate() of one step against the current samples and override.
Allowed(step) == step.op = "fan" => FanStepAllowed(step.val, override, sensor)
AllAllowed(p) == \A i \in DOMAIN p : Allowed(p[i])

Begun(p, len) == [Idle EXCEPT !.plan = p, !.scopeLen = len]

\* Mutant: the baseline goes into whatever scheme is active.
SchemeUnmoved_Unchecked == TRUE

\* validate_scope_scheme(): a session that recorded no scheme is taken at its word.
SchemeUnmoved == scope.on /\ scope.scheme # NoScheme => scheme = scope.scheme

\* A user command.  While an automation session is open its baseline goes first.
BeginDirect(p) ==
  /\ pc = "loop" /\ active = Idle
  /\ ~Pending(prev)
  /\ SchemeUnmoved
  /\ AllAllowed(scope.plan \o p)
  /\ active' = Begun(scope.plan \o p, Len(scope.plan))
  /\ UNCHANGED <<world, sensor, ledger, obs, dirty, scope, override, keepalive, pc, frame>>

\* capture_scope_baseline() of one target step.
Captured(step) ==
  CASE step.op = "cpu" -> [op |-> "cpu", val |-> cpu[scheme]]
    [] step.op = "fan" -> [op |-> "fan", val |-> IF obs.fan = "unknown" THEN "auto" ELSE obs.fan]
    [] step.op = "thermal" ->
         [op |-> "thermal", val |-> IF obs.thermal = "unknown" THEN "base" ELSE obs.thermal]
    [] OTHER -> [op |-> step.op, val |-> hw[step.op]]  \* 0x21 readback, power samples

\* ApplyScopedProfile: the session and its baseline are on disk before any write.  The
\* active scheme is read after the baseline: it may have been switched in between, and
\* where that read fails the session records none.
BeginScoped(id, p) ==
  /\ pc = "loop" /\ active = Idle
  /\ ~Pending(prev)
  /\ ~scope.on
  /\ AllAllowed(p)
  /\ scheme' \in Schemes
  /\ \E recorded \in {scheme', NoScheme} :
       LET new == [on |-> TRUE, id |-> id, scheme |-> recorded,
                   plan |-> [i \in DOMAIN p |-> Captured(p[i])]]
       IN Saved(dirty, new) /\ scope' = new
  /\ active' = Begun(p, 0)
  /\ UNCHANGED <<hwVars, cpu, sensor, prev, foreign, obs, dirty, override, keepalive, pc, frame>>

\* RestoreScopedProfile.  Without a session it is answered at once (no step here).
BeginUnscope(id) ==
  /\ pc = "loop" /\ active = Idle
  /\ ~Pending(prev)
  /\ scope.on /\ scope.id = id
  /\ SchemeUnmoved
  /\ AllAllowed(scope.plan)
  /\ active' = Begun(scope.plan, Len(scope.plan))
  /\ UNCHANGED <<world, sensor, ledger, obs, dirty, scope, override, keepalive, pc, frame>>

\* RestoreSession: the only command accepted while an old record is pending.
BeginSession ==
  /\ pc = "loop" /\ active = Idle
  /\ active' = Begun(<<RestoreSession>>, 0)
  /\ UNCHANGED <<world, sensor, ledger, obs, dirty, scope, override, keepalive, pc, frame>>

-----------------------------------------------------------------------------
(* The restore sequence: restore_firmware_auto() *)

FailClosedAfter == 2

\* Turning max fan on outside a ledgered command: nothing is saved first.
MaxOnUnsaved ==
  /\ hw' = [Settled EXCEPT !["max"] = "user"]
  /\ stuck' = NoWrite
  /\ doubt' = Doubted({"max"}, IF "fan" \in disk.dom THEN "none" ELSE "unsaved")

AfterThermal(s) == IF s.on THEN "r.scope" ELSE "r.end"
AfterPower(d, s) == IF "thermal" \in d THEN "r.thermal" ELSE AfterThermal(s)
AfterGpu(d, s) == IF "power" \in d THEN "r.power" ELSE AfterPower(d, s)
AfterFan(d, s) == IF "gpu" \in d THEN "r.gpu" ELSE AfterGpu(d, s)

\* The control epoch moves on: a plan in progress may not continue.
EpochMoved == active' = [active EXCEPT !.stale = (active.plan # <<>>)]

\* Enter the sequence for the domains d and the session s; r says where it returns to.
EnterRestore(r, d, s) ==
  /\ frame' = [frame EXCEPT !.ret = r,
                            !.done = IF "fan" \in d /\ obs.max = "off" THEN {"max"} ELSE {}]
  /\ pc' = IF "fan" \notin d THEN AfterFan(d, s)
           ELSE IF obs.max = "off" THEN "r.auto" ELSE "r.max"

\* The max overlay is released before the target is handed back.
RestoreMax ==
  /\ pc = "r.max"
  /\ \/ /\ Accepted("max", "base")
        /\ obs' = [obs EXCEPT !.max = "off"]
        /\ frame' = [frame EXCEPT !.done = @ \cup {"max"}]
        /\ pc' = "r.auto"
     \/ /\ CallFails("max", "base")
        /\ pc' = "r.rearm"
        /\ UNCHANGED <<obs, frame>>
  /\ UNCHANGED <<cpu, scheme, sensor, ledger, dirty, scope, override, keepalive, active>>

RestoreLevel ==
  /\ pc = "r.auto"
  /\ \/ /\ Accepted("level", "base")
        /\ frame' = [frame EXCEPT !.done = @ \cup {"level"}]
        /\ pc' = AfterFan(dirty, scope)
     \/ /\ CallFails("level", "base")
        /\ pc' = "r.rearm"
        /\ UNCHANGED frame
  /\ UNCHANGED <<cpu, scheme, sensor, ledger, obs, dirty, scope, override, keepalive, active>>

\* The hand-back failed: max fan rather than an unprotected user target.
RestoreRearm ==
  /\ pc = "r.rearm"
  /\ \/ /\ MaxOnUnsaved
        /\ obs' = [obs EXCEPT !.max = "on"]
        /\ frame' = [frame EXCEPT !.done = @ \ {"max"}]
     \/ /\ CallFails("max", "user")
        /\ UNCHANGED <<obs, frame>>
  /\ pc' = AfterFan(dirty, scope)
  /\ UNCHANGED <<cpu, scheme, sensor, ledger, dirty, scope, override, keepalive, active>>

\* restore_hp_domain(): write back and, where a readback exists, verify.
RestoreDomain(d, here, next) ==
  /\ pc = here
  /\ \/ /\ Accepted(d, "base")
        /\ frame' \in {[frame EXCEPT !.done = @ \cup {d}]}
                      \cup IF d = "thermal" THEN {} ELSE {frame}
     \/ /\ CallFails(d, "base")
        /\ UNCHANGED frame
  /\ pc' = next
  /\ UNCHANGED <<cpu, scheme, sensor, ledger, obs, dirty, scope, override, keepalive, active>>

\* The CPU values of a baseline, written into the active scheme.
CpuRestored(p) ==
  [cpu EXCEPT ![scheme] = IF \E i \in DOMAIN p : p[i].op = "cpu"
                          THEN (CHOOSE step \in {p[i] : i \in DOMAIN p} : step.op = "cpu").val
                          ELSE @]

\* restore_scoped_cpu(), the check: a scheme that moved or cannot be read keeps the
\* session for a later attempt.
RestoreScope ==
  /\ pc = "r.scope"
  /\ \/ SchemeUnmoved /\ pc' = "r.cpu"
     \/ scope.scheme # NoScheme /\ pc' = "r.end"
  /\ UNCHANGED <<world, sensor, ledger, obs, dirty, scope, override, keepalive, active, frame>>

\* The writes of the knobs, into the scheme that is active by now.  They close the
\* session; a knob that fails leaves the earlier ones applied and keeps it.
RestoreCpu ==
  /\ pc = "r.cpu"
  /\ \/ cpu' = CpuRestored(scope.plan) /\ scope' = NoScope
     \/ cpu' \in {cpu, CpuRestored(scope.plan)} /\ UNCHANGED scope
  /\ pc' = "r.end"
  /\ frame' = [frame EXCEPT !.moved = FALSE]
  /\ UNCHANGED <<hwVars, scheme, sensor, ledger, obs, dirty, override, keepalive, active>>

\* Mutant: one channel of a domain is taken for all of it.
HandedBack_AnyChannel == {d \in dirty : ChannelsOf(d) \cap frame.done # {}}

\* The domains whose every channel was restored.
HandedBack == {d \in dirty : ChannelsOf(d) \subseteq frame.done}

RestoreEnd ==
  /\ pc = "r.end"
  /\ obs' = [obs EXCEPT !.fan = IF "level" \in frame.done THEN "auto" ELSE @,
                        !.max = IF "max" \in frame.done THEN "off" ELSE @,
                        !.thermal = IF "thermal" \in frame.done THEN "base" ELSE @,
                        !.power = IF "power" \in frame.done THEN "base" ELSE @,
                        !.powerOk = @ \/ "power" \in frame.done]
  /\ dirty' = dirty \ HandedBack
  /\ override' = IF "fan" \in HandedBack THEN NoteUserFanMode(override, "auto") ELSE override
  /\ keepalive' = IF dirty = {} THEN keepalive ELSE Rescheduled(obs', dirty')
  /\ Persist(dirty', scope)
  /\ pc' = CASE frame.ret = "tick" -> "heartbeat"
             [] frame.ret = "loop" -> "loop"
             [] frame.ret = "exec" -> "failed"
             [] frame.ret = "stop" -> "stopped"
             [] frame.ret = "session" ->
                  IF dirty' = {} /\ ~scope.on /\ disk' = NoLedger THEN "applied" ELSE "failed"
  /\ frame' = IF frame.ret \in {"tick", "loop", "stop"} THEN EmptyFrame ELSE frame
  /\ UNCHANGED <<world, sensor, prev, foreign, scope, active>>


-----------------------------------------------------------------------------
(* Executing one step: exec_one() and the exec_* functions *)

Call(ctx, step) == [EmptyFrame EXCEPT !.ctx = ctx, !.cur = step]

\* The first firmware write of a ledgered step, decided on the observed state.
AfterOwn(step) ==
  CASE step.op # "fan" -> "set"
    [] step.val = "auto" ->
         IF obs.max # "off" THEN "auto.max"
         ELSE IF obs.fan # "auto" THEN "auto.level" ELSE "auto.done"
    [] step.val = "max" -> "max.on"
    [] step.val \in HeldModes -> IF obs.max = "on" THEN "held.max" ELSE "held.level"

\* The restore obligation is on disk before the write is issued.  A curve is
\* still given up after that when the temperature sample has aged meanwhile.
Own ==
  /\ pc = "own"
  /\ \/ /\ IF frame.cur.op = "gpu" THEN Refused ELSE UNCHANGED hwVars
        /\ dirty' = dirty \cup {frame.cur.op}
        /\ Saved(dirty', scope)
        /\ frame' = [frame EXCEPT !.wasDirty = frame.cur.op \in dirty]
        /\ pc' \in {AfterOwn(frame.cur)} \cup IF frame.cur.val = "curve" THEN {"failed"} ELSE {}
     \/ /\ SaveFails
        /\ pc' = "failed"
        /\ UNCHANGED <<hwVars, dirty, frame>>
  /\ UNCHANGED <<cpu, scheme, sensor, prev, foreign, obs, scope, override, keepalive, active>>

\* Mutant: a rejection takes back the obligation for an earlier write, too.
Revoked_Always == dirty \ {frame.cur.op}

\* The obligations left after a definite rejection: without this step's own.
Revoked == IF frame.wasDirty THEN dirty ELSE dirty \ {frame.cur.op}

\* The thermal mode, GPU policy or power limit write.  Only a definite
\* rejection takes the obligation back.
Set ==
  /\ pc = "set"
  /\ \/ /\ Accepted(frame.cur.op, frame.cur.val)
        /\ obs' = CASE frame.cur.op = "thermal" -> [obs EXCEPT !.thermal = frame.cur.val]
                    [] frame.cur.op = "power" ->
                         [obs EXCEPT !.power = frame.cur.val, !.powerOk = FALSE]
                    [] OTHER -> obs
        /\ active' = IF frame.cur.op = "thermal" THEN active
                     ELSE [active EXCEPT !.waiting = frame.cur.op, !.polls = VerifyPolls]
        /\ pc' = "applied"
        /\ UNCHANGED dirty
     \/ /\ Refused
        /\ dirty' = Revoked
        /\ pc' = "failed"
        /\ UNCHANGED <<obs, active>>
     \/ /\ Unknown(frame.cur.op, frame.cur.val)
        /\ pc' = "failed"
        /\ UNCHANGED <<dirty, obs, active>>
  /\ UNCHANGED <<cpu, scheme, sensor, ledger, scope, override, keepalive, frame>>

\* exec_fan_mode(FirmwareAuto): release the max overlay, hand the target back.
AutoMax ==
  /\ pc = "auto.max"
  /\ \/ /\ Accepted("max", "base")
        /\ obs' = [obs EXCEPT !.max = "off"]
        /\ pc' = IF obs.fan # "auto" THEN "auto.level" ELSE "auto.done"
     \/ /\ CallFails("max", "base")
        /\ pc' = "failed"
        /\ UNCHANGED obs
  /\ UNCHANGED <<cpu, scheme, sensor, ledger, dirty, scope, override, keepalive, active, frame>>

AutoLevel ==
  /\ pc = "auto.level"
  /\ \/ Accepted("level", "base") /\ pc' = "auto.done"
     \/ CallFails("level", "base") /\ pc' = "failed"
  /\ UNCHANGED <<cpu, scheme, sensor, ledger, obs, dirty, scope, override, keepalive, active,
                 frame>>

AutoDone ==
  /\ pc = "auto.done"
  /\ obs' = [obs EXCEPT !.fan = "auto"]
  /\ dirty' = dirty \ {"fan"}
  /\ override' = NoteUserFanMode(override, "auto")
  /\ pc' = "applied"
  /\ UNCHANGED <<world, sensor, ledger, scope, keepalive, active, frame>>

\* exec_fan_mode(Max): an overlay, the 0x2E target stays.
MaxOn ==
  /\ pc = "max.on"
  /\ \/ /\ Accepted("max", "user")
        /\ obs' = [obs EXCEPT !.fan = "max", !.max = "on"]
        /\ override' = NoteUserFanMode(override, "max")
        /\ pc' = "applied"
     \/ /\ CallFails("max", "user")
        /\ pc' = "failed"
        /\ UNCHANGED <<obs, override>>
  /\ UNCHANGED <<cpu, scheme, sensor, ledger, dirty, scope, keepalive, active, frame>>

\* exec_fan_mode(Manual | Curve): release the user's own max fan first.
HeldMax ==
  /\ pc = "held.max"
  /\ \/ /\ Accepted("max", "base")
        /\ obs' = [obs EXCEPT !.max = "off"]
        /\ frame' = [frame EXCEPT !.released = TRUE]
        /\ pc' = "held.level"
     \/ /\ CallFails("max", "base")
        /\ pc' = "failed"
        /\ UNCHANGED <<obs, frame>>
  /\ UNCHANGED <<cpu, scheme, sensor, ledger, dirty, scope, override, keepalive, active>>

\* The level itself.  Max fan is recorded as off even where it was unknown and
\* not released.
HeldWritten ==
  /\ hw' = [Settled EXCEPT !["level"] = "user"]
  /\ stuck' = NoWrite
  /\ doubt' = [doubt EXCEPT !["level"] = "none",
                            !["max"] = IF obs.max = "unknown" /\ hw'["max"] = "user"
                                       THEN "assumed" ELSE @]

\* A refused target after the overlay was released, or of a curve, goes to the
\* firmware at once.
HeldLevel ==
  /\ pc = "held.level"
  /\ \/ /\ HeldWritten
        /\ obs' = [obs EXCEPT !.fan = frame.cur.val, !.max = "off"]
        /\ override' = NoteUserFanMode(override, frame.cur.val)
        /\ active' = IF frame.ctx = "plan" /\ frame.cur.val = "manual"
                     THEN [active EXCEPT !.waiting = "fan", !.polls = VerifyPolls]
                     ELSE active
        /\ pc' = "applied"
        /\ UNCHANGED frame
     \/ /\ CallFails("level", "user")
        /\ IF frame.released \/ frame.cur.val = "curve"
           THEN EpochMoved /\ EnterRestore("exec", dirty, scope)
           ELSE pc' = "failed" /\ UNCHANGED <<active, frame>>
        /\ UNCHANGED <<obs, override>>
  /\ UNCHANGED <<cpu, scheme, sensor, ledger, dirty, scope, keepalive>>

\* exec_cpu_policy(): knob by knob into the scheme that is active now; a
\* failing knob leaves the earlier ones applied.
ExecCpu ==
  /\ pc = "cpu"
  /\ \/ cpu' = [cpu EXCEPT ![scheme] = frame.cur.val] /\ pc' = "applied"
     \/ cpu' \in {cpu, [cpu EXCEPT ![scheme] = frame.cur.val]} /\ pc' = "failed"
  /\ UNCHANGED <<hwVars, scheme, sensor, ledger, obs, dirty, scope, override, keepalive, active,
                 frame>>

\* RestoreSession: adopt the earlier session's record, then restore it.
ExecSession ==
  /\ pc = "session"
  /\ IF Pending(prev) /\ foreign
     THEN pc' = "failed" /\ UNCHANGED <<prev, foreign, dirty, scope, active, frame>>
     ELSE /\ prev' = NoLedger /\ foreign' = FALSE
          /\ dirty' = IF Pending(prev) THEN prev.dom ELSE dirty
          /\ scope' = IF Pending(prev) THEN prev.scope ELSE scope
          /\ EpochMoved
          /\ EnterRestore("session", dirty', scope')
  /\ UNCHANGED <<world, sensor, disk, obs, override, keepalive>>

-----------------------------------------------------------------------------
(* Driving a plan: advance_plan() and finish_plan() *)

Current == active.plan[active.index]

\* Mutant: a plan goes on after a restore.
NextStepDue_Stale == pc = "loop" /\ active.plan # <<>> /\ active.waiting = "none"

\* The plan may go on with the step at active.index.
NextStepDue ==
  pc = "loop" /\ active.plan # <<>> /\ ~active.stale /\ active.waiting = "none"

\* A restore ran since the plan began.
AdvanceStale ==
  /\ pc = "loop" /\ active.plan # <<>> /\ active.stale
  /\ pc' = "finish"
  /\ UNCHANGED <<world, sensor, ledger, obs, dirty, scope, override, keepalive, active, frame>>

\* Mutant: a step the fan gate refuses waits for the gate to open.
AdvanceRefuse_Waits ==
  /\ NextStepDue
  /\ Current.op \in {"power", "cpu"}
  /\ pc' = "finish"
  /\ UNCHANGED <<world, sensor, ledger, obs, dirty, scope, override, keepalive, active, frame>>

\* The gates are checked again right before every step.
AdvanceRefuse ==
  /\ NextStepDue
  /\ ~Allowed(Current) \/ Current.op \in {"power", "cpu"}
  /\ pc' = "finish"
  /\ UNCHANGED <<world, sensor, ledger, obs, dirty, scope, override, keepalive, active, frame>>

AdvanceExec ==
  /\ NextStepDue
  /\ Allowed(Current)
  /\ frame' = Call("plan", Current)
  /\ pc' = IF Current.op \in {"cpu", "session"} THEN Current.op ELSE "own"
  /\ UNCHANGED <<world, sensor, ledger, obs, dirty, scope, override, keepalive, active>>

\* The step at active.index succeeded; the last baseline step ends the session.
StepDone ==
  LET ends == active.scopeLen # 0 /\ active.index = active.scopeLen
      last == active.index = Len(active.plan)
  IN /\ scope' = IF ends THEN NoScope ELSE scope
     /\ IF ends THEN Persist(dirty, NoScope) ELSE UNCHANGED disk
     /\ active' = [active EXCEPT !.index = IF last THEN @ ELSE @ + 1,
                                 !.waiting = "none", !.polls = 0]
     /\ pc' = IF last THEN "finish" ELSE "loop"

\* PendingVerification::poll() found the target: the step is stamped Verified.
ReadbackMatches ==
  /\ pc = "loop" /\ active.waiting # "none" /\ ~active.stale
  /\ active.waiting = "fan" => override = NoOverride
  /\ IF active.waiting = "power" THEN UNCHANGED hwVars ELSE Refused
  /\ active.waiting # "fan" => hw'[active.waiting] = Current.val
  /\ obs' = CASE active.waiting = "fan" -> [obs EXCEPT !.fan = "manual"]
              [] active.waiting = "power" ->
                   [obs EXCEPT !.power = Current.val, !.powerOk = TRUE]
              [] OTHER -> obs
  /\ StepDone
  /\ UNCHANGED <<cpu, scheme, sensor, prev, foreign, dirty, override, keepalive, frame>>

\* No match yet, polls left.
ReadbackAgain ==
  /\ pc = "loop" /\ active.waiting # "none" /\ ~active.stale
  /\ active.waiting = "fan" => override = NoOverride
  /\ active.polls > 1
  /\ active' = [active EXCEPT !.polls = @ - 1]
  /\ UNCHANGED <<world, sensor, ledger, obs, dirty, scope, override, keepalive, pc, frame>>

\* Out of polls, or a thermal override has taken the fans meanwhile.
ReadbackFails ==
  /\ pc = "loop" /\ active.waiting # "none" /\ ~active.stale
  /\ active.polls = 1 \/ (active.waiting = "fan" /\ override # NoOverride)
  /\ active' = [active EXCEPT !.waiting = "none", !.polls = 0]
  /\ pc' = "finish"
  /\ UNCHANGED <<world, sensor, ledger, obs, dirty, scope, override, keepalive, frame>>

PlanApplied ==
  /\ pc = "applied" /\ frame.ctx = "plan"
  /\ keepalive' = Rescheduled(obs, dirty)
  /\ frame' = EmptyFrame
  /\ IF active.waiting # "none"
     THEN pc' = "loop" /\ UNCHANGED <<disk, scope, active>>
     ELSE StepDone
  /\ UNCHANGED <<world, sensor, prev, foreign, obs, dirty, override>>

FinishPlan ==
  /\ pc = "finish" \/ (pc = "failed" /\ frame.ctx = "plan")
  /\ keepalive' = Rescheduled(obs, dirty)
  /\ Persist(dirty, scope)
  /\ active' = Idle
  /\ frame' = EmptyFrame
  /\ pc' = "loop"
  /\ UNCHANGED <<world, sensor, prev, foreign, obs, dirty, scope, override>>

\* A plan in progress is finished first; queued requests are dropped.
Shutdown ==
  /\ pc = "loop"
  /\ IF active = Idle THEN UNCHANGED disk ELSE Persist(dirty, scope)
  /\ active' = Idle
  /\ EnterRestore("stop", dirty, scope)
  /\ UNCHANGED <<world, sensor, prev, foreign, obs, dirty, scope, override, keepalive>>


-----------------------------------------------------------------------------
(* The safety tick: tick(), run_safety_action(), run_fan_curve() *)

\* WatchdogRestoreAuto: blind while the fans are held.
TickWatchdog ==
  /\ pc = "loop" /\ Blind(obs, override, sensor)
  /\ override' = NoOverride
  /\ EpochMoved /\ EnterRestore("tick", dirty, scope)
  /\ UNCHANGED <<world, sensor, ledger, obs, dirty, scope, keepalive>>

\* ReleaseTo(saved mode): max fan off unless the saved mode is max, then the mode.
TickRelease ==
  /\ pc = "loop" /\ Releases(obs, override, sensor)
  /\ override' = NoOverride
  /\ frame' = Call("release", [op |-> "fan", val |-> override])
  /\ pc' = IF obs.max = "on" /\ override # "max" THEN "release" ELSE "own"
  /\ UNCHANGED <<world, sensor, ledger, obs, dirty, scope, keepalive, active>>

\* ForceMaxFan, the first time and again after a failed write.
TickForce ==
  /\ pc = "loop"
  /\ \/ Engages(obs, override, sensor) /\ override' = SavedMode(obs)
     \/ Retries(obs, override, sensor) /\ override' = override
  /\ pc' = "force"
  /\ UNCHANGED <<world, sensor, ledger, obs, dirty, scope, keepalive, active, frame>>

\* No safety action is due.
Calm == ~Blind(obs, override, sensor) /\ ~Releases(obs, override, sensor)
        /\ ~Engages(obs, override, sensor) /\ ~Retries(obs, override, sensor)

\* The curve yields a new target (fresh temperature only).
TickCurve ==
  /\ pc = "loop" /\ Calm
  /\ override = NoOverride /\ obs.fan = "curve" /\ sensor \in FreshSamples
  /\ pc' = "curve"
  /\ UNCHANGED <<world, sensor, ledger, obs, dirty, scope, override, keepalive, active, frame>>

TickQuiet ==
  /\ pc = "loop" /\ Calm
  /\ pc' = "heartbeat"
  /\ UNCHANGED <<world, sensor, ledger, obs, dirty, scope, override, keepalive, active, frame>>

CurveWrite ==
  /\ pc = "curve"
  /\ \/ /\ Accepted("level", "user")
        /\ pc' = "heartbeat"
        /\ UNCHANGED <<active, frame>>
     \/ /\ CallFails("level", "user")
        /\ EpochMoved /\ EnterRestore("tick", dirty, scope)
  /\ UNCHANGED <<cpu, scheme, sensor, ledger, obs, dirty, scope, override, keepalive>>

\* The 0x27 write of ForceMaxFan.  On failure the override stays latched.
ForceMax ==
  /\ pc = "force"
  /\ \/ /\ MaxOnUnsaved
        /\ obs' = [obs EXCEPT !.max = "on"]
        /\ dirty' = dirty \cup {"fan"}
     \/ /\ CallFails("max", "user")
        /\ UNCHANGED <<obs, dirty>>
  /\ pc' = "heartbeat"
  /\ UNCHANGED <<cpu, scheme, sensor, ledger, scope, override, keepalive, active, frame>>

\* A failed release keeps the override latched and max fan on.
ReleaseMax ==
  /\ pc = "release"
  /\ \/ /\ Accepted("max", "base")
        /\ obs' = [obs EXCEPT !.max = "off"]
        /\ pc' = "own"
     \/ /\ CallFails("max", "base")
        /\ pc' = "failed"
        /\ UNCHANGED obs
  /\ UNCHANGED <<cpu, scheme, sensor, ledger, dirty, scope, override, keepalive, active, frame>>

ReleaseApplied ==
  /\ pc = "applied" /\ frame.ctx = "release"
  /\ pc' = "heartbeat"
  /\ frame' = EmptyFrame
  /\ UNCHANGED <<world, sensor, ledger, obs, dirty, scope, override, keepalive, active>>

\* retain_override(mode)
ReleaseFailed ==
  /\ pc = "failed" /\ frame.ctx = "release"
  /\ override' = frame.cur.val
  /\ pc' = IF obs.max = "on" THEN "heartbeat" ELSE "rearm"
  /\ frame' = EmptyFrame
  /\ UNCHANGED <<world, sensor, ledger, obs, dirty, scope, keepalive, active>>

Rearm ==
  /\ pc = "rearm"
  /\ \/ /\ MaxOnUnsaved
        /\ obs' = [obs EXCEPT !.max = "on"]
        /\ dirty' = dirty \cup {"fan"}
     \/ /\ CallFails("max", "user")
        /\ UNCHANGED <<obs, dirty>>
  /\ pc' = "heartbeat"
  /\ UNCHANGED <<cpu, scheme, sensor, ledger, scope, override, keepalive, active, frame>>

-----------------------------------------------------------------------------
(* The heartbeat: run_heartbeat() *)

HeartbeatIdle ==
  /\ pc = "heartbeat"
  /\ \/ UNCHANGED keepalive                                   \* not due yet
     \/ /\ keepalive.due /\ Tracked(obs, dirty) = {}
        /\ keepalive' = NoHeartbeat
  /\ pc' = "loop"
  /\ UNCHANGED <<world, sensor, ledger, obs, dirty, scope, override, active, frame>>

ReassertOrder == <<"thermal", "level", "max", "power">>
ReassertValue(ch) == IF ch = "power" THEN obs.power ELSE "user"

\* The tracked channels re-asserted before the one that fails.
Before(failing) ==
  {ch \in Tracked(obs, dirty) : \E i, j \in DOMAIN ReassertOrder :
     i < j /\ ReassertOrder[i] = ch /\ ReassertOrder[j] = failing}

ReassertAll(chs) == [ch \in Channels |-> IF ch \in chs THEN ReassertValue(ch) ELSE Settled[ch]]

\* A re-assertion is no ledgered write: the ledger vouches for it if it holds "fan".
Reasserted(chs) == Doubted(chs, IF "fan" \in disk.dom THEN "none" ELSE "unsaved")

HeartbeatOk ==
  /\ pc = "heartbeat" /\ keepalive.due /\ Tracked(obs, dirty) # {}
  /\ hw' = ReassertAll(Tracked(obs, dirty))
  /\ stuck' = NoWrite
  /\ doubt' = Reasserted(Tracked(obs, dirty))
  /\ keepalive' = [due |-> TRUE, failures |-> 0]
  /\ pc' = "loop"
  /\ UNCHANGED <<cpu, scheme, sensor, ledger, obs, dirty, scope, override, active, frame>>

\* The 0x10 query or a re-assertion fails; the second failure in a row hands
\* everything back.
HeartbeatFails ==
  /\ pc = "heartbeat" /\ keepalive.due /\ Tracked(obs, dirty) # {}
  /\ \/ UNCHANGED hwVars
     \/ \E failing \in Tracked(obs, dirty) :
          /\ hw' = ReassertAll(Before(failing))
          /\ \/ stuck' = NoWrite /\ doubt' = Reasserted(Before(failing))
             \/ /\ stuck' \in {NoWrite, [ch |-> failing, val |-> ReassertValue(failing)]}
                /\ doubt' = [ch \in FanChannels |-> IF ch = failing THEN "unknown"
                                                   ELSE Reasserted(Before(failing))[ch]]
  /\ keepalive' = [due |-> TRUE,
                   failures |-> IF keepalive.failures < FailClosedAfter
                                THEN keepalive.failures + 1 ELSE FailClosedAfter]
  /\ IF keepalive'.failures = FailClosedAfter
     THEN EpochMoved /\ EnterRestore("loop", dirty, scope)
     ELSE pc' = "loop" /\ UNCHANGED <<active, frame>>
  /\ UNCHANGED <<cpu, scheme, sensor, ledger, obs, dirty, scope, override>>

-----------------------------------------------------------------------------
Restoring ==
  \/ RestoreMax \/ RestoreLevel \/ RestoreRearm
  \/ RestoreDomain("gpu", "r.gpu", AfterGpu(dirty, scope))
  \/ RestoreDomain("power", "r.power", AfterPower(dirty, scope))
  \/ RestoreDomain("thermal", "r.thermal", AfterThermal(scope))
  \/ RestoreScope \/ RestoreCpu \/ RestoreEnd

Executing ==
  \/ Own \/ Set \/ AutoMax \/ AutoLevel \/ AutoDone \/ MaxOn \/ HeldMax \/ HeldLevel
  \/ ExecCpu \/ ExecSession

Advance ==
  \/ AdvanceStale \/ AdvanceRefuse \/ AdvanceExec
  \/ ReadbackMatches \/ ReadbackAgain \/ ReadbackFails

Tick == TickWatchdog \/ TickRelease \/ TickForce \/ TickCurve \/ TickQuiet

Acting ==
  \/ CurveWrite \/ ForceMax \/ ReleaseMax \/ ReleaseApplied \/ ReleaseFailed \/ Rearm
  \/ HeartbeatIdle \/ HeartbeatOk \/ HeartbeatFails

Inside == Restoring \/ Executing \/ Acting \/ PlanApplied \/ FinishPlan

Request ==
  \/ \E p \in Plans : BeginDirect(p)
  \/ \E id \in SessionIds, p \in ScopedPlans : BeginScoped(id, p)
  \/ \E id \in SessionIds : BeginUnscope(id)
  \/ BeginSession \/ Shutdown

Environment == Sense \/ SwitchScheme \/ Firmware \/ Crash \/ Restart

Next == Inside \/ Advance \/ Tick \/ Request \/ Environment

Spec == Init /\ [][Next]_vars

-----------------------------------------------------------------------------
(* Safety *)

\* Whatever the session really changed is in the recovery record on disk, at
\* every point of every handler and across crashes, so a crash can always be
\* followed by a complete restore.  Excepted are fan channels that
\* are in doubt: the three ways the code loses them are findings of their own.
LedgerCovers ==
  \A ch \in Channels : (ch \in FanChannels => doubt[ch] = "none") =>
     (hw[ch] = "user" \/ stuck = [ch |-> ch, val |-> "user"] => DomainOf(ch) \in disk.dom)

\* The channels the ledger answers for that hold, or are about to hold, a user value.
Vouched(ch) == ch \in FanChannels => doubt[ch] = "none"
Changed(ch) == hw[ch] = "user" \/ stuck = [ch |-> ch, val |-> "user"]
Touched == {ch \in Channels : Vouched(ch) /\ Changed(ch)}

\* A process may write: it runs, and no earlier record is unrestored.
Open == Running /\ ~Pending(prev)

TouchedKinds == {DomainOf(ch) : ch \in Touched}
Owed == IF Open THEN dirty ELSE {}

Ahead == INSTANCE WriteAheadLedger WITH
           Kinds <- Domains, touched <- TouchedKinds, recorded <- disk.dom, owed <- Owed, open <- Open

\* The coordinator is a write-ahead ledger of its domains: the obligation is on disk a
\* step before a write can touch the hardware, it is dropped only after the hardware has
\* its old value back, and after a crash nothing is written before all of it is adopted.
KeepsWriteAheadLedger == Ahead!LedgerSpec

\* What the heartbeat keeps alive is owed back: no re-assertion outlives the
\* restore obligation of its domain.
TrackedIsOwned ==
  Running => \A ch \in Tracked(obs, dirty) : DomainOf(ch) \in dirty

\* The record of an earlier session is never overwritten before it is adopted.
EarlierRecordKept == Pending(prev) => disk = prev

\* An open automation session and its baseline survive a crash.
SessionIsDurable == Running /\ ~Pending(prev) /\ scope.on => disk.scope = scope

\* Once anything was restored to the firmware the plan in progress writes nothing
\* more: the handlers of a plan run only while its epoch is current.
StalePlanNeverWrites == pc \in ExecLabels /\ frame.ctx = "plan" => ~active.stale

\* While a thermal override is latched, max fan is switched off only on the way
\* to firmware control: by the user's auto command or by a restore.
OverrideHoldsMax ==
  [][override # NoOverride /\ obs.max = "on" /\ obs'.max = "off"
       => pc \in {"auto.max", "r.max"}]_vars

\* The scheme was switched between the last check of it and the writes that close the
\* session: inside a restore, or since the plan that closes it began.
SwitchedSinceCheck == IF pc = "r.cpu" THEN frame.moved ELSE active.moved

\* A session closed by a running coordinator has its CPU baseline back in the scheme it
\* recorded, be it closed by a plan or a restore, after failed attempts or by a later
\* process.  Excepted are the two cases the code cannot tell: it recorded no scheme, or
\* the scheme was switched after it was checked.
ClosedSessionRestoredCpu ==
  [][scope.on /\ ~scope'.on /\ Running /\ Running'
       /\ scope.scheme # NoScheme /\ ~SwitchedSinceCheck
       => \A i \in DOMAIN scope.plan :
            scope.plan[i].op = "cpu" => cpu'[scope.scheme] = scope.plan[i].val]_vars

-----------------------------------------------------------------------------
(* Liveness *)

\* The thread always leaves a handler; every iteration of its loop advances
\* the active plan, and the safety deadline is absolute, so both happen again
\* and again whatever else the loop does.
FairSpec ==
  /\ Spec
  /\ WF_vars(Inside)
  /\ SF_vars(Advance)
  /\ SF_vars(Tick)

\* Every accepted plan ends: its caller gets an outcome.
PlanEnds == active.plan # <<>> ~> active.plan = <<>>

\* Held fans at the ceiling end in an override, unless they are let go or it cools.
HeatEngages ==
  Running /\ UserHolds(obs) /\ sensor \in HotSamples
    ~> override # NoOverride \/ sensor \notin HotSamples \/ ~UserHolds(obs) \/ ~Running

\* An override whose max-fan write failed is retried: if such a write is not
\* refused forever, max fan comes on while it stays hot.
ForceSucceeds == ForceMax /\ obs'.max = "on"
OverrideReachesMax ==
  SF_vars(ForceSucceeds) =>
    (override # NoOverride /\ sensor \in FreshHotSamples
       ~> obs.max = "on" \/ override = NoOverride \/ sensor \notin FreshHotSamples \/ ~Running)

-----------------------------------------------------------------------------
(* What the documentation says of the program *)

\* A fan channel the user's session changed, with no record left on disk.
LostBy(why) == \E ch \in FanChannels :
  doubt[ch] = why /\ hw[ch] = "user" /\ "fan" \notin disk.dom

\* docs/ogh-milestones.md:36: before an HP write the obligation is saved.
WritesAreSavedFirst == ~LostBy("unsaved")

\* coordinator.rs:3137: after an unknown outcome the record is kept until a
\* readback or a restore has confirmed the state.
UnknownOutcomeKeepsRecord == ~LostBy("unknown")

\* docs/ogh-milestones.md:36: the record of an unfinished restore is kept.
UnfinishedRestoreKeepsRecord == ~LostBy("assumed")

\* keepalive.rs:92: the schedule is recomputed after any state change, safety
\* actions included, so whatever is tracked has a heartbeat scheduled.
TrackedIsScheduled ==
  pc = "loop" /\ active = Idle /\ Tracked(obs, dirty) # {} => keepalive.due

=============================================================================
