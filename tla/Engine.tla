------------------------------- MODULE Engine -------------------------------
(***************************************************************************)
(* The engine's parts and their teardown (engine.rs): the control thread    *)
(* and the fan collector both call the HP actor; shutdown() stops control,  *)
(* then telemetry, then the actor, and dropping the engine releases the     *)
(* writer lease (control/lease.rs).  Control is waited for without limit,   *)
(* telemetry ten seconds, the actor five.  HpActor models what a call to    *)
(* the actor does; here it only matters whether somebody still makes one.   *)
(***************************************************************************)
EXTENDS Telemetry

CONSTANT HpFans     \* the collector that reads through the HP actor

ASSUME EngineAssumption == HpFans \in Collectors

VARIABLES
  engine,   \* the stage of Engine::shutdown
  control,  \* the control coordinator's thread
  actor     \* the HP actor's thread

vars == <<telemetryVars, engine, control, actor>>

Stages == {"running", "control", "telemetry", "actor", "done"}

TypeOK ==
  /\ TelemetryTypeOK
  /\ engine \in Stages
  /\ control \in {"runs", "restores", "gone"}
  /\ actor \in {"runs", "stops", "gone"}

\* start_inner: no control thread without the writer lease.
Init ==
  /\ TelemetryInit
  /\ engine = "running"
  /\ control \in {"runs", "gone"}
  /\ actor = "runs"

NextStage_actorFirst(stage) ==
  CASE stage = "running" -> "control"
    [] stage = "control" -> "actor"
    [] stage = "actor" -> "telemetry"
    [] OTHER -> "done"

NextStage(stage) ==
  CASE stage = "running" -> "control"
    [] stage = "control" -> "telemetry"
    [] stage = "telemetry" -> "actor"
    [] OTHER -> "done"

\* What shutdown() sends on entering a stage: to the control thread, the telemetry
\* coordinator and the actor.
Enters(stage) ==
  /\ engine' = stage
  /\ control' = IF stage = "control" /\ control = "runs" THEN "restores" ELSE control
  /\ commands' = IF stage = "telemetry" THEN Append(commands, "shutdown") ELSE commands
  /\ actor' = IF stage = "actor" THEN "stops" ELSE actor
  /\ mark' = "none"
  /\ UNCHANGED <<worker, wake, pending, coord, store, reader>>

Shutdown ==
  /\ engine = "running"
  /\ Enters(NextStage(engine))
  /\ UNCHANGED overdue

ControlDone ==
  /\ engine = "control" /\ control = "gone"
  /\ Enters(NextStage(engine))
  /\ UNCHANGED overdue

\* The ack, or ten seconds.
TelemetryDone ==
  /\ engine = "telemetry"
  /\ Enters(NextStage(engine))
  /\ overdue' = (overdue \/ coord # "gone")

\* The ack, or five seconds: the actor may be in a call that hangs.
ActorDone ==
  /\ engine = "actor"
  /\ Enters(NextStage(engine))
  /\ overdue' = (overdue \/ actor # "gone")

\* The coordinator has restored and acknowledges.
ControlStops ==
  /\ control = "restores"
  /\ control' = "gone"
  /\ UNCHANGED <<telemetryVars, engine, actor>>

\* The shutdown envelope is the actor's last.
ActorEnds ==
  /\ actor = "stops"
  /\ actor' = "gone"
  /\ UNCHANGED <<telemetryVars, engine, control>>

Teardown == Shutdown \/ ControlDone \/ TelemetryDone \/ ActorDone

\* A sample is followed for as long as the engine runs.
NotFollowed == engine # "running" => mark' = "none"

Next ==
  \/ HandleSteps /\ engine = "running" /\ UNCHANGED <<engine, control, actor>>
  \/ (ReaderSteps \/ CoordSteps \/ \E c \in Collectors : WorkerSteps(c))
       /\ NotFollowed /\ UNCHANGED <<engine, control, actor>>
  \/ Teardown \/ ControlStops \/ ActorEnds

Spec == Init /\ [][Next]_vars

\* Threads run, calls end, a reader reads; nobody has to refresh, subscribe or leave.
Fairness ==
  /\ \A c \in Collectors : WF_vars(WorkerSteps(c) /\ NotFollowed /\ UNCHANGED <<engine, control, actor>>)
  /\ WF_vars(CoordSteps /\ UNCHANGED <<engine, control, actor>>)
  /\ WF_vars(Reads /\ UNCHANGED <<engine, control, actor>>)
  /\ WF_vars(ControlDone \/ TelemetryDone \/ ActorDone \/ ControlStops \/ ActorEnds)

FairSpec == Spec /\ Fairness

-----------------------------------------------------------------------------
(* Properties *)

\* Nobody is left calling what is torn down: the HP actor stops after control and the fan
\* collector, and the writer lease goes after all of them, unless a bounded wait ran out.
TeardownInOrder ==
  ~overdue =>
    /\ actor # "runs" => control = "gone" /\ worker[HpFans] = "gone"
    /\ engine = "done" => actor = "gone" /\ AllStopped

\* A subscriber that keeps reading sees the sample, or a newer one, although a
\* publication that finds its channel full is dropped, while any collector runs.
SampleReachesReader ==
  mark \in {"stored", "taken"} /\ reader.thread = "reads" ~>
    mark = "none" \/ reader.thread = "left" \/ engine # "running" \/ AllStopped

\* Once telemetry shuts down every worker stops, also one whose channel was full of a
\* refresh when it should have been told.
WorkersStop == coord = "joins" ~> AllStopped

=============================================================================
