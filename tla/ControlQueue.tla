---------------------------- MODULE ControlQueue ----------------------------
(***************************************************************************)
(* The one way to the hardware: ControlHandle's bounded channel and the     *)
(* coordinator's loop behind it (control/coordinator.rs), as its clients    *)
(* see it.  What a plan writes is in ControlCoordinator; here a plan is     *)
(* something that takes a while, may close the automation session on the    *)
(* way and ends well or badly.  Sessions are what matters: who opened one,  *)
(* who may close it, and in which order requests reach the coordinator.     *)
(***************************************************************************)
EXTENDS Naturals, Sequences

CONSTANTS
  Depth,         \* QUEUE_DEPTH, of the channel and of the queue behind it
  MaxSessions    \* bound: automation sessions begun

ASSUME ControlQueueAssumption ==
  Depth \in Nat \ {0} /\ MaxSessions \in Nat \ {0}

VARIABLES
  chan,       \* the channel
  queued,     \* requests taken off the channel while a plan was active
  plan,       \* the active plan
  session,    \* the open automation session (`scoped_session`), 0 when none
  registry,   \* the coordinator has the profiles published last
  stage,      \* the coordinator thread: running, restoring at the end, gone
  reply       \* what each caller's receiver holds

queueVars == <<chan, queued, plan, session, registry, stage, reply>>

Callers == {"pump", "worker", "final", "profiles", "engine"}
Kinds == {"apply", "begin", "end", "profiles", "shutdown"}
Requests == [to : Callers, kind : Kinds, id : 0..MaxSessions]
NoPlan == [kind |-> "none", to |-> "pump", closes |-> FALSE]
Plans == [kind : {"none", "apply", "begin", "end"}, to : Callers,
          closes : BOOLEAN]

QueueTypeOK ==
  /\ chan \in Seq(Requests) /\ Len(chan) <= Depth
  /\ queued \in Seq(Requests) /\ Len(queued) <= Depth
  /\ plan \in Plans
  /\ session \in 0..MaxSessions
  /\ registry \in BOOLEAN
  /\ stage \in {"running", "restoring", "gone"}
  /\ reply \in [Callers -> {"none", "waiting", "ok", "failed", "gone"}]

QueueInit ==
  /\ chan = <<>> /\ queued = <<>>
  /\ plan = NoPlan
  /\ session = 0 /\ registry = TRUE
  /\ stage = "running"
  /\ reply = [c \in Callers |-> "none"]

-----------------------------------------------------------------------------
(* Sending *)

Request(to, kind, id) == [to |-> to, kind |-> kind, id |-> id]

HasRoom == stage # "gone" /\ Len(chan) < Depth

\* try_send with room, or send once there is some: the receiver starts to wait.
Enqueued(r) ==
  /\ HasRoom
  /\ chan' = Append(chan, r)
  /\ reply' = [reply EXCEPT ![r.to] = "waiting"]
  /\ UNCHANGED <<queued, plan, session, registry, stage>>

\* try_send on a full channel (Busy) or to a coordinator that is gone.
NotEnqueued == ~HasRoom /\ UNCHANGED queueVars

\* A caller takes the answer and drops its receiver.
Collected(c) ==
  /\ reply' = [reply EXCEPT ![c] = "none"]
  /\ UNCHANGED <<chan, queued, plan, session, registry, stage>>

-----------------------------------------------------------------------------
(* The coordinator *)

Answered(to, status) ==
  reply' = [reply EXCEPT ![to] = status]

Busy == plan # NoPlan

QueueHasRoom == Len(queued) < Depth

\* While a plan is active a request waits in the second queue; a new registry is
\* acknowledged before it is installed, and at the limit everything is turned away.
Receive ==
  /\ stage = "running" /\ Busy /\ chan # <<>> /\ Head(chan).kind # "shutdown"
  /\ chan' = Tail(chan)
  /\ LET r == Head(chan) IN
       IF QueueHasRoom
       THEN /\ queued' = Append(queued, r)
            /\ IF r.kind = "profiles" THEN Answered(r.to, "ok") ELSE UNCHANGED reply
       ELSE Answered(r.to, "failed") /\ UNCHANGED queued
  /\ UNCHANGED <<plan, session, registry, stage>>

\* begin_plan: what a request starts, is answered with, or both not.
Starts(kind, to, closes) ==
  plan' = [kind |-> kind, to |-> to, closes |-> closes]

Rejects_silently(r) ==
  /\ r.kind \in {"apply", "begin"} \/ (r.kind = "end" /\ session # 0)
  /\ UNCHANGED <<plan, session, registry, reply>>

\* The command is rejected by a gate, or by a record an earlier session left.
Rejects(r) ==
  /\ r.kind \in {"apply", "begin"} \/ (r.kind = "end" /\ session # 0)
  /\ Answered(r.to, "failed")
  /\ UNCHANGED <<plan, session, registry>>

\* A manual command first gives back what an open session has taken over;
\* RestoreSession gives back everything in its one step.
BeginsApply(r) ==
  /\ r.kind = "apply"
  /\ \E prefixed \in {FALSE, session # 0} : Starts("apply", r.to, prefixed)
  /\ UNCHANGED <<session, registry, reply>>

BeginsSession(r) ==
  /\ r.kind = "begin" /\ session = 0
  /\ session' = r.id
  /\ Starts("begin", r.to, FALSE)
  /\ UNCHANGED <<registry, reply>>

EndsSession(r) ==
  /\ r.kind = "end" /\ session = r.id
  /\ Starts("end", r.to, TRUE)
  /\ UNCHANGED <<session, registry, reply>>

EndsNothing(r) ==
  /\ r.kind = "end" /\ session = 0
  /\ Answered(r.to, "ok")
  /\ UNCHANGED <<plan, session, registry>>

Installs(r) ==
  /\ r.kind = "profiles"
  /\ registry' = TRUE
  /\ Answered(r.to, "ok")
  /\ UNCHANGED <<plan, session>>

Begins(r) ==
  Rejects(r) \/ BeginsApply(r) \/ BeginsSession(r) \/ EndsSession(r) \/ EndsNothing(r)
    \/ Installs(r)

\* What was taken off the channel earlier comes first.
QueuedFirst == queued # <<>>

Take ==
  /\ stage = "running" /\ ~Busy
  /\ \/ /\ QueuedFirst
        /\ queued' = Tail(queued)
        /\ Begins(Head(queued))
        /\ UNCHANGED chan
     \/ /\ ~QueuedFirst /\ chan # <<>> /\ Head(chan).kind # "shutdown"
        /\ chan' = Tail(chan)
        /\ Begins(Head(chan))
        /\ UNCHANGED queued
  /\ UNCHANGED stage

\* advance_plan: the last step of the session's baseline is done.
PlanCloses ==
  /\ stage = "running" /\ plan.closes
  /\ session' = 0
  /\ IF plan.kind = "end"
     THEN plan' = NoPlan /\ Answered(plan.to, "ok")
     ELSE plan' = [plan EXCEPT !.closes = FALSE] /\ UNCHANGED reply
  /\ UNCHANGED <<chan, queued, registry, stage>>

\* A plan ends; RestoreSession may have closed the session.
PlanEnds(status) ==
  /\ stage = "running" /\ Busy
  /\ plan' = NoPlan
  /\ Answered(plan.to, status)
  /\ session' \in (IF plan.kind = "apply" THEN {session, 0} ELSE {session})
  /\ UNCHANGED <<chan, queued, registry, stage>>

PlanSucceeds == ~plan.closes /\ PlanEnds("ok")
PlanFails == PlanEnds("failed")

\* The heartbeat or the watchdog hands everything back (restore_firmware_auto); the
\* same turn of the loop ends a plan this has overtaken.
SafetyRestore ==
  /\ stage = "running"
  /\ plan' = NoPlan
  /\ IF Busy THEN Answered(plan.to, "failed") ELSE UNCHANGED reply
  /\ session' \in {session, 0}
  /\ UNCHANGED <<chan, queued, registry, stage>>

\* The last request: the plan is cut off, queued callers lose their channel.
ShutdownTaken ==
  /\ stage = "running" /\ chan # <<>> /\ Head(chan).kind = "shutdown"
  /\ Busy \/ ~QueuedFirst
  /\ stage' = "restoring"
  /\ chan' = Tail(chan)
  /\ queued' = <<>>
  /\ plan' = NoPlan
  /\ reply' = [c \in Callers |->
                 IF Busy /\ plan.to = c THEN "failed"
                 ELSE IF \E i \in 1..Len(queued) : queued[i].to = c /\ queued[i].kind # "profiles"
                      THEN "gone" ELSE reply[c]]
  /\ UNCHANGED <<session, registry>>

LastAnswers_unacknowledged ==
  [c \in Callers |-> IF \E i \in 1..Len(chan) : chan[i].to = c THEN "gone" ELSE reply[c]]

LastAnswers ==
  [c \in Callers |->
     IF c = "engine" THEN "ok"
     ELSE IF \E i \in 1..Len(chan) : chan[i].to = c THEN "gone" ELSE reply[c]]

\* The final restore is done; whatever still arrived is dropped with the channel.
Stops ==
  /\ stage = "restoring"
  /\ stage' = "gone"
  /\ session' \in {session, 0}
  /\ reply' = LastAnswers
  /\ chan' = <<>>
  /\ UNCHANGED <<queued, plan, registry>>

Coordinator ==
  \/ Receive \/ Take \/ PlanCloses \/ PlanSucceeds \/ PlanFails
  \/ ShutdownTaken \/ Stops

\* The loop turns, and a plan advances in it whatever else arrives.
CoordinatorFair ==
  /\ WF_queueVars(Receive \/ Take \/ ShutdownTaken \/ Stops)
  /\ WF_queueVars(PlanCloses \/ PlanSucceeds \/ PlanFails)

=============================================================================
