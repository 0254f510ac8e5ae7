---------------------------- MODULE Application ----------------------------
(***************************************************************************)
(* The application's threads around the control queue (app/runtime.rs,      *)
(* app/coalesce.rs, engine.rs): the pump, which serialises the user's       *)
(* clicks, publishes profile files and tears everything down, beside the    *)
(* automation worker and the coordinator.                                   *)
(*                                                                          *)
(* One turn of the pump goes through its stages; each is an action here, in *)
(* any order.  What a click asks for is left out: it is its knob.  Captures, *)
(* telemetry, the periodic RefreshObserved and the published state are left *)
(* out, and so is an engine that did not start (serve_shutdown_only).       *)
(***************************************************************************)
EXTENDS AutomationWorker, SequencesExt

CONSTANT
  Knobs    \* what the user can click

VARIABLE
  u         \* the pump and its coalescer

vars == <<queueVars, workerVars, u>>

TypeOK ==
  /\ QueueTypeOK /\ WorkerTypeOK
  /\ u \in [pc : {"loop", "dispatched", "saving", "wait profiles", "automation", "engine", "done"},
            pending : Seq(Knobs), inFlight : BOOLEAN, busy : BOOLEAN]

Init ==
  /\ QueueInit /\ WorkerInit
  /\ u = [pc |-> "loop", pending |-> <<>>, inFlight |-> FALSE, busy |-> FALSE]

-----------------------------------------------------------------------------
(* The coalescer: one click in flight, the latest one per knob waiting *)

Without(q, k) == SelectSeq(q, LAMBDA c : c # k)

\* enqueue: the latest click wins.
UserClicks(k) ==
  /\ u.pc = "loop"
  /\ u' = [u EXCEPT !.pending = Append(Without(@, k), k)]
  /\ UNCHANGED <<workerVars, queueVars>>

\* poll releases the front once nothing is in flight; dispatch enqueues it and only
\* then raises the manual generation.
Polls == u.pc = "loop" /\ ~u.inFlight /\ u.pending # <<>>

PumpDispatches ==
  /\ Polls
  /\ Enqueued(Request("pump", "apply", IF registry THEN 0 ELSE 1))
  /\ u' = [u EXCEPT !.pc = "dispatched", !.pending = Tail(@), !.inFlight = TRUE, !.busy = FALSE]
  /\ UNCHANGED workerVars

PumpCounts ==
  /\ u.pc = "dispatched"
  /\ u' = [u EXCEPT !.pc = "loop"]
  /\ moved' = TRUE
  /\ UNCHANGED <<w, mail, queueVars>>

\* Busy: back to the front, and try again.
PumpBusy ==
  /\ Polls
  /\ NotEnqueued
  /\ u' = [u EXCEPT !.busy = TRUE]
  /\ UNCHANGED workerVars

\* Busy for five seconds: the knob's clicks are given up.
PumpGivesUp ==
  /\ Polls /\ u.busy
  /\ NotEnqueued
  /\ u' = [u EXCEPT !.busy = FALSE, !.pending = Without(Tail(@), Head(@))]
  /\ UNCHANGED workerVars

\* The outcome sweep.
PumpSweeps ==
  /\ u.pc = "loop" /\ u.inFlight /\ reply["pump"] # "waiting"
  /\ u' = [u EXCEPT !.inFlight = FALSE, !.busy = FALSE]
  /\ Collected("pump")
  /\ UNCHANGED workerVars

-----------------------------------------------------------------------------
(* Profile files: replace_profiles blocks the pump until a registry is accepted *)

\* Bound: only when the last registry is installed and no command waits for it.
UserSaves ==
  /\ u.pc = "loop" /\ registry
  /\ \A r \in ToSet(chan) \cup ToSet(queued) : r.kind = "apply" => r.id = 0
  /\ u' = [u EXCEPT !.pc = "saving"]
  /\ registry' = FALSE
  /\ UNCHANGED <<workerVars, chan, queued, plan, session, stage, reply>>

PumpReplaces ==
  /\ u.pc = "saving"
  /\ Enqueued(Request("profiles", "profiles", 0))
  /\ u' = [u EXCEPT !.pc = "wait profiles"]
  /\ UNCHANGED workerVars

Accepted_always == TRUE
Accepted == reply["profiles"] # "failed"

\* Turned away: again after 25 ms.
PumpReplaced ==
  /\ u.pc = "wait profiles" /\ reply["profiles"] # "waiting"
  /\ u' = [u EXCEPT !.pc = IF Accepted THEN "loop" ELSE "saving"]
  /\ Collected("profiles")
  /\ UNCHANGED workerVars

-----------------------------------------------------------------------------
(* The automation's configuration, and the end *)

\* Bound: one configuration on its way to the worker.
UserConfigures ==
  /\ u.pc = "loop" /\ mail = <<>>
  /\ mail' = Append(mail, "configure")
  /\ UNCHANGED <<u, w, moved, queueVars>>

\* Shutdown, or the telemetry channel disconnected: the automation first.  What the
\* coalescer still holds is never sent.
PumpCloses ==
  /\ u.pc = "loop"
  /\ u' = [pc |-> "automation", pending |-> <<>>, inFlight |-> FALSE, busy |-> FALSE]
  /\ mail' = Append(mail, "shutdown")
  /\ UNCHANGED <<w, moved, queueVars>>

\* Engine::shutdown: a blocking send to the coordinator ...
PumpStopsControl ==
  /\ u.pc = "automation" /\ w.pc = "stopped"
  /\ Enqueued(Request("engine", "shutdown", 0))
  /\ u' = [u EXCEPT !.pc = "engine"]
  /\ UNCHANGED workerVars

\* ... and an unbounded wait for its last restore.
PumpDone ==
  /\ u.pc = "engine" /\ reply["engine"] # "waiting"
  /\ u' = [u EXCEPT !.pc = "done"]
  /\ UNCHANGED <<workerVars, queueVars>>

Pump ==
  \/ PumpDispatches \/ PumpCounts \/ PumpBusy \/ PumpGivesUp \/ PumpSweeps
  \/ PumpReplaces \/ PumpReplaced \/ PumpStopsControl \/ PumpDone

UserActs ==
  \/ \E k \in Knobs : UserClicks(k)
  \/ UserSaves \/ UserConfigures \/ PumpCloses

Next ==
  \/ UserActs \/ Pump
  \/ Worker /\ UNCHANGED u
  \/ (Coordinator \/ SafetyRestore) /\ UNCHANGED <<workerVars, u>>

Spec == Init /\ [][Next]_vars

\* The pump goes through its stages after every message, and a blocked send is served.
PumpFair ==
  /\ WF_vars(PumpCounts \/ PumpReplaced \/ PumpStopsControl \/ PumpDone)
  /\ SF_vars(PumpSweeps) /\ SF_vars(PumpDispatches) /\ SF_vars(PumpReplaces)

FairSpec == Spec /\ CoordinatorFair /\ WorkerFair /\ PumpFair

-----------------------------------------------------------------------------
(* Properties *)

\* An automation session is never orphaned: as long as the worker runs, it knows the
\* open session or has a transition about it under way.
SessionIsKnown ==
  (session # 0 /\ w.pc \in {"turn", "scan"}) => session \in {w.active.id, w.pending.id}

\* When the worker's last restore succeeded, or it knew of nothing to restore, no
\* session is open and no Begin is still on its way.
LastRestoreIsLast ==
  (w.pc = "stopped" /\ w.final \in {"none", "ok"}) =>
    /\ session = 0
    /\ \A q \in {chan, queued} : \A i \in DOMAIN q : q[i].kind # "begin"

\* A command dispatched after new profiles were published runs with these profiles or
\* newer ones, whatever queues both went through.
AppliesPublishedProfiles ==
  [][\A r \in ToSet(chan) \cup ToSet(queued) :
       (r.kind = "apply" /\ Begins(r) /\ r.id = 1 /\ ~registry) => UNCHANGED plan]_vars

UserRests == <>[][~UserActs]_vars

\* Once the user has taken over and the rules stay paused, the session they had opened,
\* or open meanwhile, is closed, unless its restore failed (which stops the worker until
\* it is configured again).
ManualTakesOver ==
  UserRests /\ <>[](w.paused /\ w.pc \in {"turn", "scan"})
    => <>[](session = 0 \/ w.recoveryFailed)

\* When the user is done, every click ends: dispatched and answered, replaced, or
\* given up; none is left in flight or waiting.
ClicksAreDecided ==
  UserRests => <>[](u.pending = <<>> /\ ~u.inFlight)

\* Shutdown ends, whatever was queued, in flight, or refused.
ShutdownEnds == u.pc = "automation" ~> u.pc = "done"

=============================================================================
