-------------------------- MODULE AutomationWorker --------------------------
(***************************************************************************)
(* The profile automation (automation.rs): one thread that begins a session *)
(* when its rules select a profile, ends it when they select another or     *)
(* none, steps aside when the user takes over and gives the session back    *)
(* when it is shut down.  It only ever talks to the control queue.          *)
(*                                                                          *)
(* What the rules select is open (none while paused): power source,         *)
(* processes and configuration appear only through it.  The scheduler it    *)
(* also owns is BatteryScheduler.                                           *)
(***************************************************************************)
EXTENDS ControlQueue

CONSTANT Profiles   \* profiles a rule can select

VARIABLES
  w,       \* the worker
  mail,    \* messages to it
  moved    \* manual_generation differs from the worker's copy

workerVars == <<w, mail, moved>>

NoProfile == "no profile"
Inactive == [id |-> 0, profile |-> NoProfile]
NoTransition == [kind |-> "none", id |-> 0, profile |-> NoProfile]

WorkerTypeOK ==
  /\ w \in [pc : {"turn", "scan", "final", "stopped"},
            active : [id : 0..MaxSessions, profile : Profiles \cup {NoProfile}],
            pending : [kind : {"none", "begin", "end"}, id : 0..MaxSessions,
                       profile : Profiles \cup {NoProfile}],
            paused : BOOLEAN, recoveryFailed : BOOLEAN,
            next : 1..MaxSessions + 1,
            candidate : Profiles \cup {NoProfile},
            final : {"none", "refused", "waiting", "timeout", "ok", "failed", "gone"}]
  /\ mail \in Seq({"configure", "shutdown"})
  /\ moved \in BOOLEAN

WorkerInit ==
  /\ w = [pc |-> "turn", active |-> Inactive, pending |-> NoTransition, paused |-> FALSE,
          recoveryFailed |-> FALSE, next |-> 1, candidate |-> NoProfile, final |-> "none"]
  /\ mail = <<>>
  /\ moved = FALSE

-----------------------------------------------------------------------------
(* One turn of the loop up to the scan: a message, the generation, the answer *)

\* There is no transition, or no answer to it yet.
NothingNew(x) == x.pending.kind = "none" \/ reply["worker"] = "waiting"

\* The answer to a transition: a rejected Begin counts as a session too, so that
\* it gets ended; a failed End stops all transitions.
Polled_failedBeginForgotten(x) ==
  IF NothingNew(x) THEN x ELSE
  CASE x.pending.kind = "begin" /\ reply["worker"] = "ok" ->
         [x EXCEPT !.pending = NoTransition,
                   !.active = [id |-> x.pending.id, profile |-> x.pending.profile]]
    [] x.pending.kind = "end" /\ reply["worker"] = "ok" ->
         [x EXCEPT !.pending = NoTransition, !.active = Inactive]
    [] OTHER -> [x EXCEPT !.pending = NoTransition, !.paused = TRUE]

Polled(x) ==
  IF NothingNew(x) THEN x ELSE
  CASE x.pending.kind = "begin" /\ reply["worker"] # "gone" ->
         [x EXCEPT !.pending = NoTransition, !.paused = @ \/ reply["worker"] = "failed",
                   !.active = [id |-> x.pending.id, profile |-> x.pending.profile]]
    [] x.pending.kind = "end" /\ reply["worker"] = "ok" ->
         [x EXCEPT !.pending = NoTransition, !.active = Inactive]
    [] x.pending.kind = "end" /\ reply["worker"] = "failed" ->
         [x EXCEPT !.pending = NoTransition, !.paused = TRUE, !.recoveryFailed = TRUE]
    [] OTHER -> [x EXCEPT !.pending = NoTransition, !.paused = TRUE]

PollsAnswer ==
  IF w.pending = NoTransition \/ reply["worker"] = "waiting"
  THEN UNCHANGED queueVars ELSE Collected("worker")

TakenOver(x) == [x EXCEPT !.paused = @ \/ moved]

WorkerTurn ==
  /\ w.pc = "turn" /\ mail = <<>>
  /\ w' = [Polled(TakenOver(w)) EXCEPT !.pc = "scan"]
  /\ moved' = FALSE
  /\ PollsAnswer
  /\ UNCHANGED mail

\* A configuration that could be saved resumes the rules and accepts the manual
\* settings made so far.
WorkerConfigured ==
  /\ w.pc = "turn" /\ mail # <<>> /\ Head(mail) = "configure"
  /\ mail' = Tail(mail)
  /\ \E saved \in BOOLEAN :
       w' = [Polled(IF saved THEN [w EXCEPT !.paused = FALSE, !.recoveryFailed = FALSE]
                    ELSE TakenOver(w)) EXCEPT !.pc = "scan"]
  /\ moved' = FALSE
  /\ PollsAnswer

-----------------------------------------------------------------------------
(* The scan: what the rules select has to stay the same for a second *)

ScanSkips ==
  /\ w.pc = "scan"
  /\ w' = [w EXCEPT !.pc = "turn"]
  /\ UNCHANGED <<mail, moved, queueVars>>

CanAct == w.pc = "scan" /\ w.pending = NoTransition /\ ~w.recoveryFailed

ScanSelects ==
  /\ CanAct
  /\ \E selected \in IF w.paused THEN {NoProfile} ELSE Profiles \cup {NoProfile} :
       w' = [w EXCEPT !.pc = "turn", !.candidate = selected]
  /\ UNCHANGED <<mail, moved, queueVars>>

\* What is selected now is the candidate.
Selects == w.paused => w.candidate = NoProfile

Transition_switchesOnly ==
  CASE w.active # Inactive /\ w.active.profile # w.candidate /\ w.candidate # NoProfile ->
         [kind |-> "end", id |-> w.active.id, profile |-> NoProfile]
    [] w.active = Inactive /\ w.candidate # NoProfile ->
         [kind |-> "begin", id |-> w.next, profile |-> w.candidate]
    [] OTHER -> NoTransition

Transition ==
  CASE w.active # Inactive /\ w.active.profile # w.candidate ->
         [kind |-> "end", id |-> w.active.id, profile |-> NoProfile]
    [] w.active = Inactive /\ w.candidate # NoProfile ->
         [kind |-> "begin", id |-> w.next, profile |-> w.candidate]
    [] OTHER -> NoTransition

Due ==
  /\ CanAct /\ Selects
  /\ Transition.kind = "end" \/ (Transition.kind = "begin" /\ w.next <= MaxSessions)

Acted == [w EXCEPT !.pc = "turn", !.next = IF Transition.kind = "begin" THEN @ + 1 ELSE @]

ScanDispatches ==
  /\ Due
  /\ Enqueued(Request("worker", Transition.kind, Transition.id))
  /\ w' = [Acted EXCEPT !.pending = Transition]
  /\ UNCHANGED <<mail, moved>>

\* Busy, or the coordinator is gone.
ScanRefused ==
  /\ Due
  /\ NotEnqueued
  /\ w' = [Acted EXCEPT !.paused = TRUE]
  /\ UNCHANGED <<mail, moved>>

-----------------------------------------------------------------------------
(* Shutdown *)

LastSession_activeOnly == w.active.id

\* The session to give back, or the one a transition in flight is about.
LastSession == IF w.active # Inactive THEN w.active.id ELSE w.pending.id

WorkerShutdown ==
  /\ w.pc = "turn" /\ mail # <<>> /\ Head(mail) = "shutdown"
  /\ mail' = Tail(mail)
  /\ CASE LastSession = 0 -> w' = [w EXCEPT !.pc = "stopped"] /\ UNCHANGED queueVars
       [] LastSession # 0 ->
            \/ /\ Enqueued(Request("final", "end", LastSession))
               /\ w' = [w EXCEPT !.pc = "final", !.final = "waiting"]
            \/ NotEnqueued /\ w' = [w EXCEPT !.pc = "stopped", !.final = "refused"]
  /\ UNCHANGED moved

\* Sixty seconds, then the answer does not matter any more.
WorkerStops ==
  /\ w.pc = "final"
  /\ \/ /\ reply["final"] # "waiting"
        /\ w' = [w EXCEPT !.pc = "stopped", !.final = reply["final"]]
        /\ Collected("final")
     \/ w' = [w EXCEPT !.pc = "stopped", !.final = "timeout"] /\ UNCHANGED queueVars
  /\ UNCHANGED <<mail, moved>>

Worker ==
  \/ WorkerTurn \/ WorkerConfigured \/ ScanSkips \/ ScanSelects \/ ScanDispatches \/ ScanRefused
  \/ WorkerShutdown \/ WorkerStops

\* The loop turns; once a second it looks at the rules, and a candidate that stays
\* the same is acted upon, sooner or later while the channel has room.
WorkerFair ==
  /\ WF_<<workerVars, queueVars>>(WorkerTurn \/ WorkerConfigured \/ ScanSkips \/ WorkerShutdown
                                    \/ WorkerStops)
  /\ SF_<<workerVars, queueVars>>(ScanSelects)
  /\ SF_<<workerVars, queueVars>>(ScanDispatches)

=============================================================================
