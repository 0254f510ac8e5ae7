-------------------------- MODULE BatteryScheduler --------------------------
(***************************************************************************)
(* The automatic scheduler's worker (automatic_scheduler.rs) beside a user  *)
(* of the same policy handle.  On battery the worker puts every eligible    *)
(* process of the session under the battery policy and takes it back when   *)
(* the power source changes, the mode is switched off or it shuts down.     *)
(*                                                                          *)
(* The worker is one thread; between two calls of the handle other threads, *)
(* processes and the power source move on, and during a call all but those  *)
(* who wait for the ledger do.  Its deadlines (10 s refresh, 250 ms         *)
(* confirmation, 2 s scan) may pass whenever the loop looks at them.  The   *)
(* displayed phase and error text are left out.                             *)
(***************************************************************************)
EXTENDS OsPolicy

CONSTANT
  Ineligible     \* <<pid, number>>: system processes, other sessions

VARIABLES
  source,     \* where the power comes from
  w,          \* the worker
  user        \* the user's thread: where it is inside `apply`

vars == <<osVars, source, w, user>>

Sources == {"ac", "battery"}
Readings == Sources \cup {"unknown"}
NoOne == [p \in Pids |-> 0]
AutoHeld == {p \in Pids : active[p].owner = "auto"}
ManagedPids(x) == {p \in Pids : x.managed[p] # 0}

\* Where the worker is: "read" is inside refresh_power, "restore" inside
\* restore_automatic, "old" and "new" inside the two loops of reconcile_processes,
\* "write" and "undo" (as the user's) inside apply_owned with the ledger taken.
TypeOK ==
  /\ OsTypeOK
  /\ source \in Sources
  /\ w \in [mode : {"off", "battery"}, power : Readings \cup {"none"}, stable : Readings,
            pending : {"none", "ac", "battery"}, due : BOOLEAN,
            managed : [Pids -> 0..MaxBorn],
            pc : {"loop", "read", "restore", "old", "new", "write", "undo", "stopped"},
            after : {"loop", "same", "mode", "refresh", "failed", "stop"},
            next : {"loop", "message"},
            todo : SUBSET Pids, failed : BOOLEAN,
            list : [Pids -> 0..MaxBorn], unread : SUBSET Pids, held : SUBSET Pids]
  /\ user \in [pc : {"idle", "release", "apply", "write", "undo"}, todo : SUBSET Pids]

Idle(x) == [x EXCEPT !.pc = "loop", !.after = "loop", !.next = "loop",
                     !.todo = {}, !.failed = FALSE, !.list = NoOne, !.unread = {}, !.held = {}]

Init ==
  /\ OsInit
  /\ source \in Sources
  /\ w = [mode |-> "off", power |-> "none",
          stable |-> "unknown", pending |-> "none", due |-> FALSE, managed |-> NoOne,
          pc |-> "read", after |-> "loop", next |-> "message",
          todo |-> {}, failed |-> FALSE, list |-> NoOne, unread |-> {}, held |-> {}]
  /\ user = [pc |-> "idle", todo |-> {}]

-----------------------------------------------------------------------------
(* The power source *)

\* A raw change is not yet a confirmed one: while the last reading disagrees with
\* the stable source, nothing is scheduled.
ReconcileIfNeeded(x) ==
  IF x.mode = "off" THEN x
  ELSE [x EXCEPT !.due = x.stable = "battery" /\ x.power \in {"none", x.stable}]

\* What a refresh started by a message (or by the start of the worker) ends with.
AfterRefresh(x) ==
  Idle(IF x.next = "message" THEN ReconcileIfNeeded(x) ELSE x)

\* A battery reading asked for by a message counts as confirmed at once.
FinishRefresh(x) ==
  LET confirmed == x.next = "message" /\ x.power = "battery"
      y == [x EXCEPT !.pending = IF x.power = x.stable \/ confirmed THEN "none"
                                 ELSE IF x.power # "unknown" THEN x.power ELSE x.pending,
                     !.stable = IF confirmed THEN "battery" ELSE x.stable]
  IN AfterRefresh(ReconcileIfNeeded(y))

StartRestore_managedOnly(x, after) ==
  [x EXCEPT !.pc = "restore", !.after = after, !.todo = ManagedPids(x), !.failed = FALSE]

\* Read during a call of the user's, the list is the one from before it: what the
\* call takes over is found with nothing to restore.
StartRestore(x, after) ==
  [x EXCEPT !.pc = "restore", !.after = after, !.todo = AutoHeld, !.failed = FALSE]

StartRead(x, next) == [Idle(x) EXCEPT !.pc = "read", !.next = next]

Leaves_onChange(now) == now # "battery" /\ now # w.power
Leaves(now) == now # "battery"

\* refresh_power: leaving battery releases everything at once, a source that
\* cannot be read does too.
PowerRead(now) ==
  /\ w.pc = "read"
  /\ LET x == [w EXCEPT !.power = now] IN
       w' = IF Leaves(now) /\ ManagedPids(w) # {}
            THEN StartRestore(x, "refresh") ELSE FinishRefresh(x)

ReadPower ==
  /\ PowerRead(source)
  /\ UNCHANGED <<osVars, source, user>>

\* The status says "unknown" (255): counted among the failures.
ReadPowerUnknown ==
  /\ PowerRead("unknown")
  /\ Fails
  /\ UNCHANGED <<alive, born, os, gpu, ledger, history, source, user>>

ReadPowerFails ==
  /\ w.pc = "read"
  /\ Fails
  /\ LET x == [w EXCEPT !.power = "none"] IN
       w' = IF ManagedPids(w) # {} THEN StartRestore(x, "failed") ELSE AfterRefresh(x)
  /\ UNCHANGED <<alive, born, os, gpu, ledger, history, source, user>>

\* Ten seconds have passed, or a power event arrived.
RefreshDue ==
  /\ w.pc = "loop"
  /\ w' = StartRead(w, "loop")
  /\ UNCHANGED <<osVars, source, user>>

ConfirmSource ==
  /\ w.pc = "loop" /\ w.pending # "none"
  /\ w' = IF source = w.pending
          THEN ReconcileIfNeeded([w EXCEPT !.power = source, !.stable = source,
                                           !.pending = "none"])
          ELSE [w EXCEPT !.power = source, !.pending = "none"]
  /\ UNCHANGED <<osVars, source, user>>

ConfirmFails ==
  /\ w.pc = "loop" /\ w.pending # "none"
  /\ Fails
  /\ \E power \in {w.power, "unknown"} : w' = [w EXCEPT !.power = power, !.pending = "none"]
  /\ UNCHANGED <<alive, born, os, gpu, ledger, history, source, user>>

-----------------------------------------------------------------------------
(* Taking everything back *)

RestoreNext(p) ==
  /\ w.pc = "restore" /\ p \in w.todo
  /\ \/ (RestoreDone(p, {"auto"}) \/ RestoreNothing(p, {"auto"})) /\ w' = [w EXCEPT !.todo = @ \ {p}]
     \/ RestoreFails(p, {"auto"}) /\ w' = [w EXCEPT !.todo = @ \ {p}, !.failed = TRUE]
  /\ UNCHANGED <<source, user>>

\* restore_automatic looks at what is left, and its caller goes on.
RestoreEnds ==
  /\ LedgerFree /\ w.pc = "restore" /\ w.todo = {}
  /\ LET x == [w EXCEPT !.managed = [p \in Pids |-> IF p \in AutoHeld THEN @[p] ELSE 0]]
     IN w' = CASE w.after = "refresh" -> FinishRefresh(x)
               [] w.after = "failed"  -> AfterRefresh(x)
               [] w.after = "same"    -> StartRead(x, "message")
               [] w.after = "mode"    -> StartRead([x EXCEPT !.mode = "off", !.pending = "none",
                                                             !.due = FALSE], "message")
               [] w.after = "stop"    -> [x EXCEPT !.pc = "stopped", !.mode = "off"]
  /\ UNCHANGED <<osVars, source, user>>

\* "Off" restores again even when it is the mode already.
SetMode(m) ==
  /\ w.pc = "loop"
  /\ w' = IF m = "off" THEN StartRestore(w, IF w.mode = "off" THEN "same" ELSE "mode")
          ELSE IF w.mode = m THEN StartRead(w, "message")
          ELSE StartRead([w EXCEPT !.mode = m, !.pending = "none", !.due = FALSE],
                         "message")
  /\ UNCHANGED <<osVars, source, user>>

RefreshAsked ==
  /\ w.pc = "loop"
  /\ w' = StartRead(w, "message")
  /\ UNCHANGED <<osVars, source, user>>

\* What it knows of the power source is not read again.
Shutdown ==
  /\ w.pc = "loop"
  /\ w' = StartRestore([w EXCEPT !.power = "none", !.stable = "unknown", !.pending = "none",
                                 !.due = FALSE], "stop")
  /\ UNCHANGED <<osVars, source, user>>

-----------------------------------------------------------------------------
(* reconcile_processes: a snapshot of the processes, then what left, then what came *)

IsEligible(p) == w.list[p] # 0 /\ p \notin w.unread /\ <<p, w.list[p]>> \notin Ineligible

StartScan ==
  /\ LedgerFree /\ w.pc = "loop" /\ w.due /\ w.mode = "battery" /\ w.stable = "battery"
  /\ w' = [w EXCEPT !.pc = "old", !.list = alive,
                    !.held = AutoHeld, !.todo = ManagedPids(w)]
  /\ UNCHANGED <<osVars, source, user>>

\* The path or creation time of a living process cannot be read.
StartScanUnread(p) ==
  /\ LedgerFree /\ w.pc = "loop" /\ w.due /\ w.mode = "battery" /\ w.stable = "battery"
  /\ alive[p] # 0 /\ Fails
  /\ w' = [w EXCEPT !.pc = "old", !.list = alive,
                    !.unread = {p}, !.held = AutoHeld, !.todo = ManagedPids(w)]
  /\ UNCHANGED <<alive, born, os, gpu, ledger, history, source, user>>

ScanFails ==
  /\ w.pc = "loop" /\ w.due /\ w.mode = "battery" /\ w.stable = "battery"
  /\ Fails
  /\ UNCHANGED <<alive, born, os, gpu, ledger, history, source, w, user>>

Matches(p) == p \notin w.unread /\ w.list[p] = w.managed[p]

Forget_kept(p) == w' = [w EXCEPT !.todo = @ \ {p}]

Forget(p) == w' = [w EXCEPT !.todo = @ \ {p}, !.managed[p] = 0]

\* Gone, or what looks like another process under its id: drop the entry.
ScanDiscards(p) ==
  /\ w.pc = "old" /\ p \in w.todo
  /\ w.list[p] = 0 \/ ~Matches(p)
  /\ Discard(p)
  /\ Forget(p)
  /\ UNCHANGED <<source, user>>

ScanKeeps(p) ==
  /\ w.pc = "old" /\ p \in w.todo
  /\ Matches(p) /\ IsEligible(p) /\ p \in w.held
  /\ w' = [w EXCEPT !.todo = @ \ {p}]
  /\ UNCHANGED <<osVars, source, user>>

\* No longer the worker's: taken over by the user, or not eligible.
ScanReleases(p) ==
  /\ w.pc = "old" /\ p \in w.todo
  /\ Matches(p) /\ w.list[p] # 0 /\ ~(IsEligible(p) /\ p \in w.held)
  /\ \/ (RestoreDone(p, {"auto"}) \/ RestoreNothing(p, {"auto"})) /\ Forget(p)
     \/ RestoreFails(p, {"auto"}) /\ w' = [w EXCEPT !.todo = @ \ {p}]
  /\ UNCHANGED <<source, user>>

ScanTurns ==
  /\ w.pc = "old" /\ w.todo = {}
  /\ w' = [w EXCEPT !.pc = "new", !.todo = {p \in Pids : IsEligible(p) /\ w.managed[p] = 0}]
  /\ UNCHANGED <<osVars, source, user>>

\* The process is remembered as the snapshot identified it.
Remember(p) == w' = [w EXCEPT !.pc = "new", !.todo = @ \ {p}, !.managed[p] = w.list[p]]
PassBy(p) == w' = [w EXCEPT !.pc = "new", !.todo = @ \ {p}]

ScanApplies(p) ==
  /\ w.pc = "new" /\ p \in w.todo
  /\ \/ ApplyCaptures(p, "auto") /\ w' = [w EXCEPT !.pc = "write"]
     \/ ApplyUnchanged(p, "auto") /\ Remember(p)
     \/ (ApplySkipped(p, "auto") \/ ApplyRefused(p, "auto")) /\ PassBy(p)
  /\ UNCHANGED <<source, user>>

ScanWrites(p) ==
  /\ w.pc = "write"
  /\ \/ ApplyDone(p, "auto") /\ Remember(p)
     \/ ApplyStops(p, "auto") /\ w' = [w EXCEPT !.pc = "undo"]
  /\ UNCHANGED <<source, user>>

ScanUndoes(p) ==
  /\ w.pc = "undo"
  /\ ApplyRolledBack(p) \/ ApplyStuck(p, "auto")
  /\ PassBy(p)
  /\ UNCHANGED <<source, user>>

ScanEnds ==
  /\ w.pc = "new" /\ w.todo = {}
  /\ w' = Idle(w)
  /\ UNCHANGED <<osVars, source, user>>

-----------------------------------------------------------------------------
(* A user of the handle: `apply` takes the mutex once to look for an automatic *)
(* owner, once to release the target and once to apply                         *)

UserApply(p) ==
  /\ LedgerFree /\ user.pc = "idle"
  /\ user' = [pc |-> IF active[p].owner = "auto" THEN "release" ELSE "apply", todo |-> {p}]
  /\ UNCHANGED <<osVars, source, w>>

UserReleases(p) ==
  /\ user.pc = "release" /\ p \in user.todo
  /\ \/ (RestoreDone(p, {"auto"}) \/ RestoreNothing(p, {"auto"})) /\ user' = [user EXCEPT !.pc = "apply"]
     \/ RestoreFails(p, {"auto"}) /\ user' = [pc |-> "idle", todo |-> {}]
  /\ UNCHANGED <<source, w>>

UserApplies(p) ==
  /\ user.pc = "apply" /\ p \in user.todo
  /\ \/ ApplyCaptures(p, "manual") /\ user' = [user EXCEPT !.pc = "write"]
     \/ ApplyRefused(p, "manual") /\ user' = [pc |-> "idle", todo |-> {}]
  /\ UNCHANGED <<source, w>>

UserWrites(p) ==
  /\ user.pc = "write"
  /\ \/ ApplyDone(p, "manual") /\ user' = [pc |-> "idle", todo |-> {}]
     \/ ApplyStops(p, "manual") /\ user' = [user EXCEPT !.pc = "undo"]
  /\ UNCHANGED <<source, w>>

UserUndoes(p) ==
  /\ user.pc = "undo"
  /\ ApplyRolledBack(p) \/ ApplyStuck(p, "manual")
  /\ user' = [pc |-> "idle", todo |-> {}]
  /\ UNCHANGED <<source, w>>

\* `restore` takes the user's own target; `restore_all` goes through all targets one by
\* one, whoever holds them.
UserRestores(p) ==
  /\ user.pc = "idle"
  /\ \E owners \in {{"manual"}, {"manual", "auto"}} : RestoreDone(p, owners) \/ RestoreFails(p, owners)
  /\ UNCHANGED <<source, w, user>>

-----------------------------------------------------------------------------
World ==
  \/ \E p \in Pids : ProcessExits(p) /\ UNCHANGED <<source, w, user>>
  \/ \E p \in Pids : ProcessStarts(p) /\ UNCHANGED <<source, w, user>>
  \/ \E p \in Pids, k \in Knobs : ProcessAdjusts(p, k) /\ UNCHANGED <<source, w, user>>
  \/ /\ source' \in Sources \ {source}
     /\ UNCHANGED <<osVars, w, user>>

Inside ==
  \/ ReadPower \/ ReadPowerUnknown \/ ReadPowerFails \/ RestoreEnds \/ ScanTurns \/ ScanEnds
  \/ \E p \in Pids : RestoreNext(p) \/ ScanDiscards(p) \/ ScanKeeps(p) \/ ScanReleases(p)
                     \/ ScanApplies(p) \/ ScanWrites(p) \/ ScanUndoes(p)

Worker ==
  \/ Inside
  \/ RefreshDue \/ ConfirmSource \/ ConfirmFails
  \/ StartScan \/ ScanFails \/ \E p \in Pids : StartScanUnread(p)
  \/ \E m \in {"off", "battery"} : SetMode(m)
  \/ RefreshAsked
  \/ Shutdown

UserCall == \E p \in Pids : UserWrites(p) \/ UserUndoes(p)

User ==
  \/ \E p \in Pids : UserApply(p) \/ UserReleases(p) \/ UserApplies(p) \/ UserRestores(p)
  \/ UserCall

Next == World \/ Worker \/ User

Spec == Init /\ [][Next]_vars

\* A call with the ledger taken returns, and a worker that waits for the ledger gets it;
\* its deadlines pass again and again whatever messages arrive, so each due branch of
\* the loop is taken again and again.
FairSpec ==
  Spec /\ WF_vars(UserCall) /\ SF_vars(Inside)
       /\ SF_vars(RefreshDue) /\ SF_vars(ConfirmSource) /\ SF_vars(StartScan)

-----------------------------------------------------------------------------
(* Properties *)

ByPhelper == {"eco", "user"}

\* A living process that carries a value phelper wrote is on the ledger with what it
\* had before, and held or in a request under way, whatever failed, whoever took over
\* and however often its id was reused.  Left out are a process whose entry was
\* discarded while it lived and one that was written because it got the id between a
\* request's capture and its write (README, section 6).
NothingLeftBehind ==
  \A p \in Pids :
    (/\ alive[p] # 0 /\ p \notin lost \cup strays
     /\ \E k \in Knobs : os[p][k] \in ByPhelper) =>
      /\ baseline[p].id = alive[p] /\ (active[p].owner # "none" \/ UnderWay(p))
      /\ \A k \in Knobs : baseline[p].knobs[k] \notin ByPhelper

\* No step of the worker changes a target the user holds, neither the process nor
\* the ledger, although the worker decides on a snapshot taken before.
ManualWins ==
  [][w' # w => \A p \in Pids : active[p].owner = "manual" =>
       os'[p] = os[p] /\ active'[p] = active[p] /\ baseline'[p] = baseline[p]]_vars

\* A process the ledger does not describe is changed by nobody but itself: nothing
\* captured from an earlier process with its id is written to it, by a restore or by
\* the rollback of a request that the id was reused under.  Left out is the write of
\* such a request itself, which does not look at the process (README, section 6).
ReusedPidUntouched ==
  [][\A p \in Pids :
       (/\ alive[p] # 0 /\ alive'[p] = alive[p] /\ p \notin strays' \ strays
        /\ alive[p] \notin {baseline[p].id, baseline'[p].id})
         => \A k \in Knobs : os'[p][k] \in {os[p][k], "own"}]_vars

\* A worker whose last restores all succeeded leaves no process behind, not even one
\* it does not count among its managed ones because the first write on it failed.
StoppedReleasedAll == (w.pc = "stopped" /\ ~w.failed) => AutoHeld = {}

\* Off battery for good, every managed process that still lives gets its settings back.
OffBatteryReleases ==
  <>[](source = "ac" /\ w.pc # "stopped")
    => <>[](\A p \in ManagedPids(w) : alive[p] # baseline[p].id)

\* On battery for good, in battery mode, every eligible process the ledger can take is
\* held again and again (a user may restore it in between).
BatteryTakesOver ==
  \A p \in Pids :
    <>[](/\ source = "battery" /\ w.mode = "battery" /\ w.pc # "stopped"
         /\ alive[p] # 0 /\ <<p, alive[p]>> \notin Ineligible /\ SameProcess(p))
      => []<>(active[p].owner # "none")

=============================================================================
