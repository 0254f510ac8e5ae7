------------------------------ MODULE OsPolicy ------------------------------
(***************************************************************************)
(* The ledger of Windows scheduling policies (platform/windows_os_policy.rs *)
(* with its handle): what phelper changed on a process, for whom, and what  *)
(* the process had before.  The manual client and the automatic scheduler   *)
(* share one ledger behind one mutex.  Processes end and start whether it is *)
(* held or not, so a request is a step for each time it opens its target:   *)
(* capture, write by id, and the rollback if the write stopped.  A restore  *)
(* checks and writes through one open handle, and is one step.              *)
(*                                                                          *)
(* Simplifications: a target is a process (a thread differs in the knobs it *)
(* has and is identified by its owner); all processes run one executable,   *)
(* the case in which they share a GPU preference and only the creation time *)
(* tells a reused PID; a process is identified by its number in `born`.     *)
(***************************************************************************)
EXTENDS Naturals, Sequences, FiniteSets

CONSTANTS
  Pids,          \* process ids
  MaxBorn,       \* bound: processes started per id
  MaxFaults,     \* bound: failures of requests whose target lives
  SelfSet,       \* <<number, knob>>: what a process (or its user) may change by itself
  ManualWrites   \* knobs of the user's policy, in the order they are written

ASSUME OsPolicyAssumption ==
  /\ MaxBorn \in Nat \ {0} /\ MaxFaults \in Nat
  /\ SelfSet \subseteq (1..MaxBorn) \X {"sets", "qos", "priority"}
  /\ ManualWrites \in Seq({"sets", "qos", "priority", "gpu"})

VARIABLES
  alive,      \* the process behind each id, 0 when there is none
  born,       \* processes started behind each id so far
  os,         \* scheduling knobs of the living process
  gpu,        \* the executable's GPU preference in the registry
  baseline,   \* the ledger: what a target had before phelper touched it
  active,     \* the ledger: who holds a policy on which process
  gpuBase,    \* the executable's original preference, shared by its targets
  retry,      \* targets whose last rollback failed (`recovery_pending`)
  before,     \* what the request that holds the mutex captured
  strays,     \* history: ids whose process was written as another one's
  lost,       \* history: ids whose process was dropped from the ledger alive
  faults      \* failures still to come

osVars == <<alive, born, os, gpu, baseline, active, gpuBase, retry, before, strays,
           lost, faults>>

Knobs == {"sets", "qos", "priority"}
Values == {"orig", "eco", "user", "own"}
Fresh == [k \in Knobs |-> "orig"]
None == [owner |-> "none", id |-> 0]
NoBaseline == [id |-> 0, knobs |-> Fresh, gpu |-> "orig"]
NoGpuBase == "none"
NoRequest == [id |-> 0, knobs |-> Fresh, gpu |-> "orig", first |-> FALSE, firstGpu |-> FALSE]

\* The battery policy writes CPU sets and QoS; the user's is a constant.
Writes(owner) == IF owner = "auto" THEN <<"sets", "qos">> ELSE ManualWrites
Value(owner) == IF owner = "auto" THEN "eco" ELSE "user"
HasGpu(owner) == \E i \in DOMAIN Writes(owner) : Writes(owner)[i] = "gpu"

OsTypeOK ==
  /\ alive \in [Pids -> 0..MaxBorn]
  /\ born \in [Pids -> 0..MaxBorn]
  /\ os \in [Pids -> [Knobs -> Values]]
  /\ gpu \in Values
  /\ baseline \in [Pids -> [id : 0..MaxBorn, knobs : [Knobs -> Values], gpu : Values]]
  /\ active \in [Pids -> [owner : {"none", "auto", "manual"}, id : 0..MaxBorn]]
  /\ gpuBase \in Values \cup {NoGpuBase}
  /\ retry \subseteq Pids
  /\ before \in [Pids -> [id : 0..MaxBorn, knobs : [Knobs -> Values], gpu : Values,
                          first : BOOLEAN, firstGpu : BOOLEAN]]
  /\ strays \subseteq Pids /\ lost \subseteq Pids
  /\ faults \in 0..MaxFaults

OsInit ==
  /\ alive = [p \in Pids |-> 1]
  /\ born = [p \in Pids |-> 1]
  /\ os = [p \in Pids |-> Fresh]
  /\ gpu = "orig"
  /\ baseline = [p \in Pids |-> NoBaseline]
  /\ active = [p \in Pids |-> None]
  /\ gpuBase = NoGpuBase
  /\ retry = {}
  /\ before = [p \in Pids |-> NoRequest]
  /\ strays = {} /\ lost = {}
  /\ faults = MaxFaults

-----------------------------------------------------------------------------
(* The world *)

ledger == <<baseline, active, gpuBase, retry, before>>
history == <<strays, lost>>

\* Nobody is between two steps of a request: the mutex can be taken.
LedgerFree == \A p \in Pids : before[p].id = 0

ProcessExits(p) ==
  /\ alive[p] # 0
  /\ alive' = [alive EXCEPT ![p] = 0]
  /\ os' = [os EXCEPT ![p] = Fresh]
  /\ strays' = strays \ {p} /\ lost' = lost \ {p}
  /\ UNCHANGED <<born, gpu, ledger, faults>>

ProcessStarts(p) ==
  /\ alive[p] = 0 /\ born[p] < MaxBorn
  /\ alive' = [alive EXCEPT ![p] = born[p] + 1]
  /\ born' = [born EXCEPT ![p] = @ + 1]
  /\ UNCHANGED <<os, gpu, ledger, history, faults>>

\* A program adjusts itself, or its user does.
ProcessAdjusts(p, k) ==
  /\ alive[p] # 0 /\ <<alive[p], k>> \in SelfSet
  /\ os' = [os EXCEPT ![p][k] = "own"]
  /\ os' # os
  /\ UNCHANGED <<alive, born, gpu, ledger, history, faults>>

Fails == faults > 0 /\ faults' = faults - 1

-----------------------------------------------------------------------------
(* Writing knobs of a living process *)

\* `apply_process` stops at the first failing call: n knobs have been written.
Written(p, owner, n) ==
  [k \in Knobs |-> IF \E i \in 1..n : Writes(owner)[i] = k THEN Value(owner) ELSE os[p][k]]

GpuWritten(owner, n) ==
  IF \E i \in 1..n : Writes(owner)[i] = "gpu" THEN Value(owner) ELSE gpu

\* `restore_process_handle` writes every captured knob, whatever the policy had
\* set, goes on past a failing one and reports the first error.
Restored(knobs, saved, failing) ==
  [k \in Knobs |-> IF k \in failing THEN knobs[k] ELSE saved[k]]

-----------------------------------------------------------------------------
(* apply_owned: the request before it opens the target to write *)

\* The live state, with the executable's original GPU preference if another
\* target of the ledger already changed it.
Captured(p, owner) ==
  [id |-> alive[p], knobs |-> os[p],
   gpu |-> IF HasGpu(owner) /\ gpuBase # NoGpuBase THEN gpuBase ELSE gpu]

SameProcess(p) == baseline[p].id \in {0, alive[p]}

\* The automatic side finds the user's policy.
ApplySkipped(p, owner) ==
  /\ LedgerFree
  /\ owner = "auto" /\ active[p].owner = "manual"
  /\ UNCHANGED osVars

\* No process, a process the baseline does not describe, or one that cannot be read.
ApplyRefused(p, owner) ==
  /\ LedgerFree
  /\ ~(owner = "auto" /\ active[p].owner = "manual")
  /\ \/ /\ alive[p] = 0 \/ ~SameProcess(p)
        /\ UNCHANGED osVars
     \/ /\ Fails
        /\ UNCHANGED <<alive, born, os, gpu, ledger, history>>

Acceptable(p, owner) ==
  /\ LedgerFree
  /\ ~(owner = "auto" /\ active[p].owner = "manual")
  /\ alive[p] # 0 /\ SameProcess(p)

AlreadyHeld(p, owner) == owner = "auto" /\ active[p].owner = "auto" /\ p \notin retry

ApplyUnchanged(p, owner) ==
  /\ Acceptable(p, owner) /\ AlreadyHeld(p, owner)
  /\ UNCHANGED osVars

KeepBaseline_everyTime(p, owner) == baseline' = [baseline EXCEPT ![p] = Captured(p, owner)]

\* The baseline is captured once and kept until the target is restored.
KeepBaseline(p, owner) ==
  baseline' = IF baseline[p].id = 0
              THEN [baseline EXCEPT ![p] = Captured(p, owner)] ELSE baseline

\* The handle that was read is closed again; the mutex stays taken.
ApplyCaptures(p, owner) ==
  /\ Acceptable(p, owner) /\ ~AlreadyHeld(p, owner)
  /\ before' = [before EXCEPT ![p] =
       [id |-> alive[p], knobs |-> os[p], gpu |-> gpu, first |-> baseline[p].id = 0,
        firstGpu |-> HasGpu(owner) /\ gpuBase = NoGpuBase]]
  /\ KeepBaseline(p, owner)
  /\ gpuBase' = IF HasGpu(owner) /\ gpuBase = NoGpuBase THEN gpu ELSE gpuBase
  /\ UNCHANGED <<alive, born, os, gpu, active, retry, history, faults>>

-----------------------------------------------------------------------------
(* apply_owned: the write, and the rollback when it stopped *)

UnderWay(p) == before[p].id # 0

\* The id is opened again and not compared: whoever has it now is written.
WritesFirst(p, owner, n) ==
  /\ alive[p] # 0
  /\ os' = [os EXCEPT ![p] = Written(p, owner, n)]
  /\ gpu' = GpuWritten(owner, n)
  /\ strays' = IF n > 0 /\ alive[p] # before[p].id THEN strays \cup {p} ELSE strays

Identified_byPath(p, id) == alive[p] # 0

\* verify_process_identity: the same path and the same creation time.
Identified(p, id) == alive[p] = id

Own(p, owner) == active' = [active EXCEPT ![p] = [owner |-> owner, id |-> before[p].id]]

Answers(p) == before' = [before EXCEPT ![p] = NoRequest]

ApplyDone(p, owner) ==
  /\ UnderWay(p) /\ WritesFirst(p, owner, Len(Writes(owner)))
  /\ Own(p, owner) /\ Answers(p)
  /\ retry' = retry \ {p}
  /\ UNCHANGED <<alive, born, baseline, gpuBase, lost, faults>>

\* The process is gone, or a call fails.
ApplyStops(p, owner) ==
  /\ UnderWay(p)
  /\ \/ alive[p] = 0 /\ UNCHANGED <<os, gpu, strays, faults>>
     \/ /\ Fails
        /\ \E n \in 0..(Len(Writes(owner)) - 1) : WritesFirst(p, owner, n)
  /\ UNCHANGED <<alive, born, baseline, active, gpuBase, retry, before, lost>>

\* The rollback identifies the process again: it goes back to the state just before
\* the request, and what the request had added to the ledger goes.
ApplyRolledBack(p) ==
  /\ UnderWay(p) /\ Identified(p, before[p].id)
  /\ os' = [os EXCEPT ![p] = before[p].knobs]
  /\ gpu' = before[p].gpu
  /\ baseline' = IF before[p].first THEN [baseline EXCEPT ![p] = NoBaseline] ELSE baseline
  /\ gpuBase' = IF before[p].firstGpu THEN NoGpuBase ELSE gpuBase
  /\ retry' = retry \ {p}
  /\ Answers(p)
  /\ UNCHANGED <<alive, born, active, history, faults>>

\* The process is another one or gone, or what stopped the write stops the rollback
\* too: the target stays in the ledger to be restored later.
ApplyStuck(p, owner) ==
  /\ UnderWay(p)
  /\ \/ ~Identified(p, before[p].id) /\ UNCHANGED <<os, gpu>>
     \/ /\ Identified(p, before[p].id)
        /\ \E failing \in SUBSET Knobs, gpuFails \in BOOLEAN :
             /\ failing # {} \/ gpuFails
             /\ os' = [os EXCEPT ![p] = Restored(os[p], before[p].knobs, failing)]
             /\ gpu' = IF gpuFails THEN gpu ELSE before[p].gpu
  /\ Own(p, owner) /\ Answers(p)
  /\ retry' = retry \cup {p}
  /\ UNCHANGED <<alive, born, baseline, gpuBase, history, faults>>

-----------------------------------------------------------------------------
(* restore_owned: owners is who may hold the target *)

Restorable_anyOwner(p, owners) == active[p].owner # "none" /\ baseline[p].id # 0

Restorable(p, owners) == active[p].owner \in owners /\ baseline[p].id # 0

\* Another owner's target, or nothing to restore: answered Ok(false).
RestoreNothing(p, owners) ==
  /\ LedgerFree /\ ~Restorable(p, owners)
  /\ UNCHANGED osVars

\* The shared preference stays while another target of the executable has one.
RestoresGpu(p) ==
  \/ ~HasGpu(active[p].owner)
  \/ ~\E q \in Pids \ {p} : active[q].owner # "none" /\ HasGpu(active[q].owner)

StillThere(p) == Identified(p, baseline[p].id)

RestoreDone(p, owners) ==
  /\ LedgerFree /\ Restorable(p, owners) /\ StillThere(p)
  /\ os' = [os EXCEPT ![p] = baseline[p].knobs]
  /\ gpu' = IF RestoresGpu(p) THEN baseline[p].gpu ELSE gpu
  /\ gpuBase' = IF RestoresGpu(p) /\ HasGpu(active[p].owner) THEN NoGpuBase ELSE gpuBase
  /\ baseline' = [baseline EXCEPT ![p] = NoBaseline]
  /\ active' = [active EXCEPT ![p] = None]
  /\ retry' = retry \ {p}
  /\ UNCHANGED <<alive, born, before, history, faults>>

\* The process is gone, another one has its id, or a call fails: the ledger stays.
RestoreFails(p, owners) ==
  /\ LedgerFree /\ Restorable(p, owners)
  /\ \/ ~StillThere(p) /\ UNCHANGED osVars
     \/ /\ StillThere(p) /\ Fails
        /\ \E failing \in SUBSET Knobs, gpuFails \in BOOLEAN :
             /\ failing # {} \/ gpuFails
             /\ os' = [os EXCEPT ![p] = Restored(os[p], baseline[p].knobs, failing)]
             /\ gpu' = IF RestoresGpu(p) /\ ~gpuFails THEN baseline[p].gpu ELSE gpu
        /\ UNCHANGED <<alive, born, ledger, history>>

\* `discard_automatic`: no write, the caller saw the process end.
Discard(p) ==
  /\ LedgerFree
  /\ IF active[p].owner = "auto"
     THEN /\ active' = [active EXCEPT ![p] = None]
          /\ baseline' = [baseline EXCEPT ![p] = NoBaseline]
          /\ retry' = retry \ {p}
          /\ lost' = IF StillThere(p) THEN lost \cup {p} ELSE lost
     ELSE UNCHANGED <<active, baseline, retry, lost>>
  /\ UNCHANGED <<alive, born, os, gpu, gpuBase, before, strays, faults>>

=============================================================================
