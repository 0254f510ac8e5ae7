----------------------- MODULE BatteryScheduler_proofs -----------------------
(***************************************************************************)
(* The scheduling ledger under the battery worker and a user, for any ids,  *)
(* numbers of processes and failures.                                       *)
(*                                                                          *)
(* NothingLeftBehind looks at the living processes only; what makes it hold *)
(* is that a number is given to one process (NumberIsFresh), that a target  *)
(* has a baseline exactly while somebody holds it or asks for it            *)
(* (HeldHasBaseline), that a request stands on the baseline it captured     *)
(* (RequestMatches), and that a baseline is captured from knobs phelper has *)
(* not written (ChangedIsOnLedger, BaselineIsClean).  A request is two or   *)
(* three steps, so one of the two may be inside one (Calls).                *)
(* StoppedReleasedAll needs in addition what a running restore still has to *)
(* do (RestoreCovers).                                                      *)
(***************************************************************************)
EXTENDS BatteryScheduler, TLAPS

Clean(knobs) == \A k \in Knobs : knobs[k] \notin ByPhelper

-----------------------------------------------------------------------------
(* The ledger beside the processes *)

\* A number is given to one process only: a new one is none that the ledger knows.
NumberIsFresh(p) ==
  /\ alive[p] \in {0, born[p]}
  /\ baseline[p].id <= born[p]
  /\ alive[p] = 0 => os[p] = Fresh

\* A target has a baseline exactly while somebody holds it or asks for it.
HeldHasBaseline(p) == baseline[p].id # 0 <=> active[p].owner # "none" \/ UnderWay(p)

\* A request stands on the baseline, which it captured itself if nobody held the target.
RequestMatches(p) ==
  UnderWay(p) =>
    /\ baseline[p].id = before[p].id
    /\ before[p].first <=> active[p].owner = "none"
    /\ before[p].first => before[p].knobs = baseline[p].knobs

\* What phelper has not written yet, and what it would write back, is not its own; the
\* exceptions are the ones NothingLeftBehind names.
Excused(p) == p \in lost \cup strays
OnLedger(p) == baseline[p].id = alive[p] /\ (active[p].owner # "none" \/ UnderWay(p))
ChangedIsOnLedger(p) == alive[p] # 0 /\ ~Excused(p) => OnLedger(p) \/ Clean(os[p])
BaselineIsClean(p) ==
  baseline[p].id # 0 /\ baseline[p].id = alive[p] /\ ~Excused(p) => Clean(baseline[p].knobs)

LedgerAt(p) ==
  /\ NumberIsFresh(p) /\ HeldHasBaseline(p) /\ RequestMatches(p)
  /\ ChangedIsOnLedger(p) /\ BaselineIsClean(p)

OneRequest == \A p, q \in Pids : UnderWay(p) /\ UnderWay(q) => p = q

LedgerInv == OneRequest /\ \A p \in Pids : LedgerAt(p)

\* Who is inside a request has the mutex: it is one of the two, and the target is none
\* the user holds if it is the worker.  A request that wrote another process than it
\* captured is at its rollback.
InCall(x) == x.pc \in {"write", "undo"}
Calls ==
  /\ ~(InCall(w) /\ InCall(user))
  /\ InCall(w) \/ InCall(user) => ~LedgerFree
  /\ InCall(w) => \A p \in Pids : UnderWay(p) => active[p].owner # "manual"
  /\ \A p \in strays : UnderWay(p) /\ alive[p] # before[p].id => "undo" \in {w.pc, user.pc}

\* While everything is taken back, what is not yet is still to do or has failed.
RestoreCovers ==
  /\ w.pc = "restore" => w.after # "loop" /\ (w.failed \/ AutoHeld \subseteq w.todo)
  /\ w.pc = "stopped" => w.failed \/ AutoHeld = {}

SchedulerInv == TypeOK /\ LedgerInv /\ Calls /\ RestoreCovers

-----------------------------------------------------------------------------
(* One step of a call of the handle *)

\* It reaches the target it is about and no other.
OnlyAt(p) ==
  \A q \in Pids \ {p} :
    /\ alive'[q] = alive[q] /\ born'[q] = born[q] /\ os'[q] = os[q]
    /\ baseline'[q] = baseline[q] /\ active'[q] = active[q] /\ before'[q] = before[q]
    /\ q \in lost' <=> q \in lost
    /\ q \in strays' <=> q \in strays

Owners == {"auto", "manual"}
Requests(p, owner) ==
  \/ ApplySkipped(p, owner) \/ ApplyRefused(p, owner) \/ ApplyUnchanged(p, owner)
  \/ ApplyCaptures(p, owner) \/ ApplyDone(p, owner) \/ ApplyStops(p, owner)
  \/ ApplyRolledBack(p) \/ ApplyStuck(p, owner)
Restores(p, owners) == RestoreNothing(p, owners) \/ RestoreDone(p, owners) \/ RestoreFails(p, owners)

LEMMA FailsTypes == ASSUME faults \in 0..MaxFaults, Fails PROVE faults' \in 0..MaxFaults
  BY OsPolicyAssumption DEF Fails

\* It is enough to look at the target a step is about.
LEMMA ElsewhereKept ==
  ASSUME LedgerInv, NEW p \in Pids, OnlyAt(p), LedgerAt(p)',
         UnderWay(p)' => UnderWay(p) \/ LedgerFree
  PROVE  LedgerInv'
  <1>1. ASSUME NEW q \in Pids, q # p
        PROVE  LedgerAt(q)'
    BY <1>1 DEF OnlyAt, LedgerInv, LedgerAt, NumberIsFresh, HeldHasBaseline, RequestMatches,
                ChangedIsOnLedger, BaselineIsClean, Excused, OnLedger, UnderWay, Clean
  <1>2. OneRequest'
    BY DEF OnlyAt, LedgerInv, OneRequest, UnderWay, LedgerFree
  <1> QED BY <1>1, <1>2 DEF LedgerInv

\* A step that leaves the processes and the ledger alone.
LEMMA NothingMoved ==
  ASSUME LedgerInv, UNCHANGED <<alive, born, os, baseline, active, before, history>>
  PROVE  LedgerInv' /\ \A p \in Pids : OnlyAt(p)
  <1>1. \A p \in Pids : LedgerAt(p)'
    BY DEF history, LedgerInv, LedgerAt, NumberIsFresh, HeldHasBaseline, RequestMatches,
           ChangedIsOnLedger, BaselineIsClean, Excused, OnLedger, UnderWay, Clean
  <1>2. OneRequest'
    BY DEF LedgerInv, OneRequest, UnderWay
  <1> QED BY <1>1, <1>2 DEF LedgerInv, OnlyAt, history

\* The parts of OsTypeOK, and what they say of one target.
Captures == [id : 0..MaxBorn, knobs : [Knobs -> Values], gpu : Values]
Held == [owner : {"none", "auto", "manual"}, id : 0..MaxBorn]
Request == [id : 0..MaxBorn, knobs : [Knobs -> Values], gpu : Values,
            first : BOOLEAN, firstGpu : BOOLEAN]

LEMMA OsTyped ==
  OsTypeOK <=> /\ alive \in [Pids -> 0..MaxBorn] /\ born \in [Pids -> 0..MaxBorn]
               /\ os \in [Pids -> [Knobs -> Values]] /\ gpu \in Values
               /\ baseline \in [Pids -> Captures] /\ active \in [Pids -> Held]
               /\ gpuBase \in Values \cup {NoGpuBase} /\ retry \subseteq Pids
               /\ before \in [Pids -> Request] /\ strays \subseteq Pids /\ lost \subseteq Pids
               /\ faults \in 0..MaxFaults
  BY DEF OsTypeOK, Captures, Held, Request

LEMMA EmptyTypes ==
  /\ NoBaseline \in Captures /\ NoBaseline.id = 0
  /\ None \in Held /\ None.owner = "none"
  /\ NoRequest \in Request /\ NoRequest.id = 0
  /\ Fresh \in [Knobs -> Values] /\ Clean(Fresh)
  <1>1. Fresh \in [Knobs -> Values] /\ Clean(Fresh)
    BY DEF Fresh, Values, Clean, ByPhelper
  <1> QED BY <1>1, OsPolicyAssumption
          DEF NoBaseline, None, NoRequest, Captures, Held, Request, Values

LEMMA WrittenTypes ==
  ASSUME OsTypeOK, NEW p \in Pids, NEW owner \in Owners, NEW n \in Nat
  PROVE  Written(p, owner, n) \in [Knobs -> Values] /\ GpuWritten(owner, n) \in Values
  <1>1. Value(owner) \in Values
    BY DEF Value, Values
  <1>2. os[p] \in [Knobs -> Values] /\ gpu \in Values
    BY DEF OsTypeOK
  <1> QED BY <1>1, <1>2 DEF Written, GpuWritten

\* The capture puts the target on the ledger before anything is written.
LEMMA CapturesKeep ==
  ASSUME OsTypeOK, LedgerInv, NEW p \in Pids, NEW owner \in Owners, ApplyCaptures(p, owner)
  PROVE  OsTypeOK' /\ LedgerInv' /\ OnlyAt(p)
  <1> DEFINE r == [id |-> alive[p], knobs |-> os[p], gpu |-> gpu, first |-> baseline[p].id = 0,
                   firstGpu |-> HasGpu(owner) /\ gpuBase = NoGpuBase]
  <1>0. /\ OsTypeOK /\ alive[p] \in 0..MaxBorn /\ os[p] \in [Knobs -> Values] /\ gpu \in Values
        /\ gpuBase \in Values \cup {NoGpuBase}
        /\ baseline \in [Pids -> Captures] /\ before \in [Pids -> Request]
        /\ alive[p] # 0 /\ SameProcess(p) /\ LedgerFree /\ KeepBaseline(p, owner)
        /\ UNCHANGED <<alive, born, os, gpu, active, retry, history, faults>>
    BY OsTyped DEF ApplyCaptures, Acceptable
  <1>1. PICK b1 \in BOOLEAN, b2 \in BOOLEAN :
           /\ b1 = (baseline[p].id = 0) /\ b2 = (HasGpu(owner) /\ gpuBase = NoGpuBase)
    OBVIOUS
  <1>2. r \in Request /\ r.id = alive[p] /\ r.knobs = os[p] /\ (r.first <=> baseline[p].id = 0)
    <2>1. r = [id |-> alive[p], knobs |-> os[p], gpu |-> gpu, first |-> b1, firstGpu |-> b2]
      BY <1>1
    <2> QED BY <1>0, <1>1, <2>1 DEF Request
  <1>3. /\ before' \in [Pids -> Request] /\ before'[p] = r
        /\ \A q \in Pids \ {p} : before'[q] = before[q]
    <2>1. before' = [before EXCEPT ![p] = r]
      BY DEF ApplyCaptures
    <2> QED BY <1>0, <1>2, <2>1
  <1>4. Captured(p, owner) \in Captures /\ Captured(p, owner).id = alive[p]
        /\ Captured(p, owner).knobs = os[p]
    BY <1>0 DEF Captured, Captures
  <1>5. /\ baseline' \in [Pids -> Captures]
        /\ baseline'[p] = IF baseline[p].id = 0 THEN Captured(p, owner) ELSE baseline[p]
        /\ \A q \in Pids \ {p} : baseline'[q] = baseline[q]
    BY <1>0, <1>4 DEF KeepBaseline
  <1>6. gpuBase' \in Values \cup {NoGpuBase}
    BY <1>0 DEF ApplyCaptures
  <1>7. baseline'[p].id = alive[p] /\ UnderWay(p)' /\ ~UnderWay(p)
    BY <1>0, <1>2, <1>3, <1>4, <1>5 DEF SameProcess, UnderWay, LedgerFree
  <1>8. LedgerAt(p)'
    <2>0. LedgerAt(p)
      BY DEF LedgerInv
    <2>1. NumberIsFresh(p)'
      BY <1>0, <1>7, <2>0, OsTyped DEF LedgerAt, NumberIsFresh
    <2>2. HeldHasBaseline(p)'
      BY <1>0, <1>7 DEF HeldHasBaseline
    <2>3. RequestMatches(p)'
      BY <1>0, <1>2, <1>3, <1>4, <1>5, <1>7, <2>0
      DEF LedgerAt, HeldHasBaseline, RequestMatches
    <2>4. ChangedIsOnLedger(p)'
      BY <1>0, <1>7 DEF ChangedIsOnLedger, OnLedger
    <2>5. BaselineIsClean(p)'
      <3>1. baseline[p].id = 0 /\ ~Excused(p) => Clean(os[p])
        BY <1>0, <2>0 DEF LedgerAt, ChangedIsOnLedger, OnLedger
      <3>2. Excused(p)' <=> Excused(p)
        BY <1>0 DEF Excused, history
      <3>3. baseline'[p].knobs = IF baseline[p].id = 0 THEN os[p] ELSE baseline[p].knobs
        BY <1>4, <1>5
      <3>4. baseline[p].id = 0 \/ baseline[p].id = alive[p]
        BY <1>0 DEF SameProcess
      <3> QED BY <1>0, <1>7, <2>0, <3>1, <3>2, <3>3, <3>4 DEF LedgerAt, BaselineIsClean, Clean
    <2> QED BY <2>1, <2>2, <2>3, <2>4, <2>5 DEF LedgerAt
  <1>9. OnlyAt(p)
    BY <1>0, <1>3, <1>5 DEF OnlyAt, history
  <1> QED BY <1>0, <1>3, <1>5, <1>6, <1>8, <1>9, ElsewhereKept DEF history, OsTypeOK, Captures, Held, Request

\* A write leaves its target on the ledger, or marks the process it should not have met.
LEMMA WritesKeep ==
  ASSUME OsTypeOK, LedgerInv, NEW p \in Pids, NEW owner \in Owners, NEW n \in Nat,
         UnderWay(p), WritesFirst(p, owner, n),
         UNCHANGED <<alive, born, baseline, lost>>,
         \/ UNCHANGED <<active, before>>
         \/ Own(p, owner) /\ Answers(p)
  PROVE  /\ os' \in [Pids -> [Knobs -> Values]] /\ gpu' \in Values
         /\ active' \in [Pids -> Held] /\ before' \in [Pids -> Request] /\ strays' \subseteq Pids
         /\ LedgerInv' /\ OnlyAt(p)
  <1>0. /\ os \in [Pids -> [Knobs -> Values]] /\ active \in [Pids -> Held]
        /\ before \in [Pids -> Request] /\ strays \subseteq Pids /\ alive[p] # 0 /\ LedgerAt(p)
        /\ baseline[p].id = before[p].id /\ baseline[p].id # 0
    BY OsTyped DEF WritesFirst, LedgerInv, LedgerAt, RequestMatches, UnderWay
  <1>1. /\ os' \in [Pids -> [Knobs -> Values]] /\ gpu' \in Values
        /\ \A q \in Pids \ {p} : os'[q] = os[q]
        /\ os'[p] = Written(p, owner, n)
    BY <1>0, WrittenTypes DEF WritesFirst
  <1>2. /\ strays' \subseteq Pids /\ \A q \in Pids \ {p} : q \in strays' <=> q \in strays
        /\ p \in strays => p \in strays'
        /\ p \in strays' \/ alive[p] = before[p].id \/ n = 0
    BY <1>0 DEF WritesFirst
  <1>3. /\ active' \in [Pids -> Held] /\ before' \in [Pids -> Request]
        /\ \A q \in Pids \ {p} : active'[q] = active[q] /\ before'[q] = before[q]
        /\ \/ active'[p] = active[p] /\ before'[p] = before[p]
           \/ active'[p].owner # "none" /\ before'[p].id = 0
    <2>1. CASE UNCHANGED <<active, before>>
      BY <1>0, <2>1
    <2>2. CASE Own(p, owner) /\ Answers(p)
      <3>1. [owner |-> owner, id |-> before[p].id] \in Held /\ owner # "none"
        BY <1>0 DEF Held, Request, Owners
      <3>2. active' = [active EXCEPT ![p] = [owner |-> owner, id |-> before[p].id]]
            /\ before' = [before EXCEPT ![p] = NoRequest]
        BY <2>2 DEF Own, Answers
      <3> QED BY <1>0, <3>1, <3>2, EmptyTypes
    <2> QED BY <2>1, <2>2
  <1>4. n = 0 => os'[p] = os[p]
    BY <1>0, <1>1 DEF Written
  <1>5. OnlyAt(p)
    BY <1>1, <1>2, <1>3 DEF OnlyAt
  <1>6. LedgerAt(p)'
    <2>1. NumberIsFresh(p)' /\ HeldHasBaseline(p)' /\ RequestMatches(p)'
      BY <1>0, <1>3 DEF LedgerAt, NumberIsFresh, HeldHasBaseline, RequestMatches, UnderWay
    <2>2. ChangedIsOnLedger(p)'
      BY <1>0, <1>2, <1>3, <1>4
      DEF LedgerAt, ChangedIsOnLedger, OnLedger, Excused, UnderWay, Clean
    <2>3. BaselineIsClean(p)'
      BY <1>0, <1>2 DEF LedgerAt, BaselineIsClean, Excused
    <2> QED BY <2>1, <2>2, <2>3 DEF LedgerAt
  <1> QED BY <1>1, <1>2, <1>3, <1>5, <1>6, ElsewhereKept

\* The rollback finds the process it captured, and what it had is back.
LEMMA RolledBackKeeps ==
  ASSUME OsTypeOK, LedgerInv, NEW p \in Pids, ApplyRolledBack(p)
  PROVE  OsTypeOK' /\ LedgerInv' /\ OnlyAt(p)
  <1>0. /\ os \in [Pids -> [Knobs -> Values]] /\ baseline \in [Pids -> Captures]
        /\ before \in [Pids -> Request] /\ before[p] \in Request /\ LedgerAt(p)
        /\ alive[p] = before[p].id /\ before[p].id # 0 /\ baseline[p].id = before[p].id
        /\ gpuBase \in Values \cup {NoGpuBase} /\ retry \subseteq Pids
        /\ UNCHANGED <<alive, born, active, history, faults>>
    BY OsTyped DEF ApplyRolledBack, Identified, LedgerInv, LedgerAt, RequestMatches, UnderWay
  <1>1. /\ os' \in [Pids -> [Knobs -> Values]] /\ os'[p] = before[p].knobs
        /\ \A q \in Pids \ {p} : os'[q] = os[q]
    BY <1>0 DEF ApplyRolledBack, Request
  <1>2. /\ baseline' \in [Pids -> Captures]
        /\ baseline'[p] = IF before[p].first THEN NoBaseline ELSE baseline[p]
        /\ \A q \in Pids \ {p} : baseline'[q] = baseline[q]
    BY <1>0, EmptyTypes DEF ApplyRolledBack
  <1>3. /\ before' \in [Pids -> Request] /\ before'[p].id = 0
        /\ \A q \in Pids \ {p} : before'[q] = before[q]
    BY <1>0, EmptyTypes DEF ApplyRolledBack, Answers
  <1>4. gpu' \in Values /\ gpuBase' \in Values \cup {NoGpuBase} /\ retry' \subseteq Pids
    BY <1>0 DEF ApplyRolledBack, Request
  <1>5. LedgerAt(p)'
    <2>1. NumberIsFresh(p)' /\ HeldHasBaseline(p)' /\ RequestMatches(p)'
      BY <1>0, <1>2, <1>3, EmptyTypes, OsTyped
      DEF LedgerAt, NumberIsFresh, HeldHasBaseline, RequestMatches, UnderWay
    <2>2. ChangedIsOnLedger(p)'
      <3>1. CASE before[p].first
        <4>1. os'[p] = baseline[p].knobs
          BY <1>0, <1>1, <3>1 DEF LedgerAt, RequestMatches, UnderWay
        <4> QED BY <1>0, <4>1 DEF LedgerAt, BaselineIsClean, ChangedIsOnLedger, Excused, history, Clean
      <3>2. CASE ~before[p].first
        BY <1>0, <1>2, <3>2
        DEF LedgerAt, RequestMatches, UnderWay, ChangedIsOnLedger, OnLedger
      <3> QED BY <3>1, <3>2
    <2>3. BaselineIsClean(p)'
      BY <1>0, <1>2, EmptyTypes DEF LedgerAt, BaselineIsClean, Excused, history
    <2> QED BY <2>1, <2>2, <2>3 DEF LedgerAt
  <1>6. OnlyAt(p) /\ ~UnderWay(p)'
    BY <1>0, <1>1, <1>2, <1>3 DEF OnlyAt, history, UnderWay
  <1> QED BY <1>0, <1>1, <1>2, <1>3, <1>4, <1>5, <1>6, ElsewhereKept DEF history, OsTypeOK, Captures, Held, Request

\* A rollback that fails leaves the target on the ledger.
LEMMA StuckKeeps ==
  ASSUME OsTypeOK, LedgerInv, NEW p \in Pids, NEW owner \in Owners, ApplyStuck(p, owner)
  PROVE  OsTypeOK' /\ LedgerInv' /\ OnlyAt(p)
  <1>0. /\ os \in [Pids -> [Knobs -> Values]] /\ active \in [Pids -> Held]
        /\ before \in [Pids -> Request] /\ before[p] \in Request /\ LedgerAt(p)
        /\ before[p].id # 0 /\ baseline[p].id = before[p].id
        /\ gpu \in Values /\ retry \subseteq Pids
        /\ UNCHANGED <<alive, born, baseline, gpuBase, history, faults>>
    BY OsTyped DEF ApplyStuck, LedgerInv, LedgerAt, RequestMatches, UnderWay
  <1>1. /\ os' \in [Pids -> [Knobs -> Values]] /\ gpu' \in Values
        /\ \A q \in Pids \ {p} : os'[q] = os[q]
        /\ os'[p] = os[p] \/ alive[p] = before[p].id
    <2>1. CASE UNCHANGED <<os, gpu>>
      BY <1>0, <2>1
    <2>2. ASSUME NEW failing \in SUBSET Knobs, NEW gpuFails \in BOOLEAN, alive[p] = before[p].id,
                 os' = [os EXCEPT ![p] = Restored(os[p], before[p].knobs, failing)],
                 gpu' = IF gpuFails THEN gpu ELSE before[p].gpu
          PROVE  /\ os' \in [Pids -> [Knobs -> Values]] /\ gpu' \in Values
                 /\ \A q \in Pids \ {p} : os'[q] = os[q]
      <3>1. Restored(os[p], before[p].knobs, failing) \in [Knobs -> Values] /\ before[p].gpu \in Values
        BY <1>0 DEF Restored, Request
      <3> QED BY <1>0, <2>2, <3>1
    <2> QED BY <2>1, <2>2 DEF ApplyStuck, Identified
  <1>2. /\ active' \in [Pids -> Held] /\ before' \in [Pids -> Request]
        /\ \A q \in Pids \ {p} : active'[q] = active[q] /\ before'[q] = before[q]
        /\ active'[p].owner # "none" /\ before'[p].id = 0
    <2>1. [owner |-> owner, id |-> before[p].id] \in Held /\ owner # "none"
      BY <1>0 DEF Held, Request, Owners
    <2>2. active' = [active EXCEPT ![p] = [owner |-> owner, id |-> before[p].id]]
          /\ before' = [before EXCEPT ![p] = NoRequest]
      BY DEF ApplyStuck, Own, Answers
    <2> QED BY <1>0, <2>1, <2>2, EmptyTypes
  <1>3. LedgerAt(p)'
    <2>1. HeldHasBaseline(p)' /\ RequestMatches(p)'
      BY <1>0, <1>2 DEF LedgerAt, HeldHasBaseline, RequestMatches, UnderWay
    <2>2. NumberIsFresh(p)'
      BY <1>0, <1>1 DEF LedgerAt, NumberIsFresh
    <2>3. ChangedIsOnLedger(p)'
      BY <1>0, <1>1, <1>2
      DEF LedgerAt, ChangedIsOnLedger, OnLedger, Excused, history, UnderWay, Clean
    <2>4. BaselineIsClean(p)'
      BY <1>0 DEF LedgerAt, BaselineIsClean, Excused, history
    <2> QED BY <2>1, <2>2, <2>3, <2>4 DEF LedgerAt
  <1>4. OnlyAt(p) /\ ~UnderWay(p)' /\ retry' \subseteq Pids
    BY <1>0, <1>1, <1>2 DEF ApplyStuck, OnlyAt, history, UnderWay
  <1> QED BY <1>0, <1>1, <1>2, <1>3, <1>4, ElsewhereKept DEF history, OsTypeOK, Captures, Held, Request

LEMMA RequestsKeep ==
  ASSUME OsTypeOK, LedgerInv, NEW p \in Pids, NEW owner \in Owners, Requests(p, owner)
  PROVE  OsTypeOK' /\ LedgerInv' /\ OnlyAt(p)
  <1>1. CASE ApplySkipped(p, owner) \/ ApplyRefused(p, owner) \/ ApplyUnchanged(p, owner)
    <2>1. UNCHANGED <<alive, born, os, gpu, ledger, history>> /\ faults' \in 0..MaxFaults
      BY <1>1, FailsTypes, OsTyped
      DEF ApplySkipped, ApplyRefused, ApplyUnchanged, osVars, ledger, history
    <2> QED BY <2>1, NothingMoved DEF OsTypeOK, ledger, history
  <1>2. CASE ApplyDone(p, owner)
    <2>1. Len(Writes(owner)) \in Nat
      BY OsPolicyAssumption DEF Writes
    <2>2. /\ os' \in [Pids -> [Knobs -> Values]] /\ gpu' \in Values
          /\ active' \in [Pids -> Held] /\ before' \in [Pids -> Request] /\ strays' \subseteq Pids
          /\ LedgerInv' /\ OnlyAt(p)
      BY <1>2, <2>1, WritesKeep DEF ApplyDone
    <2> QED BY <1>2, <2>2 DEF ApplyDone, OsTypeOK, Captures, Held, Request
  <1>3. CASE ApplyStops(p, owner)
    <2>1. CASE UNCHANGED <<os, gpu, strays, faults>>
      BY <1>3, <2>1, NothingMoved DEF ApplyStops, history, OsTypeOK
    <2>2. ASSUME Fails, NEW n \in 0..(Len(Writes(owner)) - 1), WritesFirst(p, owner, n)
          PROVE  OsTypeOK' /\ LedgerInv' /\ OnlyAt(p)
      <3>1. n \in Nat
        BY OsPolicyAssumption DEF Writes
      <3>2. /\ os' \in [Pids -> [Knobs -> Values]] /\ gpu' \in Values
            /\ active' \in [Pids -> Held] /\ before' \in [Pids -> Request] /\ strays' \subseteq Pids
            /\ LedgerInv' /\ OnlyAt(p)
        BY <1>3, <2>2, <3>1, WritesKeep DEF ApplyStops
      <3> QED BY <1>3, <2>2, <3>2, FailsTypes DEF ApplyStops, OsTypeOK, Captures, Held, Request
    <2> QED BY <1>3, <2>1, <2>2 DEF ApplyStops
  <1> QED BY <1>1, <1>2, <1>3, CapturesKeep, RolledBackKeeps, StuckKeeps DEF Requests

\* A target is taken off the ledger, its process written with what it had or left alone.
LEMMA GivenBackKeeps ==
  ASSUME OsTypeOK, LedgerInv, LedgerFree, NEW p \in Pids, UNCHANGED <<alive, born, before, strays>>,
         \/ lost' = lost /\ baseline[p].id = alive[p] /\ os' = [os EXCEPT ![p] = baseline[p].knobs]
         \/ os' = os /\ lost' = IF baseline[p].id = alive[p] THEN lost \cup {p} ELSE lost,
         baseline[p].id # 0,
         baseline' = [baseline EXCEPT ![p] = NoBaseline], active' = [active EXCEPT ![p] = None]
  PROVE  /\ LedgerInv' /\ OnlyAt(p) /\ active'[p] = None
         /\ os' \in [Pids -> [Knobs -> Values]] /\ lost' \subseteq Pids
         /\ baseline' \in [Pids -> Captures] /\ active' \in [Pids -> Held]
  <1>0. /\ os \in [Pids -> [Knobs -> Values]] /\ lost \subseteq Pids
        /\ baseline \in [Pids -> Captures] /\ active \in [Pids -> Held] /\ born[p] \in 0..MaxBorn
        /\ baseline[p].knobs \in [Knobs -> Values] /\ LedgerAt(p) /\ before[p].id = 0
    BY OsTyped DEF Captures, LedgerInv, LedgerFree
  <1>1. /\ baseline' \in [Pids -> Captures] /\ baseline'[p].id = 0
        /\ active' \in [Pids -> Held] /\ active'[p] = None /\ active'[p].owner = "none"
        /\ os' \in [Pids -> [Knobs -> Values]] /\ lost' \subseteq Pids
        /\ \A q \in Pids \ {p} : /\ baseline'[q] = baseline[q] /\ active'[q] = active[q]
                                 /\ os'[q] = os[q] /\ (q \in lost' <=> q \in lost)
    BY <1>0, EmptyTypes
  <1>2. LedgerAt(p)'
    <2>1. HeldHasBaseline(p)' /\ RequestMatches(p)' /\ BaselineIsClean(p)'
      BY <1>0, <1>1 DEF HeldHasBaseline, RequestMatches, UnderWay, BaselineIsClean
    <2>2. NumberIsFresh(p)'
      BY <1>0, <1>1 DEF LedgerAt, NumberIsFresh
    <2>3. ChangedIsOnLedger(p)'
      <3>1. CASE lost' = lost /\ baseline[p].id = alive[p] /\ os' = [os EXCEPT ![p] = baseline[p].knobs]
        <4>1. os'[p] = baseline[p].knobs
          BY <1>0, <3>1
        <4> QED BY <3>1, <4>1, <1>0 DEF LedgerAt, BaselineIsClean, ChangedIsOnLedger, Excused, Clean
      <3>2. CASE os' = os /\ lost' = IF baseline[p].id = alive[p] THEN lost \cup {p} ELSE lost
        BY <1>0, <3>2 DEF LedgerAt, ChangedIsOnLedger, OnLedger, Excused, Clean
      <3> QED BY <3>1, <3>2
    <2> QED BY <2>1, <2>2, <2>3 DEF LedgerAt
  <1>3. OnlyAt(p)
    BY <1>1 DEF OnlyAt
  <1>4. ~UnderWay(p)'
    BY <1>0 DEF UnderWay
  <1> QED BY <1>1, <1>2, <1>3, <1>4, ElsewhereKept

LEMMA RestoresKeep ==
  ASSUME OsTypeOK, LedgerInv, NEW p \in Pids, NEW owners \in SUBSET Owners, Restores(p, owners)
  PROVE  OsTypeOK' /\ LedgerInv' /\ OnlyAt(p)
  <1>0. /\ baseline[p] \in Captures /\ os \in [Pids -> [Knobs -> Values]] /\ gpu \in Values
        /\ LedgerAt(p)
    BY OsTyped DEF LedgerInv
  <1>1. CASE UNCHANGED osVars
    BY <1>1, NothingMoved DEF osVars, history, OsTypeOK
  <1>2. CASE RestoreDone(p, owners)
    <2>1. /\ LedgerInv' /\ OnlyAt(p) /\ os' \in [Pids -> [Knobs -> Values]] /\ lost' \subseteq Pids
          /\ baseline' \in [Pids -> Captures] /\ active' \in [Pids -> Held]
      BY <1>2, GivenBackKeeps DEF RestoreDone, Restorable, StillThere, Identified, history
    <2>2. gpu' \in Values /\ gpuBase' \in Values \cup {NoGpuBase} /\ retry' \subseteq Pids
      BY <1>0, <1>2, OsTyped DEF RestoreDone, Captures
    <2> QED BY <1>2, <2>1, <2>2 DEF RestoreDone, history, OsTypeOK, Captures, Held, Request
  <1>3. ASSUME RestoreFails(p, owners), StillThere(p)
        PROVE  OsTypeOK' /\ LedgerInv' /\ OnlyAt(p)
    <2>1. PICK failing \in SUBSET Knobs, gpuFails \in BOOLEAN :
             /\ os' = [os EXCEPT ![p] = Restored(os[p], baseline[p].knobs, failing)]
             /\ gpu' = IF RestoresGpu(p) /\ ~gpuFails THEN baseline[p].gpu ELSE gpu
      BY <1>3 DEF RestoreFails
    <2>2. Restored(os[p], baseline[p].knobs, failing) \in [Knobs -> Values] /\ gpu' \in Values
      BY <1>0, <2>1 DEF Restored, Captures
    <2>3. /\ os' \in [Pids -> [Knobs -> Values]]
          /\ \A q \in Pids \ {p} : os'[q] = os[q]
      BY <1>0, <2>1, <2>2
    <2>4. /\ OnLedger(p) /\ alive[p] # 0 /\ UNCHANGED <<alive, born, ledger, history>> /\ Fails
      BY <1>0, <1>3 DEF RestoreFails, Restorable, StillThere, Identified, LedgerAt, HeldHasBaseline,
                        OnLedger
    <2>5. LedgerAt(p)'
      BY <1>0, <2>4 DEF ledger, history, LedgerAt, NumberIsFresh, HeldHasBaseline, RequestMatches,
                        ChangedIsOnLedger, BaselineIsClean, Excused, OnLedger, UnderWay
    <2>6. OnlyAt(p) /\ (UnderWay(p)' => UnderWay(p))
      BY <2>3, <2>4 DEF OnlyAt, ledger, history, UnderWay
    <2> QED BY <2>2, <2>3, <2>4, <2>5, <2>6, ElsewhereKept, FailsTypes
            DEF ledger, history, OsTypeOK, Captures, Held, Request
  <1>4. RestoreNothing(p, owners) \/ (RestoreFails(p, owners) /\ ~StillThere(p)) => UNCHANGED osVars
    BY DEF RestoreNothing, RestoreFails
  <1> QED BY <1>1, <1>2, <1>3, <1>4 DEF Restores

LEMMA DiscardKeeps ==
  ASSUME OsTypeOK, LedgerInv, NEW p \in Pids, Discard(p)
  PROVE  OsTypeOK' /\ LedgerInv' /\ OnlyAt(p)
  <1>1. CASE active[p].owner = "auto"
    <2>1. baseline[p].id # 0
      BY <1>1 DEF LedgerInv, LedgerAt, HeldHasBaseline
    <2>2. /\ LedgerInv' /\ OnlyAt(p) /\ lost' \subseteq Pids
          /\ baseline' \in [Pids -> Captures] /\ active' \in [Pids -> Held]
      BY <1>1, <2>1, GivenBackKeeps DEF Discard, StillThere, Identified
    <2> QED BY <1>1, <2>2 DEF Discard, OsTypeOK, Captures, Held, Request
  <1>2. CASE active[p].owner # "auto"
    BY <1>2, NothingMoved DEF Discard, OsTypeOK, history
  <1> QED BY <1>1, <1>2

\* Processes come, go and adjust themselves.
LEMMA ProcessesKeep ==
  ASSUME OsTypeOK, LedgerInv, NEW p \in Pids,
         ProcessExits(p) \/ ProcessStarts(p) \/ \E k \in Knobs : ProcessAdjusts(p, k)
  PROVE  OsTypeOK' /\ LedgerInv' /\ OnlyAt(p) /\ UNCHANGED <<active, before>>
  <1>0. /\ os \in [Pids -> [Knobs -> Values]] /\ strays \subseteq Pids /\ lost \subseteq Pids
        /\ alive \in [Pids -> 0..MaxBorn] /\ born \in [Pids -> 0..MaxBorn]
        /\ baseline \in [Pids -> Captures] /\ LedgerAt(p) /\ born[p] \in 0..MaxBorn
        /\ UNCHANGED <<ledger, gpu, faults>> /\ baseline[p].id \in 0..MaxBorn
    BY OsTyped DEF ProcessExits, ProcessStarts, ProcessAdjusts, LedgerInv, Captures
  <1>1. CASE ProcessExits(p)
    <2>1. /\ alive' \in [Pids -> 0..MaxBorn] /\ alive'[p] = 0
          /\ os' \in [Pids -> [Knobs -> Values]] /\ os'[p] = Fresh
          /\ strays' \subseteq Pids /\ lost' \subseteq Pids /\ born' = born
          /\ \A q \in Pids \ {p} : /\ alive'[q] = alive[q] /\ os'[q] = os[q]
                                   /\ (q \in strays' <=> q \in strays) /\ (q \in lost' <=> q \in lost)
      BY <1>0, <1>1, EmptyTypes, OsPolicyAssumption DEF ProcessExits
    <2>2. LedgerAt(p)'
      BY <1>0, <2>1 DEF ledger, LedgerAt, NumberIsFresh, HeldHasBaseline, RequestMatches,
                        ChangedIsOnLedger, BaselineIsClean, UnderWay
    <2>3. OnlyAt(p) /\ (UnderWay(p)' => UnderWay(p))
      BY <1>0, <2>1 DEF OnlyAt, ledger, UnderWay
    <2> QED BY <1>0, <2>1, <2>2, <2>3, ElsewhereKept DEF ledger, OsTypeOK, Captures, Held, Request
  <1>2. CASE ProcessStarts(p)
    <2>1. /\ alive' \in [Pids -> 0..MaxBorn] /\ alive'[p] = born[p] + 1
          /\ born' \in [Pids -> 0..MaxBorn] /\ born'[p] = born[p] + 1 /\ os' = os /\ os[p] = Fresh
          /\ strays' = strays /\ lost' = lost
          /\ \A q \in Pids \ {p} : alive'[q] = alive[q] /\ born'[q] = born[q]
      BY <1>0, <1>2, OsPolicyAssumption DEF ProcessStarts, history, LedgerAt, NumberIsFresh
    <2>2. LedgerAt(p)'
      BY <1>0, <2>1, EmptyTypes
      DEF ledger, LedgerAt, NumberIsFresh, HeldHasBaseline, RequestMatches, ChangedIsOnLedger,
          BaselineIsClean, UnderWay
    <2>3. OnlyAt(p) /\ (UnderWay(p)' => UnderWay(p))
      BY <1>0, <2>1 DEF OnlyAt, ledger, UnderWay
    <2> QED BY <1>0, <2>1, <2>2, <2>3, ElsewhereKept DEF ledger, OsTypeOK, Captures, Held, Request
  <1>3. ASSUME NEW k \in Knobs, ProcessAdjusts(p, k)
        PROVE  OsTypeOK' /\ LedgerInv' /\ OnlyAt(p) /\ UNCHANGED <<active, before>>
    <2>1. /\ os' \in [Pids -> [Knobs -> Values]] /\ os'[p] = [os[p] EXCEPT ![k] = "own"]
          /\ \A q \in Pids \ {p} : os'[q] = os[q]
          /\ UNCHANGED <<alive, born, strays, lost>> /\ alive[p] # 0
      BY <1>0, <1>3 DEF ProcessAdjusts, Values, history
    <2>2. Clean(os[p]) => Clean(os'[p])
      BY <1>0, <2>1 DEF Clean, ByPhelper
    <2>3. LedgerAt(p)'
      BY <1>0, <2>1, <2>2
      DEF ledger, LedgerAt, NumberIsFresh, HeldHasBaseline, RequestMatches, ChangedIsOnLedger,
          BaselineIsClean, OnLedger, Excused, UnderWay
    <2>4. OnlyAt(p) /\ (UnderWay(p)' => UnderWay(p))
      BY <1>0, <2>1 DEF OnlyAt, ledger, UnderWay
    <2> QED BY <1>0, <2>1, <2>3, <2>4, ElsewhereKept DEF ledger, OsTypeOK, Captures, Held, Request
  <1> QED BY <1>1, <1>2, <1>3

-----------------------------------------------------------------------------
(* The worker *)

Workers ==
  [mode : {"off", "battery"}, power : Readings \cup {"none"}, stable : Readings,
   pending : {"none", "ac", "battery"}, due : BOOLEAN,
   managed : [Pids -> 0..MaxBorn],
   pc : {"loop", "read", "restore", "old", "new", "write", "undo", "stopped"},
   after : {"loop", "same", "mode", "refresh", "failed", "stop"},
   next : {"loop", "message"},
   todo : SUBSET Pids, failed : BOOLEAN,
   list : [Pids -> 0..MaxBorn], unread : SUBSET Pids, held : SUBSET Pids]

Takings == {"same", "mode", "refresh", "failed", "stop"}

\* What the loop's helpers make of the worker.
LEMMA NoOneTypes == NoOne \in [Pids -> 0..MaxBorn]
  BY OsPolicyAssumption DEF NoOne

LEMMA IdleTypes ==
  ASSUME NEW x \in Workers
  PROVE  Idle(x) \in Workers /\ Idle(x).pc = "loop"
  <1>1. PICK none \in [Pids -> 0..MaxBorn] : none = NoOne
    BY NoOneTypes
  <1>2. Idle(x) = [x EXCEPT !.pc = "loop", !.after = "loop", !.next = "loop", !.todo = {},
                            !.failed = FALSE, !.list = none, !.unread = {}, !.held = {}]
    BY <1>1 DEF Idle
  <1> QED BY ZenonT(60), <1>2 DEF Workers

LEMMA ReconcileTypes ==
  ASSUME NEW x \in Workers
  PROVE  ReconcileIfNeeded(x) \in Workers /\ ReconcileIfNeeded(x).pc = x.pc
  <1>1. PICK b \in BOOLEAN : b = (x.stable = "battery" /\ x.power \in {"none", x.stable})
    OBVIOUS
  <1>2. ReconcileIfNeeded(x) \in {x, [x EXCEPT !.due = b]}
    BY <1>1 DEF ReconcileIfNeeded
  <1> QED BY <1>2 DEF Workers

LEMMA RefreshTypes ==
  ASSUME NEW x \in Workers
  PROVE  /\ AfterRefresh(x) \in Workers /\ AfterRefresh(x).pc = "loop"
         /\ FinishRefresh(x) \in Workers /\ FinishRefresh(x).pc = "loop"
  <1>1. ASSUME NEW y \in Workers
        PROVE  AfterRefresh(y) \in Workers /\ AfterRefresh(y).pc = "loop"
    <2>1. PICK z \in Workers : AfterRefresh(y) = Idle(z)
      BY <1>1, ReconcileTypes DEF AfterRefresh
    <2> QED BY <2>1, IdleTypes
  <1>2. PICK y \in Workers : FinishRefresh(x) = AfterRefresh(y)
    <2> DEFINE confirmed == x.next = "message" /\ x.power = "battery"
               y == [x EXCEPT !.pending = IF x.power = x.stable \/ confirmed THEN "none"
                                          ELSE IF x.power # "unknown" THEN x.power ELSE x.pending,
                              !.stable = IF confirmed THEN "battery" ELSE x.stable]
    <2>1. CASE x.power # "none" \/ x.power = x.stable \/ confirmed
      <3>1. y \in Workers
        BY <2>1 DEF Workers, Readings, Sources
      <3> QED BY <3>1, ReconcileTypes DEF FinishRefresh
    <2>2. CASE x.power = "none"
      <3>1. y \in Workers
        BY <2>2 DEF Workers, Readings, Sources
      <3> QED BY <3>1, ReconcileTypes DEF FinishRefresh
    <2> QED BY <2>1, <2>2
  <1> QED BY <1>1, <1>2

LEMMA StartRestoreTypes ==
  ASSUME NEW x \in Workers, NEW a \in Takings
  PROVE  /\ StartRestore(x, a) \in Workers /\ StartRestore(x, a).pc = "restore"
         /\ StartRestore(x, a).after = a /\ StartRestore(x, a).todo = AutoHeld
  BY DEF StartRestore, Workers, Takings, AutoHeld

LEMMA StartReadTypes ==
  ASSUME NEW x \in Workers, NEW n \in {"loop", "message"}
  PROVE  StartRead(x, n) \in Workers /\ StartRead(x, n).pc = "read"
  <1>1. PICK y \in Workers : y = Idle(x)
    BY IdleTypes
  <1>2. StartRead(x, n) = [y EXCEPT !.pc = "read", !.next = n]
    BY <1>1 DEF StartRead
  <1> QED BY <1>2 DEF Workers

\* The worker's points: outside a restore there is nothing to cover, and one that
\* starts has everything before it.
Elsewhere == w'.pc \in {"loop", "read", "old", "new"}
Starts == UNCHANGED active /\ \E x \in Workers, a \in Takings : w' = StartRestore(x, a)

LEMMA RestoreStarts ==
  ASSUME UNCHANGED active, NEW x \in Workers, NEW a \in Takings, w' = StartRestore(x, a)
  PROVE  w' \in Workers /\ Starts
  BY StartRestoreTypes DEF Starts

LEMMA PointsCovered ==
  ASSUME w' \in Workers, Elsewhere \/ Starts
  PROVE  RestoreCovers' /\ ~InCall(w)'
  <1>1. CASE Elsewhere
    BY <1>1 DEF Elsewhere, RestoreCovers, InCall
  <1>2. CASE Starts
    BY <1>2, StartRestoreTypes DEF Starts, RestoreCovers, AutoHeld, Takings, InCall
  <1> QED BY <1>1, <1>2

\* Who else is at the ledger takes from the automatic targets, and adds none.
LEMMA StillCovered ==
  ASSUME RestoreCovers, w' = w, AutoHeld' \subseteq AutoHeld
  PROVE  RestoreCovers'
  BY DEF RestoreCovers

\* TypeOK with the two records by name.
Users == [pc : {"idle", "release", "apply", "write", "undo"}, todo : SUBSET Pids]
LEMMA Typed ==
  TypeOK <=> /\ OsTypeOK /\ source \in Sources /\ w \in Workers
             /\ user \in Users
  BY DEF TypeOK, Workers, Users

\* A step of the worker that leaves the ledger and the processes alone.
LedgerKept ==
  /\ UNCHANGED <<alive, born, os, gpu, ledger, history, user, source>>
  /\ faults' \in 0..MaxFaults
  /\ ~InCall(w)

LEMMA KeptKeeps ==
  ASSUME TypeOK, LedgerInv, Calls, LedgerKept, w' \in Workers, RestoreCovers', ~InCall(w)'
  PROVE  SchedulerInv'
  <1>1. LedgerInv'
    BY NothingMoved DEF LedgerKept, ledger
  <1>2. OsTypeOK'
    BY Typed DEF LedgerKept, ledger, history, OsTypeOK
  <1>3. TypeOK'
    BY <1>2 DEF TypeOK, LedgerKept, Workers
  <1>4. Calls'
    BY DEF Calls, LedgerKept, ledger, history, InCall, UnderWay, LedgerFree
  <1> QED BY <1>1, <1>3, <1>4 DEF SchedulerInv

LEMMA KeptByMostSteps ==
  ASSUME TypeOK, ~InCall(w),
         \/ UNCHANGED <<osVars, source, user>>
         \/ Fails /\ UNCHANGED <<alive, born, os, gpu, ledger, history, source, user>>
  PROVE  LedgerKept /\ UNCHANGED active
  BY FailsTypes DEF TypeOK, OsTypeOK, LedgerKept, osVars, ledger, history

LEMMA PowerReadKeeps ==
  ASSUME TypeOK, NEW now \in Readings, PowerRead(now), active' = active
  PROVE  w' \in Workers /\ (Elsewhere \/ Starts)
  <1> DEFINE x == [w EXCEPT !.power = now]
  <1>1. x \in Workers
    BY Typed DEF Workers
  <1>2. w' = StartRestore(x, "refresh") \/ w' = FinishRefresh(x)
    BY DEF PowerRead
  <1>3. w' = StartRestore(x, "refresh") => w' \in Workers /\ Starts
    BY <1>1, RestoreStarts DEF Takings
  <1>4. w' = FinishRefresh(x) => w' \in Workers /\ Elsewhere
    BY <1>1, RefreshTypes DEF Elsewhere
  <1> QED BY <1>2, <1>3, <1>4

LEMMA ReadsKeep ==
  ASSUME SchedulerInv, ReadPower \/ ReadPowerUnknown \/ ReadPowerFails \/ RefreshDue \/ RefreshAsked
  PROVE  SchedulerInv'
  <1>0. TypeOK /\ LedgerInv /\ Calls /\ w \in Workers /\ source \in Sources
    BY Typed DEF SchedulerInv
  <1>1. LedgerKept /\ UNCHANGED active
    BY <1>0, KeptByMostSteps
    DEF ReadPower, ReadPowerUnknown, ReadPowerFails, PowerRead, RefreshDue, RefreshAsked, InCall
  <1>2. w' \in Workers /\ (Elsewhere \/ Starts)
    <2>1. CASE ReadPower \/ ReadPowerUnknown
      BY <1>0, <1>1, <2>1, PowerReadKeeps DEF ReadPower, ReadPowerUnknown, Readings, Sources
    <2>2. CASE ReadPowerFails
      <3> DEFINE x == [w EXCEPT !.power = "none"]
      <3>1. x \in Workers
        BY <1>0 DEF Workers
      <3>2. w' = StartRestore(x, "failed") \/ w' = AfterRefresh(x)
        BY <2>2 DEF ReadPowerFails
      <3>3. w' = StartRestore(x, "failed") => w' \in Workers /\ Starts
        BY <1>1, <3>1, RestoreStarts DEF Takings
      <3>4. w' = AfterRefresh(x) => w' \in Workers /\ Elsewhere
        BY <3>1, RefreshTypes DEF Elsewhere
      <3> QED BY <3>2, <3>3, <3>4
    <2>3. CASE RefreshDue \/ RefreshAsked
      BY <1>0, <2>3, StartReadTypes DEF RefreshDue, RefreshAsked, Elsewhere
    <2> QED BY <2>1, <2>2, <2>3
  <1> QED BY <1>0, <1>1, <1>2, PointsCovered, KeptKeeps

LEMMA ConfirmKeeps ==
  ASSUME SchedulerInv, ConfirmSource \/ ConfirmFails
  PROVE  SchedulerInv'
  <1>0. TypeOK /\ LedgerInv /\ Calls /\ w \in Workers /\ source \in Sources /\ w.pc = "loop"
    BY Typed DEF SchedulerInv, ConfirmSource, ConfirmFails
  <1>1. LedgerKept /\ UNCHANGED active
    BY <1>0, KeptByMostSteps DEF ConfirmSource, ConfirmFails, InCall
  <1>2. w' \in Workers /\ Elsewhere
    <2>1. CASE ConfirmSource
      <3> DEFINE x == [w EXCEPT !.power = source, !.stable = source, !.pending = "none"]
      <3>1. x \in Workers /\ x.pc = "loop"
        BY <1>0 DEF Workers, Readings
      <3>2. w' = ReconcileIfNeeded(x) \/ w' = [w EXCEPT !.power = source, !.pending = "none"]
        BY <2>1 DEF ConfirmSource
      <3>3. CASE w' = ReconcileIfNeeded(x)
        BY <3>1, <3>3, ReconcileTypes DEF Elsewhere
      <3>4. CASE w' = [w EXCEPT !.power = source, !.pending = "none"]
        BY <1>0, <3>4 DEF Elsewhere, Workers, Readings
      <3> QED BY <3>2, <3>3, <3>4
    <2>2. CASE ConfirmFails
      BY ZenonT(60), <1>0, <2>2 DEF ConfirmFails, Elsewhere, Workers, Readings
    <2> QED BY <2>1, <2>2
  <1> QED BY <1>0, <1>1, <1>2, PointsCovered, KeptKeeps

LEMMA SetModeKeeps ==
  ASSUME SchedulerInv, Shutdown \/ \E m \in {"off", "battery"} : SetMode(m)
  PROVE  SchedulerInv'
  <1> DEFINE y == [w EXCEPT !.power = "none", !.stable = "unknown", !.pending = "none",
                           !.due = FALSE]
  <1>0. TypeOK /\ LedgerInv /\ Calls /\ w \in Workers /\ y \in Workers
    <2>1. TypeOK /\ LedgerInv /\ Calls /\ w \in Workers
      BY Typed DEF SchedulerInv
    <2> QED BY <2>1 DEF Workers, Readings
  <1>1. LedgerKept /\ UNCHANGED active
    BY <1>0, KeptByMostSteps DEF SetMode, Shutdown, InCall
  <1>2. CASE \E x \in Workers, a \in Takings : w' = StartRestore(x, a)
    BY <1>0, <1>1, <1>2, RestoreStarts, PointsCovered, KeptKeeps
  <1>3. CASE \E x \in Workers : w' = StartRead(x, "message")
    BY <1>0, <1>1, <1>3, StartReadTypes, PointsCovered, KeptKeeps DEF Elsewhere
  <1>4. ASSUME NEW m \in {"off", "battery"}, SetMode(m)
        PROVE  \/ \E x \in Workers, a \in Takings : w' = StartRestore(x, a)
               \/ \E x \in Workers : w' = StartRead(x, "message")
    <2> DEFINE x == [w EXCEPT !.mode = m, !.pending = "none", !.due = FALSE]
    <2>1. x \in Workers
      BY <1>0 DEF Workers
    <2>2. \/ w' = StartRestore(w, "same") \/ w' = StartRestore(w, "mode")
          \/ w' = StartRead(w, "message") \/ w' = StartRead(x, "message")
      BY <1>4 DEF SetMode
    <2> QED BY <1>0, <2>1, <2>2 DEF Takings
  <1>5. Shutdown => \E x \in Workers, a \in Takings : w' = StartRestore(x, a)
    BY <1>0 DEF Shutdown, Takings
  <1> QED BY <1>2, <1>3, <1>4, <1>5

LEMMA ScanPointsKeep ==
  ASSUME SchedulerInv, StartScan \/ ScanFails \/ (\E p \in Pids : StartScanUnread(p)) \/ ScanTurns
                       \/ ScanEnds \/ \E p \in Pids : ScanKeeps(p)
  PROVE  SchedulerInv'
  <1>0. TypeOK /\ LedgerInv /\ Calls /\ w \in Workers /\ alive \in [Pids -> 0..MaxBorn]
    BY Typed DEF SchedulerInv, OsTypeOK
  <1>1. LedgerKept
    BY <1>0, KeptByMostSteps
    DEF StartScan, ScanFails, StartScanUnread, ScanTurns, ScanEnds, ScanKeeps, InCall
  <1>2. w' \in Workers /\ Elsewhere
    <2>1. CASE StartScan \/ \E p \in Pids : StartScanUnread(p)
      <3>1. PICK u \in SUBSET Pids, h \in SUBSET Pids, t \in SUBSET Pids :
               w' = [w EXCEPT !.pc = "old", !.list = alive, !.unread = u, !.held = h, !.todo = t]
        <4>1. CASE StartScan
          <5>1. w' = [w EXCEPT !.pc = "old", !.list = alive, !.unread = w.unread, !.held = AutoHeld,
                               !.todo = ManagedPids(w)]
            BY <1>0, <4>1 DEF StartScan, Workers
          <5> QED BY <1>0, <5>1 DEF Workers, AutoHeld, ManagedPids
        <4>2. ASSUME NEW p \in Pids, StartScanUnread(p)
              PROVE  \E u, h, t \in SUBSET Pids :
                       w' = [w EXCEPT !.pc = "old", !.list = alive, !.unread = u, !.held = h, !.todo = t]
          <5>1. {p} \in SUBSET Pids /\ AutoHeld \in SUBSET Pids /\ ManagedPids(w) \in SUBSET Pids
            BY DEF AutoHeld, ManagedPids
          <5>2. w' = [w EXCEPT !.pc = "old", !.list = alive, !.unread = {p}, !.held = AutoHeld,
                               !.todo = ManagedPids(w)]
            BY <4>2 DEF StartScanUnread
          <5> QED BY <5>1, <5>2
        <4> QED BY <2>1, <4>1, <4>2
      <3> QED BY <1>0, <3>1 DEF Workers, Elsewhere
    <2>2. CASE ScanFails
      BY <1>0, <2>2 DEF ScanFails, Elsewhere
    <2>3. CASE ScanTurns \/ \E p \in Pids : ScanKeeps(p)
      <3>1. PICK t \in SUBSET Pids : \/ w' = [w EXCEPT !.pc = "new", !.todo = t]
                                     \/ w.pc = "old" /\ w' = [w EXCEPT !.todo = t]
        BY <1>0, <2>3 DEF ScanTurns, ScanKeeps, Workers
      <3> QED BY ZenonT(60), <1>0, <3>1 DEF Workers, Elsewhere
    <2>4. CASE ScanEnds
      BY <1>0, <2>4, IdleTypes DEF ScanEnds, Elsewhere
    <2> QED BY <2>1, <2>2, <2>3, <2>4
  <1> QED BY <1>0, <1>1, <1>2, PointsCovered, KeptKeeps

\* Nobody is inside a request while the ledger is free, and a request that is answered
\* frees it.
LEMMA FreeCalls ==
  ASSUME strays' \subseteq Pids, LedgerFree', ~InCall(w)', ~InCall(user)'
  PROVE  Calls'
  <1>1. \A q \in Pids : ~UnderWay(q)'
    BY DEF LedgerFree, UnderWay
  <1> QED BY <1>1 DEF Calls

LEMMA AnswerFrees ==
  ASSUME LedgerInv, NEW p \in Pids, UnderWay(p), OnlyAt(p), before'[p].id = 0
  PROVE  LedgerFree'
  BY DEF LedgerInv, OneRequest, OnlyAt, UnderWay, LedgerFree

\* A request's first step by one of the two, seen from the other.
LEMMA CaptureCalls ==
  ASSUME OsTypeOK, NEW p \in Pids, NEW owner \in Owners, ApplyCaptures(p, owner),
         InCall(w)' => owner = "auto", ~(InCall(w)' /\ InCall(user)')
  PROVE  Calls'
  <1>1. /\ before'[p].id = alive[p] /\ alive[p] # 0 /\ LedgerFree
        /\ \A q \in Pids \ {p} : before'[q] = before[q]
        /\ UNCHANGED <<alive, active, strays>> /\ strays \subseteq Pids
        /\ owner = "auto" => active[p].owner # "manual"
    <2> DEFINE r == [id |-> alive[p], knobs |-> os[p], gpu |-> gpu,
                     first |-> baseline[p].id = 0,
                     firstGpu |-> HasGpu(owner) /\ gpuBase = NoGpuBase]
    <2>1. before' = [before EXCEPT ![p] = r]
      BY DEF ApplyCaptures
    <2>2. r.id = alive[p]
      OBVIOUS
    <2> HIDE DEF r
    <2> QED BY <2>1, <2>2, OsTyped DEF ApplyCaptures, Acceptable, history
  <1>2. \A q \in Pids : UnderWay(q)' => q = p
    BY <1>1 DEF UnderWay, LedgerFree
  <1>3. ~LedgerFree'
    BY <1>1 DEF LedgerFree
  <1> QED BY <1>1, <1>2, <1>3 DEF Calls

\* Everything is taken back when nothing is left to do and nothing failed.
LEMMA RestoreEndsKeeps ==
  ASSUME SchedulerInv, RestoreEnds
  PROVE  SchedulerInv'
  <1>0. TypeOK /\ LedgerInv /\ Calls /\ w \in Workers /\ RestoreCovers
    BY Typed DEF SchedulerInv
  <1>1. LedgerKept /\ UNCHANGED active
    BY <1>0, KeptByMostSteps DEF RestoreEnds, InCall
  <1> DEFINE x == [w EXCEPT !.managed = [p \in Pids |-> IF p \in AutoHeld THEN @[p] ELSE 0]]
             y == [x EXCEPT !.mode = "off", !.pending = "none", !.due = FALSE]
             z == [x EXCEPT !.pc = "stopped", !.mode = "off"]
  <1>2. x \in Workers
    <2>1. PICK m \in [Pids -> 0..MaxBorn] :
             m = [p \in Pids |-> IF p \in AutoHeld THEN w.managed[p] ELSE 0]
      <3>1. w.managed \in [Pids -> 0..MaxBorn] /\ 0 \in 0..MaxBorn
        BY <1>0, OsPolicyAssumption DEF Workers
      <3> QED BY <3>1
    <2>2. x = [w EXCEPT !.managed = m]
      BY <2>1
    <2> QED BY <1>0, <2>2 DEF Workers
  <1>3. y \in Workers /\ z \in Workers /\ z.pc = "stopped" /\ z.failed = w.failed
    BY ZenonT(60), <1>0, <1>2 DEF Workers
  <1>4. w.pc = "restore" /\ w.after \in Takings /\ (w.failed \/ AutoHeld = {})
    BY <1>0 DEF RestoreEnds, RestoreCovers, Workers, Takings
  <1>5. \/ w' \in {FinishRefresh(x), AfterRefresh(x), StartRead(x, "message"), StartRead(y, "message")}
        \/ w' = z
    BY <1>4 DEF RestoreEnds, Takings
  <1>6. CASE w' = z
    <2>1. RestoreCovers' /\ ~InCall(w)'
      BY <1>1, <1>3, <1>4, <1>6 DEF RestoreCovers, AutoHeld, InCall
    <2> QED BY <1>0, <1>1, <1>3, <1>6, <2>1, KeptKeeps
  <1>7. CASE w' \in {FinishRefresh(x), AfterRefresh(x), StartRead(x, "message"), StartRead(y, "message")}
    <2>1. w' \in Workers /\ Elsewhere
      BY <1>2, <1>3, <1>7, RefreshTypes, StartReadTypes DEF Elsewhere
    <2> QED BY <1>0, <1>1, <2>1, PointsCovered, KeptKeeps
  <1> QED BY <1>5, <1>6, <1>7

\* One target after the other is taken back; what fails is remembered.
LEMMA RestoreNextKeeps ==
  ASSUME SchedulerInv, NEW p \in Pids, RestoreNext(p)
  PROVE  SchedulerInv'
  <1>0. /\ TypeOK /\ LedgerInv /\ RestoreCovers /\ Calls /\ w \in Workers /\ OsTypeOK
        /\ UNCHANGED <<source, user>> /\ w.pc = "restore"
    BY Typed DEF SchedulerInv, RestoreNext
  <1>1. Restores(p, {"auto"}) /\ {"auto"} \in SUBSET Owners
    BY DEF RestoreNext, Restores, Owners
  <1>2. OsTypeOK' /\ LedgerInv' /\ OnlyAt(p)
    BY <1>0, <1>1, RestoresKeep
  <1>3. \/ w' = [w EXCEPT !.todo = @ \ {p}, !.failed = TRUE]
        \/ w' = [w EXCEPT !.todo = @ \ {p}] /\ active'[p].owner # "auto"
    <2>1. RestoreDone(p, {"auto"}) => active'[p].owner = "none"
      BY <1>0 DEF RestoreDone, OsTypeOK, None
    <2>2. RestoreNothing(p, {"auto"}) => active'[p].owner # "auto"
      BY <1>0 DEF RestoreNothing, Restorable, osVars, LedgerInv, LedgerAt, HeldHasBaseline
    <2> QED BY <2>1, <2>2 DEF RestoreNext
  <1>4. w' \in Workers /\ w'.pc = "restore" /\ w'.after = w.after
    BY ZenonT(60), <1>0, <1>3 DEF Workers
  <1>5. w'.failed \/ AutoHeld' \subseteq w'.todo
    <2>1. CASE w' = [w EXCEPT !.todo = @ \ {p}, !.failed = TRUE]
      BY <1>0, <2>1 DEF Workers
    <2>2. CASE w' = [w EXCEPT !.todo = @ \ {p}] /\ active'[p].owner # "auto"
      <3>1. w'.failed = w.failed /\ w'.todo = w.todo \ {p}
        BY <1>0, <2>2 DEF Workers
      <3> QED BY <1>0, <1>2, <2>2, <3>1 DEF RestoreCovers, AutoHeld, OnlyAt
    <2> QED BY <1>3, <2>1, <2>2
  <1>6. Calls'
    <2>1. LedgerFree /\ before' = before
      BY <1>1 DEF Restores, RestoreNothing, RestoreDone, RestoreFails, osVars, ledger
    <2>2. LedgerFree' /\ ~InCall(user) /\ ~InCall(w)' /\ strays' \subseteq Pids
      BY <1>0, <1>2, <1>4, <2>1 DEF LedgerFree, Calls, InCall, OsTypeOK
    <2> QED BY <1>0, <2>2, FreeCalls DEF InCall
  <1> QED BY <1>0, <1>2, <1>4, <1>5, <1>6, Typed DEF SchedulerInv, RestoreCovers, TypeOK, Workers

\* What a scan does to one process.
LEMMA ForgetTypes ==
  ASSUME w \in Workers, NEW p \in Pids, w.pc = "old", Forget(p) \/ w' = [w EXCEPT !.todo = @ \ {p}]
  PROVE  w' \in Workers /\ Elsewhere
  <1>1. PICK m \in [Pids -> 0..MaxBorn] : m = [w.managed EXCEPT ![p] = 0]
    <2>1. w.managed \in [Pids -> 0..MaxBorn] /\ 0 \in 0..MaxBorn
      BY OsPolicyAssumption DEF Workers
    <2> QED BY <2>1
  <1>2. w' = [w EXCEPT !.todo = @ \ {p}, !.managed = m] \/ w' = [w EXCEPT !.todo = @ \ {p}]
    BY <1>1 DEF Forget
  <1> QED BY ZenonT(60), <1>2 DEF Workers, Elsewhere

LEMMA RememberTypes ==
  ASSUME w \in Workers, NEW p \in Pids, Remember(p) \/ PassBy(p)
  PROVE  w' \in Workers /\ Elsewhere /\ ~InCall(w)'
  <1>1. PICK m \in [Pids -> 0..MaxBorn] : m = [w.managed EXCEPT ![p] = w.list[p]]
    <2>1. w.managed \in [Pids -> 0..MaxBorn] /\ w.list[p] \in 0..MaxBorn
      BY DEF Workers
    <2> QED BY <2>1
  <1>2. \/ w' = [w EXCEPT !.pc = "new", !.todo = @ \ {p}, !.managed = m]
        \/ w' = [w EXCEPT !.pc = "new", !.todo = @ \ {p}]
    BY <1>1 DEF Remember, PassBy
  <1>3. w' \in Workers /\ w'.pc = "new"
    BY ZenonT(60), <1>2 DEF Workers
  <1> QED BY <1>3 DEF Elsewhere, InCall

\* A step of the worker's scan that is one of the handle's calls.
LEMMA ScanStepsKeep ==
  ASSUME SchedulerInv, NEW p \in Pids, ScanDiscards(p) \/ ScanReleases(p)
  PROVE  SchedulerInv'
  <1>0. /\ TypeOK /\ LedgerInv /\ Calls /\ w \in Workers /\ OsTypeOK
        /\ UNCHANGED <<source, user>> /\ w.pc = "old"
    BY Typed DEF SchedulerInv, ScanDiscards, ScanReleases
  <1>1. OsTypeOK' /\ LedgerInv'
    <2>1. CASE ScanDiscards(p)
      BY <1>0, <2>1, DiscardKeeps DEF ScanDiscards
    <2>2. CASE ScanReleases(p)
      <3>1. Restores(p, {"auto"}) /\ {"auto"} \in SUBSET Owners
        BY <2>2 DEF ScanReleases, Restores, Owners
      <3> QED BY <1>0, <3>1, RestoresKeep
    <2> QED BY <2>1, <2>2
  <1>2. w' \in Workers /\ Elsewhere
    BY <1>0, ForgetTypes DEF ScanDiscards, ScanReleases
  <1>3. Calls'
    <2>1. LedgerFree /\ before' = before
      BY DEF ScanDiscards, ScanReleases, Discard, RestoreNothing, RestoreDone, RestoreFails, osVars,
             ledger
    <2>2. LedgerFree' /\ ~InCall(user) /\ ~InCall(w)' /\ strays' \subseteq Pids
      BY <1>0, <1>1, <1>2, <2>1 DEF LedgerFree, Calls, InCall, OsTypeOK, Elsewhere
    <2> QED BY <1>0, <2>2, FreeCalls DEF InCall
  <1> QED BY <1>0, <1>1, <1>2, <1>3, Typed, PointsCovered DEF SchedulerInv, TypeOK, Workers

LEMMA ScanAppliesKeeps ==
  ASSUME SchedulerInv, NEW p \in Pids, ScanApplies(p)
  PROVE  SchedulerInv'
  <1>0. /\ TypeOK /\ LedgerInv /\ Calls /\ w \in Workers /\ OsTypeOK /\ "auto" \in Owners
        /\ UNCHANGED <<source, user>> /\ w.pc = "new"
    BY Typed DEF SchedulerInv, ScanApplies, Owners
  <1>1. Requests(p, "auto")
    BY DEF ScanApplies, Requests
  <1>2. OsTypeOK' /\ LedgerInv'
    BY <1>0, <1>1, RequestsKeep
  <1>3. CASE ApplyCaptures(p, "auto") /\ w' = [w EXCEPT !.pc = "write"]
    <2>1. w' \in Workers /\ w'.pc = "write"
      BY ZenonT(60), <1>0, <1>3 DEF Workers
    <2>2. ~InCall(user)
      BY <1>0, <1>3 DEF ApplyCaptures, Acceptable, Calls
    <2>3. Calls'
      BY <1>0, <1>3, <2>2, CaptureCalls DEF InCall
    <2>4. RestoreCovers'
      BY <2>1 DEF RestoreCovers
    <2> QED BY <1>0, <1>2, <2>1, <2>3, <2>4 DEF SchedulerInv, TypeOK, Workers
  <1>4. CASE /\ ApplyUnchanged(p, "auto") \/ ApplySkipped(p, "auto") \/ ApplyRefused(p, "auto")
             /\ Remember(p) \/ PassBy(p)
    <2>1. w' \in Workers /\ Elsewhere /\ ~InCall(w)'
      BY <1>0, <1>4, RememberTypes
    <2>2. LedgerFree /\ before' = before
      BY <1>4 DEF ApplyUnchanged, ApplySkipped, ApplyRefused, Acceptable, osVars, ledger
    <2>3. LedgerFree' /\ ~InCall(user) /\ strays' \subseteq Pids
      BY <1>0, <1>2, <2>2 DEF LedgerFree, Calls, OsTypeOK
    <2>4. Calls'
      BY <1>0, <2>1, <2>3, FreeCalls DEF InCall
    <2> QED BY <1>0, <1>2, <2>1, <2>4, PointsCovered DEF SchedulerInv, TypeOK, Workers
  <1> QED BY <1>3, <1>4 DEF ScanApplies

\* The write of a request of the worker's, and its rollback.
LEMMA ScanCallKeeps ==
  ASSUME SchedulerInv, NEW p \in Pids, ScanWrites(p) \/ ScanUndoes(p)
  PROVE  SchedulerInv'
  <1>0. /\ TypeOK /\ LedgerInv /\ Calls /\ w \in Workers /\ OsTypeOK /\ "auto" \in Owners
        /\ UNCHANGED <<source, user>> /\ InCall(w) /\ ~InCall(user) /\ ~InCall(user)'
    BY Typed DEF SchedulerInv, ScanWrites, ScanUndoes, Owners, Calls, InCall
  <1>1. Requests(p, "auto") /\ UnderWay(p)
    BY DEF ScanWrites, ScanUndoes, Requests, ApplyDone, ApplyStops, ApplyRolledBack, ApplyStuck
  <1>2. OsTypeOK' /\ LedgerInv' /\ OnlyAt(p)
    BY <1>0, <1>1, RequestsKeep
  <1>3. CASE Answers(p) /\ (Remember(p) \/ PassBy(p))
    <2>1. w' \in Workers /\ Elsewhere /\ ~InCall(w)'
      BY <1>0, <1>3, RememberTypes
    <2>2. before'[p].id = 0
      BY <1>0, <1>3, OsTyped, EmptyTypes DEF Answers
    <2>3. Calls'
      BY <1>0, <1>1, <1>2, <2>1, <2>2, AnswerFrees, FreeCalls DEF OsTypeOK
    <2> QED BY <1>0, <1>2, <2>1, <2>3, PointsCovered DEF SchedulerInv, TypeOK, Workers
  <1>4. CASE ApplyStops(p, "auto") /\ w' = [w EXCEPT !.pc = "undo"]
    <2>1. w' \in Workers /\ w'.pc = "undo"
      BY ZenonT(60), <1>0, <1>4 DEF Workers
    <2>2. Calls'
      BY <1>0, <1>4, <2>1 DEF Calls, ApplyStops, InCall, LedgerFree, UnderWay
    <2>3. RestoreCovers'
      BY <2>1 DEF RestoreCovers
    <2> QED BY <1>0, <1>2, <2>1, <2>2, <2>3 DEF SchedulerInv, TypeOK, Workers
  <1> QED BY <1>3, <1>4 DEF ScanWrites, ScanUndoes, ApplyDone, ApplyRolledBack, ApplyStuck

\* The user adds no automatic target, and finds no request of the worker's.
LEMMA UserKeeps == SchedulerInv /\ User => SchedulerInv'
  <1> SUFFICES ASSUME SchedulerInv, NEW p \in Pids,
                      \/ UserApply(p) \/ UserReleases(p) \/ UserApplies(p) \/ UserRestores(p)
                      \/ UserWrites(p) \/ UserUndoes(p)
               PROVE  SchedulerInv'
    BY DEF User, UserCall
  <1>0. /\ TypeOK /\ LedgerInv /\ RestoreCovers /\ Calls /\ w \in Workers /\ OsTypeOK
        /\ user \in Users /\ UNCHANGED <<source, w>>
    BY Typed DEF SchedulerInv, UserApply, UserReleases, UserApplies, UserRestores, UserWrites,
                 UserUndoes
  <1>1. user' \in Users
    BY <1>0
    DEF Users, UserApply, UserReleases, UserApplies, UserRestores, UserWrites, UserUndoes
  <1>2. \/ UNCHANGED osVars
        \/ Requests(p, "manual")
        \/ \E owners \in SUBSET Owners : Restores(p, owners)
    BY DEF UserApply, UserReleases, UserApplies, UserRestores, UserWrites, UserUndoes, Requests,
           Restores, Owners
  <1>3. OsTypeOK' /\ LedgerInv' /\ AutoHeld' \subseteq AutoHeld /\ OnlyAt(p)
    <2>1. CASE UNCHANGED osVars
      BY <1>0, <2>1, NothingMoved DEF osVars, history, OsTypeOK, AutoHeld
    <2>2. CASE Requests(p, "manual")
      <3>1. OsTypeOK' /\ LedgerInv' /\ OnlyAt(p)
        BY <1>0, <2>2, RequestsKeep DEF Owners
      <3>2. active' = active \/ active'[p].owner = "manual"
        BY <1>0, <2>2
        DEF Requests, ApplySkipped, ApplyRefused, ApplyUnchanged, ApplyCaptures, ApplyDone,
            ApplyStops, ApplyRolledBack, ApplyStuck, Own, osVars, ledger, OsTypeOK
      <3> QED BY <3>1, <3>2 DEF OnlyAt, AutoHeld
    <2>3. ASSUME NEW owners \in SUBSET Owners, Restores(p, owners)
          PROVE  OsTypeOK' /\ LedgerInv' /\ AutoHeld' \subseteq AutoHeld /\ OnlyAt(p)
      <3>1. OsTypeOK' /\ LedgerInv' /\ OnlyAt(p)
        BY <1>0, <2>3, RestoresKeep
      <3>2. active' = active \/ active'[p].owner = "none"
        BY <1>0, <2>3
        DEF Restores, RestoreNothing, RestoreDone, RestoreFails, osVars, ledger, OsTypeOK, None
      <3> QED BY <3>1, <3>2 DEF OnlyAt, AutoHeld
    <2> QED BY <1>2, <2>1, <2>2, <2>3
  <1>4. Calls'
    <2>1. CASE LedgerFree /\ before' = before /\ ~InCall(user)'
      <3>1. LedgerFree' /\ ~InCall(w) /\ strays' \subseteq Pids
        BY <1>0, <1>3, <2>1 DEF LedgerFree, Calls, OsTypeOK
      <3> QED BY <1>0, <2>1, <3>1, FreeCalls DEF InCall
    <2>2. CASE UserApplies(p) /\ ApplyCaptures(p, "manual")
      <3>1. ~InCall(w)' /\ "manual" \in Owners
        BY <1>0, <2>2 DEF ApplyCaptures, Acceptable, Calls, InCall, Owners
      <3> QED BY <1>0, <2>2, <3>1, CaptureCalls
    <2>3. CASE UnderWay(p) /\ Answers(p) /\ InCall(user) /\ ~InCall(user)'
      <3>1. before'[p].id = 0
        BY <1>0, <2>3, OsTyped, EmptyTypes DEF Answers
      <3>2. ~InCall(w)'
        BY <1>0, <2>3 DEF Calls, InCall
      <3> QED BY <1>0, <1>3, <2>3, <3>1, <3>2, AnswerFrees, FreeCalls DEF OsTypeOK
    <2>4. CASE UserWrites(p) /\ ApplyStops(p, "manual") /\ user' = [user EXCEPT !.pc = "undo"]
      <3>1. user'.pc = "undo" /\ InCall(user)
        BY <1>0, <2>4 DEF Users, UserWrites, InCall
      <3> QED BY <1>0, <2>4, <3>1 DEF Calls, ApplyStops, InCall, LedgerFree, UnderWay
    <2>5. CASE UserApply(p) \/ UserReleases(p) \/ UserRestores(p)
      <3>1. LedgerFree /\ before' = before
        BY <2>5 DEF UserApply, UserReleases, UserRestores, RestoreNothing, RestoreDone, RestoreFails,
                    osVars, ledger
      <3>2. ~InCall(user)'
        BY <1>0, <2>5, <3>1 DEF UserApply, UserReleases, UserRestores, InCall, Calls, Users
      <3> QED BY <2>1, <3>1, <3>2
    <2>6. CASE UserApplies(p) /\ ApplyRefused(p, "manual") /\ user' = [pc |-> "idle", todo |-> {}]
      BY <2>1, <2>6 DEF ApplyRefused, InCall, osVars, ledger
    <2>7. CASE UserWrites(p) /\ ApplyDone(p, "manual") /\ user' = [pc |-> "idle", todo |-> {}]
      BY <2>3, <2>7 DEF ApplyDone, UserWrites, InCall
    <2>8. CASE UserUndoes(p)
      BY <2>3, <2>8 DEF UserUndoes, ApplyRolledBack, ApplyStuck, InCall
    <2> QED BY <2>2, <2>4, <2>5, <2>6, <2>7, <2>8 DEF UserApplies, UserWrites
  <1> QED BY <1>0, <1>1, <1>3, <1>4, StillCovered DEF SchedulerInv, TypeOK, Users

LEMMA WorldKeeps == SchedulerInv /\ World => SchedulerInv'
  <1> SUFFICES ASSUME SchedulerInv, World PROVE SchedulerInv'
    OBVIOUS
  <1>0. TypeOK /\ LedgerInv /\ Calls /\ RestoreCovers /\ OsTypeOK
    BY Typed DEF SchedulerInv
  <1>1. CASE source' \in Sources \ {source} /\ UNCHANGED <<osVars, w, user>>
    <2>1. LedgerInv'
      BY <1>0, <1>1, NothingMoved DEF osVars, history
    <2>2. TypeOK' /\ RestoreCovers' /\ Calls'
      BY <1>0, <1>1
      DEF osVars, TypeOK, OsTypeOK, RestoreCovers, AutoHeld, Calls, InCall, LedgerFree, UnderWay
    <2> QED BY <2>1, <2>2 DEF SchedulerInv
  <1>2. ASSUME NEW p \in Pids,
               ProcessExits(p) \/ ProcessStarts(p) \/ \E k \in Knobs : ProcessAdjusts(p, k),
               UNCHANGED <<source, w, user>>
        PROVE  SchedulerInv'
    <2>1. OsTypeOK' /\ LedgerInv' /\ OnlyAt(p) /\ UNCHANGED <<active, before>>
      BY <1>0, <1>2, ProcessesKeep
    <2>2. \/ p \notin strays'
          \/ (p \in strays /\ alive[p] = 0)
          \/ (p \in strays /\ alive' = alive)
      BY <1>0, <1>2 DEF ProcessExits, ProcessStarts, ProcessAdjusts, history
    <2>3. Calls'
      <3>1. ASSUME NEW q \in strays', UnderWay(q), alive'[q] # before[q].id
            PROVE  "undo" \in {w.pc, user.pc}
        <4>1. q \in Pids
          BY <2>1, <3>1 DEF OsTypeOK
        <4>2. q \in strays /\ alive[q] # before[q].id
          BY <2>1, <2>2, <3>1, <4>1 DEF OnlyAt, UnderWay
        <4> QED BY <1>0, <3>1, <4>2 DEF Calls
      <3> QED BY <1>0, <1>2, <2>1, <3>1 DEF Calls, InCall, LedgerFree, UnderWay
    <2> QED BY <1>0, <1>2, <2>1, <2>3, StillCovered DEF SchedulerInv, TypeOK, AutoHeld
  <1> QED BY <1>1, <1>2 DEF World

LEMMA SchedulerInit == Init => SchedulerInv
  <1> SUFFICES ASSUME Init PROVE SchedulerInv
    OBVIOUS
  <1>1. OsTypeOK
    BY EmptyTypes, OsPolicyAssumption, OsTyped DEF Init, OsInit, Values, NoGpuBase
  <1>2. TypeOK
    BY <1>1, NoOneTypes DEF Init, TypeOK, Readings, Sources
  <1>3. \A p \in Pids : LedgerAt(p) /\ ~UnderWay(p)
    BY EmptyTypes DEF Init, OsInit, LedgerAt, NumberIsFresh, HeldHasBaseline, RequestMatches,
                      ChangedIsOnLedger, BaselineIsClean, UnderWay
  <1>4. LedgerInv
    BY <1>3 DEF LedgerInv, OneRequest
  <1>5. RestoreCovers /\ Calls
    BY DEF Init, OsInit, RestoreCovers, Calls, InCall
  <1> QED BY <1>2, <1>4, <1>5 DEF SchedulerInv

LEMMA SchedulerNext == SchedulerInv /\ [Next]_vars => SchedulerInv'
  <1> SUFFICES ASSUME SchedulerInv, [Next]_vars PROVE SchedulerInv'
    OBVIOUS
  <1>1. CASE UNCHANGED vars
    <2>1. LedgerInv'
      BY <1>1, NothingMoved DEF SchedulerInv, vars, osVars, history
    <2>2. TypeOK' /\ RestoreCovers' /\ Calls'
      BY <1>1
      DEF SchedulerInv, vars, osVars, TypeOK, OsTypeOK, RestoreCovers, AutoHeld, Calls, InCall,
          LedgerFree, UnderWay
    <2> QED BY <2>1, <2>2 DEF SchedulerInv
  <1>2. CASE Worker
    BY <1>2, ReadsKeep, ConfirmKeeps, SetModeKeeps, ScanPointsKeep, RestoreEndsKeeps, RestoreNextKeeps,
       ScanStepsKeep, ScanAppliesKeeps, ScanCallKeeps
    DEF Worker, Inside
  <1> QED BY <1>1, <1>2, WorldKeeps, UserKeeps DEF Next

-----------------------------------------------------------------------------
(* The properties *)

\* The worker, the user and the processes are typed, and the ledger says what was
\* changed, at every step of any of them.
THEOREM SchedulerInvariance == Spec => []SchedulerInv
  <1> QED BY SchedulerInit, SchedulerNext, PTL DEF Spec

\* Whatever fails, whoever takes over and however often an id is reused, a process that
\* carries a value of phelper's is on the ledger with what it had before, but for the two
\* that NothingLeftBehind names: dropped alive, and written in the captured one's place.
THEOREM NothingIsEverLeftBehind == Spec => []NothingLeftBehind
  <1>1. SchedulerInv => NothingLeftBehind
    <2> SUFFICES ASSUME SchedulerInv, NEW p \in Pids, alive[p] # 0, ~Excused(p),
                        NEW k \in Knobs, os[p][k] \in ByPhelper
                 PROVE  OnLedger(p) /\ Clean(baseline[p].knobs)
      BY DEF NothingLeftBehind, OnLedger, Clean, Excused
    <2>1. OnLedger(p)
      BY DEF SchedulerInv, LedgerInv, LedgerAt, ChangedIsOnLedger, Clean
    <2> QED BY <2>1 DEF SchedulerInv, LedgerInv, LedgerAt, BaselineIsClean, OnLedger
  <1> QED BY <1>1, SchedulerInvariance, PTL

\* A worker that has stopped after restores that all succeeded holds no process.
THEOREM StoppedAlwaysReleasedAll == Spec => []StoppedReleasedAll
  <1>1. SchedulerInv => StoppedReleasedAll
    BY DEF SchedulerInv, RestoreCovers, StoppedReleasedAll
  <1> QED BY <1>1, SchedulerInvariance, PTL

\* What a step of the worker does to the ledger and to the processes.
WorkersCall(q) ==
  \/ Restores(q, {"auto"}) \/ Discard(q)
  \/ LedgerFree /\ Requests(q, "auto")
  \/ InCall(w) /\ UnderWay(q) /\ Requests(q, "auto")

LEMMA WorkerCalls ==
  ASSUME Worker
  PROVE  UNCHANGED <<os, active, baseline>> \/ \E q \in Pids : WorkersCall(q)
  <1>1. CASE Inside
    <2>1. CASE ReadPower \/ ReadPowerUnknown \/ ReadPowerFails \/ RestoreEnds \/ ScanTurns \/ ScanEnds
               \/ \E p \in Pids : ScanKeeps(p)
      BY <2>1 DEF ReadPower, ReadPowerUnknown, ReadPowerFails, RestoreEnds, ScanTurns, ScanEnds,
                  ScanKeeps, osVars, ledger
    <2>2. ASSUME NEW p \in Pids, RestoreNext(p) \/ ScanDiscards(p) \/ ScanReleases(p)
          PROVE  WorkersCall(p)
      BY <2>2 DEF WorkersCall, RestoreNext, ScanDiscards, ScanReleases, Restores
    <2>3. ASSUME NEW p \in Pids, ScanApplies(p)
          PROVE  WorkersCall(p)
      BY <2>3 DEF WorkersCall, ScanApplies, Requests, ApplyCaptures, ApplyUnchanged, ApplySkipped,
                  ApplyRefused, Acceptable
    <2>4. ASSUME NEW p \in Pids, ScanWrites(p) \/ ScanUndoes(p)
          PROVE  WorkersCall(p)
      BY <2>4 DEF WorkersCall, ScanWrites, ScanUndoes, Requests, ApplyDone, ApplyStops,
                  ApplyRolledBack, ApplyStuck, InCall
    <2> QED BY <1>1, <2>1, <2>2, <2>3, <2>4 DEF Inside
  <1>2. CASE ~Inside
    BY <1>2
    DEF Worker, RefreshDue, ConfirmSource, ConfirmFails, StartScan, ScanFails, StartScanUnread,
        SetMode, RefreshAsked, Shutdown, osVars, ledger
  <1> QED BY <1>1, <1>2

\* The worker's calls pass a target of the user's by, although they come from a snapshot.
LEMMA WorkerPassesManual ==
  ASSUME SchedulerInv, Next, w' # w, NEW p \in Pids, active[p].owner = "manual"
  PROVE  os'[p] = os[p] /\ active'[p] = active[p] /\ baseline'[p] = baseline[p]
  <1>0. OsTypeOK /\ LedgerInv /\ Calls
    BY DEF SchedulerInv, TypeOK
  <1>1. ASSUME NEW q \in Pids, Restores(q, {"auto"})
        PROVE  os'[p] = os[p] /\ active'[p] = active[p] /\ baseline'[p] = baseline[p]
    BY <1>0, <1>1
    DEF Restores, RestoreNothing, RestoreDone, RestoreFails, Restorable, osVars, ledger, OsTypeOK
  <1>2. ASSUME NEW q \in Pids, LedgerFree, Requests(q, "auto")
        PROVE  os'[p] = os[p] /\ active'[p] = active[p] /\ baseline'[p] = baseline[p]
    BY <1>0, <1>2
    DEF Requests, ApplySkipped, ApplyRefused, ApplyUnchanged, ApplyCaptures, ApplyDone, ApplyStops,
        ApplyRolledBack, ApplyStuck, UnderWay, LedgerFree, Acceptable, KeepBaseline, osVars, ledger,
        OsTypeOK
  <1>3. ASSUME NEW q \in Pids, Discard(q)
        PROVE  os'[p] = os[p] /\ active'[p] = active[p] /\ baseline'[p] = baseline[p]
    BY <1>0, <1>3 DEF Discard, OsTypeOK
  <1>4. ASSUME NEW q \in Pids, InCall(w), UnderWay(q), Requests(q, "auto")
        PROVE  os'[p] = os[p] /\ active'[p] = active[p] /\ baseline'[p] = baseline[p]
    <2>1. q # p
      BY <1>0, <1>4 DEF Calls
    <2>2. OnlyAt(q)
      BY <1>0, <1>4, RequestsKeep DEF Owners
    <2> QED BY <2>1, <2>2 DEF OnlyAt
  <1>5. Worker
    BY DEF Next, World, User, UserApply, UserReleases, UserApplies, UserRestores, UserCall, UserWrites,
           UserUndoes
  <1> QED BY <1>1, <1>2, <1>3, <1>4, <1>5, WorkerCalls DEF WorkersCall

\* What the user holds, the scheduler neither writes nor takes off the ledger.
THEOREM ManualAlwaysWins == Spec => ManualWins
  <1>1. SchedulerInv /\ [Next]_vars =>
          [w' # w => \A p \in Pids : active[p].owner = "manual" =>
             os'[p] = os[p] /\ active'[p] = active[p] /\ baseline'[p] = baseline[p]]_vars
    BY WorkerPassesManual
  <1> QED BY <1>1, SchedulerInvariance, PTL DEF Spec, ManualWins

\* A process is not described while the ledger knows another one, or none, by its id.
Undescribed(p) == alive[p] # 0 /\ alive[p] \notin {baseline[p].id, baseline'[p].id}

\* No restore, rollback or discard writes a process that the ledger does not describe.
LEMMA RestoresWriteTheirOwn ==
  ASSUME OsTypeOK, LedgerInv, NEW p \in Pids, Undescribed(p), NEW q \in Pids,
         \/ \E owners \in SUBSET Owners : Restores(q, owners)
         \/ Discard(q) \/ ApplyRolledBack(q)
         \/ \E owner \in Owners : ApplyStuck(q, owner)
  PROVE  os'[p] = os[p]
  <1>0. os \in [Pids -> [Knobs -> Values]] /\ (UnderWay(q) => baseline[q].id = before[q].id)
    BY DEF OsTypeOK, LedgerInv, LedgerAt, RequestMatches
  <1>1. ASSUME NEW owners \in SUBSET Owners, Restores(q, owners)
        PROVE  os'[p] = os[p]
    <2>1. os' = os \/ (StillThere(q) /\ \E f : os' = [os EXCEPT ![q] = f])
      BY <1>1 DEF Restores, RestoreNothing, RestoreDone, RestoreFails, osVars
    <2> QED BY <1>0, <2>1 DEF StillThere, Identified, Undescribed
  <1>2. Discard(q) => os' = os
    BY DEF Discard
  <1>3. ASSUME ApplyRolledBack(q) \/ \E owner \in Owners : ApplyStuck(q, owner)
        PROVE  os'[p] = os[p]
    <2>1. os' = os \/ (UnderWay(q) /\ alive[q] = before[q].id /\ \E f : os' = [os EXCEPT ![q] = f])
      BY <1>3 DEF ApplyRolledBack, ApplyStuck, Identified
    <2> QED BY <1>0, <2>1 DEF Undescribed
  <1> QED BY <1>1, <1>2, <1>3

\* A write that meets another process than the captured one marks it, once.
LEMMA WritesAreMarked ==
  ASSUME OsTypeOK, LedgerInv, Calls, NEW p \in Pids, Undescribed(p), p \notin strays' \ strays,
         NEW q \in Pids, NEW owner \in Owners, ApplyDone(q, owner) \/ ApplyStops(q, owner),
         "undo" \notin {w.pc, user.pc}
  PROVE  os'[p] = os[p]
  <1>0. /\ os \in [Pids -> [Knobs -> Values]] /\ strays \subseteq Pids /\ UnderWay(q)
        /\ baseline[q].id = before[q].id
    BY DEF OsTypeOK, LedgerInv, LedgerAt, RequestMatches, ApplyDone, ApplyStops
  <1>1. CASE os' = os
    BY <1>1
  <1>2. ASSUME NEW n \in Nat, WritesFirst(q, owner, n)
        PROVE  os'[p] = os[p]
    <2>1. CASE q # p
      BY <1>0, <1>2, <2>1 DEF WritesFirst
    <2>2. CASE q = p
      <3>1. p \notin strays /\ alive[p] # before[p].id
        BY <1>0, <2>2 DEF Calls, Undescribed
      <3>2. ~(n > 0)
        BY <1>2, <2>2, <3>1 DEF WritesFirst
      <3>3. \A i \in 1..n : FALSE
        BY <1>2, <3>2
      <3>4. Written(p, owner, n) = os[p]
        BY <1>0, <3>3 DEF Written
      <3> QED BY <1>0, <1>2, <2>2, <3>4 DEF WritesFirst
    <2> QED BY <2>1, <2>2
  <1>3. Len(Writes(owner)) \in Nat
    BY OsPolicyAssumption DEF Writes
  <1> QED BY <1>1, <1>2, <1>3 DEF ApplyDone, ApplyStops

LEMMA OthersAreUntouched ==
  ASSUME SchedulerInv, Next, NEW p \in Pids, alive[p] # 0, alive'[p] = alive[p],
         p \notin strays' \ strays, alive[p] \notin {baseline[p].id, baseline'[p].id}, NEW k \in Knobs
  PROVE  os'[p][k] \in {os[p][k], "own"}
  <1>0. /\ OsTypeOK /\ LedgerInv /\ Calls /\ os \in [Pids -> [Knobs -> Values]]
        /\ alive \in [Pids -> 0..MaxBorn] /\ born \in [Pids -> 0..MaxBorn]
        /\ Undescribed(p)
    BY DEF SchedulerInv, TypeOK, OsTypeOK, Undescribed
  <1>1. CASE World
    <2>1. ASSUME NEW q \in Pids, ProcessExits(q)
          PROVE  os'[p] = os[p]
      BY <1>0, <2>1 DEF ProcessExits
    <2>2. ASSUME NEW q \in Pids, NEW j \in Knobs, ProcessAdjusts(q, j)
          PROVE  os'[p][k] \in {os[p][k], "own"}
      BY <1>0, <2>2 DEF ProcessAdjusts
    <2>3. ASSUME NEW q \in Pids, ProcessStarts(q)
          PROVE  os' = os
      BY <2>3 DEF ProcessStarts
    <2> QED BY <1>1, <2>1, <2>2, <2>3 DEF World, osVars
  <1>2. CASE os' = os
    BY <1>2
  <1>3. ASSUME NEW q \in Pids, NEW owner \in Owners, ApplyDone(q, owner) \/ ApplyStops(q, owner),
               InCall(w) \/ InCall(user), "write" \in {w.pc, user.pc}
        PROVE  os'[p] = os[p]
    <2>1. "undo" \notin {w.pc, user.pc}
      BY <1>0, <1>3 DEF Calls, InCall
    <2> QED BY <1>0, <1>3, <2>1, WritesAreMarked
  <1>4. ASSUME NEW q \in Pids,
               \/ \E owners \in SUBSET Owners : Restores(q, owners)
               \/ Discard(q) \/ ApplyRolledBack(q)
               \/ \E owner \in Owners : ApplyStuck(q, owner)
        PROVE  os'[p] = os[p]
    BY <1>0, <1>4, RestoresWriteTheirOwn
  <1>5. CASE Inside
    <2>1. CASE ReadPower \/ ReadPowerUnknown \/ ReadPowerFails \/ RestoreEnds \/ ScanTurns \/ ScanEnds
               \/ \E q \in Pids : ScanKeeps(q) \/ ScanApplies(q)
      BY <1>2, <2>1 DEF ReadPower, ReadPowerUnknown, ReadPowerFails, RestoreEnds, ScanTurns, ScanEnds,
                        ScanKeeps, ScanApplies, ApplyCaptures, ApplyUnchanged, ApplySkipped,
                        ApplyRefused, osVars
    <2>2. ASSUME NEW q \in Pids, RestoreNext(q) \/ ScanDiscards(q) \/ ScanReleases(q) \/ ScanUndoes(q)
          PROVE  os'[p] = os[p]
      <3>1. \/ \E owners \in SUBSET Owners : Restores(q, owners)
            \/ Discard(q) \/ ApplyRolledBack(q)
            \/ \E owner \in Owners : ApplyStuck(q, owner)
        BY <2>2 DEF RestoreNext, ScanDiscards, ScanReleases, ScanUndoes, Restores, Owners
      <3> QED BY <1>4, <3>1
    <2>3. ASSUME NEW q \in Pids, ScanWrites(q)
          PROVE  os'[p] = os[p]
      BY <1>3, <2>3 DEF ScanWrites, InCall, Owners
    <2> QED BY <1>5, <2>1, <2>2, <2>3 DEF Inside
  <1>6. CASE Worker /\ ~Inside
    BY <1>2, <1>6
    DEF Worker, RefreshDue, ConfirmSource, ConfirmFails, StartScan, ScanFails, StartScanUnread,
        SetMode, RefreshAsked, Shutdown, osVars
  <1>7. CASE User
    <2>1. ASSUME NEW q \in Pids, UserApply(q) \/ UserApplies(q)
          PROVE  os'[p] = os[p]
      BY <2>1 DEF UserApply, UserApplies, ApplyCaptures, ApplyRefused, osVars
    <2>2. ASSUME NEW q \in Pids, UserReleases(q) \/ UserRestores(q) \/ UserUndoes(q)
          PROVE  os'[p] = os[p]
      <3>1. \/ \E owners \in SUBSET Owners : Restores(q, owners)
            \/ ApplyRolledBack(q) \/ \E owner \in Owners : ApplyStuck(q, owner)
        BY <2>2 DEF UserReleases, UserRestores, UserUndoes, Restores, Owners
      <3> QED BY <1>4, <3>1
    <2>3. ASSUME NEW q \in Pids, UserWrites(q)
          PROVE  os'[p] = os[p]
      BY <1>3, <2>3 DEF UserWrites, InCall, Owners
    <2> QED BY <1>7, <2>1, <2>2, <2>3 DEF User, UserCall
  <1> QED BY <1>1, <1>5, <1>6, <1>7 DEF Next

\* A process that got the id of one on the ledger is written by nobody but itself, save
\* by the request that captured the one before it.
THEOREM ReusedPidNeverTouched == Spec => ReusedPidUntouched
  <1>1. SchedulerInv /\ [Next]_vars =>
          [\A p \in Pids :
             (/\ alive[p] # 0 /\ alive'[p] = alive[p] /\ p \notin strays' \ strays
              /\ alive[p] \notin {baseline[p].id, baseline'[p].id})
               => \A k \in Knobs : os'[p][k] \in {os[p][k], "own"}]_vars
    BY OthersAreUntouched
  <1> QED BY <1>1, SchedulerInvariance, PTL DEF Spec, ReusedPidUntouched

=============================================================================
