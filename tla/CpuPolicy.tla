----------------------------- MODULE CpuPolicy ------------------------------
(***************************************************************************)
(* SetCpuPolicy: the gate (validate_cpu_policy in control/safety.rs), the   *)
(* batch of knobs (exec_cpu_policy in control/coordinator.rs) and the       *)
(* writes to the Windows power scheme under it (platform/windows_ppm.rs).   *)
(* A knob is written to the scheme that is active when its turn comes, rail *)
(* by rail, then that scheme is made active again, then it is read back.    *)
(*                                                                         *)
(* Windows and its user are external: they switch schemes and change values *)
(* at any moment, between any two calls of a batch.                         *)
(***************************************************************************)
EXTENDS Naturals, Sequences, FiniteSets

CONSTANTS
  Schemes,      \* power schemes of the machine
  Levels,       \* values of a knob, ordered
  Requests,     \* policies that are asked for
  Hidden,       \* sets of settings that a snapshot may fail to read
  MaxForeign    \* bound: switches and changes made by someone else

Knobs == {"epp", "epp1", "maxFreq", "min", "max", "boost"}
Rails == {"ac", "dc"}
Order == <<"epp", "epp1", "maxFreq", "min", "max", "boost">>
NotAsked == 0
Unknown_ == 0

ASSUME CpuPolicyAssumption ==
  /\ Schemes # {} /\ Levels \subseteq Nat \ {0} /\ MaxForeign \in Nat
  /\ Hidden \subseteq SUBSET Knobs
  /\ \A req \in Requests :
       /\ req.set \in [Knobs -> [Rails -> Levels \cup {NotAsked}]]
       /\ req.boostBoth \in Levels \cup {NotAsked}

VARIABLES
  power,      \* Windows: the active scheme, and the value of every knob of every scheme
  writable,   \* CapabilitySet: supported knobs; none when the process is not elevated
  seen,       \* ObservedState: the values stamped Verified, Unknown_ if none
  batch,      \* the policy under way
  outcome,    \* ControlStatus of the last policy
  others      \* history: foreign changes; whether one fell into this batch; whether all went well

cpuVars == <<power, writable, seen, batch, outcome, others>>

NoPolicy == [set |-> [k \in Knobs |-> [r \in Rails |-> NotAsked]], boostBoth |-> NotAsked]
NoBatch == [at |-> "idle", req |-> NoPolicy, next |-> 1, scheme |-> CHOOSE s \in Schemes : TRUE,
            applied |-> FALSE, failed |-> FALSE]

CpuTypeOK ==
  /\ power \in [active : Schemes, store : [Schemes -> [Knobs -> [Rails -> Levels]]]]
  /\ writable \subseteq Knobs
  /\ seen \in [Knobs -> [Rails -> Levels \cup {Unknown_}]]
  /\ batch \in [at : {"idle", "next", "resolve", "ac", "dc", "commit", "readback", "refresh"},
                req : Requests \cup {NoPolicy}, next : 1..Len(Order) + 1, scheme : Schemes,
                applied : BOOLEAN, failed : BOOLEAN]
  /\ outcome \in {"none", "applied", "partial", "rejected"}
  /\ others \in [count : 0..MaxForeign, now : BOOLEAN, smooth : BOOLEAN]

Active(p) == p.store[p.active]

CpuInit ==
  /\ power \in {[active |-> NoBatch.scheme,
                 store |-> [s \in Schemes |-> [k \in Knobs |-> [r \in Rails |-> l]]]] : l \in Levels}
  /\ writable \in {Knobs, {}}
  /\ seen \in {Active(power), [k \in Knobs |-> [r \in Rails |-> Unknown_]]}
  /\ batch = NoBatch
  /\ outcome = "none"
  /\ others = [count |-> 0, now |-> FALSE, smooth |-> seen = Active(power)]

\* The single-rail boost field stands in for a rail that is not asked for by itself.
Asked(req, k, r) ==
  IF k = "boost" /\ req.set[k][r] = NotAsked THEN req.boostBoth ELSE req.set[k][r]

IsAsked(req, k) == \E r \in Rails : Asked(req, k, r) # NotAsked

-----------------------------------------------------------------------------
(* validate_cpu_policy *)

\* What a rail will hold: the value asked for, or the one last seen.
Expected(req, k, r) == IF Asked(req, k, r) = NotAsked THEN seen[k][r] ELSE Asked(req, k, r)

RangeHolds_requestedOnly(req, r) ==
  Asked(req, "min", r) = NotAsked \/ Asked(req, "max", r) = NotAsked
  \/ Asked(req, "min", r) <= Asked(req, "max", r)

RangeHolds(req, r) ==
  \/ Expected(req, "min", r) = Unknown_ \/ Expected(req, "max", r) = Unknown_
  \/ Expected(req, "min", r) <= Expected(req, "max", r)

GateHolds(req) ==
  /\ \A k \in Knobs : IsAsked(req, k) => k \in writable
  /\ \A r \in Rails : RangeHolds(req, r)

RejectsPolicy(req) ==
  /\ batch.at = "idle" /\ ~GateHolds(req)
  /\ outcome' = "rejected"
  /\ UNCHANGED <<power, writable, seen, batch, others>>

AcceptsPolicy(req) ==
  /\ batch.at = "idle" /\ GateHolds(req)
  /\ batch' = [NoBatch EXCEPT !.at = "next", !.req = req]
  /\ outcome' = "none"
  /\ others' = [others EXCEPT !.now = FALSE]
  /\ UNCHANGED <<power, writable, seen>>

-----------------------------------------------------------------------------
(* exec_cpu_policy: one knob after the other *)

Pending == {i \in batch.next..Len(Order) : IsAsked(batch.req, Order[i])}

Knob == Order[batch.next]

NextKnob ==
  /\ batch.at = "next"
  /\ batch' = IF Pending = {} THEN [batch EXCEPT !.at = "refresh"]
              ELSE [batch EXCEPT !.at = "resolve",
                                 !.next = CHOOSE i \in Pending : \A j \in Pending : i <= j]
  /\ UNCHANGED <<power, writable, seen, outcome, others>>

ResolvesScheme ==
  /\ batch.at = "resolve"
  /\ batch' = [batch EXCEPT !.at = "ac", !.scheme = power.active]
  /\ UNCHANGED <<power, writable, seen, outcome, others>>

\* write_index of one rail, or nothing to write there.
WritesRail(r) ==
  /\ batch.at = r
  /\ LET v == Asked(batch.req, Knob, r) IN
       power' = IF v = NotAsked THEN power
                ELSE [power EXCEPT !.store[batch.scheme][Knob][r] = v]
  /\ batch' = [batch EXCEPT !.at = IF r = "ac" THEN "dc" ELSE "commit"]
  /\ UNCHANGED <<writable, seen, outcome, others>>

\* PowerSetActiveScheme with the scheme that was written.
CommitsScheme ==
  /\ batch.at = "commit"
  /\ power' = [power EXCEPT !.active = batch.scheme]
  /\ batch' = [batch EXCEPT !.at = "readback"]
  /\ UNCHANGED <<writable, seen, outcome, others>>

\* A call fails: the knob counts as not applied, whatever was written before it.
KnobFails ==
  /\ \/ batch.at \in {"resolve", "commit"}
     \/ batch.at \in Rails /\ Asked(batch.req, Knob, batch.at) # NotAsked
  /\ batch' = [batch EXCEPT !.at = "next", !.next = @ + 1, !.failed = TRUE]
  /\ others' = [others EXCEPT !.smooth = FALSE]
  /\ UNCHANGED <<power, writable, seen, outcome>>

Matches(k, values) ==
  \A r \in Rails : Asked(batch.req, k, r) \in {NotAsked, values[k][r]}

\* A knob that was read back stamps both rails; boost only those asked for.
Stamps(k, values) ==
  [seen EXCEPT ![k] = [r \in Rails |->
     IF k = "boost" /\ Asked(batch.req, k, r) = NotAsked THEN seen[k][r] ELSE values[k][r]]]

ReadsBack ==
  /\ batch.at = "readback"
  /\ LET same == Matches(Knob, Active(power)) IN
       /\ batch' = [batch EXCEPT !.at = "next", !.next = @ + 1, !.applied = TRUE,
                                 !.failed = @ \/ ~same]
       /\ seen' = IF same THEN Stamps(Knob, Active(power)) ELSE seen
  /\ UNCHANGED <<power, writable, outcome, others>>

ReadbackFails ==
  /\ batch.at = "readback"
  /\ batch' = [batch EXCEPT !.at = "next", !.next = @ + 1, !.applied = TRUE, !.failed = TRUE]
  /\ others' = [others EXCEPT !.smooth = FALSE]
  /\ UNCHANGED <<power, writable, seen, outcome>>

\* stamp_windows_ppm: one snapshot of the active scheme; settings that cannot be read
\* keep their stamp.
Refreshed(hidden) ==
  [k \in Knobs |-> IF k \in hidden THEN seen[k] ELSE Active(power)[k]]

Outcome_anyApplied(b) == IF b.applied \/ ~b.failed THEN "applied" ELSE "rejected"

Outcome(b) ==
  CASE ~b.failed -> "applied"
    [] b.applied /\ b.failed -> "partial"
    [] OTHER -> "rejected"

EndsPolicy ==
  /\ batch.at = "refresh"
  /\ \E hidden \in Hidden : seen' = Refreshed(hidden)
  /\ outcome' = Outcome(batch)
  /\ batch' = [NoBatch EXCEPT !.req = batch.req]
  /\ UNCHANGED <<power, writable, others>>

\* refresh_observed, asked for by a user interface.
RefreshesPolicy ==
  /\ batch.at = "idle"
  /\ \E hidden \in Hidden : seen' = Refreshed(hidden)
  /\ UNCHANGED <<power, writable, batch, outcome, others>>

-----------------------------------------------------------------------------
(* Windows and its user *)

IsForeign ==
  /\ others.count < MaxForeign
  /\ others' = [count |-> others.count + 1, now |-> TRUE, smooth |-> FALSE]

SwitchesScheme ==
  /\ IsForeign
  /\ \E s \in Schemes \ {power.active} : power' = [power EXCEPT !.active = s]
  /\ UNCHANGED <<writable, seen, batch, outcome>>

ChangesSetting ==
  /\ IsForeign
  /\ \E k \in {"min", "max"}, r \in Rails, v \in Levels :
       power' = [power EXCEPT !.store[power.active][k][r] = v]
  /\ UNCHANGED <<writable, seen, batch, outcome>>

CpuNext ==
  \/ \E req \in Requests : RejectsPolicy(req) \/ AcceptsPolicy(req)
  \/ NextKnob \/ ResolvesScheme \/ (\E r \in Rails : WritesRail(r)) \/ CommitsScheme
  \/ KnobFails \/ ReadsBack \/ ReadbackFails \/ EndsPolicy \/ RefreshesPolicy
  \/ SwitchesScheme \/ ChangesSetting

CpuSpec == CpuInit /\ [][CpuNext]_cpuVars

-----------------------------------------------------------------------------
(* Properties *)

\* A policy reported as applied is in force: unless someone else changed the schemes
\* meanwhile, the active one holds every value asked for, and so does the observed state.
AppliedIsInForce ==
  batch.at = "idle" /\ outcome = "applied" /\ ~others.now =>
    \A k \in Knobs, r \in Rails : Asked(batch.req, k, r) # NotAsked =>
      /\ Active(power)[k][r] = Asked(batch.req, k, r)
      /\ seen[k][r] = Asked(batch.req, k, r)

\* Policies that change one bound at a time never leave a rail with its minimum above its
\* maximum, as long as every read and write succeeds and nobody else changes the bounds.
MinimumBelowMaximum ==
  batch.at = "idle" /\ others.smooth =>
    \A s \in Schemes, r \in Rails : power.store[s]["min"][r] <= power.store[s]["max"][r]

=============================================================================
