-------------------------- MODULE CpuPolicy_proofs ---------------------------
(***************************************************************************)
(* SetCpuPolicy for every set of schemes, levels and policies.  Two          *)
(* inductive invariants: what a batch that has not failed and was not        *)
(* disturbed has achieved so far, and what the rails of a scheme will hold   *)
(* at its end.                                                              *)
(***************************************************************************)
EXTENDS CpuPolicy, TLAPS

Values == Levels \cup {NotAsked}
InBatch == batch.at # "idle"
\* The scheme of the knob under way has been looked up.
Writing == batch.at \in {"ac", "dc", "commit", "readback"}

\* Every value asked for a knob is in force, and observed.
InForce(k) ==
  \A r \in Rails : Asked(batch.req, k, r) # NotAsked =>
    Active(power)[k][r] = Asked(batch.req, k, r)
Observed(k) ==
  \A r \in Rails : Asked(batch.req, k, r) # NotAsked => seen[k][r] = Asked(batch.req, k, r)

Behind == 1..(batch.next - 1)

PlaceInOrder ==
  /\ batch.at = "refresh" => Pending = {}
  /\ Writing \/ batch.at = "resolve" => batch.next \in 1..6
SchemeIsActive == Writing => batch.scheme = power.active

\* A batch undisturbed and without a failure has the knobs behind it in force.
BatchAchieved ==
  InBatch /\ ~batch.failed /\ ~others.now =>
    /\ SchemeIsActive
    /\ \A i \in Behind : InForce(Order[i]) /\ Observed(Order[i])

-----------------------------------------------------------------------------
\* What a rail of the active scheme will hold when the batch ends.
Final(k, r) ==
  IF Asked(batch.req, k, r) = NotAsked THEN Active(power)[k][r] ELSE Asked(batch.req, k, r)

Bounds == {"min", "max"}

\* As long as everything goes well.
SmoothBatch ==
  /\ SchemeIsActive
  /\ \A r \in Rails : Final("min", r) <= Final("max", r)
  /\ \A i \in Behind : InForce(Order[i])
  /\ \A r \in Rails :
       /\ (batch.at = "dc" /\ r = "ac") \/ batch.at \in {"commit", "readback"}
       /\ Asked(batch.req, Knob, r) # NotAsked
       => Active(power)[Knob][r] = Asked(batch.req, Knob, r)

OthersOrdered ==
  \A s \in Schemes \ {power.active}, r \in Rails : power.store[s]["min"][r] <= power.store[s]["max"][r]

\* The bounds are observed as they are, but for the one being written.
BoundsObserved ==
  \A k \in Bounds, r \in Rails : seen[k][r] = Active(power)[k][r] \/ (Writing /\ k = Knob)

SmoothInv ==
  others.smooth => /\ OthersOrdered /\ BoundsObserved /\ (InBatch => SmoothBatch)
                   /\ (~InBatch => MinimumBelowMaximum)

CpuInv == CpuTypeOK /\ PlaceInOrder /\ BatchAchieved /\ AppliedIsInForce /\ SmoothInv

-----------------------------------------------------------------------------
(* Types *)

Stores == [Schemes -> [Knobs -> [Rails -> Levels]]]
Batches == [at : {"idle", "next", "resolve", "ac", "dc", "commit", "readback", "refresh"},
            req : Requests \cup {NoPolicy}, next : 1..7, scheme : Schemes,
            applied : BOOLEAN, failed : BOOLEAN]

LEMMA OrderFacts ==
  /\ Len(Order) = 6
  /\ \A i \in 1..6 : Order[i] \in Knobs
  /\ \A i, j \in 1..6 : Order[i] = Order[j] => i = j
  /\ \A k \in Knobs : \E i \in 1..6 : Order[i] = k
BY DEF Order, Knobs

LEMMA TypeParts ==
  ASSUME CpuTypeOK
  PROVE  /\ power \in [active : Schemes, store : Stores] /\ batch \in Batches
         /\ seen \in [Knobs -> [Rails -> Levels \cup {Unknown_}]]
         /\ writable \subseteq Knobs /\ outcome \in {"none", "applied", "partial", "rejected"}
         /\ others \in [count : 0..MaxForeign, now : BOOLEAN, smooth : BOOLEAN]
BY OrderFacts DEF CpuTypeOK, Stores, Batches

LEMMA TypeFromParts ==
  ASSUME power \in [active : Schemes, store : Stores], batch \in Batches,
         seen \in [Knobs -> [Rails -> Levels \cup {Unknown_}]],
         writable \subseteq Knobs, outcome \in {"none", "applied", "partial", "rejected"},
         others \in [count : 0..MaxForeign, now : BOOLEAN, smooth : BOOLEAN]
  PROVE  CpuTypeOK
BY OrderFacts DEF CpuTypeOK, Stores, Batches

LEMMA AskedIsValue ==
  ASSUME NEW req \in Requests \cup {NoPolicy}, NEW k \in Knobs, NEW r \in Rails
  PROVE  Asked(req, k, r) \in Values
<1>1. CASE req \in Requests
  BY <1>1, CpuPolicyAssumption DEF Asked, Values
<1>2. CASE req = NoPolicy
  BY <1>2 DEF Asked, Values, NoPolicy
<1> QED BY <1>1, <1>2

LEMMA NoBatchFacts ==
  /\ NoBatch \in Batches /\ NoBatch.at = "idle" /\ NoBatch.next = 1
  /\ ~NoBatch.failed
BY CpuPolicyAssumption DEF NoBatch, Batches

\* Writing one rail leaves every other value as it was.
LEMMA RailWritten ==
  ASSUME CpuTypeOK, NEW s \in Schemes, NEW k \in Knobs, NEW r \in Rails, NEW v \in Levels,
         power' = [power EXCEPT !.store[s][k][r] = v]
  PROVE  /\ power' \in [active : Schemes, store : Stores] /\ power'.active = power.active
         /\ \A s2 \in Schemes, k2 \in Knobs, r2 \in Rails :
              power'.store[s2][k2][r2] =
                IF s2 = s /\ k2 = k /\ r2 = r THEN v ELSE power.store[s2][k2][r2]
<1>1. power \in [active : Schemes, store : Stores]
  BY TypeParts
<1> DEFINE store == [power.store EXCEPT ![s] =
                       [power.store[s] EXCEPT ![k] = [power.store[s][k] EXCEPT ![r] = v]]]
<1>2. power' = [power EXCEPT !.store = store]
  OBVIOUS
<1>3. power.store \in Stores
  BY <1>1
<1>4. /\ store \in Stores
      /\ \A s2 \in Schemes, k2 \in Knobs, r2 \in Rails :
           store[s2][k2][r2] = IF s2 = s /\ k2 = k /\ r2 = r THEN v ELSE power.store[s2][k2][r2]
  BY <1>3 DEF Stores
<1> HIDE DEF store
<1>5. power'.store = store /\ power'.active = power.active /\ power' \in [active : Schemes, store : Stores]
  BY <1>1, <1>2, <1>4
<1> QED BY ZenonT(60), <1>4, <1>5

-----------------------------------------------------------------------------
LEMMA TypeInit == CpuInit => CpuTypeOK
<1> SUFFICES ASSUME CpuInit PROVE CpuTypeOK
  OBVIOUS
<1>1. PICK l \in Levels : power = [active |-> NoBatch.scheme,
          store |-> [s \in Schemes |-> [k \in Knobs |-> [r \in Rails |-> l]]]]
  BY DEF CpuInit
<1>2. NoBatch \in Batches /\ NoBatch.scheme \in Schemes
  BY NoBatchFacts DEF Batches
<1>3. power \in [active : Schemes, store : Stores]
  BY <1>1, <1>2 DEF Stores
<1>4. seen \in [Knobs -> [Rails -> Levels \cup {Unknown_}]]
  <2>1. CASE seen = Active(power)
    BY <1>3, <2>1 DEF Active, Stores
  <2>2. CASE seen = [k \in Knobs |-> [r \in Rails |-> Unknown_]]
    BY <2>2
  <2> QED BY <2>1, <2>2 DEF CpuInit
<1>5. others \in [count : 0..MaxForeign, now : BOOLEAN, smooth : BOOLEAN]
  <2>1. PICK v \in BOOLEAN : v = (seen = Active(power))
    OBVIOUS
  <2>2. others = [count |-> 0, now |-> FALSE, smooth |-> v]
    BY <2>1 DEF CpuInit
  <2> QED BY <2>2, CpuPolicyAssumption
<1>6. batch \in Batches /\ writable \subseteq Knobs /\ outcome = "none"
  BY <1>2 DEF CpuInit
<1>7. outcome \in {"none", "applied", "partial", "rejected"}
  BY <1>6
<1> QED BY <1>3, <1>4, <1>5, <1>6, <1>7, TypeFromParts

\* The place the batch takes up next is the first one that is asked for.
LEMMA FirstPending ==
  ASSUME CpuTypeOK, Pending # {}
  PROVE  LET i == CHOOSE i \in Pending : \A j \in Pending : i <= j
         IN i \in Pending /\ i \in 1..6 /\ (\A j \in Pending : i <= j)
<1>1. Pending \subseteq 1..6
  <2>1. batch.next \in 1..7
    BY TypeParts DEF Batches
  <2> QED BY <2>1, OrderFacts DEF Pending
<1>2. \E i \in Pending : \A j \in Pending : i <= j
  <2> SUFFICES ASSUME \A i \in Pending : \E j \in Pending : j < i PROVE FALSE
    BY <1>1
  <2>1. 1 \notin Pending
    BY <1>1
  <2>2. 2 \notin Pending
    BY <1>1, <2>1
  <2>3. 3 \notin Pending
    BY <1>1, <2>1, <2>2
  <2>4. 4 \notin Pending
    BY <1>1, <2>1, <2>2, <2>3
  <2>5. 5 \notin Pending
    BY <1>1, <2>1, <2>2, <2>3, <2>4
  <2>6. 6 \notin Pending
    BY <1>1, <2>1, <2>2, <2>3, <2>4, <2>5
  <2>7. \A i \in 1..6 : i = 1 \/ i = 2 \/ i = 3 \/ i = 4 \/ i = 5 \/ i = 6
    OBVIOUS
  <2> QED BY <1>1, <2>1, <2>2, <2>3, <2>4, <2>5, <2>6, <2>7
<1> QED BY <1>1, <1>2

LEMMA RefreshedType ==
  ASSUME CpuTypeOK, NEW hidden \in Hidden
  PROVE  /\ Refreshed(hidden) \in [Knobs -> [Rails -> Levels \cup {Unknown_}]]
         /\ \A k \in Knobs : Refreshed(hidden)[k] \in {seen[k], Active(power)[k]}
<1>1. \A k \in Knobs : Active(power)[k] \in [Rails -> Levels \cup {Unknown_}]
  BY TypeParts DEF Active, Stores
<1> QED BY <1>1, TypeParts DEF Refreshed

LEMMA StampsType ==
  ASSUME CpuTypeOK, NEW k \in Knobs
  PROVE  /\ Stamps(k, Active(power)) \in [Knobs -> [Rails -> Levels \cup {Unknown_}]]
         /\ \A q \in Knobs \ {k} : Stamps(k, Active(power))[q] = seen[q]
         /\ \A r \in Rails : Stamps(k, Active(power))[k][r] =
              IF k = "boost" /\ Asked(batch.req, k, r) = NotAsked THEN seen[k][r]
              ELSE Active(power)[k][r]
<1>1. seen \in [Knobs -> [Rails -> Levels \cup {Unknown_}]] /\ seen[k] \in [Rails -> Levels \cup {Unknown_}]
      /\ Active(power)[k] \in [Rails -> Levels \cup {Unknown_}]
  BY TypeParts DEF Active, Stores
<1> QED BY <1>1 DEF Stamps

-----------------------------------------------------------------------------
LEMMA CpuInvInit == CpuInit => CpuInv
<1> SUFFICES ASSUME CpuInit PROVE CpuInv
  OBVIOUS
<1>1. CpuTypeOK
  BY TypeInit
<1>2. batch.at = "idle" /\ outcome = "none"
  BY NoBatchFacts DEF CpuInit
<1>3. PlaceInOrder /\ BatchAchieved /\ AppliedIsInForce
  BY <1>2 DEF PlaceInOrder, Writing, BatchAchieved, InBatch, AppliedIsInForce
<1>4. SmoothInv
  <2> SUFFICES ASSUME others.smooth PROVE OthersOrdered /\ BoundsObserved /\ MinimumBelowMaximum
    BY <1>2 DEF SmoothInv, InBatch
  <2>1. seen = Active(power)
    <3>1. PICK v \in BOOLEAN : v = (seen = Active(power))
      OBVIOUS
    <3>2. others = [count |-> 0, now |-> FALSE, smooth |-> v]
      BY <3>1 DEF CpuInit
    <3> QED BY <3>1, <3>2
  <2>2. PICK l \in Levels : power = [active |-> NoBatch.scheme,
          store |-> [s \in Schemes |-> [k \in Knobs |-> [r \in Rails |-> l]]]]
    BY DEF CpuInit
  <2>3. \A s \in Schemes, r \in Rails : power.store[s]["min"][r] = l /\ power.store[s]["max"][r] = l
    BY <2>2 DEF Knobs
  <2>4. l \in Nat
    BY CpuPolicyAssumption
  <2> QED BY <2>1, <2>3, <2>4 DEF OthersOrdered, BoundsObserved, MinimumBelowMaximum
<1> QED BY <1>1, <1>3, <1>4 DEF CpuInv

LEMMA InvRejects ==
  ASSUME CpuInv, NEW req \in Requests, RejectsPolicy(req)
  PROVE  CpuInv'
<1>1. /\ batch.at = "idle" /\ outcome' = "rejected"
      /\ UNCHANGED <<power, writable, seen, batch, others>>
  BY DEF RejectsPolicy
<1>2. CpuTypeOK'
  BY <1>1 DEF CpuInv, CpuTypeOK
<1>3. PlaceInOrder' /\ BatchAchieved' /\ AppliedIsInForce'
  BY <1>1 DEF PlaceInOrder, Writing, BatchAchieved, InBatch, AppliedIsInForce
<1>4. SmoothInv'
  BY <1>1 DEF CpuInv, SmoothInv, InBatch, OthersOrdered, BoundsObserved, Writing, Knob, MinimumBelowMaximum
<1> QED BY <1>2, <1>3, <1>4 DEF CpuInv

\* The gate looks at what the rails will hold.
LEMMA InvAccepts ==
  ASSUME CpuInv, NEW req \in Requests, AcceptsPolicy(req)
  PROVE  CpuInv'
<1>1. /\ batch.at = "idle" /\ GateHolds(req) /\ outcome' = "none"
      /\ others' = [others EXCEPT !.now = FALSE]
      /\ UNCHANGED <<power, writable, seen>>
  BY DEF AcceptsPolicy
<1>2. batch' \in Batches /\ batch'.at = "next" /\ batch'.req = req /\ batch'.next = 1
  BY NoBatchFacts DEF AcceptsPolicy, Batches
<1>3. others' \in [count : 0..MaxForeign, now : BOOLEAN, smooth : BOOLEAN] /\ others'.smooth = others.smooth
  BY <1>1, TypeParts DEF CpuInv
<1>4. CpuTypeOK'
  BY <1>1, <1>2, <1>3, OrderFacts DEF CpuInv, CpuTypeOK, Batches
<1>5. PlaceInOrder' /\ BatchAchieved' /\ AppliedIsInForce'
  BY <1>2 DEF PlaceInOrder, Writing, BatchAchieved, SchemeIsActive, Behind, AppliedIsInForce
<1>6. SmoothInv'
  <2> SUFFICES ASSUME others.smooth PROVE OthersOrdered' /\ BoundsObserved' /\ SmoothBatch'
    BY <1>2, <1>3 DEF SmoothInv, InBatch
  <2>1. OthersOrdered /\ BoundsObserved /\ ~Writing
    BY <1>1 DEF CpuInv, SmoothInv, Writing
  <2>2. \A k \in Bounds, r \in Rails : seen[k][r] = Active(power)[k][r] /\ Active(power)[k][r] \in Levels
    BY <2>1, TypeParts DEF BoundsObserved, CpuInv, Active, Stores, Bounds, Knobs
  <2>3. OthersOrdered' /\ BoundsObserved'
    BY <1>1, <2>1, <2>2 DEF OthersOrdered, BoundsObserved, Active
  <2>4. ASSUME NEW r \in Rails PROVE Final("min", r)' <= Final("max", r)'
    <3>1. ASSUME NEW k \in Bounds PROVE Expected(req, k, r) \in Levels /\ Final(k, r)' = Expected(req, k, r)
      <4>1. Asked(req, k, r) \in Values
        BY AskedIsValue DEF Bounds, Knobs
      <4> QED BY <1>1, <1>2, <2>2, <4>1 DEF Expected, Final, Values, Active
    <3>2. \A k \in Bounds : Expected(req, k, r) # Unknown_
      BY <3>1, CpuPolicyAssumption DEF Unknown_
    <3>3. Expected(req, "min", r) <= Expected(req, "max", r)
      BY <1>1, <3>2 DEF GateHolds, RangeHolds, Bounds
    <3> QED BY <3>1, <3>3 DEF Bounds
  <2>5. SmoothBatch'
    BY <1>2, <2>4 DEF SmoothBatch, SchemeIsActive, Writing, Behind
  <2> QED BY <2>3, <2>5
<1> QED BY <1>4, <1>5, <1>6 DEF CpuInv

\* The knobs between one that was asked for and the next are not asked for.
LEMMA InvNextKnob ==
  ASSUME CpuInv, NextKnob
  PROVE  CpuInv'
<1>1. batch.at = "next" /\ batch \in Batches /\ UNCHANGED <<power, writable, seen, outcome, others>>
  BY TypeParts DEF NextKnob, CpuInv
<1>2. /\ batch' \in Batches /\ batch'.at \in {"refresh", "resolve"} /\ batch'.req = batch.req
      /\ batch'.failed = batch.failed /\ batch'.scheme = batch.scheme
      /\ batch'.at = "refresh" => batch'.next = batch.next /\ Pending = {}
      /\ batch'.at = "resolve" => batch'.next \in Pending /\ batch'.next \in 1..6
                                  /\ \A j \in Pending : batch'.next <= j
  <2>1. CASE Pending = {}
    BY <1>1, <2>1 DEF NextKnob, Batches
  <2>2. CASE Pending # {}
    <3> DEFINE first == CHOOSE i \in Pending : \A j \in Pending : i <= j
    <3>1. first \in Pending /\ first \in 1..6 /\ (\A j \in Pending : first <= j)
      BY <2>2, FirstPending DEF CpuInv
    <3>2. batch' = [batch EXCEPT !.at = "resolve", !.next = first]
      BY <2>2 DEF NextKnob
    <3> HIDE DEF first
    <3>3. first \in 1..7
      BY <3>1
    <3>4. /\ batch' \in Batches /\ batch'.at = "resolve" /\ batch'.req = batch.req
          /\ batch'.failed = batch.failed /\ batch'.scheme = batch.scheme /\ batch'.next = first
      BY <1>1, <3>2, <3>3 DEF Batches
    <3> QED BY <3>1, <3>4
  <2> QED BY <2>1, <2>2
<1>3. CpuTypeOK'
  BY <1>1, <1>2, OrderFacts DEF CpuInv, CpuTypeOK, Batches
<1>4. PlaceInOrder'
  BY <1>2 DEF PlaceInOrder, Writing, Pending
<1>5. ASSUME NEW i \in Behind'
      PROVE  i \in Behind \/ (i \in 1..6 /\ \A r \in Rails : Asked(batch.req, Order[i], r) = NotAsked)
  <2>1. batch.next \in 1..7 /\ batch'.next \in 1..7
    BY <1>1, <1>2 DEF Batches
  <2>2. CASE i \notin Behind
    <3>1. i \in batch.next..6 /\ i < batch'.next /\ batch'.at = "resolve"
      BY <1>2, <1>5, <2>1, <2>2 DEF Behind
    <3>2. ~(batch'.next <= i)
      BY <2>1, <3>1
    <3>3. i \notin Pending
      BY <1>2, <3>1, <3>2
    <3> QED BY <2>1, <3>1, <3>3, OrderFacts DEF Pending, IsAsked
  <2> QED BY <2>2
<1>6. BatchAchieved' /\ AppliedIsInForce'
  <2> SUFFICES ASSUME ~batch.failed, ~others.now, NEW i \in Behind'
               PROVE  InForce(Order[i])' /\ Observed(Order[i])'
    BY <1>1, <1>2 DEF BatchAchieved, SchemeIsActive, Writing, AppliedIsInForce
  <2>1. CASE i \in Behind
    BY <1>1, <1>2, <2>1 DEF CpuInv, BatchAchieved, InBatch, InForce, Observed, Active
  <2>2. CASE \A r \in Rails : Asked(batch.req, Order[i], r) = NotAsked
    BY <1>2, <2>2 DEF InForce, Observed
  <2> QED BY <1>5, <2>1, <2>2
<1>7. SmoothInv'
  <2> SUFFICES ASSUME others.smooth PROVE OthersOrdered' /\ BoundsObserved' /\ SmoothBatch'
    BY <1>1, <1>2 DEF SmoothInv, InBatch
  <2>1. OthersOrdered /\ BoundsObserved /\ ~Writing /\ SmoothBatch
    BY <1>1 DEF CpuInv, SmoothInv, Writing, InBatch
  <2>2. OthersOrdered' /\ BoundsObserved'
    BY <1>1, <2>1 DEF OthersOrdered, BoundsObserved, Active
  <2>3. \A i \in Behind' : InForce(Order[i])'
    <3> TAKE i \in Behind'
    <3>1. CASE i \in Behind
      BY <1>1, <1>2, <2>1, <3>1 DEF SmoothBatch, InForce, Active
    <3>2. CASE \A r \in Rails : Asked(batch.req, Order[i], r) = NotAsked
      BY <1>2, <3>2 DEF InForce
    <3> QED BY <1>5, <3>1, <3>2
  <2>4. SmoothBatch'
    BY <1>1, <1>2, <2>1, <2>3 DEF SmoothBatch, SchemeIsActive, Writing, Final, Active
  <2> QED BY <2>2, <2>4
<1> QED BY <1>3, <1>4, <1>6, <1>7 DEF CpuInv

LEMMA InvResolves ==
  ASSUME CpuInv, ResolvesScheme
  PROVE  CpuInv'
<1>1. /\ batch.at = "resolve" /\ batch \in Batches /\ power.active \in Schemes
      /\ UNCHANGED <<power, writable, seen, outcome, others>>
  BY TypeParts DEF ResolvesScheme, CpuInv
<1>2. /\ batch' \in Batches /\ batch'.at = "ac" /\ batch'.scheme = power.active /\ batch'.req = batch.req
      /\ batch'.next = batch.next /\ batch'.failed = batch.failed
  BY <1>1 DEF ResolvesScheme, Batches
<1>3. CpuTypeOK'
  BY <1>1, <1>2, OrderFacts DEF CpuInv, CpuTypeOK, Batches
<1>4. PlaceInOrder'
  BY <1>1, <1>2 DEF CpuInv, PlaceInOrder, Writing
<1>5. BatchAchieved' /\ AppliedIsInForce'
  BY <1>1, <1>2 DEF CpuInv, BatchAchieved, InBatch, SchemeIsActive, Behind, InForce, Observed, Active,
                    AppliedIsInForce
<1>6. SmoothInv'
  <2> SUFFICES ASSUME others.smooth PROVE OthersOrdered' /\ BoundsObserved' /\ SmoothBatch'
    BY <1>1, <1>2 DEF SmoothInv, InBatch
  <2>1. OthersOrdered /\ BoundsObserved /\ ~Writing /\ SmoothBatch
    BY <1>1 DEF CpuInv, SmoothInv, Writing, InBatch
  <2>2. OthersOrdered' /\ BoundsObserved'
    BY <1>1, <2>1 DEF OthersOrdered, BoundsObserved, Active
  <2>3. SmoothBatch'
    BY <1>1, <1>2, <2>1 DEF SmoothBatch, SchemeIsActive, Behind, InForce, Final, Active
  <2> QED BY <2>2, <2>3
<1> QED BY <1>3, <1>4, <1>5, <1>6 DEF CpuInv

\* A rail of the knob under way gets the value it is to have in the end; the knobs behind
\* it, and the other schemes, keep theirs.
LEMMA InvWritesRail ==
  ASSUME CpuInv, NEW r \in Rails, WritesRail(r)
  PROVE  CpuInv'
<1> DEFINE v == Asked(batch.req, Knob, r)
<1>1. /\ batch.at = r /\ batch \in Batches /\ UNCHANGED <<writable, seen, outcome, others>>
      /\ batch.next \in 1..6 /\ Knob \in Knobs /\ batch.scheme \in Schemes /\ Writing
      /\ power \in [active : Schemes, store : Stores]
  <2>1. batch.at = r /\ batch \in Batches /\ UNCHANGED <<writable, seen, outcome, others>>
        /\ power \in [active : Schemes, store : Stores]
    BY TypeParts DEF WritesRail, CpuInv
  <2>2. Writing
    BY <2>1 DEF Writing, Rails
  <2>3. batch.next \in 1..6
    BY <2>2 DEF CpuInv, PlaceInOrder
  <2> QED BY <2>1, <2>2, <2>3, OrderFacts DEF Knob, Batches
<1>2. /\ batch' \in Batches /\ batch'.at = (IF r = "ac" THEN "dc" ELSE "commit")
      /\ batch'.scheme = batch.scheme /\ batch'.req = batch.req
      /\ batch'.next = batch.next /\ batch'.failed = batch.failed
  BY <1>1 DEF WritesRail, Batches
<1>3. v \in Values
  <2>1. batch.req \in Requests \cup {NoPolicy}
    BY <1>1 DEF Batches
  <2> QED BY <1>1, <2>1, AskedIsValue
<1> HIDE DEF v
<1>4. /\ power' \in [active : Schemes, store : Stores] /\ power'.active = power.active
      /\ \A s2 \in Schemes, k2 \in Knobs, r2 \in Rails :
           power'.store[s2][k2][r2] =
             IF s2 = batch.scheme /\ k2 = Knob /\ r2 = r /\ v # NotAsked THEN v
             ELSE power.store[s2][k2][r2]
  <2>1. CASE v = NotAsked
    BY <1>1, <2>1 DEF WritesRail, v
  <2>2. CASE v # NotAsked
    <3>1. power' = [power EXCEPT !.store[batch.scheme][Knob][r] = v] /\ v \in Levels
      BY <1>3, <2>2 DEF WritesRail, v, Values
    <3> QED BY SMTT(60), <1>1, <2>2, <3>1, RailWritten DEF CpuInv
  <2> QED BY <2>1, <2>2
<1>5. CpuTypeOK'
  BY <1>1, <1>2, <1>4, OrderFacts DEF CpuInv, CpuTypeOK, Batches, Stores
<1>6. PlaceInOrder'
  BY <1>1, <1>2 DEF PlaceInOrder, Writing
<1>7. \A i \in Behind : Order[i] \in Knobs /\ Order[i] # Knob
  BY <1>1, OrderFacts DEF Behind, Knob
<1>8. Behind' = Behind
  BY <1>2 DEF Behind
<1>9. ASSUME NEW i \in Behind, InForce(Order[i]) PROVE InForce(Order[i])'
  BY <1>1, <1>2, <1>4, <1>7, <1>9 DEF InForce, Active
<1>10. SchemeIsActive => SchemeIsActive'
  BY <1>1, <1>2, <1>4 DEF SchemeIsActive
<1>11. BatchAchieved' /\ AppliedIsInForce'
  <2>1. batch.at # "idle" /\ batch'.at # "idle"
    BY <1>1, <1>2 DEF Rails
  <2> SUFFICES ASSUME ~batch.failed, ~others.now
               PROVE  SchemeIsActive' /\ \A i \in Behind : InForce(Order[i])' /\ Observed(Order[i])'
    BY <1>1, <1>2, <1>8, <2>1 DEF BatchAchieved, AppliedIsInForce
  <2>2. SchemeIsActive /\ \A i \in Behind : InForce(Order[i]) /\ Observed(Order[i])
    BY <2>1 DEF CpuInv, BatchAchieved, InBatch
  <2>3. \A i \in Behind : Observed(Order[i])'
    BY <1>1, <1>2, <2>2 DEF Observed
  <2> QED BY <1>9, <1>10, <2>2, <2>3
<1>12. SmoothInv'
  <2>1. batch.at # "idle" /\ batch'.at # "idle"
    BY <1>1, <1>2 DEF Rails
  <2> SUFFICES ASSUME others.smooth PROVE OthersOrdered' /\ BoundsObserved' /\ SmoothBatch'
    BY <1>1, <2>1 DEF SmoothInv, InBatch
  <2>2. OthersOrdered /\ BoundsObserved /\ SmoothBatch /\ batch.scheme = power.active
    BY <1>1, <2>1 DEF CpuInv, SmoothInv, InBatch, SmoothBatch, SchemeIsActive
  <2>3. OthersOrdered'
    BY <1>4, <2>2 DEF OthersOrdered, Knobs
  <2>4. BoundsObserved'
    <3> SUFFICES ASSUME NEW k \in Bounds, NEW q \in Rails, k # Knob
                 PROVE  seen[k][q] = Active(power)'[k][q]
      BY <1>1, <1>2 DEF BoundsObserved, Writing, Knob
    <3>1. seen[k][q] = Active(power)[k][q] /\ k \in Knobs
      BY <2>2 DEF BoundsObserved, Bounds, Knobs
    <3> QED BY <1>1, <1>4, <3>1 DEF Active
  <2>5. \A k \in Bounds, q \in Rails : Final(k, q)' = Final(k, q)
    <3> TAKE k \in Bounds, q \in Rails
    <3>1. k \in Knobs
      BY DEF Bounds, Knobs
    <3>2. CASE k = Knob /\ q = r /\ v # NotAsked
      BY <1>2, <3>2 DEF Final, v
    <3>3. CASE ~(k = Knob /\ q = r /\ v # NotAsked)
      BY <1>1, <1>2, <1>4, <3>1, <3>3 DEF Final, Active
    <3> QED BY <3>2, <3>3
  <2>6. \A q \in Rails : Final("min", q)' <= Final("max", q)'
    BY <2>2, <2>5 DEF SmoothBatch, Bounds
  <2>7. \A i \in Behind' : InForce(Order[i])'
    BY <1>8, <1>9, <2>2 DEF SmoothBatch
  <2>8. ASSUME NEW q \in Rails, (batch'.at = "dc" /\ q = "ac") \/ batch'.at \in {"commit", "readback"},
               Asked(batch'.req, Knob', q) # NotAsked
        PROVE  Active(power)'[Knob'][q] = Asked(batch'.req, Knob', q)
    <3>1. Knob' = Knob /\ batch'.req = batch.req
      BY <1>2 DEF Knob
    <3>2. CASE q = r
      BY <1>1, <1>4, <2>2, <2>8, <3>1, <3>2 DEF Active, v
    <3>3. CASE q # r
      <4>1. r = "dc" /\ q = "ac" /\ batch.at = "dc"
        BY <1>1, <1>2, <2>8, <3>3 DEF Rails
      <4>2. Active(power)[Knob][q] = Asked(batch.req, Knob, q)
        BY <2>2, <2>8, <3>1, <4>1 DEF SmoothBatch
      <4> QED BY <1>1, <1>4, <3>1, <3>3, <4>2 DEF Active
    <3> QED BY <3>2, <3>3
  <2>9. SmoothBatch'
    BY <1>10, <2>2, <2>6, <2>7, <2>8 DEF SmoothBatch
  <2> QED BY <2>3, <2>4, <2>9
<1> QED BY <1>5, <1>6, <1>11, <1>12 DEF CpuInv

\* Making the scheme that was written active changes nothing when nobody switched.
LEMMA InvCommits ==
  ASSUME CpuInv, CommitsScheme
  PROVE  CpuInv'
<1>1. /\ batch.at = "commit" /\ batch \in Batches /\ UNCHANGED <<writable, seen, outcome, others>>
      /\ power \in [active : Schemes, store : Stores] /\ Writing /\ batch.scheme \in Schemes
  BY TypeParts DEF CommitsScheme, CpuInv, Writing, Batches
<1>2. /\ batch' \in Batches /\ batch'.at = "readback" /\ batch'.scheme = batch.scheme
      /\ batch'.req = batch.req /\ batch'.next = batch.next /\ batch'.failed = batch.failed
  BY <1>1 DEF CommitsScheme, Batches
<1>3. /\ power' \in [active : Schemes, store : Stores] /\ power'.store = power.store
      /\ power'.active = batch.scheme
  BY <1>1 DEF CommitsScheme
<1>4. CpuTypeOK'
  BY <1>1, <1>2, <1>3, OrderFacts DEF CpuInv, CpuTypeOK, Batches, Stores
<1>5. PlaceInOrder'
  BY <1>1, <1>2 DEF CpuInv, PlaceInOrder, Writing
<1>6. BatchAchieved' /\ AppliedIsInForce'
  BY <1>1, <1>2, <1>3 DEF CpuInv, BatchAchieved, InBatch, SchemeIsActive, Writing, Behind, InForce, Observed,
                          Active, AppliedIsInForce
<1>7. SmoothInv'
  <2> SUFFICES ASSUME others.smooth PROVE OthersOrdered' /\ BoundsObserved' /\ SmoothBatch'
    BY <1>1, <1>2 DEF SmoothInv, InBatch
  <2>1. OthersOrdered /\ BoundsObserved /\ SmoothBatch
    BY <1>1 DEF CpuInv, SmoothInv, InBatch
  <2>2. power'.active = power.active /\ Active(power)' = Active(power)
    BY <1>1, <1>3, <2>1 DEF SmoothBatch, SchemeIsActive, Active
  <2>3. OthersOrdered' /\ BoundsObserved'
    BY <1>1, <1>2, <1>3, <2>1, <2>2 DEF OthersOrdered, BoundsObserved, Writing, Knob
  <2>4. SmoothBatch'
    BY <1>1, <1>2, <2>1, <2>2 DEF SmoothBatch, SchemeIsActive, Writing, Behind, InForce, Final, Knob
  <2> QED BY <2>3, <2>4
<1> QED BY <1>4, <1>5, <1>6, <1>7 DEF CpuInv

\* A failure ends what the invariants say about the batch.
LEMMA InvFails ==
  ASSUME CpuInv, KnobFails \/ ReadbackFails
  PROVE  CpuInv'
<1>1. /\ batch.at \in {"resolve", "commit", "readback", "ac", "dc"} /\ batch \in Batches
      /\ UNCHANGED <<power, writable, seen, outcome>>
      /\ others' = [others EXCEPT !.smooth = FALSE]
  BY TypeParts DEF KnobFails, ReadbackFails, Rails, CpuInv
<1>2. batch.next \in 1..6
  BY <1>1 DEF CpuInv, PlaceInOrder, Writing
<1>3. batch' \in Batches /\ batch'.at = "next" /\ batch'.failed
  <2>1. PICK applied \in BOOLEAN :
          batch' = [batch EXCEPT !.at = "next", !.next = batch.next + 1, !.applied = applied, !.failed = TRUE]
    <3>1. CASE KnobFails
      <4>1. batch' = [batch EXCEPT !.at = "next", !.next = @ + 1, !.failed = TRUE]
        BY <3>1 DEF KnobFails
      <4>2. batch' = [batch EXCEPT !.at = "next", !.next = batch.next + 1, !.applied = batch.applied,
                                   !.failed = TRUE]
        BY <1>1, <4>1 DEF Batches
      <4> QED BY <1>1, <4>2 DEF Batches
    <3>2. CASE ReadbackFails
      BY <3>2 DEF ReadbackFails
    <3> QED BY <3>1, <3>2
  <2>2. batch.next + 1 \in 1..7
    BY <1>2
  <2> QED BY <1>1, <2>1, <2>2 DEF Batches
<1>4. others' \in [count : 0..MaxForeign, now : BOOLEAN, smooth : BOOLEAN] /\ ~others'.smooth
  BY <1>1, TypeParts DEF CpuInv
<1>5. CpuTypeOK'
  BY <1>1, <1>3, <1>4, OrderFacts DEF CpuInv, CpuTypeOK, Batches
<1> QED BY <1>3, <1>4, <1>5 DEF CpuInv, PlaceInOrder, Writing, BatchAchieved, AppliedIsInForce, SmoothInv

\* A knob that is read back as it was asked for is in force, and observed.
LEMMA InvReadsBack ==
  ASSUME CpuInv, ReadsBack
  PROVE  CpuInv'
<1> DEFINE same == Matches(Knob, Active(power))
<1>1. /\ batch.at = "readback" /\ batch \in Batches /\ UNCHANGED <<power, writable, outcome, others>>
      /\ power \in [active : Schemes, store : Stores] /\ Writing
      /\ seen' = IF same THEN Stamps(Knob, Active(power)) ELSE seen
  BY TypeParts DEF ReadsBack, CpuInv, Writing
<1>2. batch.next \in 1..6 /\ Knob \in Knobs
  BY <1>1, OrderFacts DEF CpuInv, PlaceInOrder, Knob
<1>3. /\ batch' \in Batches /\ batch'.at = "next" /\ batch'.req = batch.req
      /\ batch'.next = batch.next + 1
      /\ ~batch'.failed => ~batch.failed /\ same
  <2>1. PICK failed \in BOOLEAN : failed = (batch.failed \/ ~same)
    OBVIOUS
  <2>2. batch' = [batch EXCEPT !.at = "next", !.next = @ + 1, !.applied = TRUE, !.failed = failed]
    BY <2>1 DEF ReadsBack
  <2>3. batch.next + 1 \in 1..7
    BY <1>2
  <2>4. /\ batch' \in Batches /\ batch'.at = "next" /\ batch'.req = batch.req
        /\ batch'.next = batch.next + 1 /\ batch'.failed = failed
    BY <1>1, <2>2, <2>3 DEF Batches
  <2> QED BY <2>1, <2>4
<1>4. /\ seen' \in [Knobs -> [Rails -> Levels \cup {Unknown_}]]
      /\ \A k \in Knobs \ {Knob} : seen'[k] = seen[k]
      /\ same => \A r \in Rails : seen'[Knob][r] =
                   IF Knob = "boost" /\ Asked(batch.req, Knob, r) = NotAsked THEN seen[Knob][r]
                   ELSE Active(power)[Knob][r]
  <2>1. seen \in [Knobs -> [Rails -> Levels \cup {Unknown_}]]
    BY TypeParts DEF CpuInv
  <2>2. CASE same
    BY <1>1, <1>2, <2>2, StampsType DEF CpuInv
  <2>3. CASE ~same
    BY <1>1, <2>1, <2>3
  <2> QED BY <2>2, <2>3
<1>5. CpuTypeOK'
  BY <1>1, <1>3, <1>4, OrderFacts DEF CpuInv, CpuTypeOK, Batches
<1>6. PlaceInOrder'
  BY <1>3 DEF PlaceInOrder, Writing
<1>7. ASSUME NEW i \in Behind'
      PROVE  (i \in Behind /\ Order[i] \in Knobs \ {Knob}) \/ Order[i] = Knob
  <2>1. i \in Behind \/ i = batch.next
    BY <1>2, <1>3 DEF Behind
  <2> QED BY <1>2, <2>1, OrderFacts DEF Behind, Knob
<1>8. same => InForce(Knob) /\ \A r \in Rails :
                Asked(batch.req, Knob, r) # NotAsked => seen'[Knob][r] = Asked(batch.req, Knob, r)
  BY <1>4 DEF Matches, InForce
<1>9. BatchAchieved' /\ AppliedIsInForce'
  <2> SUFFICES ASSUME ~batch'.failed, ~others.now, NEW i \in Behind'
               PROVE  InForce(Order[i])' /\ Observed(Order[i])'
    BY <1>1, <1>3 DEF BatchAchieved, SchemeIsActive, Writing, AppliedIsInForce
  <2>1. ~batch.failed /\ same
    BY <1>3
  <2>2. CASE i \in Behind /\ Order[i] \in Knobs \ {Knob}
    <3>1. InForce(Order[i]) /\ Observed(Order[i])
      BY <1>1, <2>1, <2>2 DEF CpuInv, BatchAchieved, InBatch
    <3> QED BY <1>1, <1>3, <1>4, <2>2, <3>1 DEF InForce, Observed, Active
  <2>3. CASE Order[i] = Knob
    BY <1>1, <1>3, <1>8, <2>1, <2>3 DEF InForce, Observed, Active
  <2> QED BY <1>7, <2>2, <2>3
<1>10. SmoothInv'
  <2> SUFFICES ASSUME others.smooth PROVE OthersOrdered' /\ BoundsObserved' /\ SmoothBatch'
    BY <1>1, <1>3 DEF SmoothInv, InBatch
  <2>1. OthersOrdered /\ BoundsObserved /\ SmoothBatch
    BY <1>1 DEF CpuInv, SmoothInv, InBatch
  <2>2. \A r \in Rails : Asked(batch.req, Knob, r) # NotAsked =>
          Active(power)[Knob][r] = Asked(batch.req, Knob, r)
    BY <1>1, <2>1 DEF SmoothBatch
  <2>3. same
    BY <2>2 DEF Matches
  <2>4. BoundsObserved'
    <3> SUFFICES ASSUME NEW k \in Bounds, NEW q \in Rails PROVE seen'[k][q] = Active(power)[k][q]
      BY <1>1 DEF BoundsObserved, Active
    <3>1. k \in Knobs /\ k # "boost"
      BY DEF Bounds, Knobs
    <3>2. CASE k = Knob
      BY <1>4, <2>3, <3>1, <3>2
    <3>3. CASE k # Knob
      BY <1>4, <2>1, <3>1, <3>3 DEF BoundsObserved
    <3> QED BY <3>2, <3>3
  <2>5. OthersOrdered'
    BY <1>1, <2>1 DEF OthersOrdered
  <2>6. \A i \in Behind' : InForce(Order[i])'
    <3> TAKE i \in Behind'
    <3>1. InForce(Order[i])
      BY <1>7, <1>8, <2>1, <2>3 DEF SmoothBatch
    <3> QED BY <1>1, <1>3, <3>1 DEF InForce, Active
  <2>7. SmoothBatch'
    BY <1>1, <1>3, <2>1, <2>6 DEF SmoothBatch, SchemeIsActive, Writing, Final, Active
  <2> QED BY <2>4, <2>5, <2>7
<1> QED BY <1>5, <1>6, <1>9, <1>10 DEF CpuInv

\* At the refresh every knob asked for is behind.
LEMMA AllBehind ==
  ASSUME CpuInv, batch.at = "refresh", NEW k \in Knobs, NEW r \in Rails,
         Asked(batch.req, k, r) # NotAsked
  PROVE  \E i \in Behind : Order[i] = k
<1>1. batch.next \in 1..7 /\ Pending = {}
  BY TypeParts DEF CpuInv, PlaceInOrder, Batches
<1>2. PICK i \in 1..6 : Order[i] = k
  BY OrderFacts
<1>3. IsAsked(batch.req, Order[i])
  BY <1>2 DEF IsAsked
<1>4. ~(i \in batch.next..6)
  BY <1>1, <1>3, OrderFacts DEF Pending
<1>5. i \in Behind
  BY <1>1, <1>4 DEF Behind
<1> QED BY <1>2, <1>5

LEMMA InvEnds ==
  ASSUME CpuInv, EndsPolicy
  PROVE  CpuInv'
<1>1. PICK hidden \in Hidden : seen' = Refreshed(hidden)
  BY DEF EndsPolicy
<1>2. /\ batch.at = "refresh" /\ batch \in Batches /\ outcome' = Outcome(batch)
      /\ UNCHANGED <<power, writable, others>>
  BY TypeParts DEF EndsPolicy, CpuInv
<1>3. batch' \in Batches /\ batch'.at = "idle" /\ batch'.req = batch.req
  BY <1>2, NoBatchFacts DEF EndsPolicy, Batches
<1>4. /\ seen' \in [Knobs -> [Rails -> Levels \cup {Unknown_}]]
      /\ \A k \in Knobs : seen'[k] \in {seen[k], Active(power)[k]}
  BY <1>1, RefreshedType DEF CpuInv
<1>5. outcome' \in {"none", "applied", "partial", "rejected"} /\ (outcome' = "applied" => ~batch.failed)
  BY <1>2 DEF Outcome
<1>6. CpuTypeOK'
  BY <1>2, <1>3, <1>4, <1>5, OrderFacts DEF CpuInv, CpuTypeOK, Batches
<1>7. PlaceInOrder' /\ BatchAchieved'
  BY <1>3 DEF PlaceInOrder, Writing, BatchAchieved, InBatch
<1>8. AppliedIsInForce'
  <2> SUFFICES ASSUME outcome' = "applied", ~others.now, NEW k \in Knobs, NEW r \in Rails,
                      Asked(batch.req, k, r) # NotAsked
               PROVE  /\ Active(power)[k][r] = Asked(batch.req, k, r)
                      /\ seen'[k][r] = Asked(batch.req, k, r)
    BY <1>2, <1>3 DEF AppliedIsInForce, Active
  <2>1. PICK i \in Behind : Order[i] = k
    BY <1>2, AllBehind
  <2>2. InForce(k) /\ Observed(k)
    BY <1>2, <1>5, <2>1 DEF CpuInv, BatchAchieved, InBatch
  <2> QED BY <1>4, <2>2 DEF InForce, Observed
<1>9. SmoothInv'
  <2> SUFFICES ASSUME others.smooth PROVE OthersOrdered' /\ BoundsObserved' /\ MinimumBelowMaximum'
    BY <1>2, <1>3 DEF SmoothInv, InBatch
  <2>1. OthersOrdered /\ BoundsObserved /\ SmoothBatch
    BY <1>2 DEF CpuInv, SmoothInv, InBatch
  <2>2. \A k \in Bounds : k \in Knobs
    BY DEF Bounds, Knobs
  <2>3. OthersOrdered'
    BY <1>2, <2>1 DEF OthersOrdered
  <2>4. BoundsObserved'
    BY <1>2, <1>4, <2>1, <2>2 DEF BoundsObserved, Writing, Active
  <2>5. \A k \in Bounds, r \in Rails : Final(k, r) = Active(power)[k][r]
    <3> TAKE k \in Bounds, r \in Rails
    <3>1. CASE Asked(batch.req, k, r) = NotAsked
      BY <3>1 DEF Final
    <3>2. CASE Asked(batch.req, k, r) # NotAsked
      <4>1. PICK i \in Behind : Order[i] = k
        BY <1>2, <2>2, <3>2, AllBehind
      <4> QED BY <2>1, <3>2, <4>1 DEF SmoothBatch, InForce, Final
    <3> QED BY <3>1, <3>2
  <2>6. \A r \in Rails : Active(power)["min"][r] <= Active(power)["max"][r]
    BY <2>1, <2>5 DEF SmoothBatch, Bounds
  <2>7. MinimumBelowMaximum'
    BY <1>2, <2>1, <2>6 DEF MinimumBelowMaximum, OthersOrdered, Active
  <2> QED BY <2>3, <2>4, <2>7
<1> QED BY <1>6, <1>7, <1>8, <1>9 DEF CpuInv

\* A refresh observes what is there.
LEMMA InvRefreshes ==
  ASSUME CpuInv, RefreshesPolicy
  PROVE  CpuInv'
<1>1. PICK hidden \in Hidden : seen' = Refreshed(hidden)
  BY DEF RefreshesPolicy
<1>2. batch.at = "idle" /\ UNCHANGED <<power, writable, batch, outcome, others>>
  BY DEF RefreshesPolicy
<1>3. /\ seen' \in [Knobs -> [Rails -> Levels \cup {Unknown_}]]
      /\ \A k \in Knobs : seen'[k] \in {seen[k], Active(power)[k]}
  BY <1>1, RefreshedType DEF CpuInv
<1>4. CpuTypeOK'
  BY <1>2, <1>3 DEF CpuInv, CpuTypeOK
<1>5. PlaceInOrder' /\ BatchAchieved'
  BY <1>2 DEF PlaceInOrder, Writing, BatchAchieved, InBatch
<1>6. AppliedIsInForce'
  BY <1>2, <1>3 DEF CpuInv, AppliedIsInForce
<1>7. SmoothInv'
  <2>1. \A k \in Bounds : k \in Knobs
    BY DEF Bounds, Knobs
  <2> QED BY <1>2, <1>3, <2>1 DEF CpuInv, SmoothInv, InBatch, OthersOrdered, BoundsObserved, Writing, Active,
                                  MinimumBelowMaximum
<1> QED BY <1>4, <1>5, <1>6, <1>7 DEF CpuInv

\* Somebody else at the schemes: from then on nothing is said of this batch.
LEMMA InvForeign ==
  ASSUME CpuInv, SwitchesScheme \/ ChangesSetting
  PROVE  CpuInv'
<1>1. IsForeign /\ UNCHANGED <<writable, seen, batch, outcome>>
  BY DEF SwitchesScheme, ChangesSetting
<1>2. /\ others' \in [count : 0..MaxForeign, now : BOOLEAN, smooth : BOOLEAN]
      /\ others'.now /\ ~others'.smooth
  BY <1>1, TypeParts, CpuPolicyAssumption DEF IsForeign, CpuInv
<1>3. power' \in [active : Schemes, store : Stores]
  <2>1. power \in [active : Schemes, store : Stores]
    BY TypeParts DEF CpuInv
  <2>2. CASE SwitchesScheme
    BY <2>1, <2>2 DEF SwitchesScheme
  <2>3. CASE ChangesSetting
    <3>1. PICK k \in {"min", "max"}, r \in Rails, v \in Levels :
            power' = [power EXCEPT !.store[power.active][k][r] = v]
      BY <2>3 DEF ChangesSetting
    <3>2. k \in Knobs /\ power.active \in Schemes
      BY <2>1 DEF Knobs
    <3> QED BY SMTT(60), <3>1, <3>2, RailWritten DEF CpuInv
  <2> QED BY <2>2, <2>3
<1>4. CpuTypeOK'
  BY <1>1, <1>2, <1>3 DEF CpuInv, CpuTypeOK, Stores
<1>5. PlaceInOrder'
  BY <1>1 DEF CpuInv, PlaceInOrder, Writing, Pending
<1> QED BY <1>2, <1>4, <1>5 DEF CpuInv, BatchAchieved, AppliedIsInForce, SmoothInv

LEMMA CpuInvStep == CpuInv /\ [CpuNext]_cpuVars => CpuInv'
<1> SUFFICES ASSUME CpuInv, [CpuNext]_cpuVars PROVE CpuInv'
  OBVIOUS
<1>1. CASE UNCHANGED cpuVars
  <2>1. CpuTypeOK' /\ PlaceInOrder' /\ AppliedIsInForce'
    BY <1>1 DEF cpuVars, CpuInv, CpuTypeOK, PlaceInOrder, Writing, Pending, AppliedIsInForce
  <2>2. BatchAchieved'
    BY <1>1 DEF cpuVars, CpuInv, BatchAchieved, InBatch, SchemeIsActive, Writing, Behind, InForce, Observed
  <2>3. SmoothInv'
    BY <1>1 DEF cpuVars, CpuInv, SmoothInv, InBatch, OthersOrdered, BoundsObserved, Writing, Knob, SmoothBatch,
                SchemeIsActive, Final, Behind, InForce, MinimumBelowMaximum
  <2> QED BY <2>1, <2>2, <2>3 DEF CpuInv
<1> QED BY <1>1, InvRejects, InvAccepts, InvNextKnob, InvResolves, InvWritesRail, InvCommits, InvFails,
           InvReadsBack, InvEnds, InvRefreshes, InvForeign DEF CpuNext

\* For every set of schemes, levels and policies, a policy reported as applied is in force
\* in the active scheme, and observed, unless somebody else was at the schemes meanwhile.
THEOREM AppliedAlwaysInForce == CpuSpec => []AppliedIsInForce
<1>1. CpuInv => AppliedIsInForce
  BY DEF CpuInv
<1> QED BY CpuInvInit, CpuInvStep, <1>1, PTL DEF CpuSpec

\* And no sequence of policies, whichever bound each one sets, leaves a minimum above its
\* maximum as long as nothing fails and nobody else is at the schemes.
THEOREM MinimumAlwaysBelowMaximum == CpuSpec => []MinimumBelowMaximum
<1>1. CpuInv => MinimumBelowMaximum
  BY DEF CpuInv, SmoothInv, InBatch, MinimumBelowMaximum
<1> QED BY CpuInvInit, CpuInvStep, <1>1, PTL DEF CpuSpec

=============================================================================
