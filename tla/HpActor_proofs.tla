--------------------------- MODULE HpActor_proofs ----------------------------
(***************************************************************************)
(* The HP actor implements the firmware calls ControlCoordinator is built   *)
(* on, for any written channels and any queue length.  The coordinator has   *)
(* at most one request that is not cancelled; what a write has done and what *)
(* its caller was told are tied together at every moment; a write left       *)
(* behind by a timeout is in the actor's hands or in place, and the actor    *)
(* turns to nothing else before it is over.                                  *)
(***************************************************************************)
EXTENDS HpActor, SequenceTheorems, TLAPS

Coord == call["coordinator"]

\* The coordinator's requests that the actor will still execute.
Queued(i) == i \in 1..Len(fifo) /\ fifo[i].from = "coordinator" /\ ~fifo[i].cancelled
InHand == InHands("coordinator")

\* A request of the coordinator that it has given up, in the actor's hands.
Abandoned == cur.stage # "free" /\ cur.env.from = "coordinator" /\ cur.env.cancelled

\* The write is in place, and it is the one the coordinator does not know of.
InPlace(write) == landing.ch = write.ch /\ hw[write.ch] = write.val

OneSource ==
  /\ call["collector"].write = NoWrite
  /\ \A i \in 1..Len(fifo) : fifo[i].from # "coordinator" => fifo[i].write = NoWrite
  /\ cur.env.from # "coordinator" => cur.env.write = NoWrite

OneRequest ==
  /\ \A i \in 1..Len(fifo) : Queued(i) =>
       Coord.open /\ Coord.answer = "none" /\ fifo[i].write = Coord.write /\ ~InHand
  /\ \A i, j \in 1..Len(fifo) : Queued(i) /\ Queued(j) => i = j
  /\ InHand => Coord.open /\ Coord.answer = "none" /\ cur.env.write = Coord.write

GoneIsIdle == actor = "gone" => fifo = <<>> /\ cur.stage = "free"

HandMatches ==
  /\ cur.stage = "written" => cur.env.write # NoWrite /\ WillLand
  /\ InHand => stuck = NoWrite
  /\ InHand /\ cur.stage = "taken" => landing = NoLanding
  /\ InHand /\ cur.stage = "written" => InPlace(cur.env.write)

AnswerMatches ==
  Coord.open /\ Coord.answer # "none" =>
    /\ stuck = NoWrite
    /\ cur.stage # "free" => cur.env.from # "coordinator"
    /\ Coord.answer = "ok" /\ Coord.write # NoWrite => InPlace(Coord.write)
    /\ Coord.answer = "error" /\ landing # NoLanding => Coord.write # NoWrite /\ InPlace(Coord.write)
    /\ Coord.answer = "refused" \/ (Coord.answer = "ok" /\ Coord.write = NoWrite)
         => landing = NoLanding

LandingMatches ==
  landing # NoLanding /\ stuck = NoWrite =>
    \/ InHand /\ cur.stage = "written"
    \/ Coord.open /\ Coord.answer \in {"ok", "error"}

StuckMatches ==
  /\ stuck # NoWrite =>
       \/ InPlace(stuck)
       \/ landing = NoLanding /\ Abandoned /\ cur.stage = "taken" /\ cur.env.write = stuck /\ WillLand
  /\ Abandoned /\ cur.env.write # NoWrite /\ WillLand =>
       /\ stuck = cur.env.write
       /\ cur.stage = "taken" => landing = NoLanding
       /\ cur.stage = "written" => InPlace(stuck)

ActorOrder ==
  /\ OneSource /\ OneRequest /\ GoneIsIdle /\ HandMatches /\ AnswerMatches
  /\ LandingMatches /\ StuckMatches

\* What the cache holds while the coordinator vouches for the level.
LevelMatches ==
  /\ ~Coord.open => Coord.answer = "none"
  /\ Abandoned /\ cur.env.write.ch = "level" => doubt["level"] # "none"
  /\ stuck.ch = "level" => doubt["level"] # "none"
  /\ cache.sample.since /\ doubt["level"] = "none" =>
       cache.sample.val = hw["level"] \/ landing.ch = "level"
  /\ Coord.open /\ Coord.answer = "ok" /\ Coord.write = NoWrite /\ Coord.sample.since
       /\ doubt["level"] = "none" => Coord.sample.val = hw["level"]

ActorInv == ActorTypeOK /\ ActorOrder

-----------------------------------------------------------------------------
(* Types *)

LEMMA Popped ==
  ASSUME ActorTypeOK, fifo # <<>>
  PROVE  /\ Head(fifo) \in Envelopes /\ Head(fifo) = fifo[1]
         /\ Tail(fifo) \in Seq(Envelopes) /\ Len(Tail(fifo)) = Len(fifo) - 1
         /\ 1 \in 1..Len(fifo)
         /\ \A i \in 1..Len(Tail(fifo)) : i + 1 \in 1..Len(fifo) /\ Tail(fifo)[i] = fifo[i + 1]
<1>1. fifo \in Seq(Envelopes)
  BY DEF ActorTypeOK
<1>2. Len(fifo) \in Nat \ {0}
  BY <1>1, EmptySeq
<1>3. Head(fifo) = fifo[1]
  BY <1>1
<1> QED BY <1>1, <1>2, <1>3, HeadTailProperties

LEMMA Pushed ==
  ASSUME ActorTypeOK, NEW env \in Envelopes
  PROVE  /\ Append(fifo, env) \in Seq(Envelopes) /\ Len(Append(fifo, env)) = Len(fifo) + 1
         /\ Append(fifo, env)[Len(fifo) + 1] = env
         /\ \A i \in 1..Len(fifo) : Append(fifo, env)[i] = fifo[i]
<1>1. fifo \in Seq(Envelopes)
  BY DEF ActorTypeOK
<1> QED BY <1>1, AppendProperties

LEMMA Indexed ==
  ASSUME NEW S, NEW n \in Nat, NEW f \in [1..n -> S]
  PROVE  f \in Seq(S) /\ Len(f) = n
OBVIOUS

\* The bound of the queue is a number, whatever the constants.
LEMMA Bounded == ActorTypeOK => Len(fifo) \in Nat /\ MaxFifo \in Nat
BY HpActorAssumption, LenProperties DEF ActorTypeOK

LEMMA ChannelsKnown == \A write \in Calls : write \in Writes \cup {NoWrite}
BY HpActorAssumption DEF Calls, Writes

LEMMA Constants_ ==
  /\ NoWrite \in Calls /\ NoEnvelope \in Envelopes /\ NoSample \in Samples
  /\ Free.env = NoEnvelope /\ Free.stage = "free" /\ Free.fate = "fails"
  /\ IdleCall \in [open : BOOLEAN, write : Calls, sample : Samples,
                   answer : {"none", "ok", "refused", "error"}]
BY DEF Calls, NoEnvelope, Envelopes, NoSample, Samples, Free, IdleCall, Callers, Values, NoWrite

LEMMA TypesInit == ActorInit => ActorTypeOK
<1> SUFFICES ASSUME ActorInit PROVE ActorTypeOK
  OBVIOUS
<1>1. HwTypeOK
  BY DEF ActorInit, HwInit, HwTypeOK, Values, Doubts
<1>2. fifo \in Seq(Envelopes) /\ Len(fifo) <= MaxFifo
  BY HpActorAssumption DEF ActorInit
<1> QED BY <1>1, <1>2, Constants_ DEF ActorInit, ActorTypeOK, Free

\* What the coordinator may be told, and what it may come to doubt.
LEMMA TypesTold ==
  ASSUME ActorTypeOK, NEW c \in Callers, Told(c)
  PROVE  /\ stuck' \in Writes \cup {NoWrite}
         /\ landing' \in [ch : Written, old : Values] \cup {NoLanding}
BY DEF Told, ActorTypeOK, HwTypeOK

LEMMA TypesLeft ==
  ASSUME ActorTypeOK, NEW c \in Callers, Left(c)
  PROVE  stuck' \in Writes \cup {NoWrite}
<1>1. call[c].write \in Writes \cup {NoWrite}
  BY ChannelsKnown DEF ActorTypeOK
<1> QED BY <1>1 DEF Left, ActorTypeOK, HwTypeOK

LEMMA TypesDoubt ==
  ASSUME ActorTypeOK, NEW c \in Callers, NEW why \in Doubts, NEW write, DoubtsNow(c, write, why)
  PROVE  doubt' \in [FanChannels -> Doubts]
BY DEF DoubtsNow, Doubted, ActorTypeOK, HwTypeOK

LEMMA TypesCallEnds ==
  ASSUME ActorTypeOK, NEW c \in Callers, CallEnds(c) \/ SendRefused(c)
  PROVE  ActorTypeOK'
<1> USE DEF ActorTypeOK
<1>1. CASE ReturnsOk(c)
  <2>1. stuck' \in Writes \cup {NoWrite}
        /\ landing' \in [ch : Written, old : Values] \cup {NoLanding}
    BY <1>1, TypesTold DEF ReturnsOk
  <2>2. doubt' \in [FanChannels -> Doubts]
    <3>1. "none" \in Doubts
      BY DEF Doubts
    <3> QED BY <1>1, <3>1, TypesDoubt DEF ReturnsOk
  <2>3. cache' \in [tried : BOOLEAN, sample : Samples]
    BY <1>1 DEF ReturnsOk, Stamped, Samples
  <2>4. call' \in [Callers -> [open : BOOLEAN, write : Calls, sample : Samples,
                               answer : {"none", "ok", "refused", "error"}]]
    BY <1>1, Constants_ DEF ReturnsOk
  <2> QED BY <1>1, <2>1, <2>2, <2>3, <2>4 DEF ReturnsOk, HwTypeOK
<1>2. CASE ReturnsRefused(c)
  <2>1. stuck' \in Writes \cup {NoWrite}
        /\ landing' \in [ch : Written, old : Values] \cup {NoLanding}
    BY <1>2, TypesTold DEF ReturnsRefused
  <2>2. call' \in [Callers -> [open : BOOLEAN, write : Calls, sample : Samples,
                               answer : {"none", "ok", "refused", "error"}]]
    BY <1>2, Constants_ DEF ReturnsRefused
  <2> QED BY <1>2, <2>1, <2>2 DEF ReturnsRefused, HwTypeOK
<1>3. CASE SendRefused(c)
  <2>1. stuck' \in Writes \cup {NoWrite}
        /\ landing' \in [ch : Written, old : Values] \cup {NoLanding}
    BY <1>3, TypesTold DEF SendRefused
  <2> QED BY <1>3, <2>1 DEF SendRefused, HwTypeOK
<1>4. CASE ReturnsError(c)
  <2>1. stuck' \in Writes \cup {NoWrite}
    BY <1>4, TypesLeft DEF ReturnsError
  <2>2. doubt' \in [FanChannels -> Doubts]
    <3>1. "unknown" \in Doubts
      BY DEF Doubts
    <3> QED BY <1>4, <3>1, TypesDoubt DEF ReturnsError
  <2>3. call' \in [Callers -> [open : BOOLEAN, write : Calls, sample : Samples,
                               answer : {"none", "ok", "refused", "error"}]]
    BY <1>4, Constants_ DEF ReturnsError
  <2> QED BY <1>4, <2>1, <2>2, <2>3 DEF ReturnsError, HwTypeOK
<1>5. CASE TimesOut(c)
  <2>1. stuck' \in Writes \cup {NoWrite}
    BY <1>5, TypesLeft DEF TimesOut
  <2>2. doubt' \in [FanChannels -> Doubts]
    <3>1. "unknown" \in Doubts
      BY DEF Doubts
    <3> QED BY <1>5, <3>1, TypesDoubt DEF TimesOut
  <2>3. call' \in [Callers -> [open : BOOLEAN, write : Calls, sample : Samples,
                               answer : {"none", "ok", "refused", "error"}]]
    BY <1>5, Constants_ DEF TimesOut
  <2>4. \A env \in Envelopes : Cancels(env, c) \in Envelopes
    BY DEF Cancels, Envelopes
  <2>5. fifo' \in Seq(Envelopes) /\ Len(fifo') = Len(fifo)
    <3>1. Len(fifo) \in Nat /\ \A i \in 1..Len(fifo) : fifo[i] \in Envelopes
      BY LenProperties, ElementOfSeq
    <3>2. fifo' \in [1..Len(fifo) -> Envelopes]
      BY <1>5, <2>4, <3>1 DEF TimesOut
    <3> QED BY <3>1, <3>2, Indexed
  <2>6. cur' \in [env : Envelopes, fate : {"lands", "lands, then fails", "is refused", "fails"},
                  stage : {"free", "taken", "written"}]
    BY <1>5 DEF TimesOut, Envelopes
  <2> QED BY <1>5, <2>1, <2>2, <2>3, <2>5, <2>6 DEF TimesOut, HwTypeOK
<1> QED BY <1>1, <1>2, <1>3, <1>4, <1>5 DEF CallEnds

LEMMA TypesSends ==
  ASSUME ActorTypeOK,
         SendsShutdown \/ \E c \in Callers, write \in Calls : Sends(c, write)
  PROVE  ActorTypeOK'
<1>1. CASE SendsShutdown
  <2>1. fifo' = Append(fifo, NoEnvelope) /\ Len(fifo) < MaxFifo
    BY <1>1 DEF SendsShutdown
  <2>2. fifo' \in Seq(Envelopes) /\ Len(fifo') = Len(fifo) + 1
    BY <2>1, Pushed, Constants_
  <2>3. Len(fifo') <= MaxFifo
    BY <2>1, <2>2, Bounded
  <2> QED BY <1>1, <2>2, <2>3 DEF SendsShutdown, ActorTypeOK, HwTypeOK, hwVars
<1>2. ASSUME NEW c \in Callers, NEW write \in Calls, Sends(c, write)
      PROVE  ActorTypeOK'
  <2> DEFINE env == [from |-> c, write |-> write, cancelled |-> FALSE]
  <2>1. env \in Envelopes
    BY DEF Envelopes
  <2>2. call' \in [Callers -> [open : BOOLEAN, write : Calls, sample : Samples,
                               answer : {"none", "ok", "refused", "error"}]]
    BY <1>2, Constants_ DEF Sends, ActorTypeOK
  <2>3. fifo' = Append(fifo, env) /\ Len(fifo) < MaxFifo
    BY <1>2 DEF Sends
  <2>4. fifo' \in Seq(Envelopes) /\ Len(fifo') = Len(fifo) + 1
    <3> HIDE DEF env
    <3> QED BY <2>1, <2>3, Pushed
  <2>5. Len(fifo') <= MaxFifo
    BY <2>3, <2>4, Bounded
  <2> QED BY <1>2, <2>2, <2>4, <2>5 DEF Sends, ActorTypeOK, HwTypeOK, hwVars
<1> QED BY <1>1, <1>2

LEMMA TypesReplies ==
  ASSUME ActorTypeOK, NEW sample \in Samples, NEW answer \in {"ok", "refused", "error"},
         Replies(answer, sample)
  PROVE  /\ call' \in [Callers -> [open : BOOLEAN, write : Calls, sample : Samples,
                                   answer : {"none", "ok", "refused", "error"}]]
         /\ cur' \in [env : Envelopes, fate : {"lands", "lands, then fails", "is refused", "fails"},
                      stage : {"free", "taken", "written"}]
         /\ UNCHANGED <<hw, stuck, doubt, fifo, actor, landing>>
<1>1. cur' = Free /\ UNCHANGED <<hw, stuck, doubt, fifo, actor, landing>>
  BY DEF Replies, hwVars
<1>2. cur' \in [env : Envelopes, fate : {"lands", "lands, then fails", "is refused", "fails"},
                stage : {"free", "taken", "written"}]
  BY <1>1, Constants_ DEF Free
<1>3. call' \in [Callers -> [open : BOOLEAN, write : Calls, sample : Samples,
                             answer : {"none", "ok", "refused", "error"}]]
  <2>1. CASE cur.env.cancelled
    BY <2>1 DEF Replies, ActorTypeOK
  <2>2. CASE ~cur.env.cancelled /\ cur.env.from = "coordinator"
    BY ZenonT(60), <2>2 DEF Replies, ActorTypeOK, Callers
  <2>3. CASE ~cur.env.cancelled /\ cur.env.from # "coordinator"
    <3>1. call' = [call EXCEPT ![cur.env.from].answer = answer]
      BY <2>3 DEF Replies, ActorTypeOK, Callers
    <3> QED BY ZenonT(60), <3>1 DEF ActorTypeOK
  <2> QED BY <2>1, <2>2, <2>3 DEF ActorTypeOK, Envelopes
<1> QED BY <1>1, <1>2, <1>3

LEMMA TypesMovesOn ==
  ASSUME ActorTypeOK, MovesOn, Ready
  PROVE  /\ HwTypeOK' /\ landing' \in [ch : Written, old : Values] \cup {NoLanding}
         /\ Head(fifo) \in Envelopes
         /\ Tail(fifo) \in Seq(Envelopes) /\ Len(Tail(fifo)) <= MaxFifo
<1>1. HwTypeOK' /\ landing' \in [ch : Written, old : Values] \cup {NoLanding}
  BY DEF MovesOn, ActorTypeOK, HwTypeOK
<1>2. fifo # <<>> /\ Len(fifo) <= MaxFifo
  BY DEF Ready, ActorTypeOK
<1>3. Head(fifo) \in Envelopes /\ Tail(fifo) \in Seq(Envelopes) /\ Len(Tail(fifo)) = Len(fifo) - 1
  BY <1>2, Popped
<1> QED BY <1>1, <1>2, <1>3, Bounded

LEMMA TypesActorRuns ==
  ASSUME ActorTypeOK, ActorRuns \/ CacheAges
  PROVE  ActorTypeOK'
<1>1. CASE SkipsCancelled
  BY <1>1, TypesMovesOn DEF SkipsCancelled, ActorTypeOK
<1>2. CASE Takes
  <2>1. MovesOn /\ Ready /\ fifo' = Tail(fifo) /\ UNCHANGED <<actor, call, cache>>
    BY <1>2 DEF Takes
  <2>2. PICK fate \in {"lands", "lands, then fails", "is refused", "fails"} :
          cur' = [env |-> Head(fifo), fate |-> fate, stage |-> "taken"]
    BY <1>2 DEF Takes
  <2>3. cur' \in [env : Envelopes, fate : {"lands", "lands, then fails", "is refused", "fails"},
                  stage : {"free", "taken", "written"}]
    BY <2>1, <2>2, TypesMovesOn
  <2> QED BY <2>1, <2>3, TypesMovesOn DEF ActorTypeOK
<1>3. CASE TakesShutdown
  <2>1. MovesOn /\ Ready /\ fifo' = <<>> /\ actor' = "gone" /\ UNCHANGED <<cur, call, cache>>
    BY <1>3 DEF TakesShutdown
  <2>2. fifo' \in Seq(Envelopes) /\ Len(fifo') <= MaxFifo
    BY <2>1, Bounded, EmptySeq
  <2> QED BY <2>1, <2>2, TypesMovesOn DEF ActorTypeOK
<1>4. CASE Lands
  <2>1. cur.env.write \in [ch : Written, val : Values]
    BY <1>4 DEF Lands, ActorTypeOK, Envelopes, Calls
  <2>2. hw' \in [Channels -> Values]
    BY <1>4, <2>1 DEF Lands, ActorTypeOK, HwTypeOK
  <2>3. landing' \in [ch : Written, old : Values]
    BY <1>4, <2>1, HpActorAssumption DEF Lands, ActorTypeOK, HwTypeOK
  <2> QED BY <1>4, <2>2, <2>3 DEF Lands, ActorTypeOK, HwTypeOK
<1>5. CASE AnswersWrite
  BY <1>5, TypesReplies, Constants_ DEF AnswersWrite, ActorTypeOK, HwTypeOK
<1>6. CASE AnswersFromCache
  <2>1. CachedSample \in Samples
    BY DEF CachedSample, ActorTypeOK
  <2> QED BY <1>6, <2>1, TypesReplies DEF AnswersFromCache, ActorTypeOK, HwTypeOK
<1>7. CASE ReadsFans
  <2> DEFINE sample == IF cur.fate = "fails" THEN NoSample
                       ELSE [val |-> hw["level"], since |-> TRUE]
  <2>1. sample \in Samples
    BY Constants_ DEF Samples, ActorTypeOK, HwTypeOK, Channels
  <2>2. /\ cache' = [tried |-> TRUE, sample |-> sample]
        /\ Replies(IF cur.fate = "fails" THEN "error" ELSE "ok", sample)
    BY <1>7 DEF ReadsFans
  <2> HIDE DEF sample
  <2> QED BY <2>1, <2>2, TypesReplies DEF ActorTypeOK, HwTypeOK
<1>8. CASE CacheAges
  BY <1>8 DEF CacheAges, ActorTypeOK, HwTypeOK, hwVars
<1> QED BY <1>1, <1>2, <1>3, <1>4, <1>5, <1>6, <1>7, <1>8 DEF ActorRuns

LEMMA TypesStep == ActorTypeOK /\ [ActorNext]_actorVars => ActorTypeOK'
<1> SUFFICES ASSUME ActorTypeOK, [ActorNext]_actorVars PROVE ActorTypeOK'
  OBVIOUS
<1>1. CASE UNCHANGED actorVars
  BY <1>1 DEF actorVars, hwVars, ActorTypeOK, HwTypeOK
<1>2. CASE ActorNext
  <2>1. NoWrite \in Calls /\ "coordinator" \in Callers
    BY DEF Calls, Callers
  <2> QED BY <1>2, <2>1, TypesActorRuns, TypesCallEnds, TypesSends DEF ActorNext
<1> QED BY <1>1, <1>2

-----------------------------------------------------------------------------
(* Requests, answers and landings *)

LEMMA OrderInit == ActorInit => ActorOrder /\ LevelMatches
BY DEF ActorInit, HwInit, ActorOrder, OneSource, OneRequest, GoneIsIdle, HandMatches, AnswerMatches,
       LandingMatches, StuckMatches, LevelMatches, Coord, Queued, InHand, InHands, Abandoned, Free,
       IdleCall, NoEnvelope, Callers, NoLanding, NoWrite, NoSample

\* What the actor can find at the head of the queue.
LEMMA HeadMatches ==
  ASSUME ActorInv, Ready
  PROVE  /\ Head(fifo).from # "coordinator" => Head(fifo).write = NoWrite
         /\ Head(fifo).from = "coordinator" /\ ~Head(fifo).cancelled =>
              /\ Coord.open /\ Coord.answer = "none" /\ Head(fifo).write = Coord.write
              /\ \A i \in 1..Len(Tail(fifo)) :
                   Tail(fifo)[i].from = "coordinator" => Tail(fifo)[i].cancelled
<1>1. /\ Head(fifo) = fifo[1] /\ 1 \in 1..Len(fifo) /\ Len(fifo) \in Nat
      /\ Len(Tail(fifo)) = Len(fifo) - 1
      /\ \A i \in 1..Len(Tail(fifo)) : i + 1 \in 1..Len(fifo) /\ Tail(fifo)[i] = fifo[i + 1]
  BY Popped, Bounded DEF ActorInv, Ready
<1>2. Head(fifo).from # "coordinator" => Head(fifo).write = NoWrite
  BY <1>1 DEF ActorInv, ActorOrder, OneSource
<1>3. ASSUME Head(fifo).from = "coordinator", ~Head(fifo).cancelled
      PROVE  /\ Coord.open /\ Coord.answer = "none" /\ Head(fifo).write = Coord.write
             /\ \A i \in 1..Len(Tail(fifo)) :
                  Tail(fifo)[i].from = "coordinator" => Tail(fifo)[i].cancelled
  <2>1. Queued(1)
    BY <1>1, <1>3 DEF Queued
  <2>2. Coord.open /\ Coord.answer = "none" /\ Head(fifo).write = Coord.write
    BY <1>1, <2>1 DEF ActorInv, ActorOrder, OneRequest
  <2>3. ASSUME NEW i \in 1..Len(Tail(fifo)), Tail(fifo)[i].from = "coordinator",
               ~Tail(fifo)[i].cancelled
        PROVE  FALSE
    <3>1. Queued(i + 1) /\ i + 1 \in 1..Len(fifo)
      BY <1>1, <2>3 DEF Queued
    <3>2. 1 = i + 1
      BY <1>1, <2>1, <3>1 DEF ActorInv, ActorOrder, OneRequest
    <3>3. i # 0
      BY <1>1, <2>3
    <3> QED BY <3>2, <3>3
  <2> QED BY <2>2, <2>3
<1> QED BY <1>2, <1>3

\* The requests left in the queue are requests that were there.
LEMMA QueueShrinks ==
  ASSUME ActorInv, Ready, fifo' = Tail(fifo), UNCHANGED call
  PROVE  /\ \A i \in 1..Len(fifo') : fifo'[i].from # "coordinator" => fifo'[i].write = NoWrite
         /\ \A i \in 1..Len(fifo') : Queued(i)' =>
              Coord.open /\ Coord.answer = "none" /\ fifo'[i].write = Coord.write
         /\ \A i, j \in 1..Len(fifo') : Queued(i)' /\ Queued(j)' => i = j
<1>1. /\ Len(fifo) \in Nat /\ Len(fifo') = Len(fifo) - 1
      /\ \A i \in 1..Len(fifo') : i + 1 \in 1..Len(fifo) /\ fifo'[i] = fifo[i + 1]
  BY Popped, Bounded DEF ActorInv, Ready
<1>2. \A i \in 1..Len(fifo') : Queued(i)' => Queued(i + 1)
  BY <1>1 DEF Queued
<1>3. \A i, j \in 1..Len(fifo') : i + 1 = j + 1 => i = j
  BY <1>1
<1> QED BY <1>1, <1>2, <1>3 DEF ActorInv, ActorOrder, OneSource, OneRequest

\* When the actor turns to the next request, what was left behind is over.
LEMMA NothingLeft ==
  ASSUME ActorInv, Ready, MovesOn
  PROVE  /\ stuck' = NoWrite
         /\ landing' # NoLanding => landing' = landing /\ Coord.open /\ Coord.answer \in {"ok", "error"}
         /\ Coord.open /\ Coord.answer # "none" => landing' = landing /\ stuck = NoWrite
BY DEF ActorInv, ActorOrder, LandingMatches, AnswerMatches, MovesOn, Ready, InHand, InHands

LEMMA OrderSkips ==
  ASSUME ActorInv, SkipsCancelled
  PROVE  ActorOrder'
<1> USE DEF SkipsCancelled, Ready, InHand, InHands, Abandoned, Coord, WillLand
<1>1. Ready /\ MovesOn /\ fifo' = Tail(fifo) /\ UNCHANGED <<cur, actor, call, hw>>
  BY DEF MovesOn
<1>2. OneSource' /\ OneRequest'
  BY <1>1, QueueShrinks DEF ActorInv, ActorOrder, OneSource, OneRequest
<1>3. GoneIsIdle' /\ HandMatches'
  BY <1>1 DEF ActorInv, ActorOrder, GoneIsIdle, HandMatches
<1>4. AnswerMatches' /\ LandingMatches' /\ StuckMatches'
  BY <1>1, NothingLeft DEF ActorInv, ActorOrder, AnswerMatches, LandingMatches, StuckMatches, InPlace
<1> QED BY <1>2, <1>3, <1>4 DEF ActorOrder

LEMMA OrderTakes ==
  ASSUME ActorInv, Takes
  PROVE  ActorOrder'
<1> USE DEF InHand, InHands, Abandoned, Coord, WillLand
<1>1. Ready /\ MovesOn /\ fifo' = Tail(fifo) /\ UNCHANGED <<actor, call, hw>>
      /\ Head(fifo).from # "engine" /\ ~Head(fifo).cancelled
  BY DEF Takes, MovesOn, Skips
<1>2. PICK fate \in {"lands", "lands, then fails", "is refused", "fails"} :
        cur' = [env |-> Head(fifo), fate |-> fate, stage |-> "taken"]
  BY DEF Takes
<1>3. cur'.env = Head(fifo) /\ cur'.stage = "taken"
  BY <1>2
<1>4. OneSource'
  BY <1>1, <1>3, QueueShrinks, HeadMatches DEF ActorInv, ActorOrder, OneSource
<1>5. OneRequest'
  <2>1. InHand' => Head(fifo).from = "coordinator"
    BY <1>3
  <2>2. \A i \in 1..Len(fifo') : Queued(i)' => ~InHand'
    BY <1>1, <2>1, HeadMatches DEF Queued
  <2>3. InHand' => Coord.open /\ Coord.answer = "none" /\ cur'.env.write = Coord.write
    BY <1>1, <1>3, <2>1, HeadMatches
  <2> QED BY <1>1, <2>2, <2>3, QueueShrinks DEF OneRequest
<1>6. GoneIsIdle'
  BY <1>1 DEF Ready, GoneIsIdle
<1>7. HandMatches'
  BY <1>1, <1>3, NothingLeft, HeadMatches DEF HandMatches
<1>8. AnswerMatches' /\ LandingMatches' /\ StuckMatches'
  BY <1>1, <1>3, NothingLeft, HeadMatches
     DEF ActorInv, ActorOrder, AnswerMatches, LandingMatches, StuckMatches, InPlace
<1> QED BY <1>4, <1>5, <1>6, <1>7, <1>8 DEF ActorOrder

LEMMA OrderTakesShutdown ==
  ASSUME ActorInv, TakesShutdown
  PROVE  ActorOrder'
<1> USE DEF InHand, InHands, Abandoned, Coord, WillLand
<1>1. Ready /\ MovesOn /\ fifo' = <<>> /\ UNCHANGED <<cur, call, hw>>
  BY DEF TakesShutdown, MovesOn
<1>2. OneSource' /\ OneRequest'
  BY <1>1 DEF ActorInv, ActorOrder, OneSource, OneRequest, Queued, Ready
<1>3. GoneIsIdle' /\ HandMatches'
  BY <1>1 DEF Ready, GoneIsIdle, HandMatches
<1>4. AnswerMatches' /\ LandingMatches' /\ StuckMatches'
  BY <1>1, NothingLeft
     DEF ActorInv, ActorOrder, AnswerMatches, LandingMatches, StuckMatches, InPlace, Ready
<1> QED BY <1>2, <1>3, <1>4 DEF ActorOrder

LEMMA OrderLands ==
  ASSUME ActorInv, Lands
  PROVE  ActorOrder'
<1> USE DEF InHand, InHands, Abandoned, Coord, WillLand
<1>1. cur.env.from = "coordinator" /\ cur.env.write \in Writes /\ cur.env.write.ch # "none"
  <2>1. cur.env.write \in Writes
    BY ChannelsKnown DEF Lands, ActorInv, ActorTypeOK, Envelopes
  <2> QED BY <2>1 DEF Lands, ActorInv, ActorOrder, OneSource, Writes, Channels
<1>2. /\ hw'[cur.env.write.ch] = cur.env.write.val
      /\ landing'.ch = cur.env.write.ch /\ landing' # NoLanding
      /\ cur'.env = cur.env /\ cur'.stage = "written" /\ cur'.fate = cur.fate
      /\ UNCHANGED <<stuck, fifo, actor, call>>
      /\ cur.stage = "taken" /\ cur.fate \in {"lands", "lands, then fails"} /\ cur.env.write # NoWrite
  BY <1>1 DEF Lands, ActorInv, ActorTypeOK, HwTypeOK, Writes, NoLanding
<1>3. OneSource' /\ OneRequest'
  BY <1>2 DEF ActorInv, ActorOrder, OneSource, OneRequest, Queued
<1>4. GoneIsIdle' /\ HandMatches'
  BY <1>1, <1>2 DEF ActorInv, ActorOrder, GoneIsIdle, HandMatches, InPlace
<1>5. AnswerMatches' /\ LandingMatches' /\ StuckMatches'
  BY <1>1, <1>2
     DEF ActorInv, ActorOrder, HandMatches, AnswerMatches, LandingMatches, StuckMatches, InPlace
<1> QED BY <1>3, <1>4, <1>5 DEF ActorOrder

\* A reply ends the request in the actor's hands; only the coordinator's own reaches it.
LEMMA ReplyReaches ==
  ASSUME ActorInv, NEW answer \in {"ok", "refused", "error"}, NEW sample, Replies(answer, sample)
  PROVE  /\ cur' = Free /\ UNCHANGED <<hw, stuck, doubt, fifo, actor, landing>>
         /\ call'["collector"].write = call["collector"].write
         /\ Coord'.open = Coord.open /\ Coord'.write = Coord.write
         /\ IF cur.env.from = "coordinator" /\ ~cur.env.cancelled
            THEN Coord'.answer = answer /\ Coord'.sample = sample
            ELSE Coord'.answer = Coord.answer /\ Coord'.sample = Coord.sample
<1>1. cur' = Free /\ UNCHANGED <<hw, stuck, doubt, fifo, actor, landing>>
  BY DEF Replies, hwVars
<1>2. CASE cur.env.cancelled
  BY <1>1, <1>2 DEF Replies, Coord
<1>3. CASE ~cur.env.cancelled /\ cur.env.from = "coordinator"
  BY <1>1, <1>3 DEF Replies, Coord, ActorInv, ActorTypeOK, Callers
<1>4. CASE ~cur.env.cancelled /\ cur.env.from # "coordinator"
  <2>1. call' = [call EXCEPT ![cur.env.from].answer = answer]
    BY <1>4 DEF Replies, ActorInv, ActorTypeOK, Callers
  <2> QED BY <1>1, <1>4, <2>1 DEF Coord, ActorInv, ActorTypeOK, Callers
<1> QED BY <1>2, <1>3, <1>4 DEF ActorInv, ActorTypeOK, Envelopes

LEMMA OrderReplies ==
  ASSUME ActorInv, NEW answer \in {"ok", "refused", "error"}, NEW sample, Replies(answer, sample),
         cur.stage # "free",
         \/ /\ cur.env.write # NoWrite
            /\ cur.stage = IF WillLand THEN "written" ELSE "taken"
            /\ answer = "ok" => WillLand
            /\ answer = "refused" => ~WillLand
         \/ cur.env.write = NoWrite /\ cur.stage = "taken"
  PROVE  ActorOrder'
<1> USE DEF InHand, InHands, Abandoned
<1>1. cur'.env = NoEnvelope /\ cur'.stage = "free"
  BY ReplyReaches, Constants_
<1>2. OneSource' /\ OneRequest'
  <2>1. OneSource'
    BY <1>1, ReplyReaches DEF ActorInv, ActorOrder, OneSource, NoEnvelope
  <2>2. \A i \in 1..Len(fifo) : Queued(i) => Coord'.answer = Coord.answer
    BY ReplyReaches DEF ActorInv, ActorOrder, OneRequest
  <2> QED BY <1>1, <2>1, <2>2, ReplyReaches DEF ActorInv, ActorOrder, OneRequest, Queued
<1>3. GoneIsIdle' /\ HandMatches'
  BY <1>1, ReplyReaches DEF ActorInv, ActorOrder, GoneIsIdle, HandMatches
<1>4. CASE cur.env.from = "coordinator" /\ ~cur.env.cancelled
  <2>1. /\ Coord'.open /\ Coord'.answer = answer /\ Coord'.write = cur.env.write
        /\ stuck' = NoWrite
    BY <1>4, ReplyReaches DEF ActorInv, ActorOrder, OneRequest, HandMatches
  <2>2. IF cur.stage = "taken" THEN landing = NoLanding ELSE InPlace(cur.env.write)
    BY <1>4 DEF ActorInv, ActorOrder, HandMatches, ActorTypeOK
  <2>3. AnswerMatches'
    BY <1>1, <2>1, <2>2, ReplyReaches DEF AnswerMatches, InPlace
  <2>4. LandingMatches'
    BY <1>1, <2>1, <2>2, ReplyReaches DEF LandingMatches, InPlace
  <2>5. StuckMatches'
    BY <1>1, <2>1 DEF StuckMatches
  <2> QED BY <1>2, <1>3, <2>3, <2>4, <2>5 DEF ActorOrder
<1>5. CASE ~(cur.env.from = "coordinator" /\ ~cur.env.cancelled)
  <2>1. Coord'.answer = Coord.answer /\ Coord'.write = Coord.write /\ Coord'.open = Coord.open
    BY <1>5, ReplyReaches
  <2>2. AnswerMatches' /\ LandingMatches'
    BY <1>1, <1>5, <2>1, ReplyReaches
       DEF ActorInv, ActorOrder, AnswerMatches, LandingMatches, InPlace
  <2>3. StuckMatches'
    BY <1>1, <1>5, ReplyReaches DEF ActorInv, ActorOrder, StuckMatches, InPlace, WillLand
  <2> QED BY <1>2, <1>3, <2>2, <2>3 DEF ActorOrder
<1> QED BY <1>4, <1>5

LEMMA OrderAnswers ==
  ASSUME ActorInv, AnswersWrite \/ AnswersFromCache \/ ReadsFans \/ CacheAges
  PROVE  ActorOrder'
<1>1. CASE AnswersWrite
  <2> DEFINE answer == CASE cur.fate = "lands" -> "ok" [] cur.fate = "is refused" -> "refused"
                         [] OTHER -> "error"
  <2>1. answer \in {"ok", "refused", "error"} /\ Replies(answer, NoSample)
    BY <1>1 DEF AnswersWrite
  <2>2. (answer = "ok" => WillLand) /\ (answer = "refused" => ~WillLand)
    BY DEF WillLand
  <2>3. cur.env.write # NoWrite /\ cur.stage = (IF WillLand THEN "written" ELSE "taken")
    BY <1>1 DEF AnswersWrite
  <2> HIDE DEF answer
  <2> QED BY <2>1, <2>2, <2>3, OrderReplies
<1>2. CASE AnswersFromCache
  BY <1>2, OrderReplies DEF AnswersFromCache
<1>3. CASE ReadsFans
  <2> DEFINE sample == IF cur.fate = "fails" THEN NoSample
                       ELSE [val |-> hw["level"], since |-> TRUE]
             answer == IF cur.fate = "fails" THEN "error" ELSE "ok"
  <2>1. answer \in {"ok", "refused", "error"} /\ Replies(answer, sample)
    BY <1>3 DEF ReadsFans
  <2>2. cur.env.write = NoWrite /\ cur.stage = "taken"
    BY <1>3 DEF ReadsFans
  <2> HIDE DEF answer, sample
  <2> QED BY <2>1, <2>2, OrderReplies
<1>4. CASE CacheAges
  BY ZenonT(60), <1>4
     DEF CacheAges, hwVars, ActorInv, ActorOrder, OneSource, OneRequest, GoneIsIdle, HandMatches,
              AnswerMatches, LandingMatches, StuckMatches, Coord, Queued, InHand, InHands, Abandoned,
              InPlace, WillLand
<1> QED BY <1>1, <1>2, <1>3, <1>4

LEMMA OrderSends ==
  ASSUME ActorInv, NEW c \in Callers, NEW write \in Calls, Sends(c, write),
         c = "collector" => write = NoWrite
  PROVE  ActorOrder'
<1> USE DEF InHand, InHands, Abandoned
<1> DEFINE env == [from |-> c, write |-> write, cancelled |-> FALSE]
<1>1. env \in Envelopes /\ env.from = c /\ env.write = write /\ ~env.cancelled
  BY DEF Envelopes
<1>2. /\ fifo' = Append(fifo, env) /\ actor = "up" /\ ~call[c].open
      /\ call' = [call EXCEPT ![c] = [IdleCall EXCEPT !.open = TRUE, !.write = write]]
      /\ UNCHANGED <<hw, stuck, doubt, cur, actor, landing>>
  BY DEF Sends, hwVars
<1> HIDE DEF env
<1>3. /\ Len(fifo) \in Nat /\ Len(fifo') = Len(fifo) + 1 /\ fifo'[Len(fifo) + 1] = env
      /\ \A i \in 1..Len(fifo) : fifo'[i] = fifo[i]
  BY <1>1, <1>2, Pushed, Bounded DEF ActorInv
<1>4. \A i \in 1..Len(fifo') : i \in 1..Len(fifo) \/ i = Len(fifo) + 1
  BY <1>3
<1>5. CASE c = "coordinator"
  <2>1. Coord'.open /\ Coord'.write = write /\ Coord'.answer = "none" /\ ~Coord.open
        /\ call'["collector"] = call["collector"]
    BY <1>2, <1>5 DEF Coord, IdleCall, ActorInv, ActorTypeOK, Callers
  <2>2. ~InHand /\ \A i \in 1..Len(fifo) : ~Queued(i)
    BY <2>1 DEF ActorInv, ActorOrder, OneRequest
  <2>3. OneSource'
    BY <1>1, <1>2, <1>3, <1>4, <1>5, <2>1 DEF ActorInv, ActorOrder, OneSource
  <2>4. \A i \in 1..Len(fifo') : Queued(i)' => i = Len(fifo) + 1
    BY <1>3, <1>4, <2>2 DEF Queued
  <2>5. OneRequest'
    BY <1>1, <1>2, <1>3, <2>1, <2>2, <2>4 DEF OneRequest
  <2>6. GoneIsIdle' /\ HandMatches' /\ AnswerMatches'
    BY <1>2, <2>1, <2>2 DEF ActorInv, ActorOrder, GoneIsIdle, HandMatches, AnswerMatches, WillLand
  <2>7. LandingMatches' /\ StuckMatches'
    BY <1>2, <2>1, <2>2 DEF ActorInv, ActorOrder, LandingMatches, StuckMatches, InPlace, WillLand
  <2> QED BY <2>3, <2>5, <2>6, <2>7 DEF ActorOrder
<1>6. CASE c = "collector"
  <2>1. Coord' = Coord /\ call'["collector"].write = NoWrite
    BY <1>2, <1>6 DEF Coord, IdleCall, ActorInv, ActorTypeOK, Callers
  <2>2. OneSource'
    BY <1>1, <1>2, <1>3, <1>4, <1>6, <2>1 DEF ActorInv, ActorOrder, OneSource
  <2>3. \A i \in 1..Len(fifo') : Queued(i)' => i \in 1..Len(fifo) /\ Queued(i)
    BY <1>1, <1>3, <1>4, <1>6 DEF Queued
  <2>4. OneRequest'
    BY <1>2, <1>3, <2>1, <2>3 DEF ActorInv, ActorOrder, OneRequest
  <2>5. GoneIsIdle' /\ HandMatches' /\ AnswerMatches' /\ LandingMatches' /\ StuckMatches'
    BY <1>2, <2>1
       DEF ActorInv, ActorOrder, GoneIsIdle, HandMatches, AnswerMatches, LandingMatches, StuckMatches,
           InPlace, WillLand
  <2> QED BY <2>2, <2>4, <2>5 DEF ActorOrder
<1> QED BY <1>5, <1>6 DEF Callers

LEMMA OrderSendsShutdown ==
  ASSUME ActorInv, SendsShutdown
  PROVE  ActorOrder'
<1> USE DEF InHand, InHands, Abandoned
<1>1. fifo' = Append(fifo, NoEnvelope) /\ actor = "up" /\ UNCHANGED <<hw, stuck, cur, actor, call, landing>>
  BY DEF SendsShutdown, hwVars
<1>2. /\ Len(fifo) \in Nat /\ Len(fifo') = Len(fifo) + 1 /\ fifo'[Len(fifo) + 1] = NoEnvelope
      /\ \A i \in 1..Len(fifo) : fifo'[i] = fifo[i]
  BY <1>1, Pushed, Bounded, Constants_ DEF ActorInv
<1>3. \A i \in 1..Len(fifo') : i \in 1..Len(fifo) \/ fifo'[i] = NoEnvelope
  BY <1>2
<1>4. OneSource'
  BY <1>1, <1>2, <1>3 DEF ActorInv, ActorOrder, OneSource, NoEnvelope
<1>5. \A i \in 1..Len(fifo') : Queued(i)' => i \in 1..Len(fifo) /\ Queued(i)
  BY <1>2, <1>3 DEF Queued, NoEnvelope
<1>6. OneRequest'
  BY <1>1, <1>2, <1>5 DEF ActorInv, ActorOrder, OneRequest, Coord
<1>7. GoneIsIdle' /\ HandMatches' /\ AnswerMatches' /\ LandingMatches' /\ StuckMatches'
  BY <1>1
     DEF ActorInv, ActorOrder, GoneIsIdle, HandMatches, AnswerMatches, LandingMatches, StuckMatches,
         InPlace, WillLand, Coord
<1> QED BY <1>4, <1>6, <1>7 DEF ActorOrder

\* The coordinator's call is over: nothing of it is queued or in hand.
LEMMA OrderCoordinatorTold ==
  ASSUME ActorInv, UNCHANGED <<hw, fifo, cur, actor>>, Coord.open,
         call' = [call EXCEPT !["coordinator"] = IdleCall],
         Coord.answer # "none" \/ actor = "gone",
         \/ stuck' = NoWrite /\ landing' = NoLanding
         \/ Coord.answer # "none" /\ Left("coordinator") /\ landing' = landing
  PROVE  ActorOrder'
<1> USE DEF InHand, InHands, Abandoned
<1>1. ~Coord'.open /\ call'["collector"] = call["collector"]
  BY DEF Coord, IdleCall, ActorInv, ActorTypeOK, Callers
<1>2. ~InHand /\ (\A i \in 1..Len(fifo) : ~Queued(i)) /\ ~InHand'
  BY DEF ActorInv, ActorOrder, OneRequest, GoneIsIdle
<1>3. OneSource' /\ OneRequest'
  BY <1>1, <1>2 DEF ActorInv, ActorOrder, OneSource, OneRequest, Queued
<1>4. GoneIsIdle' /\ HandMatches' /\ AnswerMatches'
  BY <1>1, <1>2 DEF ActorInv, ActorOrder, GoneIsIdle, HandMatches, AnswerMatches, WillLand
<1>5. ~Abandoned
  BY DEF ActorInv, ActorOrder, AnswerMatches, GoneIsIdle
<1>6. LandingMatches' /\ StuckMatches'
  <2>1. CASE stuck' = NoWrite /\ landing' = NoLanding
    BY <1>1, <1>5, <2>1 DEF LandingMatches, StuckMatches
  <2>2. CASE Coord.answer # "none" /\ Left("coordinator") /\ landing' = landing
    <3>1. stuck = NoWrite /\ (landing # NoLanding => Coord.write # NoWrite /\ InPlace(Coord.write))
      BY <2>2 DEF ActorInv, ActorOrder, AnswerMatches, ActorTypeOK, Coord, Callers
    <3>2. IF landing # NoLanding THEN stuck' = Coord.write ELSE stuck' = NoWrite
      BY <1>2, <2>2, <3>1 DEF Left, Coord
    <3> QED BY <1>1, <1>5, <2>2, <3>1, <3>2 DEF LandingMatches, StuckMatches, InPlace
  <2> QED BY <2>1, <2>2
<1> QED BY <1>3, <1>4, <1>6 DEF ActorOrder

LEMMA OrderCoordinatorTimesOut ==
  ASSUME ActorInv, TimesOut("coordinator")
  PROVE  ActorOrder'
<1> USE DEF InHand, InHands, Abandoned
<1>1. /\ Coord.open /\ Left("coordinator") /\ UNCHANGED <<hw, actor, landing>>
      /\ call' = [call EXCEPT !["coordinator"] = IdleCall]
      /\ cur' = IF InHand THEN [cur EXCEPT !.env.cancelled = TRUE] ELSE cur
      /\ fifo' = [i \in 1..Len(fifo) |-> Cancels(fifo[i], "coordinator")]
  BY DEF TimesOut, Coord
<1>2. ~Coord'.open /\ call'["collector"] = call["collector"]
  BY <1>1 DEF Coord, IdleCall, ActorInv, ActorTypeOK, Callers
<1>3. Len(fifo') = Len(fifo)
  <2>1. Len(fifo) \in Nat
    BY Bounded DEF ActorInv
  <2>2. fifo' \in [1..Len(fifo) -> {fifo'[i] : i \in 1..Len(fifo)}]
    BY <1>1
  <2> QED BY <2>1, <2>2, Indexed
<1>4. \A i \in 1..Len(fifo) : fifo[i] \in Envelopes
  BY ElementOfSeq DEF ActorInv, ActorTypeOK
<1>5. \A i \in 1..Len(fifo') : /\ fifo'[i].from = fifo[i].from /\ fifo'[i].write = fifo[i].write
                               /\ ~Queued(i)'
  BY <1>1, <1>3, <1>4 DEF Cancels, Queued, Envelopes
<1>6. /\ cur'.stage = cur.stage /\ cur'.fate = cur.fate
      /\ cur'.env.from = cur.env.from /\ cur'.env.write = cur.env.write
      /\ ~InHand' /\ (Abandoned' => InHand \/ Abandoned)
  BY <1>1 DEF ActorInv, ActorTypeOK, Envelopes
<1>7. OneSource' /\ OneRequest'
  BY <1>2, <1>3, <1>5, <1>6 DEF ActorInv, ActorOrder, OneSource, OneRequest
<1>8. GoneIsIdle'
  <2>1. CASE actor = "gone"
    <3>1. Len(fifo) = 0
      BY <2>1 DEF ActorInv, ActorOrder, GoneIsIdle
    <3>2. fifo' = <<>>
      BY <1>1, <3>1
    <3> QED BY <1>1, <1>6, <2>1, <3>2 DEF ActorInv, ActorOrder, GoneIsIdle
  <2> QED BY <1>1, <2>1 DEF GoneIsIdle, ActorInv, ActorTypeOK
<1>9. HandMatches' /\ AnswerMatches'
  BY <1>2, <1>6 DEF ActorInv, ActorOrder, HandMatches, AnswerMatches, WillLand
<1>10. LandingMatches' /\ StuckMatches'
  <2>1. CASE InHand
    <3>1. /\ stuck = NoWrite /\ Coord.write = cur.env.write
          /\ IF cur.stage = "taken" THEN landing = NoLanding
             ELSE cur.stage = "written" /\ InPlace(cur.env.write) /\ cur.env.write # NoWrite /\ WillLand
      BY <2>1 DEF ActorInv, ActorOrder, OneRequest, HandMatches, ActorTypeOK
    <3>2. landing # NoLanding => cur.stage = "written"
      BY <3>1
    <3>3. stuck' = IF cur.env.write # NoWrite /\ WillLand THEN cur.env.write ELSE NoWrite
      BY <1>1, <2>1, <3>1, <3>2 DEF Left, Coord
    <3>4. cur'.env.cancelled
      BY <1>1, <2>1 DEF ActorInv, ActorTypeOK, Envelopes
    <3> QED BY <1>1, <1>6, <2>1, <3>1, <3>2, <3>3, <3>4
            DEF LandingMatches, StuckMatches, InPlace, WillLand
  <2>2. CASE ~InHand /\ Coord.answer = "none"
    <3>1. landing = NoLanding \/ stuck # NoWrite
      BY <2>2 DEF ActorInv, ActorOrder, LandingMatches
    <3>2. UNCHANGED <<stuck, cur>>
      BY <1>1, <2>2, <3>1 DEF Left
    <3> QED BY <1>1, <3>1, <3>2 DEF ActorInv, ActorOrder, LandingMatches, StuckMatches, InPlace, WillLand
  <2>3. CASE ~InHand /\ Coord.answer # "none"
    <3>1. ~Abandoned /\ stuck = NoWrite
          /\ (landing # NoLanding => Coord.write # NoWrite /\ InPlace(Coord.write))
      BY <1>1, <2>3 DEF ActorInv, ActorOrder, AnswerMatches, ActorTypeOK, Coord, Callers
    <3>2. IF landing # NoLanding THEN stuck' = Coord.write ELSE stuck' = NoWrite
      BY <1>1, <2>3, <3>1 DEF Left, Coord
    <3> QED BY <1>1, <1>6, <2>3, <3>1, <3>2 DEF LandingMatches, StuckMatches, InPlace
  <2> QED BY <2>1, <2>2, <2>3
<1> QED BY <1>7, <1>8, <1>9, <1>10 DEF ActorOrder

\* What happens to the collector's calls leaves the coordinator's alone.
LEMMA OrderCollectorEnds ==
  ASSUME ActorInv, CallEnds("collector") \/ SendRefused("collector")
  PROVE  ActorOrder'
<1> USE DEF InHand, InHands, Abandoned
<1>1. UNCHANGED <<hw, stuck, actor, landing>> /\ Coord' = Coord /\ call'["collector"].write = NoWrite
  <2>1. UNCHANGED <<hw, stuck, actor, landing>>
    <3>1. Left("collector") => UNCHANGED stuck
      BY DEF Left
    <3>2. Told("collector") => UNCHANGED <<stuck, landing>>
      BY DEF Told
    <3>3. CASE ReturnsOk("collector") \/ ReturnsRefused("collector") \/ SendRefused("collector")
      BY <3>2, <3>3 DEF ReturnsOk, ReturnsRefused, SendRefused
    <3>4. CASE ReturnsError("collector") \/ TimesOut("collector")
      BY <3>1, <3>4 DEF ReturnsError, TimesOut
    <3> QED BY <3>3, <3>4 DEF CallEnds
  <2>2. call' = [call EXCEPT !["collector"] = IdleCall] \/ call' = call
    BY DEF CallEnds, ReturnsOk, ReturnsRefused, ReturnsError, TimesOut, SendRefused
  <2>3. Coord' = Coord /\ call'["collector"].write = NoWrite
    <3>1. "collector" \in Callers /\ "coordinator" \in Callers /\ call \in [Callers -> {call[c] : c \in Callers}]
      BY DEF Callers, ActorInv, ActorTypeOK
    <3>2. CASE call' = [call EXCEPT !["collector"] = IdleCall]
      BY <3>1, <3>2 DEF Coord, IdleCall
    <3>3. CASE call' = call
      BY <3>3 DEF Coord, ActorInv, ActorOrder, OneSource
    <3> QED BY <2>2, <3>2, <3>3
  <2> QED BY <2>1, <2>3
<1>2. CASE UNCHANGED <<fifo, cur>>
  BY ZenonT(60), <1>1, <1>2
     DEF ActorInv, ActorOrder, OneSource, OneRequest, GoneIsIdle, HandMatches, AnswerMatches,
                    LandingMatches, StuckMatches, Queued, InPlace, WillLand
<1>3. CASE TimesOut("collector")
  <2>1. /\ fifo' = [i \in 1..Len(fifo) |-> Cancels(fifo[i], "collector")]
        /\ cur' = IF InHands("collector") THEN [cur EXCEPT !.env.cancelled = TRUE] ELSE cur
    BY <1>3 DEF TimesOut
  <2>2. Len(fifo') = Len(fifo) /\ (fifo = <<>> => fifo' = <<>>)
    <3>1. Len(fifo) \in Nat
      BY Bounded DEF ActorInv
    <3>2. fifo' \in [1..Len(fifo) -> {fifo'[i] : i \in 1..Len(fifo)}]
      BY <2>1
    <3> QED BY <2>1, <3>1, <3>2, Indexed
  <2>3. \A i \in 1..Len(fifo) : fifo[i] \in Envelopes
    BY ElementOfSeq DEF ActorInv, ActorTypeOK
  <2>4. \A i \in 1..Len(fifo') : /\ fifo'[i].from = fifo[i].from /\ fifo'[i].write = fifo[i].write
                                 /\ (Queued(i)' <=> Queued(i))
    BY <2>1, <2>2, <2>3 DEF Cancels, Queued, Envelopes
  <2>5. /\ cur'.stage = cur.stage /\ cur'.fate = cur.fate
        /\ cur'.env.from = cur.env.from /\ cur'.env.write = cur.env.write
        /\ (InHand' <=> InHand) /\ (Abandoned' <=> Abandoned)
    BY <2>1 DEF ActorInv, ActorTypeOK, Envelopes
  <2>6. OneSource' /\ OneRequest'
    BY <1>1, <2>2, <2>4, <2>5 DEF ActorInv, ActorOrder, OneSource, OneRequest
  <2>7. GoneIsIdle' /\ HandMatches' /\ AnswerMatches' /\ LandingMatches' /\ StuckMatches'
    <3> QED BY <1>1, <2>2, <2>5
            DEF ActorInv, ActorOrder, GoneIsIdle, HandMatches, AnswerMatches, LandingMatches, StuckMatches,
                InPlace, WillLand
  <2> QED BY <2>6, <2>7 DEF ActorOrder
<1> QED BY <1>2, <1>3 DEF CallEnds, ReturnsOk, ReturnsRefused, ReturnsError, SendRefused

LEMMA OrderEnds ==
  ASSUME ActorInv, NEW c \in Callers, CallEnds(c) \/ SendRefused(c)
  PROVE  ActorOrder'
<1>1. CASE c = "collector"
  BY <1>1, OrderCollectorEnds
<1>2. CASE c = "coordinator"
  <2>1. CASE ReturnsOk(c) \/ ReturnsRefused(c) \/ ReturnsError(c)
    <3>1. /\ Coord.open /\ UNCHANGED <<hw, fifo, cur, actor>>
          /\ call' = [call EXCEPT !["coordinator"] = IdleCall]
      BY <1>2, <2>1 DEF ReturnsOk, ReturnsRefused, ReturnsError, Coord
    <3>2. Coord.answer # "none" \/ actor = "gone"
      BY <1>2, <2>1 DEF ReturnsOk, ReturnsRefused, ReturnsError, Coord
    <3>3. \/ stuck' = NoWrite /\ landing' = NoLanding
          \/ Coord.answer # "none" /\ Left("coordinator") /\ landing' = landing
      BY <1>2, <2>1 DEF ReturnsOk, ReturnsRefused, ReturnsError, Told, Coord
    <3> QED BY <3>1, <3>2, <3>3, OrderCoordinatorTold
  <2>2. CASE TimesOut(c)
    BY <1>2, <2>2, OrderCoordinatorTimesOut
  <2>3. CASE SendRefused(c)
    <3>1. /\ stuck' = NoWrite /\ landing' = NoLanding /\ actor = "gone" /\ ~Coord.open
          /\ UNCHANGED <<hw, fifo, cur, actor, call>>
      BY <1>2, <2>3 DEF SendRefused, Told, Coord
    <3>2. fifo = <<>> /\ cur.stage = "free"
      BY <3>1 DEF ActorInv, ActorOrder, GoneIsIdle
    <3> QED BY <3>1, <3>2
            DEF ActorInv, ActorOrder, OneSource, OneRequest, GoneIsIdle, HandMatches, AnswerMatches,
                LandingMatches, StuckMatches, Coord, Queued, InHand, InHands, Abandoned, WillLand
  <2> QED BY <2>1, <2>2, <2>3 DEF CallEnds
<1> QED BY <1>1, <1>2 DEF Callers

LEMMA ActorInvStep == ActorInv /\ [ActorNext]_actorVars => ActorInv'
<1> SUFFICES ASSUME ActorInv, [ActorNext]_actorVars PROVE ActorInv'
  OBVIOUS
<1>1. ActorTypeOK'
  BY TypesStep DEF ActorInv
<1>2. CASE UNCHANGED actorVars
  BY ZenonT(60), <1>1, <1>2
     DEF actorVars, hwVars, ActorInv, ActorOrder, OneSource, OneRequest, GoneIsIdle,
                    HandMatches, AnswerMatches, LandingMatches, StuckMatches, Coord, Queued, InHand,
                    InHands, Abandoned, InPlace, WillLand
<1>3. CASE ActorNext
  <2>1. NoWrite \in Calls /\ "coordinator" \in Callers
    BY DEF Calls, Callers
  <2>2. ActorOrder'
    BY <1>3, <2>1, OrderSkips, OrderTakes, OrderTakesShutdown, OrderLands, OrderAnswers, OrderEnds,
       OrderSends, OrderSendsShutdown DEF ActorNext, ActorRuns
  <2> QED BY <1>1, <2>2 DEF ActorInv
<1> QED BY <1>2, <1>3

\* The coordinator's one request, the answer in its reply channel, a write in place and a
\* write left behind fit together in every state, for any channels and any queue length.
THEOREM RequestsAndLandingsMatch == ActorSpec => []ActorInv
<1>1. ActorInit => ActorInv
  BY TypesInit, OrderInit DEF ActorInv
<1> QED BY <1>1, ActorInvStep, PTL DEF ActorSpec

-----------------------------------------------------------------------------
(* The refinement *)

\* A step that changes neither what the coordinator knows of nor what it believes.
Unnoticed == Known' = Known /\ UNCHANGED <<stuck, doubt>>

LEMMA KnownTyped ==
  ASSUME ActorTypeOK
  PROVE  Known \in [Channels -> Values]
BY HpActorAssumption DEF Known, ActorTypeOK, HwTypeOK, NoLanding

\* The coordinator is told of a write in place: the channels it knows of are the real ones.
LEMMA KnownCatchesUp ==
  ASSUME ActorTypeOK, landing # NoLanding, NEW write \in Writes, InPlace(write)
  PROVE  hw = [Known EXCEPT ![write.ch] = write.val]
BY HpActorAssumption DEF Known, InPlace, ActorTypeOK, HwTypeOK, Writes

LEMMA InPlaceIsLanding == \A write \in Writes : InPlace(write) => landing # NoLanding
BY DEF InPlace, Writes, Channels, NoLanding

LEMMA RefinesMovesOn ==
  ASSUME ActorInv, Ready, MovesOn
  PROVE  Unnoticed \/ Calls_!LateLanding
<1>1. CASE stuck = NoWrite
  BY <1>1 DEF MovesOn, Unnoticed, Known
<1>2. CASE stuck # NoWrite
  <2>1. stuck \in Writes /\ InPlace(stuck)
    BY <1>2 DEF ActorInv, ActorOrder, StuckMatches, Ready, ActorTypeOK, HwTypeOK
  <2>2. hw = [Known EXCEPT ![stuck.ch] = stuck.val]
    BY <2>1, KnownCatchesUp, InPlaceIsLanding DEF ActorInv
  <2>3. Known' = hw
    BY <1>2 DEF MovesOn, Known
  <2> QED BY <1>2, <2>2, <2>3 DEF MovesOn, Calls_!LateLanding, Calls_!Settled, Calls_!NoWrite, NoWrite
<1> QED BY <1>1, <1>2

LEMMA RefinesLands ==
  ASSUME ActorInv, Lands
  PROVE  Unnoticed
<1>1. cur.env.from = "coordinator"
  BY DEF ActorInv, ActorOrder, OneSource, Lands
<1>2. landing = NoLanding
  BY <1>1 DEF ActorInv, ActorOrder, HandMatches, StuckMatches, Lands, InHand, InHands, Abandoned
<1>3. cur.env.write \in Writes
  BY ChannelsKnown DEF Lands, ActorInv, ActorTypeOK, Envelopes
<1>4. landing' # NoLanding
  BY <1>3 DEF Lands, Writes, Channels, NoLanding
<1> QED BY <1>2, <1>3, <1>4 DEF Lands, Known, Unnoticed, ActorInv, ActorTypeOK, HwTypeOK, Writes

LEMMA RefinesTold ==
  ASSUME ActorInv, Coord.open \/ actor = "gone", Told("coordinator"), UNCHANGED <<hw, doubt>>,
         Coord.open => Coord.answer = "refused" \/ (Coord.answer = "none" /\ actor = "gone")
  PROVE  Unnoticed \/ Calls_!Refused
<1>1. stuck' = NoWrite /\ landing' = NoLanding /\ Known' = hw
  BY DEF Told, Known
<1>2. CASE stuck = NoWrite
  <2>1. landing = NoLanding
    BY <1>2 DEF ActorInv, ActorOrder, LandingMatches, AnswerMatches, GoneIsIdle, InHand, InHands
  <2> QED BY <1>1, <1>2, <2>1 DEF Unnoticed, Known
<1>3. CASE stuck # NoWrite
  <2>1. stuck \in Writes /\ InPlace(stuck)
    BY <1>3 DEF ActorInv, ActorOrder, StuckMatches, AnswerMatches, GoneIsIdle, Abandoned, ActorTypeOK,
                HwTypeOK
  <2>2. hw = [Known EXCEPT ![stuck.ch] = stuck.val]
    BY <2>1, KnownCatchesUp, InPlaceIsLanding DEF ActorInv
  <2> QED BY <1>1, <1>3, <2>2 DEF Calls_!Refused, Calls_!Settled, Calls_!NoWrite, NoWrite
<1> QED BY <1>2, <1>3

\* The doubts a read could change are those of no channel.
LEMMA NoDoubt ==
  ASSUME ActorTypeOK, NEW why
  PROVE  Doubted({NoWrite.ch}, why) = doubt
BY DEF Doubted, NoWrite, ActorTypeOK, HwTypeOK, FanChannels

LEMMA RefinesOk ==
  ASSUME ActorInv, ReturnsOk("coordinator")
  PROVE  Unnoticed \/ \E ch \in Channels, v \in Values : Calls_!Accepted(ch, v)
<1>1. /\ Coord.open /\ Coord.answer = "ok" /\ stuck' = NoWrite /\ landing' = NoLanding /\ hw' = hw
      /\ doubt' = Doubted({Coord.write.ch}, "none") /\ Known' = hw
  BY DEF ReturnsOk, Told, DoubtsNow, Coord, Known
<1>2. stuck = NoWrite
  BY <1>1 DEF ActorInv, ActorOrder, AnswerMatches
<1>3. CASE Coord.write = NoWrite
  <2>1. landing = NoLanding
    BY <1>1, <1>3 DEF ActorInv, ActorOrder, AnswerMatches
  <2> QED BY <1>1, <1>2, <1>3, <2>1, NoDoubt DEF Unnoticed, Known, ActorInv
<1>4. CASE Coord.write # NoWrite
  <2> DEFINE write == Coord.write
  <2>1. write \in Writes
    BY <1>4, ChannelsKnown DEF ActorInv, ActorTypeOK, Coord, Callers
  <2>2. InPlace(write)
    BY <1>1, <1>4 DEF ActorInv, ActorOrder, AnswerMatches
  <2>3. hw = [Known EXCEPT ![write.ch] = write.val]
    BY <2>1, <2>2, KnownCatchesUp, InPlaceIsLanding DEF ActorInv
  <2>4. write.ch \in Channels /\ write.val \in Values
    BY <2>1 DEF Writes
  <2>5. Calls_!Settled = Known
    BY <1>2 DEF Calls_!Settled, Calls_!NoWrite, NoWrite
  <2>6. doubt' = Calls_!Doubted({write.ch}, "none")
    BY <1>1 DEF Doubted, Calls_!Doubted, FanChannels, Calls_!FanChannels
  <2> HIDE DEF write
  <2>7. Calls_!Accepted(write.ch, write.val)
    BY <1>1, <2>3, <2>5, <2>6 DEF Calls_!Accepted, Calls_!NoWrite, NoWrite
  <2> QED BY <2>4, <2>7
<1> QED BY <1>3, <1>4

\* The coordinator gives up on its call, with or without a write left behind.
LEMMA RefinesUnknown ==
  ASSUME ActorInv, ReturnsError("coordinator") \/ TimesOut("coordinator")
  PROVE  Unnoticed \/ \E ch \in Channels, v \in Values : Calls_!Unknown(ch, v)
<1>1. /\ Coord.open /\ Left("coordinator") /\ UNCHANGED <<hw, landing>>
      /\ doubt' = Doubted({Coord.write.ch}, "unknown")
  BY DEF ReturnsError, TimesOut, DoubtsNow, Coord
<1>2. Known' = Known
  BY <1>1 DEF Known
<1>3. CASE Coord.write = NoWrite
  BY <1>1, <1>2, <1>3, NoDoubt DEF Unnoticed, ActorInv, Left, Coord
<1>4. CASE Coord.write # NoWrite
  <2> DEFINE write == Coord.write
  <2>1. write \in Writes
    BY <1>4, ChannelsKnown DEF ActorInv, ActorTypeOK, Coord, Callers
  <2>2. write.ch \in Channels /\ write.val \in Values /\ write = [ch |-> write.ch, val |-> write.val]
    BY <2>1 DEF Writes
  <2>3. stuck' = stuck \/ (stuck = NoWrite /\ stuck' = write)
    BY <1>1 DEF Left, Coord
  <2>4. doubt' = Calls_!Doubted({write.ch}, "unknown")
    BY <1>1 DEF Doubted, Calls_!Doubted, FanChannels, Calls_!FanChannels
  <2> HIDE DEF write
  <2>5. Calls_!Unknown(write.ch, write.val)
    BY <1>2, <2>2, <2>3, <2>4 DEF Calls_!Unknown, Calls_!NoWrite, NoWrite
  <2> QED BY <2>2, <2>5
<1> QED BY <1>3, <1>4

LEMMA RefinesEnds ==
  ASSUME ActorInv, NEW c \in Callers, CallEnds(c) \/ SendRefused(c)
  PROVE  Unnoticed \/ Calls_!Next
<1>1. CASE c = "collector"
  <2>1. UNCHANGED <<hw, stuck, doubt, landing>>
    <3>1. Left("collector") => UNCHANGED stuck
      BY DEF Left
    <3>2. Told("collector") => UNCHANGED <<stuck, landing>>
      BY DEF Told
    <3>3. \A write, why : DoubtsNow("collector", write, why) => UNCHANGED doubt
      BY DEF DoubtsNow
    <3>4. CASE ReturnsOk(c) \/ ReturnsRefused(c) \/ SendRefused(c)
      BY <1>1, <3>2, <3>3, <3>4 DEF ReturnsOk, ReturnsRefused, SendRefused
    <3>5. CASE ReturnsError(c) \/ TimesOut(c)
      BY <1>1, <3>1, <3>3, <3>5 DEF ReturnsError, TimesOut
    <3> QED BY <3>4, <3>5 DEF CallEnds
  <2> QED BY <2>1 DEF Unnoticed, Known
<1>2. CASE c = "coordinator"
  <2>0. /\ Calls_!Refused => Calls_!Next
        /\ \A ch \in Channels, v \in Values : Calls_!Accepted(ch, v) \/ Calls_!Unknown(ch, v) => Calls_!Next
    <3>1. Channels = Calls_!Channels /\ Values = Calls_!Values
          /\ "max" \in Channels /\ "base" \in Values
      BY DEF Channels, Calls_!Channels, Values, Calls_!Values
    <3> QED BY <3>1 DEF Calls_!Next, Calls_!CallFails
  <2>1. CASE ReturnsOk(c)
    BY <1>2, <2>0, <2>1, RefinesOk
  <2>2. CASE ReturnsRefused(c)
    <3>1. Coord.open /\ Told("coordinator") /\ UNCHANGED <<hw, doubt>>
          /\ (Coord.answer = "refused" \/ (Coord.answer = "none" /\ actor = "gone"))
      BY <1>2, <2>2 DEF ReturnsRefused, Coord
    <3> QED BY <2>0, <3>1, RefinesTold
  <2>3. CASE SendRefused(c)
    <3>1. ~Coord.open /\ actor = "gone" /\ Told("coordinator") /\ UNCHANGED <<hw, doubt>>
      BY <1>2, <2>3 DEF SendRefused, Coord
    <3> QED BY <2>0, <3>1, RefinesTold
  <2>4. CASE ReturnsError(c) \/ TimesOut(c)
    BY <1>2, <2>0, <2>4, RefinesUnknown
  <2> QED BY <2>1, <2>2, <2>3, <2>4 DEF CallEnds
<1> QED BY <1>1, <1>2 DEF Callers

LEMMA RefinesStep ==
  ASSUME ActorInv, [ActorNext]_actorVars
  PROVE  [Calls_!Next]_(Calls_!hwVars)
<1>1. Unnoticed => UNCHANGED Calls_!hwVars
  BY DEF Unnoticed, Calls_!hwVars
<1>2. CASE UNCHANGED actorVars
  BY <1>1, <1>2 DEF actorVars, hwVars, Unnoticed, Known
<1>3. CASE CacheAges \/ SendsShutdown \/ \E c \in Callers, write \in Calls : Sends(c, write)
  BY <1>1, <1>3 DEF CacheAges, SendsShutdown, Sends, hwVars, Unnoticed, Known
<1>4. CASE SkipsCancelled \/ Takes \/ TakesShutdown
  BY <1>1, <1>4, RefinesMovesOn DEF SkipsCancelled, Takes, TakesShutdown, Calls_!Next
<1>5. CASE Lands
  BY <1>1, <1>5, RefinesLands
<1>6. CASE AnswersWrite \/ AnswersFromCache \/ ReadsFans
  <2>1. UNCHANGED <<hw, stuck, doubt, landing>>
    BY <1>6 DEF AnswersWrite, AnswersFromCache, ReadsFans, Replies, hwVars
  <2> QED BY <1>1, <2>1 DEF Unnoticed, Known
<1>7. CASE \E c \in Callers : CallEnds(c) \/ SendRefused(c)
  BY <1>1, <1>7, RefinesEnds
<1> QED
  <2>1. NoWrite \in Calls /\ "coordinator" \in Callers
    BY DEF Calls, Callers
  <2> QED BY <1>2, <1>3, <1>4, <1>5, <1>6, <1>7, <2>1 DEF ActorNext, ActorRuns

\* Whatever the actor, its queue, its cache and the two callers do, the coordinator sees
\* firmware calls that are accepted, refused, or unknown and landing before anything later.
THEOREM ActorKeepsFirmwarePromises == ActorSpec => KeepsFirmwarePromises
<1>1. ActorInit => Calls_!HwInit
  BY DEF ActorInit, HwInit, Calls_!HwInit, Known, Channels, Calls_!Channels, NoWrite, Calls_!NoWrite,
         FanChannels, Calls_!FanChannels
<1>2. ActorInv /\ [ActorNext]_actorVars => [Calls_!Next]_(Calls_!hwVars)
  BY RefinesStep
<1>3. ActorSpec => []ActorInv
  BY RequestsAndLandingsMatch
<1> QED BY <1>1, <1>2, <1>3, PTL DEF ActorSpec, KeepsFirmwarePromises

-----------------------------------------------------------------------------
(* Readbacks *)

\* A write left behind is the one in place, unless the actor still has it to execute.
LEMMA LandingIsStuck ==
  ASSUME ActorInv, cur.stage = "free", stuck # NoWrite
  PROVE  landing.ch = stuck.ch
BY DEF ActorInv, ActorOrder, StuckMatches, InPlace, Abandoned

LEMMA LevelMovesOn ==
  ASSUME ActorInv, LevelMatches, SkipsCancelled \/ Takes \/ TakesShutdown
  PROVE  LevelMatches'
<1>1. Ready /\ MovesOn /\ UNCHANGED <<hw, doubt, call, cache>>
  BY DEF SkipsCancelled, Takes, TakesShutdown, MovesOn
<1>2. stuck' = NoWrite /\ (landing' = landing \/ (stuck # NoWrite /\ landing.ch = stuck.ch))
  BY <1>1, LandingIsStuck DEF MovesOn, Ready
<1>3. ~Abandoned'
  <2>1. CASE Takes
    <3>1. ~Head(fifo).cancelled
      BY <2>1 DEF Takes, Skips
    <3>2. PICK fate \in {"lands", "lands, then fails", "is refused", "fails"} :
            cur' = [env |-> Head(fifo), fate |-> fate, stage |-> "taken"]
      BY <2>1 DEF Takes
    <3>3. cur'.env = Head(fifo)
      BY <3>2
    <3> QED BY <3>1, <3>3 DEF Abandoned
  <2>2. CASE SkipsCancelled \/ TakesShutdown
    BY <1>1, <2>2 DEF SkipsCancelled, TakesShutdown, Abandoned, Ready
  <2> QED BY <2>1, <2>2
<1> QED BY <1>1, <1>2, <1>3 DEF LevelMatches, NoWrite, Coord

LEMMA LevelLands ==
  ASSUME ActorInv, LevelMatches, Lands
  PROVE  LevelMatches'
<1>1. cur.env.from = "coordinator"
  BY DEF ActorInv, ActorOrder, OneSource, Lands
<1>2. landing = NoLanding /\ ~(Coord.open /\ Coord.answer # "none")
  BY <1>1 DEF ActorInv, ActorOrder, HandMatches, StuckMatches, AnswerMatches, Lands, InHand, InHands,
              Abandoned
<1>3. cur.env.write.ch \in Channels
  BY ChannelsKnown DEF Lands, ActorInv, ActorTypeOK, Envelopes, Writes
<1>4. /\ UNCHANGED <<stuck, doubt, call, cache>>
      /\ Abandoned' => Abandoned /\ cur'.env = cur.env
      /\ landing'.ch = cur.env.write.ch
      /\ cur.env.write.ch # "level" => hw'["level"] = hw["level"]
  <2>1. cur'.env = cur.env /\ cur.stage = "taken"
    BY DEF Lands, ActorInv, ActorTypeOK
  <2>2. UNCHANGED <<stuck, doubt, call, cache>> /\ landing'.ch = cur.env.write.ch
        /\ hw' = [hw EXCEPT ![cur.env.write.ch] = cur.env.write.val]
    BY DEF Lands
  <2>3. Abandoned' => Abandoned /\ cur'.env = cur.env
    BY <2>1 DEF Abandoned
  <2>4. cur.env.write.ch # "level" => hw'["level"] = hw["level"]
    BY <1>3, <2>2 DEF ActorInv, ActorTypeOK, HwTypeOK, Channels
  <2> QED BY <2>2, <2>3, <2>4
<1> QED BY <1>2, <1>4 DEF LevelMatches, Coord, NoLanding

LEMMA LevelAnswers ==
  ASSUME ActorInv, LevelMatches, AnswersWrite \/ AnswersFromCache \/ ReadsFans \/ CacheAges
  PROVE  LevelMatches'
<1>1. CASE CacheAges
  BY <1>1 DEF CacheAges, hwVars, LevelMatches, Coord, Abandoned, ActorInv, ActorTypeOK, Samples
<1>2. ASSUME NEW answer \in {"ok", "refused", "error"}, NEW sample, Replies(answer, sample),
             cur.stage # "free",
             cur.env.write = NoWrite /\ cur.stage = "taken" /\ sample.since /\ doubt["level"] = "none" =>
               sample.val = hw["level"] \/ landing.ch = "level",
             cur.env.write = NoWrite => cur.stage = "taken",
             cache'.sample = cache.sample \/ (cache'.sample = sample /\ cur.env.write = NoWrite)
      PROVE  LevelMatches'
  <2>1. ~Abandoned'
    BY <1>2, ReplyReaches, Constants_ DEF Abandoned
  <2>2. CASE cur.env.from = "coordinator" /\ ~cur.env.cancelled
    <3>1. /\ Coord'.write = cur.env.write /\ Coord'.sample = sample /\ Coord'.open
          /\ cur.env.write = NoWrite => landing = NoLanding
      BY <1>2, <2>2, ReplyReaches
         DEF ActorInv, ActorOrder, OneRequest, HandMatches, InHand, InHands
    <3>2. Coord'.answer = answer /\ UNCHANGED <<hw, stuck, doubt, landing>>
      BY <1>2, <2>2, ReplyReaches
    <3>3. Coord'.write = NoWrite /\ Coord'.sample.since /\ doubt["level"] = "none" =>
            sample.val = hw["level"]
      BY <1>2, <3>1 DEF NoLanding
    <3>4. cache'.sample.since /\ doubt["level"] = "none" =>
            cache'.sample.val = hw["level"] \/ landing.ch = "level"
      BY <1>2, <3>1 DEF LevelMatches
    <3> QED BY <2>1, <3>1, <3>2, <3>3, <3>4 DEF LevelMatches
  <2>3. CASE ~(cur.env.from = "coordinator" /\ ~cur.env.cancelled)
    BY <1>2, <2>1, <2>3, ReplyReaches DEF LevelMatches
  <2> QED BY <2>2, <2>3
<1>3. CASE AnswersWrite
  <2> DEFINE answer == CASE cur.fate = "lands" -> "ok" [] cur.fate = "is refused" -> "refused"
                         [] OTHER -> "error"
  <2>1. answer \in {"ok", "refused", "error"} /\ Replies(answer, NoSample)
    BY <1>3 DEF AnswersWrite
  <2>2. cur.env.write # NoWrite /\ cur.stage # "free" /\ cache' = cache
    BY <1>3 DEF AnswersWrite
  <2> HIDE DEF answer
  <2> QED BY <1>2, <2>1, <2>2
<1>4. CASE AnswersFromCache
  <2>1. PICK answer \in {"ok", "refused", "error"} : Replies(answer, cache.sample)
    BY <1>4 DEF AnswersFromCache, CachedSample
  <2>2. cur.env.write = NoWrite /\ cur.stage = "taken" /\ cache' = cache
    BY <1>4 DEF AnswersFromCache
  <2> QED BY <1>2, <2>1, <2>2 DEF LevelMatches
<1>5. CASE ReadsFans
  <2> DEFINE sample == IF cur.fate = "fails" THEN NoSample
                       ELSE [val |-> hw["level"], since |-> TRUE]
             answer == IF cur.fate = "fails" THEN "error" ELSE "ok"
  <2>1. answer \in {"ok", "refused", "error"} /\ Replies(answer, sample) /\ cache'.sample = sample
    BY <1>5 DEF ReadsFans
  <2>2. cur.env.write = NoWrite /\ cur.stage = "taken"
    BY <1>5 DEF ReadsFans
  <2>3. sample.since => sample.val = hw["level"]
    BY DEF NoSample
  <2> HIDE DEF answer, sample
  <2> QED BY <1>2, <2>1, <2>2, <2>3
<1> QED BY <1>1, <1>3, <1>4, <1>5

LEMMA LevelEnds ==
  ASSUME ActorInv, LevelMatches, NEW c \in Callers, CallEnds(c) \/ SendRefused(c)
  PROVE  LevelMatches'
<1>1. CASE c = "collector"
  <2>1. UNCHANGED <<hw, stuck, doubt, landing, cache>>
    <3>1. Left("collector") => UNCHANGED stuck
      BY DEF Left
    <3>2. Told("collector") => UNCHANGED <<stuck, landing>>
      BY DEF Told
    <3>3. \A write, why : DoubtsNow("collector", write, why) => UNCHANGED doubt
      BY DEF DoubtsNow
    <3>4. \A write : Stamped("collector", write) => UNCHANGED cache
      BY DEF Stamped
    <3>5. CASE ReturnsOk(c) \/ ReturnsRefused(c) \/ SendRefused(c)
      BY <1>1, <3>2, <3>3, <3>4, <3>5 DEF ReturnsOk, ReturnsRefused, SendRefused
    <3>6. CASE ReturnsError(c) \/ TimesOut(c)
      BY <1>1, <3>1, <3>3, <3>6 DEF ReturnsError, TimesOut
    <3> QED BY <3>5, <3>6 DEF CallEnds
  <2>2. call' = [call EXCEPT !["collector"] = IdleCall] \/ call' = call
    BY <1>1 DEF CallEnds, ReturnsOk, ReturnsRefused, ReturnsError, TimesOut, SendRefused
  <2>3. Coord' = Coord
    BY <2>2 DEF Coord, ActorInv, ActorTypeOK, Callers
  <2>4. Abandoned' => Abandoned /\ cur'.env.write = cur.env.write
    <3>1. \/ cur' = cur
          \/ cur' = [cur EXCEPT !.env.cancelled = TRUE] /\ cur.env.from = "collector"
      <4>1. CASE TimesOut(c)
        BY <1>1, <4>1 DEF TimesOut, InHands
      <4>2. CASE ~TimesOut(c)
        BY <4>2 DEF CallEnds, ReturnsOk, ReturnsRefused, ReturnsError, SendRefused
      <4> QED BY <4>1, <4>2
    <3>2. CASE cur' = cur
      BY <3>2 DEF Abandoned
    <3>3. CASE cur' = [cur EXCEPT !.env.cancelled = TRUE] /\ cur.env.from = "collector"
      <4>1. cur'.env.from = "collector"
        BY <3>3 DEF ActorInv, ActorTypeOK, Envelopes
      <4> QED BY <4>1 DEF Abandoned
    <3> QED BY <3>1, <3>2, <3>3
  <2> QED BY <2>1, <2>3, <2>4 DEF LevelMatches
<1>2. CASE c = "coordinator"
  <2>1. CASE ReturnsOk(c)
    <3>1. /\ Coord.open /\ Coord.answer = "ok" /\ stuck' = NoWrite /\ landing' = NoLanding
          /\ doubt' = Doubted({Coord.write.ch}, "none") /\ Stamped("coordinator", Coord.write)
          /\ call' = [call EXCEPT !["coordinator"] = IdleCall] /\ UNCHANGED <<hw, cur>>
      BY <1>2, <2>1 DEF ReturnsOk, Told, DoubtsNow, Coord
    <3>2. Coord'.answer = "none"
      BY <3>1 DEF Coord, IdleCall, ActorInv, ActorTypeOK, Callers
    <3>3. ~Abandoned'
      BY <3>1 DEF ActorInv, ActorOrder, AnswerMatches, Abandoned
    <3>4. CASE Coord.write.ch = "level"
      BY <3>1, <3>2, <3>3, <3>4 DEF Stamped, LevelMatches, NoWrite, ActorInv, ActorTypeOK, Samples
    <3>5. CASE Coord.write.ch # "level"
      <4>1. doubt'["level"] = doubt["level"] /\ cache' = cache
        BY <3>1, <3>5 DEF Doubted, Stamped, FanChannels
      <4>2. landing.ch # "level"
        BY <3>1, <3>5 DEF ActorInv, ActorOrder, AnswerMatches, InPlace, NoLanding
      <4> QED BY <3>1, <3>2, <3>3, <4>1, <4>2 DEF LevelMatches, NoWrite
    <3> QED BY <3>4, <3>5
  <2>2. CASE ReturnsRefused(c) \/ SendRefused(c)
    <3>1. /\ stuck' = NoWrite /\ landing' = NoLanding /\ UNCHANGED <<hw, doubt, cur, cache>>
          /\ Coord'.answer = "none"
      <4>1. stuck' = NoWrite /\ landing' = NoLanding /\ UNCHANGED <<hw, doubt, cur, cache>>
        BY <1>2, <2>2 DEF ReturnsRefused, SendRefused, Told
      <4>2. call' = [call EXCEPT !["coordinator"] = IdleCall] \/ (call' = call /\ ~Coord.open)
        BY <1>2, <2>2 DEF ReturnsRefused, SendRefused, Coord
      <4>3. Coord'.answer = "none"
        <5>1. CASE call' = [call EXCEPT !["coordinator"] = IdleCall]
          BY <5>1 DEF Coord, IdleCall, ActorInv, ActorTypeOK, Callers
        <5>2. CASE call' = call /\ ~Coord.open
          BY <5>2 DEF Coord, LevelMatches
        <5> QED BY <4>2, <5>1, <5>2
      <4> QED BY <4>1, <4>3
    <3>2. /\ Coord.open => Coord.answer = "refused" \/ (Coord.answer = "none" /\ actor = "gone")
          /\ Coord.open \/ actor = "gone"
      BY <1>2, <2>2 DEF ReturnsRefused, SendRefused, Coord
    <3>3. landing = NoLanding \/ landing.ch = stuck.ch
      BY <3>2 DEF ActorInv, ActorOrder, LandingMatches, AnswerMatches, StuckMatches, GoneIsIdle, InPlace,
                  InHand, InHands, Abandoned
    <3> QED BY <3>1, <3>3 DEF LevelMatches, NoWrite, NoLanding, Abandoned
  <2>3. CASE ReturnsError(c) \/ TimesOut(c)
    <3>1. /\ Coord.open /\ Left("coordinator") /\ UNCHANGED <<hw, landing, cache>>
          /\ doubt' = Doubted({Coord.write.ch}, "unknown")
          /\ call' = [call EXCEPT !["coordinator"] = IdleCall]
      BY <1>2, <2>3 DEF ReturnsError, TimesOut, DoubtsNow, Coord
    <3>2. Coord'.answer = "none"
      BY <3>1 DEF Coord, IdleCall, ActorInv, ActorTypeOK, Callers
    <3>3. CASE Coord.write.ch = "level"
      <4>1. doubt'["level"] = "unknown"
        BY <3>1, <3>3 DEF Doubted, FanChannels
      <4> QED BY <3>2, <4>1 DEF LevelMatches
    <3>4. CASE Coord.write.ch # "level"
      <4>1. doubt'["level"] = doubt["level"]
        BY <3>1, <3>4 DEF Doubted, FanChannels
      <4>2. stuck' = stuck \/ stuck'.ch # "level"
        BY <3>1, <3>4 DEF Left, Coord
      <4>3. Abandoned' => cur'.env.write = cur.env.write /\ (Abandoned \/ cur.env.write = Coord.write)
        <5>1. cur' = cur \/ (InHand /\ cur' = [cur EXCEPT !.env.cancelled = TRUE])
          <6>1. CASE TimesOut(c)
            BY <1>2, <6>1 DEF TimesOut, InHand
          <6>2. CASE ReturnsError(c)
            BY <6>2 DEF ReturnsError
          <6> QED BY <2>3, <6>1, <6>2
        <5>2. InHand => cur.env.write = Coord.write
          BY DEF ActorInv, ActorOrder, OneRequest
        <5>3. CASE cur' = cur
          BY <5>3 DEF Abandoned
        <5>4. CASE InHand /\ cur' = [cur EXCEPT !.env.cancelled = TRUE]
          <6>1. cur'.env.write = cur.env.write
            BY <5>4 DEF ActorInv, ActorTypeOK, Envelopes
          <6> QED BY <5>2, <5>4, <6>1
        <5> QED BY <5>1, <5>3, <5>4
      <4> QED BY <3>1, <3>2, <3>4, <4>1, <4>2, <4>3 DEF LevelMatches
    <3> QED BY <3>3, <3>4
  <2> QED BY <2>1, <2>2, <2>3 DEF CallEnds
<1> QED BY <1>1, <1>2 DEF Callers

LEMMA LevelStep == ActorInv /\ LevelMatches /\ [ActorNext]_actorVars => LevelMatches'
<1> SUFFICES ASSUME ActorInv, LevelMatches, [ActorNext]_actorVars PROVE LevelMatches'
  OBVIOUS
<1>1. CASE UNCHANGED actorVars
  BY <1>1 DEF actorVars, hwVars, LevelMatches, Coord, Abandoned
<1>2. ASSUME NEW c \in Callers, NEW write \in Calls, Sends(c, write)
      PROVE  LevelMatches'
  <2>1. UNCHANGED <<hw, stuck, doubt, cur, cache, landing>>
    BY <1>2 DEF Sends, hwVars
  <2>2. Coord' = Coord \/ (Coord'.open /\ Coord'.answer = "none")
    BY <1>2 DEF Sends, Coord, IdleCall, ActorInv, ActorTypeOK, Callers
  <2> QED BY <2>1, <2>2 DEF LevelMatches, Abandoned
<1>3. CASE SendsShutdown
  BY <1>3 DEF SendsShutdown, hwVars, LevelMatches, Coord, Abandoned
<1> QED
  <2>1. NoWrite \in Calls /\ "coordinator" \in Callers
    BY DEF Calls, Callers
  <2> QED BY <1>1, <1>2, <1>3, <2>1, LevelMovesOn, LevelLands, LevelAnswers, LevelEnds
          DEF ActorNext, ActorRuns

\* A fan readback that may count as verification shows the level in place, whoever filled
\* the cache and whenever, for any other channels written meanwhile.
THEOREM ReadbackIsAlwaysOfTheWrite == ActorSpec => []ReadbackIsOfTheWrite
<1>1. ActorInit => LevelMatches
  BY OrderInit
<1>2. ActorInv /\ LevelMatches => ReadbackIsOfTheWrite
  <2> SUFFICES ASSUME ActorInv, LevelMatches PROVE ReadbackIsOfTheWrite
    OBVIOUS
  <2> QED BY DEF LevelMatches, ReadbackIsOfTheWrite, Coord
<1>3. ActorSpec => []ActorInv
  BY RequestsAndLandingsMatch
<1> QED BY <1>1, <1>2, <1>3, LevelStep, PTL DEF ActorSpec

=============================================================================
