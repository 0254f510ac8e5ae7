------------------------------ MODULE HpActor -------------------------------
(***************************************************************************)
(* The HP actor (platform/hp_wmi/actor.rs): one thread that owns the        *)
(* firmware transport, an unbounded FIFO of envelopes in front of it, and   *)
(* callers that give up after five seconds and then raise the envelope's    *)
(* cancellation flag.  Two threads call it: the control coordinator, the    *)
(* only writer, and the fan collector of the telemetry, which reads.        *)
(*                                                                          *)
(* `stuck` and `doubt` of HpFirmware are history here: what the coordinator *)
(* may believe about its writes.  How a firmware call ends is chosen when   *)
(* the actor starts on it; a panic in the transport is a transport error.   *)
(* Reads other than the fans' are calls that write nothing.                 *)
(***************************************************************************)
EXTENDS HpFirmware, Sequences

CONSTANTS
  Written,    \* channels the coordinator writes in this instance
  MaxFifo     \* bound: envelopes in the FIFO, the cancelled ones included

ASSUME HpActorAssumption == Written \subseteq Channels /\ MaxFifo \in Nat \ {0}

VARIABLES
  fifo,      \* envelopes: who calls, what is written, whether it was cancelled
  cur,       \* the envelope the actor works on
  actor,     \* "up", or "gone" after Shutdown
  call,      \* each caller's call, and the answer in its reply channel
  cache,     \* FanCache
  landing    \* history: the write in place that the coordinator does not know of

actorVars == <<hwVars, fifo, cur, actor, call, cache, landing>>

Callers == {"coordinator", "collector"}
Calls == [ch : Written, val : Values] \cup {NoWrite}
Envelopes == [from : Callers \cup {"engine"}, write : Calls, cancelled : BOOLEAN]
NoEnvelope == [from |-> "engine", write |-> NoWrite, cancelled |-> FALSE]
Samples == [val : Values \cup {"none"}, since : BOOLEAN]
NoSample == [val |-> "none", since |-> FALSE]
IdleCall == [open |-> FALSE, write |-> NoWrite, answer |-> "none", sample |-> NoSample]
NoLanding == [ch |-> "none", old |-> "base"]
Free == [env |-> NoEnvelope, fate |-> "fails", stage |-> "free"]

ActorTypeOK ==
  /\ HwTypeOK
  /\ fifo \in Seq(Envelopes) /\ Len(fifo) <= MaxFifo
  /\ cur \in [env : Envelopes, fate : {"lands", "lands, then fails", "is refused", "fails"},
              stage : {"free", "taken", "written"}]
  /\ actor \in {"up", "gone"}
  /\ call \in [Callers -> [open : BOOLEAN, write : Calls, sample : Samples,
                           answer : {"none", "ok", "refused", "error"}]]
  /\ cache \in [tried : BOOLEAN, sample : Samples]
  /\ landing \in [ch : Written, old : Values] \cup {NoLanding}

ActorInit ==
  /\ HwInit
  /\ fifo = <<>>
  /\ cur = Free
  /\ actor = "up"
  /\ call = [c \in Callers |-> IdleCall]
  /\ cache = [tried |-> FALSE, sample |-> NoSample]
  /\ landing = NoLanding

-----------------------------------------------------------------------------
(* HpHandle::call *)

Sends(c, write) ==
  /\ actor = "up" /\ ~call[c].open /\ Len(fifo) < MaxFifo
  /\ fifo' = Append(fifo, [from |-> c, write |-> write, cancelled |-> FALSE])
  /\ call' = [call EXCEPT ![c] = [IdleCall EXCEPT !.open = TRUE, !.write = write]]
  /\ UNCHANGED <<hwVars, cur, actor, cache, landing>>

\* The coordinator has a definite answer: what it was told about is behind it.
Told(c) ==
  IF c = "coordinator" THEN landing' = NoLanding /\ stuck' = NoWrite
  ELSE UNCHANGED <<landing, stuck>>

DoubtsNow(c, write, why) ==
  doubt' = IF c = "coordinator" THEN Doubted({write.ch}, why) ELSE doubt

\* `written_at` is taken when a fan write has returned: samples read before count no more.
Stamped(c, write) ==
  cache' = IF c = "coordinator" /\ write.ch = "level"
           THEN [cache EXCEPT !.sample.since = FALSE] ELSE cache

ReturnsOk(c) ==
  /\ call[c].open /\ call[c].answer = "ok"
  /\ call' = [call EXCEPT ![c] = IdleCall]
  /\ Told(c)
  /\ DoubtsNow(c, call[c].write, "none")
  /\ Stamped(c, call[c].write)
  /\ UNCHANGED <<hw, fifo, cur, actor>>

\* A rejection, a throttled read, or no actor to answer (NotAvailable).
ReturnsRefused(c) ==
  /\ call[c].open
  /\ call[c].answer = "refused" \/ (call[c].answer = "none" /\ actor = "gone")
  /\ call' = [call EXCEPT ![c] = IdleCall]
  /\ Told(c)
  /\ UNCHANGED <<hw, doubt, fifo, cur, actor, cache>>

SendRefused(c) ==
  /\ actor = "gone" /\ ~call[c].open
  /\ Told(c)
  /\ UNCHANGED <<hw, doubt, fifo, cur, actor, call, cache>>

WillLand == cur.fate \in {"lands", "lands, then fails"}
InHands(c) == cur.stage # "free" /\ cur.env.from = c /\ ~cur.env.cancelled

\* The caller gives up on a write that is in place or still will be.
Left(c) ==
  IF /\ c = "coordinator" /\ call[c].write # NoWrite /\ stuck = NoWrite
     /\ landing # NoLanding \/ (InHands(c) /\ WillLand)
  THEN stuck' = call[c].write ELSE UNCHANGED stuck

ReturnsError(c) ==
  /\ call[c].open /\ call[c].answer = "error"
  /\ call' = [call EXCEPT ![c] = IdleCall]
  /\ Left(c)
  /\ DoubtsNow(c, call[c].write, "unknown")
  /\ UNCHANGED <<hw, fifo, cur, actor, cache, landing>>

Cancels(env, c) == IF env.from = c THEN [env EXCEPT !.cancelled = TRUE] ELSE env

\* Five seconds, whatever the actor is doing with the request; an answer that arrives
\* in that very moment is not seen.
TimesOut(c) ==
  /\ call[c].open
  /\ fifo' = [i \in 1..Len(fifo) |-> Cancels(fifo[i], c)]
  /\ cur' = IF InHands(c) THEN [cur EXCEPT !.env.cancelled = TRUE] ELSE cur
  /\ call' = [call EXCEPT ![c] = IdleCall]
  /\ Left(c)
  /\ DoubtsNow(c, call[c].write, "unknown")
  /\ UNCHANGED <<hw, actor, cache, landing>>

\* Shutdown is an envelope like any other, never cancelled; the engine sends it once.
SendsShutdown ==
  /\ actor = "up" /\ Len(fifo) < MaxFifo
  /\ \A i \in 1..Len(fifo) : fifo[i].from # "engine"
  /\ fifo' = Append(fifo, NoEnvelope)
  /\ UNCHANGED <<hwVars, cur, actor, call, cache, landing>>

-----------------------------------------------------------------------------
(* HpActor::run *)

Ready == actor = "up" /\ cur.stage = "free" /\ fifo # <<>>

\* When the actor turns to the next envelope, a write its caller left is over.
MovesOn ==
  /\ stuck' = NoWrite
  /\ landing' = IF stuck # NoWrite THEN NoLanding ELSE landing
  /\ UNCHANGED <<hw, doubt>>

Skips_no(env) == FALSE

\* The flag is looked at once, before the call.
Skips(env) == env.cancelled

SkipsCancelled ==
  /\ Ready /\ Head(fifo).from # "engine" /\ Skips(Head(fifo))
  /\ fifo' = Tail(fifo)
  /\ MovesOn
  /\ UNCHANGED <<cur, actor, call, cache>>

Takes ==
  /\ Ready /\ Head(fifo).from # "engine" /\ ~Skips(Head(fifo))
  /\ fifo' = Tail(fifo)
  /\ \E fate \in {"lands", "lands, then fails", "is refused", "fails"} :
       /\ Head(fifo).write = NoWrite => fate \in {"lands", "fails"}
       /\ cur' = [env |-> Head(fifo), fate |-> fate, stage |-> "taken"]
  /\ MovesOn
  /\ UNCHANGED <<actor, call, cache>>

TakesShutdown ==
  /\ Ready /\ Head(fifo).from = "engine"
  /\ actor' = "gone"
  /\ fifo' = <<>>
  /\ MovesOn
  /\ UNCHANGED <<cur, call, cache>>

Lands ==
  /\ cur.stage = "taken" /\ cur.env.write # NoWrite /\ WillLand
  /\ hw' = [hw EXCEPT ![cur.env.write.ch] = cur.env.write.val]
  /\ landing' = [ch |-> cur.env.write.ch, old |-> hw[cur.env.write.ch]]
  /\ cur' = [cur EXCEPT !.stage = "written"]
  /\ UNCHANGED <<stuck, doubt, fifo, actor, call, cache>>

\* The reply channel of a caller that has given up is gone; what the collector reads is
\* not looked at here.
Replies(answer, sample) ==
  /\ call' = IF cur.env.cancelled THEN call
             ELSE [call EXCEPT ![cur.env.from].answer = answer,
                               !["coordinator"].sample = IF cur.env.from = "coordinator" THEN sample ELSE @]
  /\ cur' = Free
  /\ UNCHANGED <<hwVars, fifo, actor, landing>>

AnswersWrite ==
  /\ cur.env.write # NoWrite
  /\ cur.stage = IF WillLand THEN "written" ELSE "taken"
  /\ Replies(CASE cur.fate = "lands" -> "ok" [] cur.fate = "is refused" -> "refused"
               [] OTHER -> "error", NoSample)
  /\ UNCHANGED cache

CachedSample_restamped == [cache.sample EXCEPT !.since = TRUE]

\* A sample served again keeps the time it was read at.
CachedSample == cache.sample

\* FanCache::read within a second of the last attempt: that attempt's result.
AnswersFromCache ==
  /\ cur.stage = "taken" /\ cur.env.write = NoWrite /\ cache.tried
  /\ Replies(IF cache.sample.val = "none" THEN "refused" ELSE "ok", CachedSample)
  /\ UNCHANGED cache

ReadsFans ==
  /\ cur.stage = "taken" /\ cur.env.write = NoWrite /\ ~cache.tried
  /\ LET sample == IF cur.fate = "fails" THEN NoSample
                   ELSE [val |-> hw["level"], since |-> TRUE] IN
       /\ cache' = [tried |-> TRUE, sample |-> sample]
       /\ Replies(IF cur.fate = "fails" THEN "error" ELSE "ok", sample)

\* A second passes.
CacheAges ==
  /\ cache.tried
  /\ cache' = [cache EXCEPT !.tried = FALSE]
  /\ UNCHANGED <<hwVars, fifo, cur, actor, call, landing>>

-----------------------------------------------------------------------------
ActorRuns ==
  \/ SkipsCancelled \/ Takes \/ TakesShutdown \/ Lands \/ AnswersWrite
  \/ AnswersFromCache \/ ReadsFans

CallEnds(c) == ReturnsOk(c) \/ ReturnsRefused(c) \/ ReturnsError(c) \/ TimesOut(c)

ActorNext ==
  \/ ActorRuns \/ CacheAges
  \/ \E c \in Callers : CallEnds(c) \/ SendRefused(c) \/ Sends(c, NoWrite)
  \/ \E write \in Calls : Sends("coordinator", write)
  \/ SendsShutdown

ActorSpec == ActorInit /\ [][ActorNext]_actorVars

-----------------------------------------------------------------------------
(* Properties *)

\* The channels as the coordinator knows them: a write in place counts once its
\* caller was told, or is past caring.
Known ==
  IF landing = NoLanding THEN hw ELSE [hw EXCEPT ![landing.ch] = landing.old]

Calls_ == INSTANCE FirmwareCalls WITH hw <- Known

\* The actor keeps the promises ControlCoordinator is built on: a call lands at most
\* once, one that times out in the queue never does, one that is cut off lands before
\* any later request, and a definite answer means that everything earlier is over.
KeepsFirmwarePromises == Calls_!HwInit /\ [][Calls_!Next]_(Calls_!hwVars)

\* A fan readback that counts as verification (the last write of the level succeeded and
\* the sample is not older than its return) shows the level the firmware has, although
\* the cache serves a sample for up to a second and the collector fills it too.
ReadbackIsOfTheWrite ==
  LET c == call["coordinator"] IN
    c.answer = "ok" /\ c.write = NoWrite /\ c.sample.since /\ doubt["level"] = "none"
      => c.sample.val = hw["level"]

=============================================================================
