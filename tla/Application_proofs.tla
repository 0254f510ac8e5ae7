------------------------- MODULE Application_proofs -------------------------
(***************************************************************************)
(* Proofs about Application, for every depth of the queues, any number of   *)
(* sessions, any profiles and any knobs:                                    *)
(*                                                                          *)
(*   SessionIsAlwaysKnown            Spec => []SessionIsKnown               *)
(*   LastRestoreAlwaysLast           Spec => []LastRestoreIsLast            *)
(*   AppliesAlwaysPublishedProfiles  Spec => AppliesPublishedProfiles       *)
(*                                                                          *)
(* The channel and the queue behind it are one line of requests, read from  *)
(* the place the coordinator serves first.  Everything the invariant says   *)
(* is said about that line: who is in it waits, a Begin finds no session    *)
(* and never comes behind the last End, a command that needs profiles comes *)
(* behind them.  A client's step appends to the line (Gains); each step of  *)
(* the coordinator serves it (Serves): it takes some requests out, answers  *)
(* or starts nobody else, and leaves the others in their order.  So the     *)
(* invariant is carried over Serves once, and each of the coordinator's     *)
(* steps is shown to be one.                                                *)
(***************************************************************************)
EXTENDS Application, TLAPS

-----------------------------------------------------------------------------
(* The inductive invariant *)

Askers == {"pump", "worker", "final"}

\* The requests in the order in which the coordinator comes to them.
Line == queued \o chan

\* Who sends what.
Senders == {<<"apply", "pump">>, <<"begin", "worker">>, <<"end", "worker">>, <<"end", "final">>,
            <<"profiles", "profiles">>, <<"shutdown", "engine">>}
Formed ==
  /\ \A i \in DOMAIN Line : <<Line[i].kind, Line[i].to>> \in Senders
  /\ plan # NoPlan => /\ <<plan.kind, plan.to>> \in Senders /\ plan.kind \in {"apply", "begin", "end"}
                      /\ plan.kind = "end" => plan.closes

\* Who waits for an answer has one request on its way, and nobody else has any.
OneEach ==
  /\ \A i \in DOMAIN Line : Line[i].to \in Askers =>
       /\ reply[Line[i].to] = "waiting"
       /\ plan # NoPlan => plan.to # Line[i].to
       /\ \A j \in DOMAIN Line : Line[j].to = Line[i].to => j = i
  /\ plan # NoPlan => reply[plan.to] = "waiting"

\* A Begin that has not begun finds no session, and none comes behind the last End.
BeginsFindNone == \A i \in DOMAIN Line : Line[i].kind = "begin" => session = 0
FinalIsLast ==
  /\ \A i, j \in DOMAIN Line : Line[i].to = "final" /\ Line[j].kind = "begin" => j < i
  /\ (plan # NoPlan /\ plan.to = "final") \/ reply["final"] = "ok" =>
       \A i \in DOMAIN Line : Line[i].kind # "begin"
  /\ reply["final"] = "ok" => session = 0
QueueInv ==
  /\ Formed /\ OneEach /\ BeginsFindNone /\ FinalIsLast
  /\ \A c \in Callers : reply[c] = "gone" => stage # "running"

\* What the worker knows of the session and of its own request.
Turning == w.pc \in {"turn", "scan"}
AboutPending(kind, to) == to = "worker" => kind = w.pending.kind
WorkerKnows ==
  /\ w.active = Inactive <=> w.active.id = 0
  /\ w.pending = NoTransition <=> w.pending.kind = "none"
  /\ w.pending = NoTransition <=> w.pending.id = 0
  /\ Turning =>
       /\ reply["final"] = "none" /\ w.final = "none"
       /\ session \in {0, w.active.id, w.pending.id}
       /\ w.pending.kind = "begin" => w.active = Inactive
       /\ w.pending.kind = "end" => w.active.id = w.pending.id
       /\ \A i \in DOMAIN Line : Line[i].to = "worker" =>
            Line[i].kind = w.pending.kind /\ Line[i].id = w.pending.id
       /\ plan # NoPlan /\ plan.to = "worker" => plan.kind = w.pending.kind
       /\ w.pending.kind = "end" /\ reply["worker"] = "ok" => session = 0
       /\ w.pending.kind = "begin" /\ reply["worker"] = "gone" => session = 0
       /\ w.pending = NoTransition => reply["worker"] # "waiting"

\* What it leaves behind when it goes.
NothingToCome == session = 0 /\ \A i \in DOMAIN Line : Line[i].kind # "begin"
WorkerLeaves ==
  /\ w.pc = "final" => w.final = "waiting" /\ reply["final"] # "none"
  /\ w.pc = "stopped" /\ w.final \in {"none", "ok"} => NothingToCome

PumpKnows ==
  /\ u.pc \in {"loop", "dispatched", "saving", "wait profiles"} /\ reply["pump"] = "waiting" => u.inFlight

\* A command dispatched under profiles that are not installed yet comes after them.
New(r) == r.kind = "apply" /\ r.id = 1
NotAccepted ==
  \/ u.pc = "saving"
  \/ u.pc = "wait profiles" /\ reply["profiles"] \in {"waiting", "failed"}
Ahead(i) == \E j \in 1..Len(queued) : j < i /\ Line[j].kind = "profiles"
ProfilesFirst ==
  stage = "running" /\ ~registry =>
    \/ NotAccepted /\ \A i \in DOMAIN Line : ~New(Line[i])
    \/ /\ \E j \in 1..Len(queued) : Line[j].kind = "profiles"
       /\ \A i \in DOMAIN Line : New(Line[i]) => Ahead(i)

\* What waits in the coalescer is left open: the pump only ever drops it or sends it on.
PumpTypes ==
  u \in [pc : {"loop", "dispatched", "saving", "wait profiles", "automation", "engine", "done"},
         pending : {u.pending}, inFlight : BOOLEAN, busy : BOOLEAN]

ApplicationInv ==
  /\ QueueTypeOK /\ WorkerTypeOK /\ PumpTypes
  /\ QueueInv /\ WorkerKnows /\ WorkerLeaves /\ PumpKnows /\ ProfilesFirst

-----------------------------------------------------------------------------
(* The line of requests *)

LEMMA Concatenated ==
  ASSUME NEW a \in Seq(Requests), NEW b \in Seq(Requests)
  PROVE  /\ a \o b \in Seq(Requests) /\ Len(a \o b) = Len(a) + Len(b)
         /\ \A i \in 1..Len(a) : (a \o b)[i] = a[i]
         /\ \A i \in 1..Len(b) : (a \o b)[Len(a) + i] = b[i]
  OBVIOUS

\* One request leaves the line, or one joins it at the end.
Loses(k) ==
  /\ Len(Line') = Len(Line) - 1
  /\ \A i \in 1..Len(Line') : Line'[i] = IF i < k THEN Line[i] ELSE Line[i + 1]
Gains(r) ==
  /\ Len(Line') = Len(Line) + 1 /\ Line'[Len(Line')] = r
  /\ \A i \in 1..Len(Line) : Line'[i] = Line[i]

LEMMA LineTypes ==
  ASSUME QueueTypeOK
  PROVE  /\ Line \in Seq(Requests) /\ Len(Line) = Len(queued) + Len(chan)
         /\ DOMAIN Line = 1..Len(Line) /\ Len(Line) \in Nat /\ Len(queued) \in Nat
         /\ \A i \in 1..Len(queued) : Line[i] = queued[i]
         /\ \A i \in 1..Len(chan) : Line[Len(queued) + i] = chan[i]
         /\ \A i \in DOMAIN Line : Line[i] \in Requests
  <1>1. queued \in Seq(Requests) /\ chan \in Seq(Requests)
    BY DEF QueueTypeOK
  <1>2. /\ Line \in Seq(Requests) /\ Len(Line) = Len(queued) + Len(chan)
        /\ \A i \in 1..Len(queued) : Line[i] = queued[i]
        /\ \A i \in 1..Len(chan) : Line[Len(queued) + i] = chan[i]
    BY <1>1, Concatenated DEF Line
  <1> QED BY <1>1, <1>2

LEMMA JoinsLine ==
  ASSUME QueueTypeOK, NEW r \in Requests, Enqueued(r)
  PROVE  QueueTypeOK' /\ Gains(r)
  <1>1. /\ chan' = Append(chan, r) /\ queued' = queued /\ chan \in Seq(Requests)
        /\ Len(chan) < Depth /\ Depth \in Nat
    BY ControlQueueAssumption DEF QueueTypeOK, Enqueued, HasRoom
  <1>2. /\ chan' \in Seq(Requests) /\ Len(chan') = Len(chan) + 1 /\ Len(chan') <= Depth
        /\ chan'[Len(chan) + 1] = r /\ \A i \in 1..Len(chan) : chan'[i] = chan[i]
    BY <1>1
  <1>3. QueueTypeOK'
    <2>1. reply' \in [Callers -> {"none", "waiting", "ok", "failed", "gone"}]
      BY DEF QueueTypeOK, Enqueued
    <2> QED BY <1>1, <1>2, <2>1 DEF QueueTypeOK, Enqueued
  <1>4. /\ Len(Line') = Len(queued) + Len(chan) + 1
        /\ \A i \in 1..Len(queued) : Line'[i] = queued[i]
        /\ \A i \in 1..(Len(chan) + 1) : Line'[Len(queued) + i] = chan'[i]
    BY <1>1, <1>2, <1>3, Concatenated DEF Line, QueueTypeOK
  <1>5. \A i \in 1..Len(Line) : Line'[i] = Line[i]
    <2> SUFFICES ASSUME NEW i \in 1..Len(Line) PROVE Line'[i] = Line[i]
      OBVIOUS
    <2>1. CASE i <= Len(queued)
      BY <1>4, <2>1, LineTypes
    <2>2. CASE i > Len(queued)
      <3>1. i - Len(queued) \in 1..Len(chan)
        <4>1. Len(Line) = Len(queued) + Len(chan) /\ Len(queued) \in Nat /\ Len(chan) \in Nat
          BY <1>1, LineTypes
        <4> QED BY <2>2, <4>1
      <3>2. Line'[Len(queued) + (i - Len(queued))] = chan[i - Len(queued)]
        <4> DEFINE j == i - Len(queued)
        <4>1. j \in 1..Len(chan) /\ j \in 1..(Len(chan) + 1)
          BY <1>1, <3>1
        <4>2. Line'[Len(queued) + j] = chan'[j]
          BY <1>4, <4>1
        <4>3. chan'[j] = chan[j]
          BY <1>2, <4>1
        <4> QED BY <4>2, <4>3
      <3>3. Line[Len(queued) + (i - Len(queued))] = chan[i - Len(queued)]
        BY <3>1, LineTypes
      <3>4. Len(queued) + (i - Len(queued)) = i
        BY LineTypes
      <3> QED BY <3>2, <3>3, <3>4
    <2> QED BY <2>1, <2>2, LineTypes
  <1> QED BY <1>1, <1>2, <1>3, <1>4, <1>5, LineTypes DEF Gains

\* The coordinator takes the first request, wherever that waits.
LEMMA FirstTaken ==
  ASSUME QueueTypeOK, Take
  PROVE  /\ Len(Line) > 0 /\ Loses(1) /\ Begins(Line[1]) /\ stage = "running" /\ plan = NoPlan
         /\ queued' \in Seq(Requests) /\ chan' \in Seq(Requests)
         /\ Len(queued') <= Depth /\ Len(chan') <= Depth /\ stage' = stage
         /\ Len(queued') >= Len(queued) - 1
  <1>0. /\ queued \in Seq(Requests) /\ chan \in Seq(Requests) /\ Depth \in Nat
        /\ Len(queued) <= Depth /\ Len(chan) <= Depth
    BY ControlQueueAssumption DEF QueueTypeOK
  <1>1. CASE queued # <<>>
    <2>1. queued' = Tail(queued) /\ chan' = chan /\ Begins(Head(queued))
      BY <1>1 DEF Take, QueuedFirst
    <2>2. /\ queued' \in Seq(Requests) /\ Len(queued') = Len(queued) - 1 /\ Len(queued) > 0
          /\ \A i \in 1..Len(queued') : queued'[i] = queued[i + 1]
          /\ Head(queued) = queued[1]
      BY <1>0, <1>1, <2>1
    <2>3. /\ Len(Line') = Len(queued') + Len(chan)
          /\ \A i \in 1..Len(queued') : Line'[i] = queued'[i]
          /\ \A i \in 1..Len(chan) : Line'[Len(queued') + i] = chan[i]
      BY <1>0, <2>1, <2>2, Concatenated DEF Line
    <2>4. \A i \in 1..Len(Line') : Line'[i] = Line[i + 1]
      <3> SUFFICES ASSUME NEW i \in 1..Len(Line') PROVE Line'[i] = Line[i + 1]
        OBVIOUS
      <3>1. CASE i <= Len(queued')
        BY <1>0, <2>2, <2>3, <3>1, LineTypes
      <3>2. CASE i > Len(queued')
        <4>1. i - Len(queued') \in 1..Len(chan) /\ Len(queued') + (i - Len(queued')) = i
              /\ Len(queued) + (i - Len(queued')) = i + 1
          BY <1>0, <2>2, <2>3, <3>2
        <4>2. Line'[Len(queued') + (i - Len(queued'))] = chan[i - Len(queued')]
          BY <2>3, <4>1
        <4>3. Line[Len(queued) + (i - Len(queued'))] = chan[i - Len(queued')]
          BY <4>1, LineTypes
        <4> QED BY <4>1, <4>2, <4>3
      <3> QED BY <1>0, <2>2, <2>3, <3>1, <3>2
    <2>5. Len(Line) = Len(queued) + Len(chan) /\ Line[1] = Head(queued) /\ Len(chan) \in Nat
          /\ Len(queued) \in Nat
      BY <1>0, <2>2, LineTypes
    <2>6. Loses(1) /\ Len(Line) > 0
      BY <2>2, <2>3, <2>4, <2>5 DEF Loses
    <2>7. stage = "running" /\ plan = NoPlan /\ stage' = stage
      BY DEF Take, Busy
    <2>8. Len(queued') <= Depth /\ Len(queued') >= Len(queued) - 1
      BY <1>0, <2>2, <2>5
    <2> QED BY <1>0, <2>1, <2>2, <2>5, <2>6, <2>7, <2>8
  <1>2. CASE queued = <<>>
    <2>1. queued' = <<>> /\ chan' = Tail(chan) /\ chan # <<>> /\ Begins(Head(chan))
      BY <1>2 DEF Take, QueuedFirst
    <2>2. /\ chan' \in Seq(Requests) /\ Len(chan') = Len(chan) - 1 /\ Len(chan) > 0
          /\ \A i \in 1..Len(chan') : chan'[i] = chan[i + 1]
          /\ Head(chan) = chan[1]
      BY <1>0, <2>1
    <2>3. Line = chan /\ Line' = chan'
      BY <1>0, <1>2, <2>1, <2>2 DEF Line
    <2>4. Len(chan) \in Nat /\ Len(queued) = 0 /\ Len(queued') = 0
      BY <1>0, <1>2, <2>1
    <2>5. Loses(1) /\ Len(Line) > 0 /\ Line[1] = Head(chan)
      BY <2>2, <2>3, <2>4 DEF Loses
    <2>6. stage = "running" /\ plan = NoPlan /\ stage' = stage
      BY DEF Take, Busy
    <2>7. Len(chan') <= Depth /\ queued' \in Seq(Requests)
      BY <1>0, <1>2, <2>1, <2>2, <2>4
    <2> QED BY <1>0, <2>1, <2>2, <2>4, <2>5, <2>6, <2>7
  <1> QED BY <1>1, <1>2

\* A request that is put aside keeps its place; at the limit it leaves the line.
LEMMA Received ==
  ASSUME QueueTypeOK, Receive
  PROVE  LET r == Line[Len(queued) + 1] IN
         /\ Len(queued) + 1 \in DOMAIN Line /\ r.kind # "shutdown" /\ r \in Requests
         /\ queued' \in Seq(Requests) /\ chan' \in Seq(Requests)
         /\ Len(queued') <= Depth /\ Len(chan') <= Depth
         /\ \/ /\ Len(queued') = Len(queued) + 1
               /\ Len(Line') = Len(Line) /\ \A i \in 1..Len(Line) : Line'[i] = Line[i]
               /\ IF r.kind = "profiles" THEN Answered(r.to, "ok") ELSE UNCHANGED reply
            \/ queued' = queued /\ Loses(Len(queued) + 1) /\ Answered(r.to, "failed")
  <1>0. /\ queued \in Seq(Requests) /\ chan \in Seq(Requests) /\ Depth \in Nat
        /\ Len(queued) <= Depth /\ Len(chan) <= Depth /\ chan # <<>>
        /\ chan' = Tail(chan)
    BY ControlQueueAssumption DEF QueueTypeOK, Receive
  <1>1. /\ chan' \in Seq(Requests) /\ Len(chan') = Len(chan) - 1 /\ Len(chan) > 0
        /\ \A i \in 1..Len(chan') : chan'[i] = chan[i + 1]
        /\ Head(chan) = chan[1] /\ chan[1] \in Requests
    BY <1>0
  <1>2. Len(queued) + 1 \in DOMAIN Line /\ Line[Len(queued) + 1] = Head(chan)
    BY <1>0, <1>1, LineTypes
  <1>3. CASE QueueHasRoom
    <2>1. queued' = Append(queued, Head(chan)) /\ Len(queued) < Depth
      BY <1>3 DEF Receive, QueueHasRoom
    <2>2. /\ queued' \in Seq(Requests) /\ Len(queued') = Len(queued) + 1 /\ Len(queued') <= Depth
          /\ \A i \in 1..Len(queued) : queued'[i] = queued[i]
          /\ queued'[Len(queued) + 1] = chan[1]
      BY <1>0, <1>1, <2>1
    <2>3. /\ Len(Line') = Len(queued') + Len(chan')
          /\ \A i \in 1..Len(queued') : Line'[i] = queued'[i]
          /\ \A i \in 1..Len(chan') : Line'[Len(queued') + i] = chan'[i]
      BY <1>0, <1>1, <2>1, <2>2, Concatenated DEF Line
    <2>4. Len(Line') = Len(Line) /\ Len(Line) = Len(queued) + Len(chan) /\ Len(queued) \in Nat
          /\ Len(chan) \in Nat
      <3>1. Len(Line) = Len(queued) + Len(chan) /\ Len(queued) \in Nat /\ Len(chan) \in Nat
        BY <1>0, LineTypes
      <3> QED BY <1>1, <2>2, <2>3, <3>1
    <2>5. \A i \in 1..Len(Line) : Line'[i] = Line[i]
      <3> SUFFICES ASSUME NEW i \in 1..Len(Line) PROVE Line'[i] = Line[i]
        OBVIOUS
      <3>1. CASE i <= Len(queued)
        BY <1>0, <2>2, <2>3, <3>1, LineTypes
      <3>2. CASE i = Len(queued) + 1
        BY <1>0, <1>1, <1>2, <2>2, <2>3, <3>2, LineTypes
      <3>3. CASE i > Len(queued) + 1
        <4> DEFINE j == i - Len(queued')
        <4>1. j \in 1..Len(chan') /\ Len(queued') + j = i /\ Len(queued) + (j + 1) = i
              /\ j + 1 \in 1..Len(chan)
          BY <1>0, <1>1, <2>2, <3>3, LineTypes
        <4>2. Line'[Len(queued') + j] = chan[j + 1]
          BY <1>1, <2>3, <4>1
        <4>3. Line[Len(queued) + (j + 1)] = chan[j + 1]
          BY <4>1, LineTypes
        <4> QED BY <4>1, <4>2, <4>3
      <3> QED BY <2>4, <3>1, <3>2, <3>3
    <2> QED BY <1>0, <1>1, <1>2, <1>3, <2>2, <2>4, <2>5 DEF Receive
  <1>4. CASE ~QueueHasRoom
    <2>1. queued' = queued /\ Answered(Head(chan).to, "failed")
      BY <1>4 DEF Receive
    <2>2. /\ Len(Line') = Len(queued) + Len(chan')
          /\ \A i \in 1..Len(queued) : Line'[i] = queued[i]
          /\ \A i \in 1..Len(chan') : Line'[Len(queued) + i] = chan'[i]
      BY <1>0, <1>1, <2>1, Concatenated DEF Line
    <2>3. \A i \in 1..Len(Line') : Line'[i] = IF i < Len(queued) + 1 THEN Line[i] ELSE Line[i + 1]
      <3> SUFFICES ASSUME NEW i \in 1..Len(Line')
                   PROVE  Line'[i] = IF i < Len(queued) + 1 THEN Line[i] ELSE Line[i + 1]
        OBVIOUS
      <3>1. CASE i < Len(queued) + 1
        BY <1>0, <2>2, <3>1, LineTypes
      <3>2. CASE i >= Len(queued) + 1
        <4> DEFINE j == i - Len(queued)
        <4>1. j \in 1..Len(chan') /\ Len(queued) + j = i /\ Len(queued) + (j + 1) = i + 1
              /\ j + 1 \in 1..Len(chan)
          BY <1>0, <1>1, <2>2, <3>2
        <4>2. Line'[Len(queued) + j] = chan[j + 1]
          BY <1>1, <2>2, <4>1
        <4>3. Line[Len(queued) + (j + 1)] = chan[j + 1]
          BY <4>1, LineTypes
        <4> QED BY <3>2, <4>1, <4>2, <4>3
      <3> QED BY <1>0, <3>1, <3>2
    <2> QED BY <1>0, <1>1, <1>2, <2>1, <2>2, <2>3, LineTypes DEF Loses, Receive
  <1> QED BY <1>3, <1>4

-----------------------------------------------------------------------------
(* What one step of the coordinator does to the line, its plan and its callers *)

\* It is done with the requests at the places `done`, and the others keep their order.
Keeps(done) ==
  /\ done \subseteq DOMAIN Line
  /\ \E f \in [DOMAIN Line' -> DOMAIN Line] :
       /\ \A i \in DOMAIN Line' : f[i] \notin done /\ Line'[i] = Line[f[i]]
       /\ \A i, j \in DOMAIN Line' : i < j => f[i] < f[j]

Begun(r) ==
  /\ plan = NoPlan /\ plan' # NoPlan /\ plan'.kind = r.kind /\ plan'.to = r.to
  /\ r.kind \in {"apply", "begin", "end"} /\ (r.kind = "end" => plan'.closes)
  /\ reply' = reply
Proceeds(done) ==
  \/ plan' \in {plan, NoPlan}
  \/ /\ plan # NoPlan /\ plan' # NoPlan
     /\ plan.kind # "end" /\ plan'.kind = plan.kind /\ plan'.to = plan.to
  \/ 1 \in done /\ Begun(Line[1])

Opened(r) ==
  /\ r.kind = "begin" /\ session = 0 /\ session' = r.id /\ reply' = reply
  /\ stage = "running" /\ plan = NoPlan
Sessions(done) == session' \in {session, 0} \/ (1 \in done /\ Opened(Line[1]))

\* An End is acknowledged when no session is open any more.
AnsweredFrom(c, k) ==
  Line[k].to = c /\ (reply'[c] = "ok" => k = 1 /\ Line[k].kind = "end" /\ session' = 0)
AnsweredPlan(c) ==
  /\ plan # NoPlan /\ plan.to = c /\ plan' = NoPlan /\ reply'[c] # "gone"
  /\ reply'[c] = "ok" => plan.kind # "end" \/ session' = 0
Answers(done) ==
  \A c \in Askers : reply'[c] # reply[c] =>
    reply'[c] \in {"ok", "failed", "gone"} /\ (AnsweredPlan(c) \/ \E k \in done : AnsweredFrom(c, k))

GoneAtTheEnd ==
  /\ stage' = "running" => stage = "running"
  /\ \A c \in Callers : reply'[c] = "gone" => reply[c] = "gone" \/ stage' # "running"

Serves(done) ==
  Keeps(done) /\ Proceeds(done) /\ Sessions(done) /\ Answers(done) /\ GoneAtTheEnd

\* Who is in the line or has a plan waits; an End is the worker's own or its last.
LEMMA LineFacts ==
  ASSUME QueueTypeOK, QueueInv
  PROVE  /\ \A i \in DOMAIN Line :
              /\ Line[i].kind \in {"apply", "begin", "end"} => Line[i].to \in Askers
              /\ Line[i].kind = "begin" => Line[i].to = "worker"
              /\ Line[i].to = "worker" => Line[i].kind \in {"begin", "end"}
              /\ Line[i].to = "final" => Line[i].kind = "end"
              /\ Line[i].to = "pump" => Line[i].kind = "apply"
         /\ plan # NoPlan => /\ plan.to \in Askers
                             /\ plan.to = "final" => plan.kind = "end"
                             /\ plan.to = "worker" => plan.kind \in {"begin", "end"}
                             /\ plan.kind = "apply" => plan.to = "pump"
  BY DEF QueueInv, Formed, Senders, Askers

LEMMA ServesKeepsQueue ==
  ASSUME QueueTypeOK, QueueInv, NEW done, Serves(done), QueueTypeOK'
  PROVE  QueueInv'
  <1>1. PICK f \in [DOMAIN Line' -> DOMAIN Line] :
           /\ \A i \in DOMAIN Line' : f[i] \notin done /\ Line'[i] = Line[f[i]]
           /\ \A i, j \in DOMAIN Line' : i < j => f[i] < f[j]
    BY DEF Serves, Keeps
  <1>2. /\ DOMAIN Line \subseteq Nat /\ DOMAIN Line' \subseteq Nat
        /\ \A i \in DOMAIN Line : Line[i] \in Requests /\ i >= 1
    BY LineTypes, Concatenated DEF Line, QueueTypeOK
  <1>3. \A i \in DOMAIN Line' : f[i] \in DOMAIN Line /\ f[i] \notin done /\ Line'[i] = Line[f[i]]
    BY <1>1
  <1>4. done \subseteq DOMAIN Line
    BY DEF Serves, Keeps
  <1>5. \A i, j \in DOMAIN Line' : f[i] = f[j] => i = j
    BY <1>1, <1>2, <1>3
  <1>6. \A i \in DOMAIN Line' : Line'[i].to \in Askers => reply'[Line'[i].to] = "waiting"
    <2> SUFFICES ASSUME NEW i \in DOMAIN Line', Line'[i].to \in Askers,
                        reply'[Line'[i].to] # reply[Line'[i].to]
                 PROVE  FALSE
      BY <1>3 DEF QueueInv, OneEach
    <2> DEFINE c == Line'[i].to
    <2>1. CASE AnsweredPlan(c)
      BY <1>3, <2>1 DEF AnsweredPlan, QueueInv, OneEach
    <2>2. CASE \E k \in done : AnsweredFrom(c, k)
      <3>1. PICK k \in done : Line[k].to = c
        BY <2>2 DEF AnsweredFrom
      <3>2. k = f[i]
        BY <1>3, <1>4, <3>1 DEF QueueInv, OneEach
      <3> QED BY <1>3, <3>2
    <2> QED BY <2>1, <2>2 DEF Serves, Answers
  <1>7. \A i \in DOMAIN Line' : \A c : ~AnsweredPlan(c) \/ Line'[i].to # c
    BY <1>3, LineFacts DEF AnsweredPlan, QueueInv, OneEach, Askers
  <1>8. ASSUME plan' # NoPlan, plan # NoPlan
        PROVE  /\ plan'.to = plan.to /\ plan'.kind = plan.kind
               /\ plan'.kind = "end" => plan'.closes
               /\ reply'[plan'.to] = "waiting"
               /\ \A i \in DOMAIN Line' : Line'[i].to # plan'.to
    <2>1. plan'.to = plan.to /\ plan'.kind = plan.kind /\ (plan'.kind = "end" => plan'.closes)
      <3>1. \/ plan' = plan
            \/ plan.kind # "end" /\ plan'.kind = plan.kind /\ plan'.to = plan.to
        BY <1>8 DEF Serves, Proceeds, Begun
      <3> QED BY <1>8, <3>1 DEF QueueInv, Formed
    <2>2. plan.to \in Askers /\ reply[plan.to] = "waiting"
      BY <1>8, LineFacts DEF QueueInv, OneEach
    <2>3. reply'[plan.to] = "waiting"
      <3> SUFFICES ASSUME reply'[plan.to] # reply[plan.to] PROVE FALSE
        BY <2>2
      <3>1. PICK k \in done : Line[k].to = plan.to
        BY <1>8, <2>2 DEF Serves, Answers, AnsweredPlan, AnsweredFrom
      <3> QED BY <1>4, <1>8, <2>2, <3>1 DEF QueueInv, OneEach
    <2>4. \A i \in DOMAIN Line' : Line'[i].to # plan'.to
      BY <1>3, <1>8, <2>1, <2>2 DEF QueueInv, OneEach
    <2> QED BY <2>1, <2>3, <2>4
  <1>9. ASSUME plan' # NoPlan, plan = NoPlan
        PROVE  /\ 1 \in done /\ Begun(Line[1])
               /\ reply'[plan'.to] = "waiting"
               /\ \A i \in DOMAIN Line' : Line'[i].to # plan'.to
    <2>1. 1 \in done /\ Begun(Line[1])
      BY <1>9 DEF Serves, Proceeds
    <2>2. 1 \in DOMAIN Line /\ Line[1].to \in Askers /\ reply'[Line[1].to] = "waiting"
      BY <1>4, <2>1, LineFacts DEF Begun, QueueInv, OneEach
    <2>3. \A i \in DOMAIN Line' : Line'[i].to # Line[1].to
      BY <1>3, <2>1, <2>2 DEF QueueInv, OneEach
    <2> QED BY <1>9, <2>1, <2>2, <2>3 DEF Begun
  <1>10. Formed'
    <2>1. \A i \in DOMAIN Line' : <<Line'[i].kind, Line'[i].to>> \in Senders
      BY <1>3 DEF QueueInv, Formed
    <2>2. plan' # NoPlan => /\ <<plan'.kind, plan'.to>> \in Senders
                            /\ plan'.kind \in {"apply", "begin", "end"}
                            /\ plan'.kind = "end" => plan'.closes
      <3>1. CASE plan = NoPlan
        BY <1>4, <1>9, <3>1 DEF QueueInv, Formed, Begun
      <3>2. CASE plan # NoPlan
        BY <1>8, <3>2 DEF QueueInv, Formed
      <3> QED BY <3>1, <3>2
    <2> QED BY <2>1, <2>2 DEF Formed
  <1>11. OneEach'
    <2>1. plan' # NoPlan => reply'[plan'.to] = "waiting"
      BY <1>8, <1>9
    <2>2. plan' # NoPlan => \A i \in DOMAIN Line' : plan'.to # Line'[i].to
      BY <1>8, <1>9
    <2>3. \A i, j \in DOMAIN Line' : Line'[i].to \in Askers /\ Line'[j].to = Line'[i].to => j = i
      BY <1>3, <1>5 DEF QueueInv, OneEach
    <2> QED BY <1>6, <2>1, <2>2, <2>3 DEF OneEach
  <1>12. BeginsFindNone'
    <2> SUFFICES ASSUME NEW i \in DOMAIN Line', Line'[i].kind = "begin" PROVE session' = 0
      BY DEF BeginsFindNone
    <2>1. session = 0 /\ Line[f[i]].to = "worker"
      BY <1>3, LineFacts DEF QueueInv, BeginsFindNone
    <2>2. CASE 1 \in done /\ Opened(Line[1])
      <3>1. Line[1].to = "worker"
        BY <1>4, <2>2, LineFacts DEF Opened
      <3>2. f[i] = 1
        BY <1>3, <1>4, <2>1, <2>2, <3>1 DEF QueueInv, OneEach, Askers
      <3> QED BY <1>3, <2>2, <3>2
    <2> QED BY <2>1, <2>2 DEF Serves, Sessions
  <1>13. FinalIsLast'
    <2>1. \A i, j \in DOMAIN Line' : Line'[i].to = "final" /\ Line'[j].kind = "begin" => j < i
      <3> SUFFICES ASSUME NEW i \in DOMAIN Line', NEW j \in DOMAIN Line',
                          Line'[i].to = "final", Line'[j].kind = "begin"
                   PROVE  j < i
        OBVIOUS
      <3>1. f[j] < f[i] /\ i # j
        BY <1>3, LineFacts DEF QueueInv, FinalIsLast
      <3>2. ~(i < j)
        BY <1>1, <1>2, <1>3, <3>1
      <3> QED BY <1>2, <3>1, <3>2
    <2>2. 1 \in done /\ Line[1].to = "final" => \A i \in DOMAIN Line : Line[i].kind # "begin"
      <3> SUFFICES ASSUME 1 \in done, Line[1].to = "final",
                          NEW i \in DOMAIN Line, Line[i].kind = "begin"
                   PROVE  FALSE
        OBVIOUS
      <3>1. i < 1
        BY <1>4 DEF QueueInv, FinalIsLast
      <3> QED BY <1>2, <3>1
    <2>3. reply'["final"] = "ok" =>
            \/ reply["final"] = "ok" \/ (plan # NoPlan /\ plan.to = "final" /\ session' = 0)
            \/ (1 \in done /\ Line[1].to = "final" /\ session' = 0)
      <3> SUFFICES ASSUME reply'["final"] = "ok", reply["final"] # "ok"
                   PROVE  \/ plan # NoPlan /\ plan.to = "final" /\ session' = 0
                          \/ 1 \in done /\ Line[1].to = "final" /\ session' = 0
        OBVIOUS
      <3>1. CASE AnsweredPlan("final")
        BY <3>1, LineFacts DEF AnsweredPlan
      <3>2. CASE \E k \in done : AnsweredFrom("final", k)
        BY <3>2 DEF AnsweredFrom
      <3> QED BY <3>1, <3>2 DEF Serves, Answers, Askers
    <2>4. (plan' # NoPlan /\ plan'.to = "final") \/ reply'["final"] = "ok" =>
            \A i \in DOMAIN Line : Line[i].kind # "begin"
      <3>1. plan' # NoPlan /\ plan'.to = "final" =>
              (plan # NoPlan /\ plan.to = "final") \/ (1 \in done /\ Line[1].to = "final")
        BY DEF Serves, Proceeds, Begun
      <3> QED BY <2>2, <2>3, <3>1 DEF QueueInv, FinalIsLast
    <2>5. reply'["final"] = "ok" => session' = 0
      <3>1. reply["final"] = "ok" => session' = 0
        <4>1. reply["final"] = "ok" => session = 0 /\ \A i \in DOMAIN Line : Line[i].kind # "begin"
          BY DEF QueueInv, FinalIsLast
        <4> QED BY <1>4, <4>1 DEF Serves, Sessions, Opened
      <3> QED BY <2>3, <3>1
    <2>6. (plan' # NoPlan /\ plan'.to = "final") \/ reply'["final"] = "ok" =>
            \A i \in DOMAIN Line' : Line'[i].kind # "begin"
      BY <1>3, <2>4
    <2> QED BY <2>1, <2>5, <2>6 DEF FinalIsLast
  <1>14. \A c \in Callers : reply'[c] = "gone" => stage' # "running"
    BY DEF QueueInv, Serves, GoneAtTheEnd
  <1> QED BY <1>10, <1>11, <1>12, <1>13, <1>14 DEF QueueInv

LEMMA ServesKeepsClients ==
  ASSUME QueueTypeOK, QueueInv, WorkerKnows, WorkerLeaves, PumpKnows, NEW done, Serves(done),
         UNCHANGED <<w, u>>
  PROVE  WorkerKnows' /\ WorkerLeaves' /\ PumpKnows'
  <1>1. PICK f \in [DOMAIN Line' -> DOMAIN Line] :
           \A i \in DOMAIN Line' : f[i] \notin done /\ Line'[i] = Line[f[i]]
    BY DEF Serves, Keeps
  <1>2. \A i \in DOMAIN Line' : f[i] \in DOMAIN Line /\ Line'[i] = Line[f[i]]
    BY <1>1
  <1>3. done \subseteq DOMAIN Line /\ QueueTypeOK
    BY DEF Serves, Keeps
  <1>4. \A c \in Askers : reply'[c] # reply[c] =>
          /\ reply[c] = "waiting" /\ reply'[c] \in {"ok", "failed", "gone"}
          /\ AnsweredPlan(c) \/ \E k \in done : AnsweredFrom(c, k)
    <2> SUFFICES ASSUME NEW c \in Askers, reply'[c] # reply[c]
                 PROVE  /\ reply[c] = "waiting" /\ reply'[c] \in {"ok", "failed", "gone"}
                        /\ AnsweredPlan(c) \/ \E k \in done : AnsweredFrom(c, k)
      OBVIOUS
    <2>1. /\ reply'[c] \in {"ok", "failed", "gone"}
          /\ AnsweredPlan(c) \/ \E k \in done : AnsweredFrom(c, k)
      BY DEF Serves, Answers
    <2>2. CASE AnsweredPlan(c)
      BY <2>1, <2>2 DEF AnsweredPlan, QueueInv, OneEach
    <2>3. CASE \E k \in done : AnsweredFrom(c, k)
      BY <1>3, <2>1, <2>3 DEF AnsweredFrom, QueueInv, OneEach
    <2> QED BY <2>1, <2>2, <2>3
  <1>5. ASSUME Turning PROVE WorkerKnows'
    <2>1. reply'["final"] = "none"
      BY <1>4, <1>5 DEF WorkerKnows, Askers
    <2>2. session' \in {0, w.active.id, w.pending.id}
      <3>1. CASE 1 \in done /\ Opened(Line[1])
        <4>1. 1 \in DOMAIN Line /\ Line[1].to = "worker"
          BY <1>3, <3>1, LineFacts DEF Opened
        <4> QED BY <1>5, <3>1, <4>1 DEF WorkerKnows, Opened
      <3> QED BY <1>5, <3>1 DEF Serves, Sessions, WorkerKnows
    <2>3. \A i \in DOMAIN Line' : Line'[i].to = "worker" =>
            Line'[i].kind = w.pending.kind /\ Line'[i].id = w.pending.id
      BY <1>2, <1>5 DEF WorkerKnows
    <2>4. plan' # NoPlan /\ plan'.to = "worker" => plan'.kind = w.pending.kind
      <3> SUFFICES ASSUME plan' # NoPlan, plan'.to = "worker" PROVE plan'.kind = w.pending.kind
        OBVIOUS
      <3>1. CASE plan' = plan
        BY <1>5, <3>1 DEF WorkerKnows
      <3>2. CASE plan # NoPlan /\ plan'.kind = plan.kind /\ plan'.to = plan.to
        BY <1>5, <3>2 DEF WorkerKnows
      <3>3. CASE 1 \in done /\ Begun(Line[1])
        BY <1>3, <1>5, <3>3 DEF Begun, WorkerKnows
      <3> QED BY <3>1, <3>2, <3>3 DEF Serves, Proceeds
    <2>5. w.pending.kind = "end" /\ reply'["worker"] = "ok" => session' = 0
      <3> SUFFICES ASSUME w.pending.kind = "end", reply'["worker"] = "ok" PROVE session' = 0
        OBVIOUS
      <3>1. CASE reply["worker"] = "ok"
        <4>1. session = 0
          BY <1>5, <3>1 DEF WorkerKnows
        <4>2. ~(1 \in done /\ Opened(Line[1]))
          <5>1. ASSUME 1 \in done, Opened(Line[1]) PROVE FALSE
            <6>1. Line[1].kind = "begin" /\ Line[1].to = "worker" /\ 1 \in DOMAIN Line
              BY <1>3, <5>1, LineFacts DEF Opened
            <6> QED BY <1>5, <6>1 DEF WorkerKnows
          <5> QED BY <5>1
        <4> QED BY <4>1, <4>2 DEF Serves, Sessions
      <3>2. CASE AnsweredPlan("worker")
        BY <1>5, <3>2 DEF AnsweredPlan, WorkerKnows
      <3>3. CASE \E k \in done : AnsweredFrom("worker", k)
        BY <3>3 DEF AnsweredFrom
      <3> QED BY <1>4, <3>1, <3>2, <3>3 DEF Askers
    <2>6. w.pending.kind = "begin" /\ reply'["worker"] = "gone" => session' = 0
      <3> SUFFICES ASSUME w.pending.kind = "begin", reply'["worker"] = "gone" PROVE session' = 0
        OBVIOUS
      <3>1. CASE reply["worker"] = "gone"
        <4>1. session = 0
          BY <1>5, <3>1 DEF WorkerKnows
        <4>2. ~(1 \in done /\ Opened(Line[1]))
          <5>1. ASSUME 1 \in done, Opened(Line[1]) PROVE FALSE
            <6>1. Line[1].to = "worker" /\ 1 \in DOMAIN Line
              BY <1>3, <5>1, LineFacts DEF Opened
            <6> QED BY <3>1, <6>1 DEF QueueInv, OneEach, Askers
          <5> QED BY <5>1
        <4> QED BY <4>1, <4>2 DEF Serves, Sessions
      <3>2. CASE reply["worker"] # "gone" /\ AnsweredPlan("worker")
        BY <3>2 DEF AnsweredPlan
      <3>3. CASE reply["worker"] # "gone" /\ \E k \in done : AnsweredFrom("worker", k)
        <4>1. PICK k \in DOMAIN Line : Line[k].to = "worker"
          BY <1>3, <3>3 DEF AnsweredFrom
        <4>2. session = 0
          BY <1>5, <4>1 DEF WorkerKnows, QueueInv, BeginsFindNone
        <4> QED BY <3>3, <4>2 DEF Serves, Sessions, Opened
      <3> QED BY <1>4, <3>1, <3>2, <3>3 DEF Askers
    <2>7. w.pending = NoTransition => reply'["worker"] # "waiting"
      BY <1>4, <1>5 DEF WorkerKnows, Askers
    <2> QED BY <1>5, <2>1, <2>2, <2>3, <2>4, <2>5, <2>6, <2>7 DEF WorkerKnows, Turning
  <1>6. ASSUME ~Turning PROVE WorkerKnows'
    BY <1>6 DEF WorkerKnows, Turning
  <1>7. WorkerLeaves'
    <2>1. w.pc = "final" => reply'["final"] # "none"
      BY <1>4 DEF WorkerLeaves, Askers
    <2>2. ASSUME NothingToCome PROVE NothingToCome'
      <3>1. ~(1 \in done /\ Opened(Line[1]))
        BY <1>3, <2>2 DEF NothingToCome, Opened
      <3> QED BY <1>2, <2>2, <3>1 DEF NothingToCome, Serves, Sessions
    <2> QED BY <2>1, <2>2 DEF WorkerLeaves
  <1>8. PumpKnows'
    BY <1>4 DEF PumpKnows, Askers
  <1> QED BY <1>5, <1>6, <1>7, <1>8

-----------------------------------------------------------------------------
(* Each step of the coordinator serves the line *)

LEMMA KeepsAll ==
  ASSUME QueueTypeOK, QueueTypeOK', Len(Line') = Len(Line),
         \A i \in 1..Len(Line) : Line'[i] = Line[i]
  PROVE  Keeps({})
  <1> DEFINE f == [i \in DOMAIN Line' |-> i]
  <1>1. DOMAIN Line' = DOMAIN Line /\ DOMAIN Line = 1..Len(Line)
    BY LineTypes, Concatenated DEF Line, QueueTypeOK
  <1>2. f \in [DOMAIN Line' -> DOMAIN Line]
    BY <1>1
  <1>3. /\ \A i \in DOMAIN Line' : f[i] \notin {} /\ Line'[i] = Line[f[i]]
        /\ \A i, j \in DOMAIN Line' : i < j => f[i] < f[j]
    BY <1>1
  <1> QED BY <1>2, <1>3 DEF Keeps

LEMMA KeepsOthers ==
  ASSUME QueueTypeOK, QueueTypeOK', NEW k \in DOMAIN Line, Loses(k)
  PROVE  Keeps({k})
  <1> DEFINE f == [i \in DOMAIN Line' |-> IF i < k THEN i ELSE i + 1]
  <1>1. /\ DOMAIN Line = 1..Len(Line) /\ Len(Line) \in Nat
        /\ DOMAIN Line' = 1..Len(Line') /\ Len(Line') = Len(Line) - 1
    BY LineTypes, Concatenated DEF Line, QueueTypeOK, Loses
  <1>2. f \in [DOMAIN Line' -> DOMAIN Line]
    BY <1>1
  <1>3. \A i \in DOMAIN Line' : f[i] \notin {k} /\ Line'[i] = Line[f[i]]
    <2> SUFFICES ASSUME NEW i \in DOMAIN Line' PROVE f[i] # k /\ Line'[i] = Line[f[i]]
      OBVIOUS
    <2>1. Line'[i] = IF i < k THEN Line[i] ELSE Line[i + 1]
      BY <1>1 DEF Loses
    <2> QED BY <1>1, <2>1
  <1>4. \A i, j \in DOMAIN Line' : i < j => f[i] < f[j]
    BY <1>1
  <1> HIDE DEF f
  <1> QED BY <1>2, <1>3, <1>4 DEF Keeps

Statuses == {"none", "waiting", "ok", "failed", "gone"}

LEMMA AnsweredOnly ==
  ASSUME reply \in [Callers -> Statuses], NEW to \in Callers, NEW status \in Statuses,
         Answered(to, status)
  PROVE  /\ reply' \in [Callers -> Statuses]
         /\ reply'[to] = status /\ \A c \in Callers : c # to => reply'[c] = reply[c]
  BY DEF Answered

LEMMA AskersCall == Askers \subseteq Callers
  BY DEF Askers, Callers

\* A plan of the coordinator's, and what ends it.
LEMMA PlanStepServes ==
  ASSUME QueueTypeOK, QueueInv, PlanCloses \/ PlanSucceeds \/ PlanFails \/ SafetyRestore
  PROVE  QueueTypeOK' /\ Serves({})
  <1>1. chan' = chan /\ queued' = queued /\ registry' = registry /\ stage' = stage
    BY DEF PlanCloses, PlanSucceeds, PlanFails, PlanEnds, SafetyRestore
  <1>2. reply \in [Callers -> Statuses] /\ plan \in Plans
    BY DEF QueueTypeOK, Statuses
  <1>3. plan.to \in Callers
    BY <1>2 DEF Plans
  <1>4. \/ UNCHANGED reply
        \/ /\ plan # NoPlan /\ plan' = NoPlan
           /\ \/ Answered(plan.to, "failed")
              \/ Answered(plan.to, "ok") /\ (plan.kind # "end" \/ session' = 0)
    <2>1. CASE PlanCloses
      BY <2>1 DEF PlanCloses, NoPlan
    <2>2. CASE PlanSucceeds
      BY <2>2 DEF PlanSucceeds, PlanEnds, Busy, QueueInv, Formed
    <2>3. CASE PlanFails
      BY <2>3 DEF PlanFails, PlanEnds, Busy
    <2>4. CASE SafetyRestore
      BY <2>4 DEF SafetyRestore, Busy
    <2> QED BY <2>1, <2>2, <2>3, <2>4
  <1>5. /\ reply' \in [Callers -> Statuses]
        /\ \A c \in Callers : reply'[c] # reply[c] =>
             /\ plan # NoPlan /\ plan.to = c /\ plan' = NoPlan /\ reply'[c] \in {"ok", "failed"}
             /\ reply'[c] = "ok" => plan.kind # "end" \/ session' = 0
    BY <1>2, <1>3, <1>4, AnsweredOnly DEF Statuses
  <1>6. session' \in {session, 0} /\ session' \in 0..MaxSessions
    BY ControlQueueAssumption DEF PlanCloses, PlanSucceeds, PlanFails, PlanEnds, SafetyRestore, QueueTypeOK
  <1>7. /\ plan' \in Plans
        /\ \/ plan' \in {plan, NoPlan}
           \/ /\ plan # NoPlan /\ plan' # NoPlan
              /\ plan.kind # "end" /\ plan'.kind = plan.kind /\ plan'.to = plan.to
    <2>1. NoPlan \in Plans
      BY DEF NoPlan, Plans, Callers
    <2>2. CASE PlanCloses
      <3>1. CASE plan.kind = "end"
        BY <2>1, <2>2, <3>1 DEF PlanCloses
      <3>2. CASE plan.kind # "end"
        <4>1. plan' = [plan EXCEPT !.closes = FALSE] /\ plan.closes
          BY <2>2, <3>2 DEF PlanCloses
        <4>2. plan # NoPlan
          BY <4>1 DEF NoPlan
        <4>3. plan' \in Plans /\ plan'.kind = plan.kind /\ plan'.to = plan.to
          BY <1>2, <4>1 DEF Plans
        <4>4. plan'.kind # "none"
          BY <4>2, <4>3 DEF QueueInv, Formed
        <4> QED BY <3>2, <4>2, <4>3, <4>4 DEF NoPlan
      <3> QED BY <3>1, <3>2
    <2> QED BY <1>2, <2>1, <2>2 DEF PlanSucceeds, PlanFails, PlanEnds, SafetyRestore
  <1>8. QueueTypeOK'
    BY <1>1, <1>5, <1>6, <1>7 DEF QueueTypeOK, Statuses
  <1>9. Keeps({})
    BY <1>1, <1>8, KeepsAll, LineTypes DEF Line
  <1>10. Answers({})
    BY <1>5, AskersCall DEF Answers, AnsweredPlan
  <1>11. GoneAtTheEnd
    BY <1>1, <1>5 DEF GoneAtTheEnd
  <1> QED BY <1>6, <1>7, <1>8, <1>9, <1>10, <1>11 DEF Serves, Proceeds, Sessions

LEMMA TakeServes ==
  ASSUME QueueTypeOK, QueueInv, Take
  PROVE  QueueTypeOK' /\ Serves({1})
  <1> DEFINE r == Line[1]
  <1>1. /\ 1 \in DOMAIN Line /\ r \in Requests /\ Loses(1) /\ Begins(r)
        /\ stage = "running" /\ stage' = stage /\ plan = NoPlan
        /\ queued' \in Seq(Requests) /\ chan' \in Seq(Requests)
        /\ Len(queued') <= Depth /\ Len(chan') <= Depth
    BY FirstTaken, LineTypes
  <1>2. reply \in [Callers -> Statuses] /\ r.to \in Callers /\ r.id \in 0..MaxSessions
    BY <1>1 DEF QueueTypeOK, Statuses, Requests
  <1> HIDE DEF r
  <1>3. r.kind = "profiles" => r.to \notin Askers
    BY <1>1 DEF r, QueueInv, Formed, Senders, Askers
  <1>4. \/ /\ UNCHANGED reply /\ plan'.kind = r.kind /\ plan'.to = r.to /\ plan' \in Plans
           /\ r.kind \in {"apply", "begin", "end"} /\ (r.kind = "end" => plan'.closes)
           /\ session' = session \/ (r.kind = "begin" /\ session = 0 /\ session' = r.id)
           /\ registry' = registry
        \/ /\ UNCHANGED <<plan, session>> /\ registry' \in BOOLEAN
           /\ \/ Answered(r.to, "failed")
              \/ r.kind = "end" /\ session = 0 /\ Answered(r.to, "ok")
              \/ r.kind = "profiles" /\ Answered(r.to, "ok")
    <2>1. CASE Rejects(r)
      BY <2>1 DEF Rejects, QueueTypeOK
    <2>2. CASE BeginsApply(r)
      <3>1. PICK b \in BOOLEAN : plan' = [kind |-> "apply", to |-> r.to, closes |-> b]
        BY <2>2 DEF BeginsApply, Starts
      <3>2. plan' \in Plans /\ plan'.kind = "apply" /\ plan'.to = r.to
        BY <1>2, <3>1 DEF Plans
      <3> QED BY <2>2, <3>2 DEF BeginsApply
    <2>3. CASE BeginsSession(r)
      BY <1>2, <2>3 DEF BeginsSession, Starts, Plans
    <2>4. CASE EndsSession(r)
      BY <1>2, <2>4 DEF EndsSession, Starts, Plans
    <2>5. CASE EndsNothing(r)
      BY <2>5 DEF EndsNothing, QueueTypeOK
    <2>6. CASE Installs(r)
      BY <2>6 DEF Installs
    <2> QED BY <1>1, <2>1, <2>2, <2>3, <2>4, <2>5, <2>6 DEF Begins
  <1>5. /\ reply' \in [Callers -> Statuses]
        /\ \A c \in Callers : reply'[c] # reply[c] =>
             /\ r.to = c /\ plan' = plan /\ session' = session /\ reply'[c] \in {"ok", "failed"}
             /\ reply'[c] = "ok" => r.kind = "profiles" \/ (r.kind = "end" /\ session = 0)
    <2>1. CASE UNCHANGED reply
      BY <1>2, <2>1
    <2>2. CASE /\ UNCHANGED <<plan, session>> /\ Answered(r.to, "failed")
      BY <1>2, <2>2, AnsweredOnly DEF Statuses
    <2>3. CASE /\ UNCHANGED <<plan, session>> /\ Answered(r.to, "ok")
               /\ r.kind = "profiles" \/ (r.kind = "end" /\ session = 0)
      BY <1>2, <2>3, AnsweredOnly DEF Statuses
    <2> QED BY <1>4, <2>1, <2>2, <2>3
  <1>6. QueueTypeOK'
    BY <1>1, <1>2, <1>4, <1>5 DEF QueueTypeOK, Statuses
  <1>7. Keeps({1})
    BY <1>1, <1>6, KeepsOthers
  <1>8. Proceeds({1})
    <2>1. plan'.kind = r.kind /\ r.kind \in {"apply", "begin", "end"} => plan' # NoPlan
      BY DEF NoPlan
    <2> QED BY <1>1, <1>4, <2>1 DEF r, Proceeds, Begun
  <1>9. Sessions({1})
    BY <1>1, <1>4 DEF r, Sessions, Opened
  <1>10. Answers({1})
    BY <1>3, <1>5, AskersCall DEF r, Answers, AnsweredFrom
  <1>11. GoneAtTheEnd
    BY <1>1, <1>5 DEF GoneAtTheEnd
  <1> QED BY <1>6, <1>7, <1>8, <1>9, <1>10, <1>11 DEF Serves

LEMMA ReceiveServes ==
  ASSUME QueueTypeOK, QueueInv, Receive
  PROVE  QueueTypeOK' /\ Serves(IF QueueHasRoom THEN {} ELSE {Len(queued) + 1})
  <1> DEFINE k == Len(queued) + 1
             r == Line[k]
  <1>1. /\ k \in DOMAIN Line /\ r \in Requests
        /\ queued' \in Seq(Requests) /\ chan' \in Seq(Requests)
        /\ Len(queued') <= Depth /\ Len(chan') <= Depth
        /\ UNCHANGED <<plan, session, registry, stage>>
    BY Received DEF Receive
  <1>2. reply \in [Callers -> Statuses] /\ r.to \in Callers
    BY <1>1 DEF QueueTypeOK, Statuses, Requests
  <1>3. QueueHasRoom => /\ Len(Line') = Len(Line) /\ \A i \in 1..Len(Line) : Line'[i] = Line[i]
                        /\ \/ r.kind = "profiles" /\ Answered(r.to, "ok")
                           \/ UNCHANGED reply
    <2>1. QueueHasRoom => queued' # queued
      <3>1. QueueHasRoom => queued' = Append(queued, Head(chan))
        BY DEF Receive
      <3> QED BY <1>1, <3>1 DEF QueueTypeOK
    <2> QED BY <2>1, Received
  <1>4. ~QueueHasRoom => Loses(k) /\ Answered(r.to, "failed")
    <2>1. ~QueueHasRoom => queued' = queued
      BY DEF Receive
    <2>2. Len(queued') # Len(queued) + 1 \/ queued' # queued
      BY <1>1
    <2> QED BY <2>1, <2>2, Received
  <1> HIDE DEF r
  <1>5. r.kind = "profiles" => r.to \notin Askers
    BY <1>1 DEF r, QueueInv, Formed, Senders, Askers
  <1>6. /\ reply' \in [Callers -> Statuses]
        /\ \A c \in Callers : reply'[c] # reply[c] =>
             /\ r.to = c
             /\ \/ QueueHasRoom /\ reply'[c] = "ok" /\ r.kind = "profiles"
                \/ ~QueueHasRoom /\ reply'[c] = "failed"
    BY <1>2, <1>3, <1>4, AnsweredOnly DEF Statuses
  <1>7. QueueTypeOK'
    BY <1>1, <1>6 DEF QueueTypeOK, Statuses
  <1> DEFINE done == IF QueueHasRoom THEN {} ELSE {k}
  <1>8. Keeps(done)
    BY <1>1, <1>3, <1>4, <1>7, KeepsAll, KeepsOthers
  <1>9. Answers(done)
    BY <1>5, <1>6, AskersCall DEF r, Answers, AnsweredFrom
  <1>10. Proceeds(done) /\ Sessions(done) /\ GoneAtTheEnd
    BY <1>1, <1>6 DEF Proceeds, Sessions, GoneAtTheEnd
  <1> QED BY <1>7, <1>8, <1>9, <1>10 DEF Serves

LEMMA ShutdownServes ==
  ASSUME QueueTypeOK, QueueInv, ShutdownTaken
  PROVE  QueueTypeOK' /\ Serves(1..(Len(queued) + 1))
  <1> DEFINE n == Len(queued) + 1
  <1>0. /\ chan \in Seq(Requests) /\ queued \in Seq(Requests) /\ chan # <<>> /\ chan' = Tail(chan)
        /\ queued' = <<>> /\ plan' = NoPlan /\ session' = session /\ registry' = registry
        /\ stage = "running" /\ stage' = "restoring"
        /\ Depth \in Nat /\ Len(chan) <= Depth
    BY ControlQueueAssumption DEF ShutdownTaken, QueueTypeOK
  <1>1. /\ chan' \in Seq(Requests) /\ Len(chan') = Len(chan) - 1 /\ Len(chan') <= Depth
        /\ \A i \in 1..Len(chan') : chan'[i] = chan[i + 1]
    BY <1>0
  <1>2. /\ DOMAIN Line = 1..(Len(queued) + Len(chan)) /\ Len(queued) \in Nat /\ Len(chan) \in Nat
        /\ Len(chan) >= 1
    BY <1>0, LineTypes
  <1>3. Line' = chan'
    BY <1>0, <1>1 DEF Line
  <1>4. plan \in Plans /\ reply \in [Callers -> Statuses]
    BY DEF QueueTypeOK, Statuses
  <1>5. /\ reply' \in [Callers -> Statuses]
        /\ \A c \in Callers : reply'[c] # reply[c] =>
             \/ plan # NoPlan /\ plan.to = c /\ reply'[c] = "failed"
             \/ reply'[c] = "gone" /\ \E i \in 1..Len(queued) : queued[i].to = c
    <2> DEFINE M(c) == IF Busy /\ plan.to = c THEN "failed"
                       ELSE IF \E i \in 1..Len(queued) : queued[i].to = c /\ queued[i].kind # "profiles"
                            THEN "gone" ELSE reply[c]
    <2>1. reply' = [c \in Callers |-> M(c)]
      BY DEF ShutdownTaken
    <2>2. \A c \in Callers :
            \/ M(c) = reply[c]
            \/ plan # NoPlan /\ plan.to = c /\ M(c) = "failed"
            \/ M(c) = "gone" /\ \E i \in 1..Len(queued) : queued[i].to = c
      BY DEF Busy
    <2> HIDE DEF M
    <2>3. \A c \in Callers : M(c) \in Statuses
      BY <1>4, <2>2 DEF Statuses
    <2> QED BY <2>1, <2>2, <2>3
  <1>6. QueueTypeOK'
    <2>1. NoPlan \in Plans /\ <<>> \in Seq(Requests) /\ Len(<<>>) = 0
      BY DEF NoPlan, Plans, Callers
    <2>2. /\ queued' \in Seq(Requests) /\ Len(queued') <= Depth /\ plan' \in Plans
          /\ stage' \in {"running", "restoring", "gone"}
      BY <1>0, <2>1
    <2>3. session' \in 0..MaxSessions /\ registry' \in BOOLEAN
      BY <1>0 DEF QueueTypeOK
    <2> QED BY <1>1, <1>5, <2>2, <2>3 DEF QueueTypeOK, Statuses
  <1>7. Keeps(1..n)
    <2> DEFINE f == [i \in DOMAIN Line' |-> n + i]
    <2>1. DOMAIN Line' = 1..(Len(chan) - 1)
      BY <1>1, <1>2, <1>3
    <2>2. f \in [DOMAIN Line' -> DOMAIN Line]
      BY <1>2, <2>1
    <2>3. \A i \in DOMAIN Line' : f[i] \notin 1..n /\ Line'[i] = Line[f[i]]
      <3> SUFFICES ASSUME NEW i \in DOMAIN Line' PROVE n + i \notin 1..n /\ Line'[i] = Line[n + i]
        OBVIOUS
      <3>1. i + 1 \in 1..Len(chan) /\ n + i = Len(queued) + (i + 1) /\ i \in 1..Len(chan')
        BY <1>1, <1>2, <2>1
      <3>2. Line[Len(queued) + (i + 1)] = chan[i + 1]
        BY <3>1, LineTypes
      <3>3. n + i \notin 1..n
        BY <1>2, <2>1
      <3> QED BY <1>1, <1>3, <3>1, <3>2, <3>3
    <2>4. \A i, j \in DOMAIN Line' : i < j => f[i] < f[j]
      BY <1>2, <2>1
    <2>5. 1..n \subseteq DOMAIN Line
      BY <1>2
    <2> HIDE DEF f
    <2> QED BY <2>2, <2>3, <2>4, <2>5 DEF Keeps
  <1>8. Answers(1..n)
    <2> SUFFICES ASSUME NEW c \in Askers, reply'[c] # reply[c]
                 PROVE  /\ reply'[c] \in {"ok", "failed", "gone"}
                        /\ AnsweredPlan(c) \/ \E k \in 1..n : AnsweredFrom(c, k)
      BY DEF Answers
    <2>1. CASE plan # NoPlan /\ plan.to = c /\ reply'[c] = "failed"
      BY <1>0, <2>1 DEF AnsweredPlan
    <2>2. CASE reply'[c] = "gone" /\ \E i \in 1..Len(queued) : queued[i].to = c
      <3>1. PICK i \in 1..Len(queued) : queued[i].to = c
        BY <2>2
      <3>2. i \in 1..n /\ Line[i].to = c
        BY <1>2, <3>1, LineTypes
      <3> QED BY <2>2, <3>2 DEF AnsweredFrom
    <2> QED BY <1>5, <2>1, <2>2, AskersCall
  <1>9. Proceeds(1..n) /\ Sessions(1..n) /\ GoneAtTheEnd
    BY <1>0 DEF Proceeds, Sessions, GoneAtTheEnd
  <1> QED BY <1>6, <1>7, <1>8, <1>9 DEF Serves

LEMMA StopsServes ==
  ASSUME QueueTypeOK, QueueInv, Stops
  PROVE  QueueTypeOK' /\ Serves({i \in DOMAIN Line : i > Len(queued)})
  <1> DEFINE done == {i \in DOMAIN Line : i > Len(queued)}
  <1>0. /\ chan \in Seq(Requests) /\ queued \in Seq(Requests) /\ chan' = <<>> /\ queued' = queued
        /\ plan' = plan /\ session' \in {session, 0} /\ registry' = registry
        /\ stage = "restoring" /\ stage' = "gone" /\ Depth \in Nat
    BY ControlQueueAssumption DEF Stops, QueueTypeOK
  <1>1. /\ DOMAIN Line = 1..(Len(queued) + Len(chan)) /\ Len(queued) \in Nat /\ Len(chan) \in Nat
    BY <1>0, LineTypes
  <1>2. Line' = queued
    BY <1>0 DEF Line
  <1>3. /\ reply' \in [Callers -> Statuses]
        /\ \A c \in Askers : reply'[c] # reply[c] =>
             reply'[c] = "gone" /\ \E i \in 1..Len(chan) : chan[i].to = c
    <2> DEFINE M(c) == IF c = "engine" THEN "ok"
                       ELSE IF \E i \in 1..Len(chan) : chan[i].to = c THEN "gone" ELSE reply[c]
    <2>1. reply' = [c \in Callers |-> M(c)]
      BY DEF Stops, LastAnswers
    <2>2. \A c \in Callers :
            \/ M(c) = reply[c] \/ (c = "engine" /\ M(c) = "ok")
            \/ M(c) = "gone" /\ \E i \in 1..Len(chan) : chan[i].to = c
      OBVIOUS
    <2> HIDE DEF M
    <2>3. \A c \in Callers : M(c) \in Statuses
      BY <2>2 DEF Statuses, QueueTypeOK
    <2>4. "engine" \notin Askers
      BY DEF Askers
    <2> QED BY <2>1, <2>2, <2>3, <2>4, AskersCall
  <1>4. QueueTypeOK'
    <2>1. /\ chan' \in Seq(Requests) /\ Len(chan') = 0
      BY <1>0
    <2>2. session' \in 0..MaxSessions
      BY <1>0, ControlQueueAssumption DEF QueueTypeOK
    <2> QED BY <1>0, <1>3, <2>1, <2>2 DEF QueueTypeOK, Statuses
  <1>5. Keeps(done)
    <2> DEFINE f == [i \in DOMAIN Line' |-> i]
    <2>1. DOMAIN Line' = 1..Len(queued)
      BY <1>0, <1>2
    <2>2. f \in [DOMAIN Line' -> DOMAIN Line]
      BY <1>1, <2>1
    <2>3. \A i \in DOMAIN Line' : f[i] \notin done /\ Line'[i] = Line[f[i]]
      BY <1>1, <1>2, <2>1, LineTypes
    <2>4. \A i, j \in DOMAIN Line' : i < j => f[i] < f[j]
      BY <1>1, <2>1
    <2> HIDE DEF f
    <2> QED BY <2>2, <2>3, <2>4 DEF Keeps
  <1>6. Answers(done)
    <2> SUFFICES ASSUME NEW c \in Askers, reply'[c] # reply[c]
                 PROVE  reply'[c] = "gone" /\ \E k \in done : AnsweredFrom(c, k)
      BY DEF Answers
    <2>1. PICK i \in 1..Len(chan) : chan[i].to = c
      BY <1>3
    <2>2. Len(queued) + i \in done /\ Line[Len(queued) + i].to = c
      BY <1>1, <2>1, LineTypes
    <2> QED BY <1>3, <2>2 DEF AnsweredFrom
  <1>7. Proceeds(done) /\ Sessions(done) /\ GoneAtTheEnd
    BY <1>0 DEF Proceeds, Sessions, GoneAtTheEnd
  <1> QED BY <1>4, <1>5, <1>6, <1>7 DEF Serves

-----------------------------------------------------------------------------
(* New profiles and the commands behind them *)

\* What the coordinator does leaves ProfilesFirst alone, whichever step it is.
LEMMA CoordinatorKeepsProfilesFirst ==
  ASSUME QueueTypeOK, QueueInv, ProfilesFirst, UNCHANGED u, Coordinator \/ SafetyRestore
  PROVE  ProfilesFirst'
  <1>1. CASE ShutdownTaken \/ Stops
    BY <1>1 DEF ShutdownTaken, Stops, ProfilesFirst
  <1>2. CASE PlanCloses \/ PlanSucceeds \/ PlanFails \/ SafetyRestore
    <2>1. chan' = chan /\ queued' = queued /\ registry' = registry /\ stage' = stage
      BY <1>2 DEF PlanCloses, PlanSucceeds, PlanFails, PlanEnds, SafetyRestore
    <2>2. reply \in [Callers -> Statuses] /\ (plan # NoPlan => plan.to \in Askers)
      BY LineFacts DEF QueueTypeOK, Statuses
    <2>3. \/ UNCHANGED reply
          \/ plan # NoPlan /\ \E status \in Statuses : Answered(plan.to, status)
      BY <1>2 DEF PlanCloses, PlanSucceeds, PlanFails, PlanEnds, SafetyRestore, Busy, NoPlan, Statuses
    <2>4. reply'["profiles"] = reply["profiles"]
      <3>1. "profiles" \notin Askers /\ "profiles" \in Callers
        BY DEF Askers, Callers
      <3> QED BY <2>2, <2>3, <3>1, AnsweredOnly, AskersCall
    <2> QED BY <2>1, <2>4 DEF ProfilesFirst, NotAccepted, Ahead, Line
  <1>3. CASE Take
    <2> DEFINE r == Line[1]
    <2>1. /\ Len(Line) > 0 /\ Loses(1) /\ Begins(r) /\ stage = "running"
          /\ queued' \in Seq(Requests) /\ chan' \in Seq(Requests) /\ Len(queued') >= Len(queued) - 1
      BY <1>3, FirstTaken
    <2>2. /\ DOMAIN Line = 1..Len(Line) /\ Len(Line) \in Nat /\ Len(queued) \in Nat
          /\ Len(queued') \in Nat /\ Len(Line') = Len(Line) - 1
          /\ DOMAIN Line' = 1..Len(Line') /\ Len(queued) <= Len(Line)
          /\ \A i \in DOMAIN Line' : Line'[i] = Line[i + 1] /\ i + 1 \in DOMAIN Line
      <3>1. /\ DOMAIN Line = 1..Len(Line) /\ Len(Line) \in Nat /\ Len(queued) \in Nat
            /\ Len(queued) <= Len(Line) /\ Len(queued') \in Nat
        BY <2>1, LineTypes DEF QueueTypeOK
      <3>2. Len(Line') = Len(Line) - 1 /\ DOMAIN Line' = 1..Len(Line')
        BY <2>1, Concatenated DEF Line, Loses
      <3>3. \A i \in DOMAIN Line' : Line'[i] = Line[i + 1] /\ i + 1 \in DOMAIN Line
        BY <2>1, <3>1, <3>2 DEF Loses
      <3> QED BY <3>1, <3>2, <3>3
    <2>3. r \in Requests /\ r.to \in Callers /\ <<r.kind, r.to>> \in Senders
          /\ reply \in [Callers -> Statuses]
      <3>1. 1 \in DOMAIN Line
        BY <2>1, <2>2
      <3>2. r \in Requests
        BY <3>1, LineTypes
      <3> QED BY <3>1, <3>2 DEF QueueInv, Formed, Requests, QueueTypeOK, Statuses
    <2> HIDE DEF r
    <2>4. r.kind = "profiles" => registry'
      BY <2>1 DEF Begins, Rejects, BeginsApply, BeginsSession, EndsSession, EndsNothing, Installs
    <2>5. r.kind # "profiles" =>
            registry' = registry /\ reply'["profiles"] = reply["profiles"]
      <3> SUFFICES ASSUME r.kind # "profiles"
                   PROVE  registry' = registry /\ reply'["profiles"] = reply["profiles"]
        OBVIOUS
      <3>1. r.to # "profiles" /\ "profiles" \in Callers
        BY <2>3 DEF Senders, Callers
      <3>2. registry' = registry /\ (UNCHANGED reply \/ \E s \in Statuses : Answered(r.to, s))
        BY <2>1 DEF Begins, Rejects, BeginsApply, BeginsSession, EndsSession, EndsNothing, Installs,
             Statuses
      <3> QED BY <2>3, <3>1, <3>2, AnsweredOnly
    <2> SUFFICES ASSUME ~registry', r.kind # "profiles", ~registry
                 PROVE  ProfilesFirst'
      BY <2>4, <2>5 DEF ProfilesFirst
    <2>6. CASE NotAccepted /\ \A i \in DOMAIN Line : ~New(Line[i])
      BY <2>2, <2>5, <2>6 DEF ProfilesFirst, NotAccepted
    <2>7. CASE /\ \E j \in 1..Len(queued) : Line[j].kind = "profiles"
               /\ \A i \in DOMAIN Line : New(Line[i]) => Ahead(i)
      <3>1. \A j \in 1..Len(queued) : Line[j].kind = "profiles" =>
              j - 1 \in 1..Len(queued') /\ Line'[j - 1].kind = "profiles"
        <4> SUFFICES ASSUME NEW j \in 1..Len(queued), Line[j].kind = "profiles"
                     PROVE  j - 1 \in 1..Len(queued') /\ Line'[j - 1].kind = "profiles"
          OBVIOUS
        <4>1. j # 1
          BY DEF r
        <4>2. j - 1 \in 1..Len(queued') /\ j - 1 \in DOMAIN Line' /\ (j - 1) + 1 = j
          BY <2>1, <2>2, <4>1
        <4> QED BY <2>2, <4>2
      <3>2. \A i \in DOMAIN Line' : New(Line'[i]) => Ahead(i)'
        <4> SUFFICES ASSUME NEW i \in DOMAIN Line', New(Line'[i])
                     PROVE  \E j \in 1..Len(queued') : j < i /\ Line'[j].kind = "profiles"
          BY DEF Ahead
        <4>1. PICK j \in 1..Len(queued) : j < i + 1 /\ Line[j].kind = "profiles"
          BY <2>2, <2>7 DEF Ahead
        <4>2. j - 1 < i
          BY <2>2, <4>1
        <4> QED BY <3>1, <4>1, <4>2
      <3>3. \E j \in 1..Len(queued') : Line'[j].kind = "profiles"
        BY <2>7, <3>1
      <3> QED BY <3>2, <3>3 DEF ProfilesFirst
    <2> QED BY <2>1, <2>6, <2>7 DEF ProfilesFirst
  <1>4. CASE Receive
    <2> DEFINE k == Len(queued) + 1
               r == Line[k]
    <2>1. /\ k \in DOMAIN Line /\ r \in Requests /\ r.to \in Callers /\ <<r.kind, r.to>> \in Senders
          /\ queued' \in Seq(Requests) /\ chan' \in Seq(Requests)
          /\ UNCHANGED <<plan, session, registry, stage>> /\ stage = "running"
          /\ reply \in [Callers -> Statuses]
      BY <1>4, Received DEF Receive, QueueInv, Formed, Requests, QueueTypeOK, Statuses
    <2>2. /\ DOMAIN Line = 1..Len(Line) /\ Len(Line) \in Nat /\ Len(queued) \in Nat
          /\ Len(queued') \in Nat /\ DOMAIN Line' = 1..Len(Line') /\ k \in Nat /\ k <= Len(Line)
      BY <2>1, LineTypes, Concatenated DEF Line
    <2>3. \/ /\ Len(queued') = k
             /\ Len(Line') = Len(Line) /\ \A i \in 1..Len(Line) : Line'[i] = Line[i]
             /\ IF r.kind = "profiles" THEN Answered(r.to, "ok") ELSE UNCHANGED reply
          \/ queued' = queued /\ Loses(k) /\ Answered(r.to, "failed")
      BY <1>4, Received
    <2> HIDE DEF r
    <2> SUFFICES ASSUME ~registry
                 PROVE  \/ NotAccepted' /\ \A i \in DOMAIN Line' : ~New(Line'[i])
                        \/ /\ \E j \in 1..Len(queued') : Line'[j].kind = "profiles"
                           /\ \A i \in DOMAIN Line' : New(Line'[i]) =>
                                \E j \in 1..Len(queued') : j < i /\ Line'[j].kind = "profiles"
      BY <2>1 DEF ProfilesFirst, Ahead
    <2>4. CASE /\ Len(queued') = k
               /\ Len(Line') = Len(Line) /\ \A i \in 1..Len(Line) : Line'[i] = Line[i]
               /\ IF r.kind = "profiles" THEN Answered(r.to, "ok") ELSE UNCHANGED reply
      <3>1. \A j \in 1..Len(queued) : j \in 1..Len(queued') /\ j \in 1..Len(Line)
        BY <2>2, <2>4
      <3>2. CASE /\ \E j \in 1..Len(queued) : Line[j].kind = "profiles"
                 /\ \A i \in DOMAIN Line : New(Line[i]) => Ahead(i)
        BY <2>2, <2>4, <3>1, <3>2 DEF Ahead
      <3>3. CASE NotAccepted /\ \A i \in DOMAIN Line : ~New(Line[i])
        <4>1. CASE r.kind = "profiles"
          <5>1. k \in 1..Len(queued') /\ Line'[k].kind = "profiles"
            BY <2>1, <2>2, <2>4, <4>1 DEF r
          <5> QED BY <2>2, <2>4, <3>3, <5>1
        <4>2. CASE r.kind # "profiles"
          BY <2>2, <2>4, <3>3, <4>2 DEF NotAccepted
        <4> QED BY <4>1, <4>2
      <3> QED BY <2>1, <3>2, <3>3 DEF ProfilesFirst
    <2>5. CASE queued' = queued /\ Loses(k) /\ Answered(r.to, "failed")
      <3>1. /\ \A i \in DOMAIN Line' : Line'[i] = IF i < k THEN Line[i] ELSE Line[i + 1]
            /\ Len(Line') = Len(Line) - 1
        BY <2>2, <2>5 DEF Loses
      <3>2. \A j \in 1..Len(queued) : Line'[j] = Line[j] /\ j < k
        BY <2>2, <3>1
      <3>3. CASE /\ \E j \in 1..Len(queued) : Line[j].kind = "profiles"
                 /\ \A i \in DOMAIN Line : New(Line[i]) => Ahead(i)
        <4>1. ASSUME NEW i \in DOMAIN Line', New(Line'[i])
              PROVE  \E j \in 1..Len(queued') : j < i /\ Line'[j].kind = "profiles"
          <5>1. CASE i < k
            <6>1. i \in DOMAIN Line /\ Line'[i] = Line[i]
              BY <2>2, <3>1, <5>1
            <6> QED BY <2>5, <3>2, <3>3, <4>1, <6>1 DEF Ahead
          <5>2. CASE ~(i < k)
            <6>1. i + 1 \in DOMAIN Line /\ Line'[i] = Line[i + 1]
              BY <2>2, <3>1, <5>2
            <6>2. PICK j \in 1..Len(queued) : Line[j].kind = "profiles"
              BY <3>3
            <6>3. j < i
              BY <2>2, <3>2, <5>2
            <6> QED BY <2>5, <3>2, <6>2, <6>3
          <5> QED BY <5>1, <5>2
        <4>2. \E j \in 1..Len(queued') : Line'[j].kind = "profiles"
          BY <2>5, <3>2, <3>3
        <4> QED BY <4>1, <4>2
      <3>4. CASE NotAccepted /\ \A i \in DOMAIN Line : ~New(Line[i])
        <4>1. reply'["profiles"] \in {reply["profiles"], "failed"}
          BY <2>1, <2>5, AnsweredOnly DEF Callers, Statuses
        <4>2. NotAccepted'
          BY <3>4, <4>1 DEF NotAccepted
        <4>3. \A i \in DOMAIN Line' : ~New(Line'[i])
          BY <2>2, <3>1, <3>4
        <4> QED BY <4>2, <4>3
      <3> QED BY <2>1, <3>3, <3>4 DEF ProfilesFirst
    <2> QED BY <2>3, <2>4, <2>5
  <1> QED BY <1>1, <1>2, <1>3, <1>4 DEF Coordinator

\* A request that does not run under unpublished profiles joins the line.
LEMMA GainsKeepsProfilesFirst ==
  ASSUME QueueTypeOK, QueueTypeOK', ProfilesFirst, NEW r \in Requests, Gains(r),
         UNCHANGED <<queued, registry, stage>>,
         NotAccepted => NotAccepted' \/ \E j \in 1..Len(queued) : Line[j].kind = "profiles",
         NotAccepted => ~New(r),
         New(r) => \E j \in 1..Len(queued) : Line[j].kind = "profiles"
  PROVE  ProfilesFirst'
  <1>1. /\ DOMAIN Line = 1..Len(Line) /\ Len(Line) \in Nat /\ Len(queued) \in Nat
        /\ Len(queued) <= Len(Line)
        /\ DOMAIN Line' = 1..(Len(Line) + 1) /\ Line'[Len(Line) + 1] = r
        /\ \A i \in 1..Len(Line) : Line'[i] = Line[i]
    <2>1. /\ DOMAIN Line = 1..Len(Line) /\ Len(Line) \in Nat /\ Len(queued) \in Nat
          /\ Len(queued) <= Len(Line)
      BY LineTypes DEF QueueTypeOK
    <2>2. DOMAIN Line' = 1..Len(Line')
      BY Concatenated DEF Line, QueueTypeOK
    <2> QED BY <2>1, <2>2 DEF Gains
  <1> SUFFICES ASSUME stage = "running", ~registry
               PROVE  \/ NotAccepted' /\ \A i \in DOMAIN Line' : ~New(Line'[i])
                      \/ /\ \E j \in 1..Len(queued) : Line'[j].kind = "profiles"
                         /\ \A i \in DOMAIN Line' : New(Line'[i]) =>
                              \E j \in 1..Len(queued) : j < i /\ Line'[j].kind = "profiles"
    BY DEF ProfilesFirst, Ahead
  <1>2. \A j \in 1..Len(queued) : Line'[j] = Line[j] /\ j < Len(Line) + 1
    BY <1>1
  <1>3. \A i \in DOMAIN Line' : \/ i \in DOMAIN Line /\ Line'[i] = Line[i]
                                \/ i = Len(Line) + 1
    BY <1>1
  <1>4. CASE /\ \E j \in 1..Len(queued) : Line[j].kind = "profiles"
             /\ \A i \in DOMAIN Line : New(Line[i]) => Ahead(i)
    BY <1>2, <1>3, <1>4 DEF Ahead
  <1>5. CASE NotAccepted /\ \A i \in DOMAIN Line : ~New(Line[i])
    BY <1>1, <1>2, <1>3, <1>5
  <1> QED BY <1>4, <1>5 DEF ProfilesFirst

-----------------------------------------------------------------------------
(* What the clients do to the queue *)

\* Someone who does not wait sends: a Begin when there is no session and no last End.
LEMMA GainsKeepsQueue ==
  ASSUME QueueTypeOK, QueueInv, NEW r \in Requests, Enqueued(r),
         <<r.kind, r.to>> \in Senders, r.to \in Askers => reply[r.to] # "waiting",
         r.kind = "begin" => session = 0 /\ reply["final"] = "none"
  PROVE  QueueInv'
  <1>1. QueueTypeOK' /\ Gains(r)
    BY JoinsLine
  <1>2. /\ DOMAIN Line = 1..Len(Line) /\ Len(Line) \in Nat
        /\ DOMAIN Line' = 1..(Len(Line) + 1) /\ Line'[Len(Line) + 1] = r
        /\ \A i \in 1..Len(Line) : Line'[i] = Line[i]
    <2>1. DOMAIN Line = 1..Len(Line) /\ Len(Line) \in Nat
      BY LineTypes
    <2>2. DOMAIN Line' = 1..Len(Line')
      BY <1>1, Concatenated DEF Line, QueueTypeOK
    <2> QED BY <1>1, <2>1, <2>2 DEF Gains
  <1> DEFINE n == Len(Line) + 1
  <1>3. /\ \A i \in DOMAIN Line' : (i \in DOMAIN Line /\ Line'[i] = Line[i] /\ i < n)
                                   \/ (i = n /\ Line'[i] = r)
        /\ n \in DOMAIN Line' /\ n \notin DOMAIN Line /\ n \in Nat
        /\ \A i \in DOMAIN Line : i < n /\ i \in DOMAIN Line'
    BY <1>2
  <1> HIDE DEF n
  <1>4. /\ UNCHANGED <<queued, plan, session, registry, stage>>
        /\ reply'[r.to] = "waiting" /\ \A c \in Callers : c # r.to => reply'[c] = reply[c]
        /\ r.to \in Callers
    <2>1. r.to \in Callers
      BY DEF Requests
    <2> QED BY <2>1, AnsweredOnly DEF Enqueued, Answered, QueueTypeOK, Statuses
  <1>5. Formed'
    BY <1>3, <1>4 DEF QueueInv, Formed
  <1>6. OneEach'
    <2>1. \A i \in DOMAIN Line : Line[i].to \in Askers => Line[i].to # r.to
      BY DEF QueueInv, OneEach
    <2>2. plan # NoPlan => plan.to \in Askers /\ plan.to # r.to /\ reply'[plan.to] = "waiting"
      BY <1>4, LineFacts, AskersCall DEF QueueInv, OneEach
    <2>3. \A i \in DOMAIN Line' : Line'[i].to \in Askers => reply'[Line'[i].to] = "waiting"
      BY <1>3, <1>4, <2>1, AskersCall DEF QueueInv, OneEach
    <2>4. \A i \in DOMAIN Line' : Line'[i].to \in Askers /\ plan # NoPlan => plan.to # Line'[i].to
      BY <1>3, <2>2 DEF QueueInv, OneEach
    <2>5. \A i, j \in DOMAIN Line' : Line'[i].to \in Askers /\ Line'[j].to = Line'[i].to => j = i
      BY <1>3, <2>1 DEF QueueInv, OneEach
    <2> QED BY <1>4, <2>2, <2>3, <2>4, <2>5 DEF OneEach
  <1>7. BeginsFindNone'
    BY <1>3, <1>4 DEF QueueInv, BeginsFindNone
  <1>8. FinalIsLast'
    <2>0. reply["final"] = "none" => /\ \A i \in DOMAIN Line : Line[i].to # "final"
                                     /\ ~(plan # NoPlan /\ plan.to = "final")
      BY DEF QueueInv, OneEach, Askers
    <2>1. r.kind = "begin" => r.to # "final"
      BY DEF Senders
    <2>2. \A i, j \in DOMAIN Line' : Line'[i].to = "final" /\ Line'[j].kind = "begin" => j < i
      BY <1>3, <2>0, <2>1 DEF QueueInv, FinalIsLast
    <2>3. reply'["final"] = "ok" => r.to # "final" /\ reply["final"] = "ok"
      BY <1>4, AskersCall DEF Askers
    <2>4. (plan' # NoPlan /\ plan'.to = "final") \/ reply'["final"] = "ok" =>
            r.kind # "begin" /\ \A i \in DOMAIN Line : Line[i].kind # "begin"
      BY <1>4, <2>0, <2>3 DEF QueueInv, FinalIsLast
    <2>5. (plan' # NoPlan /\ plan'.to = "final") \/ reply'["final"] = "ok" =>
            \A i \in DOMAIN Line' : Line'[i].kind # "begin"
      BY <1>3, <2>4
    <2>6. reply'["final"] = "ok" => session' = 0
      BY <1>4, <2>3 DEF QueueInv, FinalIsLast
    <2> QED BY <2>2, <2>5, <2>6 DEF FinalIsLast
  <1>9. \A c \in Callers : reply'[c] = "gone" => stage' # "running"
    BY <1>4 DEF QueueInv
  <1> QED BY <1>5, <1>6, <1>7, <1>8, <1>9 DEF QueueInv

\* Who has an answer takes it.
LEMMA CollectedKeepsQueue ==
  ASSUME QueueTypeOK, QueueInv, NEW c \in Callers, Collected(c), reply[c] # "waiting"
  PROVE  /\ QueueTypeOK' /\ QueueInv' /\ Line' = Line
         /\ UNCHANGED <<queued, plan, session, registry, stage>>
         /\ reply'[c] = "none" /\ \A d \in Callers : d # c => reply'[d] = reply[d]
  <1>1. UNCHANGED <<chan, queued, plan, session, registry, stage>> /\ Line' = Line
    BY DEF Collected, Line
  <1>2. /\ reply' \in [Callers -> Statuses]
        /\ reply'[c] = "none" /\ \A d \in Callers : d # c => reply'[d] = reply[d]
    BY AnsweredOnly DEF Collected, Answered, QueueTypeOK, Statuses
  <1>3. QueueTypeOK'
    BY <1>1, <1>2 DEF QueueTypeOK, Statuses
  <1>4. Formed' /\ BeginsFindNone'
    BY <1>1 DEF QueueInv, Formed, BeginsFindNone
  <1>5. OneEach'
    BY <1>1, <1>2, LineFacts, AskersCall DEF QueueInv, OneEach
  <1>6. FinalIsLast'
    BY <1>1, <1>2, AskersCall DEF QueueInv, FinalIsLast, Askers
  <1>7. \A d \in Callers : reply'[d] = "gone" => stage' # "running"
    BY <1>1, <1>2 DEF QueueInv
  <1> QED BY <1>1, <1>2, <1>3, <1>4, <1>5, <1>6, <1>7 DEF QueueInv

LEMMA IdleKeepsQueue ==
  ASSUME QueueTypeOK, QueueInv, UNCHANGED queueVars
  PROVE  QueueTypeOK' /\ QueueInv' /\ Line' = Line
  <1>1. Line' = Line
    BY DEF queueVars, Line
  <1> QED BY <1>1 DEF queueVars, QueueTypeOK, QueueInv, Formed, OneEach, BeginsFindNone, FinalIsLast

LEMMA OthersKeepWorker ==
  ASSUME WorkerKnows, WorkerLeaves, UNCHANGED <<w, session, plan>>,
         reply'["worker"] = reply["worker"], reply'["final"] = reply["final"],
         \A i \in DOMAIN Line' : \/ i \in DOMAIN Line /\ Line'[i] = Line[i]
                                 \/ Line'[i].to # "worker" /\ Line'[i].kind # "begin"
  PROVE  WorkerKnows' /\ WorkerLeaves'
  <1>1. WorkerKnows'
    BY DEF WorkerKnows, Turning
  <1>2. WorkerLeaves'
    BY DEF WorkerLeaves, NothingToCome
  <1> QED BY <1>1, <1>2

LEMMA OthersKeepProfilesFirst ==
  ASSUME ProfilesFirst, Line' = Line, UNCHANGED <<queued, registry, stage>>,
         NotAccepted => NotAccepted'
  PROVE  ProfilesFirst'
  BY DEF ProfilesFirst, Ahead

-----------------------------------------------------------------------------
(* The worker's steps *)

WorkerInv == WorkerTypeOK /\ QueueTypeOK /\ QueueInv /\ WorkerKnows /\ WorkerLeaves

\* A turn asks for the answer at most; what it is taken for depends on the transition.
Learnt ==
  \/ /\ UNCHANGED queueVars /\ w'.active = w.active /\ w'.pending = w.pending
  \/ /\ Collected("worker") /\ reply["worker"] # "waiting"
     /\ w.pending # NoTransition /\ w'.pending = NoTransition
     /\ \/ w.pending.kind = "begin" /\ reply["worker"] # "gone"
             /\ w'.active = [id |-> w.pending.id, profile |-> w.pending.profile]
        \/ w.pending.kind = "begin" /\ reply["worker"] = "gone" /\ w'.active = w.active
        \/ w.pending.kind = "end" /\ reply["worker"] = "ok" /\ w'.active = Inactive
        \/ w.pending.kind = "end" /\ reply["worker"] # "ok" /\ w'.active = w.active

Actives == [id : 0..MaxSessions, profile : Profiles \cup {NoProfile}]
Pendings == [kind : {"none", "begin", "end"}, id : 0..MaxSessions, profile : Profiles \cup {NoProfile}]
Finals == {"none", "refused", "waiting", "timeout", "ok", "failed", "gone"}
Workers == [pc : {"turn", "scan", "final", "stopped"}, active : Actives, pending : Pendings,
            paused : BOOLEAN, recoveryFailed : BOOLEAN, next : 1..MaxSessions + 1,
            candidate : Profiles \cup {NoProfile}, final : Finals]

LEMMA NoneTyped == Inactive \in Actives /\ NoTransition \in Pendings
  BY ControlQueueAssumption DEF Inactive, Actives, NoTransition, Pendings

LEMMA PolledFacts ==
  ASSUME WorkerTypeOK, WorkerKnows, NEW x \in Workers, x.active = w.active, x.pending = w.pending,
         x.next = w.next, x.final = w.final,
         PollsAnswer, w' = [Polled(x) EXCEPT !.pc = "scan"]
  PROVE  w' \in Workers /\ w'.pc = "scan" /\ w'.final = w.final /\ Learnt
  <1>0. w \in Workers /\ w.active \in Actives /\ w.pending \in Pendings
    <2>1. w \in Workers
      BY DEF WorkerTypeOK, Workers, Actives, Pendings, Finals
    <2> QED BY <2>1 DEF Workers
  <1> DEFINE idle == w.pending.kind = "none" \/ reply["worker"] = "waiting"
             b == reply["worker"] = "failed"
             seen == [id |-> w.pending.id, profile |-> w.pending.profile]
  <1>1. idle <=> w.pending = NoTransition \/ reply["worker"] = "waiting"
    BY DEF WorkerKnows
  <1>2. seen \in Actives
    BY <1>0 DEF Actives, Pendings
  <1>3. CASE idle
    <2>1. Polled(x) = x
      BY <1>3 DEF Polled, NothingNew
    <2>2. w' = [x EXCEPT !.pc = "scan"]
      BY <2>1
    <2>3. /\ w' \in Workers /\ w'.pc = "scan" /\ w'.final = x.final
          /\ w'.active = x.active /\ w'.pending = x.pending
      BY <2>2 DEF Workers
    <2>4. UNCHANGED queueVars
      BY <1>1, <1>3 DEF PollsAnswer
    <2> QED BY <2>3, <2>4 DEF Learnt
  <1>4. CASE ~idle
    <2>1. Collected("worker") /\ reply["worker"] # "waiting" /\ w.pending # NoTransition
      BY <1>1, <1>4 DEF PollsAnswer
    <2>2. w.pending.kind \in {"begin", "end"}
      BY <1>0, <1>4 DEF Pendings
    <2>3. PICK p \in BOOLEAN, q \in BOOLEAN, a \in Actives :
            /\ Polled(x) = [x EXCEPT !.pending = NoTransition, !.paused = p, !.recoveryFailed = q,
                                     !.active = a]
            /\ \/ w.pending.kind = "begin" /\ reply["worker"] # "gone" /\ a = seen
               \/ w.pending.kind = "begin" /\ reply["worker"] = "gone" /\ a = w.active
               \/ w.pending.kind = "end" /\ reply["worker"] = "ok" /\ a = Inactive
               \/ w.pending.kind = "end" /\ reply["worker"] # "ok" /\ a = w.active
      <3>0. /\ x.paused \in BOOLEAN /\ x.recoveryFailed \in BOOLEAN
            /\ x.active \in Actives
        BY DEF Workers
      <3>1. CASE w.pending.kind = "begin" /\ reply["worker"] # "gone"
        <4>1. PICK p \in BOOLEAN : p = (x.paused \/ reply["worker"] = "failed")
          BY <3>0
        <4>2. Polled(x) = [x EXCEPT !.pending = NoTransition,
                                    !.paused = @ \/ reply["worker"] = "failed",
                                    !.active = seen]
          BY <2>1, <3>1 DEF Polled, NothingNew
        <4>3. Polled(x) = [x EXCEPT !.pending = NoTransition, !.paused = p, !.active = seen]
          BY <4>1, <4>2 DEF Workers
        <4>4. [x EXCEPT !.pending = NoTransition, !.paused = p, !.active = seen]
                = [x EXCEPT !.pending = NoTransition, !.paused = p,
                            !.recoveryFailed = x.recoveryFailed, !.active = seen]
          BY DEF Workers
        <4> QED BY ZenonT(60), <1>2, <3>0, <3>1, <4>3, <4>4
      <3>2. CASE w.pending.kind = "begin" /\ reply["worker"] = "gone"
        <4>1. Polled(x) = [x EXCEPT !.pending = NoTransition, !.paused = TRUE]
          BY <2>1, <3>2 DEF Polled, NothingNew
        <4>2. @ = [x EXCEPT !.pending = NoTransition, !.paused = TRUE,
                            !.recoveryFailed = x.recoveryFailed, !.active = x.active]
          BY DEF Workers
        <4> QED BY <3>0, <3>2, <4>1, <4>2
      <3>3. CASE w.pending.kind = "end" /\ reply["worker"] = "ok"
        <4>1. Polled(x) = [x EXCEPT !.pending = NoTransition, !.active = Inactive]
          BY <2>1, <3>3 DEF Polled, NothingNew
        <4>2. @ = [x EXCEPT !.pending = NoTransition, !.paused = x.paused,
                            !.recoveryFailed = x.recoveryFailed, !.active = Inactive]
          BY DEF Workers
        <4> QED BY <3>0, <3>3, <4>1, <4>2, NoneTyped
      <3>4. CASE w.pending.kind = "end" /\ reply["worker"] = "failed"
        <4>1. Polled(x) = [x EXCEPT !.pending = NoTransition, !.paused = TRUE, !.recoveryFailed = TRUE]
          BY <2>1, <3>4 DEF Polled, NothingNew
        <4>2. @ = [x EXCEPT !.pending = NoTransition, !.paused = TRUE,
                            !.recoveryFailed = TRUE, !.active = x.active]
          BY DEF Workers
        <4> QED BY <3>0, <3>4, <4>1, <4>2
      <3>5. CASE w.pending.kind = "end" /\ reply["worker"] \notin {"ok", "failed"}
        <4>1. Polled(x) = [x EXCEPT !.pending = NoTransition, !.paused = TRUE]
          BY <2>1, <3>5 DEF Polled, NothingNew
        <4>2. @ = [x EXCEPT !.pending = NoTransition, !.paused = TRUE,
                            !.recoveryFailed = x.recoveryFailed, !.active = x.active]
          BY DEF Workers
        <4> QED BY <3>0, <3>5, <4>1, <4>2
      <3> QED BY <2>2, <3>1, <3>2, <3>3, <3>4, <3>5
    <2>4. w' = [[x EXCEPT !.pending = NoTransition, !.paused = p, !.recoveryFailed = q,
                          !.active = a] EXCEPT !.pc = "scan"]
      BY <2>3
    <2>5. /\ w' \in Workers /\ w'.pc = "scan" /\ w'.final = x.final
          /\ w'.active = a /\ w'.pending = NoTransition
      BY <2>4, NoneTyped DEF Workers
    <2> QED BY <2>1, <2>3, <2>5 DEF Learnt
  <1> QED BY <1>3, <1>4

LEMMA TakenOverTyped ==
  ASSUME w \in Workers, moved \in BOOLEAN
  PROVE  /\ TakenOver(w) \in Workers
         /\ TakenOver(w).active = w.active /\ TakenOver(w).pending = w.pending
         /\ TakenOver(w).next = w.next /\ TakenOver(w).final = w.final
  <1>1. PICK p \in BOOLEAN : p = (w.paused \/ moved)
    BY DEF Workers
  <1>2. TakenOver(w) = [w EXCEPT !.paused = p]
    BY <1>1 DEF TakenOver, Workers
  <1> QED BY <1>2 DEF Workers

LEMMA TypedWorker == WorkerTypeOK <=> /\ w \in Workers /\ moved \in BOOLEAN
                                      /\ mail \in Seq({"configure", "shutdown"})
  BY DEF WorkerTypeOK, Workers, Actives, Pendings, Finals

LEMMA LearntKeeps ==
  ASSUME WorkerInv, w.pc = "turn", w' \in Workers, w'.pc = "scan", w'.final = w.final, Learnt
  PROVE  QueueTypeOK' /\ QueueInv' /\ WorkerKnows' /\ WorkerLeaves'
  <1>0. /\ w \in Workers /\ w.active \in Actives /\ w.pending \in Pendings
    <2>1. w \in Workers
      BY TypedWorker DEF WorkerInv
    <2> QED BY <2>1 DEF Workers
  <1>1. CASE /\ UNCHANGED queueVars /\ w'.active = w.active /\ w'.pending = w.pending
    <2>1. QueueTypeOK' /\ QueueInv' /\ Line' = Line /\ reply' = reply /\ session' = session
          /\ plan' = plan
      BY <1>1, IdleKeepsQueue DEF WorkerInv, queueVars
    <2>2. WorkerKnows'
      BY <1>1, <2>1 DEF WorkerInv, WorkerKnows, Turning
    <2>3. WorkerLeaves'
      BY DEF WorkerLeaves
    <2> QED BY <2>1, <2>2, <2>3
  <1>2. CASE /\ Collected("worker") /\ reply["worker"] # "waiting"
             /\ w.pending # NoTransition /\ w'.pending = NoTransition
             /\ \/ w.pending.kind = "begin" /\ reply["worker"] # "gone"
                     /\ w'.active = [id |-> w.pending.id, profile |-> w.pending.profile]
                \/ w.pending.kind = "begin" /\ reply["worker"] = "gone" /\ w'.active = w.active
                \/ w.pending.kind = "end" /\ reply["worker"] = "ok" /\ w'.active = Inactive
                \/ w.pending.kind = "end" /\ reply["worker"] # "ok" /\ w'.active = w.active
    <2>1. /\ QueueTypeOK' /\ QueueInv' /\ Line' = Line
          /\ plan' = plan /\ session' = session
          /\ reply'["worker"] = "none" /\ reply'["final"] = reply["final"]
      BY <1>2, CollectedKeepsQueue DEF WorkerInv, Callers
    <2>2. /\ \A i \in DOMAIN Line : Line[i].to # "worker"
          /\ ~(plan # NoPlan /\ plan.to = "worker")
      BY <1>2 DEF WorkerInv, QueueInv, OneEach, Askers
    <2>3. /\ reply["final"] = "none" /\ w.final = "none"
          /\ session \in {0, w.active.id, w.pending.id}
          /\ w.pending.kind = "begin" => w.active = Inactive
          /\ w.pending.kind = "end" => w.active.id = w.pending.id
          /\ w.pending.kind = "end" /\ reply["worker"] = "ok" => session = 0
          /\ w.pending.kind = "begin" /\ reply["worker"] = "gone" => session = 0
          /\ w.active = Inactive <=> w.active.id = 0
          /\ w.pending = NoTransition <=> w.pending.id = 0
      BY DEF WorkerInv, WorkerKnows, Turning
    <2>4. /\ w'.active = Inactive <=> w'.active.id = 0
          /\ session \in {0, w'.active.id}
      <3>1. Inactive.id = 0
        BY DEF Inactive
      <3>2. CASE w'.active = [id |-> w.pending.id, profile |-> w.pending.profile]
                   /\ w.pending.kind = "begin"
        <4>1. w'.active.id = w.pending.id /\ w.pending.id # 0
          BY <1>2, <2>3, <3>2
        <4> QED BY <2>3, <3>1, <3>2, <4>1
      <3> QED BY <1>2, <2>3, <3>1, <3>2
    <2>5. NoTransition.kind = "none" /\ NoTransition.id = 0
      BY DEF NoTransition
    <2>6. WorkerKnows'
      BY <1>2, <2>1, <2>2, <2>3, <2>4, <2>5 DEF WorkerKnows, Turning
    <2>7. WorkerLeaves'
      BY DEF WorkerLeaves
    <2> QED BY <2>1, <2>6, <2>7
  <1> QED BY <1>1, <1>2 DEF Learnt

\* Towards the pump and the profiles the worker is invisible.
Invisible ==
  \/ UNCHANGED queueVars
  \/ \E c \in {"worker", "final"} : Collected(c) /\ reply[c] # "waiting"
  \/ \E r \in Requests : Enqueued(r) /\ r.to \in {"worker", "final"} /\ r.kind \in {"begin", "end"}

LEMMA InvisibleKeeps ==
  ASSUME QueueTypeOK, QueueTypeOK', PumpKnows, ProfilesFirst, Invisible, UNCHANGED u
  PROVE  PumpKnows' /\ ProfilesFirst'
  <1>0. reply \in [Callers -> Statuses] /\ {"worker", "final", "pump", "profiles"} \subseteq Callers
    BY DEF QueueTypeOK, Statuses, Callers
  <1>1. CASE UNCHANGED queueVars
    BY <1>1, OthersKeepProfilesFirst DEF queueVars, PumpKnows, NotAccepted, Line
  <1>2. ASSUME NEW c \in {"worker", "final"}, Collected(c)
        PROVE  PumpKnows' /\ ProfilesFirst'
    <2>1. reply'["pump"] = reply["pump"] /\ reply'["profiles"] = reply["profiles"]
      BY <1>0, <1>2 DEF Collected
    <2> QED BY <1>2, <2>1, OthersKeepProfilesFirst DEF Collected, PumpKnows, NotAccepted, Line
  <1>3. ASSUME NEW r \in Requests, Enqueued(r), r.to \in {"worker", "final"}, r.kind \in {"begin", "end"}
        PROVE  PumpKnows' /\ ProfilesFirst'
    <2>1. reply'["pump"] = reply["pump"] /\ reply'["profiles"] = reply["profiles"]
      BY <1>0, <1>3 DEF Enqueued
    <2>2. Gains(r) /\ ~New(r) /\ UNCHANGED <<queued, registry, stage>>
      BY <1>3, JoinsLine DEF New, Enqueued
    <2>3. NotAccepted => NotAccepted'
      BY <2>1 DEF NotAccepted
    <2> QED BY <2>1, <2>2, <2>3, GainsKeepsProfilesFirst DEF PumpKnows
  <1> QED BY <1>1, <1>2, <1>3 DEF Invisible

LEMMA TurnKeeps ==
  ASSUME WorkerInv, WorkerTurn \/ WorkerConfigured
  PROVE  WorkerInv' /\ Invisible
  <1>1. w \in Workers /\ moved \in BOOLEAN /\ mail \in Seq({"configure", "shutdown"})
    BY TypedWorker DEF WorkerInv
  <1>2. moved' = FALSE /\ mail' \in Seq({"configure", "shutdown"}) /\ w.pc = "turn"
    BY <1>1 DEF WorkerTurn, WorkerConfigured
  <1>3. w' \in Workers /\ w'.pc = "scan" /\ w'.final = w.final /\ Learnt
    <2>1. PollsAnswer
      BY DEF WorkerTurn, WorkerConfigured
    <2>2. CASE w' = [Polled(TakenOver(w)) EXCEPT !.pc = "scan"]
      BY <1>1, <2>1, <2>2, TakenOverTyped, PolledFacts DEF WorkerInv
    <2>3. CASE w' = [Polled([w EXCEPT !.paused = FALSE, !.recoveryFailed = FALSE]) EXCEPT !.pc = "scan"]
      <3> DEFINE x == [w EXCEPT !.paused = FALSE, !.recoveryFailed = FALSE]
      <3>1. /\ x \in Workers /\ x.active = w.active /\ x.pending = w.pending
            /\ x.next = w.next /\ x.final = w.final
        BY <1>1 DEF Workers
      <3>2. w' = [Polled(x) EXCEPT !.pc = "scan"]
        BY <2>3
      <3> HIDE DEF x
      <3> QED BY <2>1, <3>1, <3>2, PolledFacts DEF WorkerInv
    <2> QED BY <2>2, <2>3 DEF WorkerTurn, WorkerConfigured
  <1>4. QueueTypeOK' /\ QueueInv' /\ WorkerKnows' /\ WorkerLeaves'
    BY <1>2, <1>3, LearntKeeps
  <1>5. WorkerTypeOK'
    BY <1>2, <1>3, TypedWorker DEF WorkerTypeOK, Workers, Actives, Pendings, Finals
  <1> QED BY <1>3, <1>4, <1>5 DEF WorkerInv, Learnt, Invisible

LEMMA ScanKeeps ==
  ASSUME WorkerInv, ScanSkips \/ ScanSelects \/ ScanRefused
  PROVE  WorkerInv' /\ Invisible
  <1>1. w \in Workers /\ moved \in BOOLEAN /\ mail \in Seq({"configure", "shutdown"})
    BY TypedWorker DEF WorkerInv
  <1>2. UNCHANGED <<mail, moved, queueVars>> /\ w.pc = "scan"
    BY DEF ScanSkips, ScanSelects, ScanRefused, NotEnqueued, Due, CanAct
  <1>3. /\ w' \in Workers /\ w'.pc = "turn" /\ w'.active = w.active /\ w'.pending = w.pending
        /\ w'.final = w.final
    <2>1. CASE ScanSkips
      BY <1>1, <2>1 DEF ScanSkips, Workers
    <2>2. CASE ScanSelects
      <3>1. PICK s \in Profiles \cup {NoProfile} : w' = [w EXCEPT !.pc = "turn", !.candidate = s]
        BY <2>2 DEF ScanSelects
      <3> QED BY <1>1, <3>1 DEF Workers
    <2>3. CASE ScanRefused
      <3>1. w' = [Acted EXCEPT !.paused = TRUE] /\ Due
        BY <2>3 DEF ScanRefused
      <3>2. PICK n \in 1..MaxSessions + 1 : Acted = [w EXCEPT !.pc = "turn", !.next = n]
        <4>1. w.next \in 1..MaxSessions + 1 /\ MaxSessions \in Nat
          BY <1>1, ControlQueueAssumption DEF Workers
        <4>2. CASE Transition.kind = "begin"
          <5>1. w.next + 1 \in 1..MaxSessions + 1
            BY <3>1, <4>1, <4>2 DEF Due
          <5>2. Acted = [w EXCEPT !.pc = "turn", !.next = w.next + 1]
            BY <1>1, <4>2 DEF Acted, Workers
          <5> QED BY <5>1, <5>2
        <4>3. CASE Transition.kind # "begin"
          <5>1. Acted = [w EXCEPT !.pc = "turn", !.next = w.next]
            BY <1>1, <4>3 DEF Acted, Workers
          <5> QED BY <4>1, <5>1
        <4> QED BY <4>2, <4>3
      <3>3. w' = [[w EXCEPT !.pc = "turn", !.next = n] EXCEPT !.paused = TRUE]
        BY <3>1, <3>2
      <3> QED BY <1>1, <3>3 DEF Workers
    <2> QED BY <2>1, <2>2, <2>3
  <1>4. QueueTypeOK' /\ QueueInv' /\ Line' = Line /\ reply' = reply /\ session' = session
        /\ plan' = plan
    BY <1>2, IdleKeepsQueue DEF WorkerInv, queueVars
  <1>5. WorkerKnows'
    BY <1>2, <1>3, <1>4 DEF WorkerInv, WorkerKnows, Turning
  <1>6. WorkerLeaves'
    BY <1>3 DEF WorkerLeaves
  <1>7. WorkerTypeOK'
    BY <1>1, <1>2, <1>3 DEF WorkerTypeOK, Workers, Actives, Pendings, Finals
  <1> QED BY <1>2, <1>4, <1>5, <1>6, <1>7 DEF WorkerInv, Invisible

\* What is in the longer line was in it before, or is the request that joined.
LEMMA GainsItem ==
  ASSUME QueueTypeOK, QueueTypeOK', NEW r \in Requests, Gains(r)
  PROVE  \A i \in DOMAIN Line' : (i \in DOMAIN Line /\ Line'[i] = Line[i]) \/ Line'[i] = r
  <1>1. DOMAIN Line = 1..Len(Line) /\ Len(Line) \in Nat
    BY LineTypes
  <1>2. DOMAIN Line' = 1..Len(Line')
    BY Concatenated DEF Line, QueueTypeOK
  <1> QED BY <1>1, <1>2 DEF Gains

LEMMA DispatchKeeps ==
  ASSUME WorkerInv, ScanDispatches
  PROVE  WorkerInv' /\ Invisible
  <1> DEFINE t == Transition
             r == Request("worker", t.kind, t.id)
  <1>1. /\ w \in Workers /\ moved \in BOOLEAN /\ mail \in Seq({"configure", "shutdown"})
        /\ w.active \in Actives /\ w.next \in 1..MaxSessions + 1 /\ MaxSessions \in Nat
        /\ w.candidate \in Profiles \cup {NoProfile}
    <2>1. w \in Workers /\ moved \in BOOLEAN /\ mail \in Seq({"configure", "shutdown"})
      BY TypedWorker DEF WorkerInv
    <2> QED BY <2>1, ControlQueueAssumption DEF Workers
  <1>2. /\ Due /\ w.pc = "scan" /\ w.pending = NoTransition /\ UNCHANGED <<mail, moved>>
        /\ Enqueued(r) /\ w' = [Acted EXCEPT !.pending = t]
    BY DEF ScanDispatches, Due, CanAct
  <1>3. /\ reply["final"] = "none" /\ w.final = "none" /\ reply["worker"] # "waiting"
        /\ session \in {0, w.active.id, w.pending.id}
        /\ w.active = Inactive <=> w.active.id = 0
    BY <1>2 DEF WorkerInv, WorkerKnows, Turning
  <1>4. /\ NoTransition.id = 0 /\ NoTransition.kind = "none" /\ Inactive.id = 0
    BY DEF NoTransition, Inactive
  <1>5. \/ /\ t = [kind |-> "end", id |-> w.active.id, profile |-> NoProfile] /\ w.active # Inactive
        \/ /\ t = [kind |-> "begin", id |-> w.next, profile |-> w.candidate] /\ w.active = Inactive
           /\ w.next <= MaxSessions
    BY <1>2, <1>4 DEF Due, Transition
  <1>6. /\ t \in Pendings /\ t.kind \in {"begin", "end"} /\ t.id # 0 /\ t # NoTransition
        /\ t.kind = "begin" => w.active = Inactive /\ w.next + 1 \in 1..MaxSessions + 1
        /\ t.kind = "end" => w.active.id = t.id
    BY <1>1, <1>3, <1>4, <1>5 DEF Pendings, Actives
  <1> HIDE DEF t
  <1>7. r \in Requests /\ r.to = "worker" /\ r.kind = t.kind /\ r.id = t.id
    BY <1>6 DEF Pendings, Requests, Request, Callers, Kinds
  <1>8. <<r.kind, r.to>> \in Senders /\ (r.kind = "begin" => session = 0)
    BY <1>2, <1>3, <1>4, <1>6, <1>7 DEF Senders
  <1> HIDE DEF r
  <1>9. QueueTypeOK' /\ QueueInv' /\ Gains(r)
    BY <1>2, <1>3, <1>7, <1>8, JoinsLine, GainsKeepsQueue DEF WorkerInv
  <1>10. /\ w' \in Workers /\ w'.pc = "turn" /\ w'.active = w.active /\ w'.pending = t
         /\ w'.final = w.final
    <2>1. PICK n \in 1..MaxSessions + 1 : Acted = [w EXCEPT !.pc = "turn", !.next = n]
      <3>1. CASE t.kind = "begin"
        <4>1. Acted = [w EXCEPT !.pc = "turn", !.next = w.next + 1]
          BY <1>1, <3>1 DEF t, Acted, Workers
        <4> QED BY <1>6, <3>1, <4>1
      <3>2. CASE t.kind # "begin"
        <4>1. Acted = [w EXCEPT !.pc = "turn", !.next = w.next]
          BY <1>1, <3>2 DEF t, Acted, Workers
        <4> QED BY <1>1, <4>1
      <3> QED BY <3>1, <3>2
    <2>2. w' = [[w EXCEPT !.pc = "turn", !.next = n] EXCEPT !.pending = t]
      BY <1>2, <2>1
    <2> QED BY <1>1, <1>6, <2>2 DEF Workers
  <1>11. /\ UNCHANGED <<session, plan>> /\ reply'["worker"] = "waiting"
         /\ reply'["final"] = reply["final"]
    BY <1>2, <1>7 DEF Enqueued, WorkerInv, QueueTypeOK, Callers
  <1>12. WorkerKnows'
    <2>1. \A i \in DOMAIN Line' : Line'[i].to = "worker" => Line'[i] = r
      <3>1. \A i \in DOMAIN Line : Line[i].to # "worker"
        BY <1>3 DEF WorkerInv, QueueInv, OneEach, Askers
      <3> QED BY <1>7, <1>9, <3>1, GainsItem DEF WorkerInv
    <2>2. ~(plan # NoPlan /\ plan.to = "worker")
      BY <1>3 DEF WorkerInv, QueueInv, OneEach
    <2>3. session' \in {0, w'.active.id, w'.pending.id}
      BY <1>2, <1>3, <1>4, <1>10, <1>11
    <2>4. w'.pending # NoTransition /\ w'.pending.kind # "none" /\ w'.pending.id # 0
      BY <1>6, <1>10
    <2>5. \A i \in DOMAIN Line' : Line'[i].to = "worker" =>
            Line'[i].kind = w'.pending.kind /\ Line'[i].id = w'.pending.id
      BY <1>7, <1>10, <2>1
    <2> QED BY <1>3, <1>6, <1>10, <1>11, <2>2, <2>3, <2>4, <2>5 DEF WorkerKnows, Turning
  <1>13. WorkerLeaves'
    BY <1>10 DEF WorkerLeaves
  <1>14. WorkerTypeOK'
    BY <1>1, <1>2, <1>10 DEF WorkerTypeOK, Workers, Actives, Pendings, Finals
  <1> QED BY <1>2, <1>6, <1>7, <1>9, <1>12, <1>13, <1>14 DEF WorkerInv, Invisible

LEMMA ShutdownKeeps ==
  ASSUME WorkerInv, WorkerShutdown
  PROVE  WorkerInv' /\ Invisible
  <1>1. /\ w \in Workers /\ moved \in BOOLEAN /\ mail \in Seq({"configure", "shutdown"})
        /\ w.active \in Actives /\ w.pending \in Pendings
    <2>1. w \in Workers /\ moved \in BOOLEAN /\ mail \in Seq({"configure", "shutdown"})
      BY TypedWorker DEF WorkerInv
    <2> QED BY <2>1 DEF Workers
  <1>2. w.pc = "turn" /\ mail' \in Seq({"configure", "shutdown"}) /\ moved' = moved
    BY <1>1 DEF WorkerShutdown
  <1>3. /\ reply["final"] = "none" /\ w.final = "none"
        /\ session \in {0, w.active.id, w.pending.id}
        /\ w.active = Inactive <=> w.active.id = 0
        /\ w.pending = NoTransition <=> w.pending.id = 0
        /\ w.pending = NoTransition <=> w.pending.kind = "none"
        /\ w.pending = NoTransition => reply["worker"] # "waiting"
    BY <1>2 DEF WorkerInv, WorkerKnows, Turning
  <1>4. CASE LastSession = 0 /\ w' = [w EXCEPT !.pc = "stopped"] /\ UNCHANGED queueVars
    <2>1. QueueTypeOK' /\ QueueInv' /\ Line' = Line /\ session' = session
      BY <1>4, IdleKeepsQueue DEF WorkerInv, queueVars
    <2>2. /\ w' \in Workers /\ w'.pc = "stopped" /\ w'.active = w.active
          /\ w'.pending = w.pending /\ w'.final = w.final
      BY <1>1, <1>4 DEF Workers
    <2>3. w.active.id = 0 /\ w.pending.id = 0
      BY <1>3, <1>4 DEF LastSession
    <2>4. NothingToCome
      <3>1. session = 0
        BY <1>3, <2>3
      <3>2. \A i \in DOMAIN Line : Line[i].to # "worker"
        BY <1>3, <2>3 DEF WorkerInv, QueueInv, OneEach, Askers
      <3> QED BY <3>1, <3>2, LineFacts DEF NothingToCome, WorkerInv
    <2>5. WorkerLeaves'
      BY <2>1, <2>2, <2>4 DEF WorkerLeaves, NothingToCome
    <2>6. WorkerKnows'
      BY <1>3, <2>2 DEF WorkerKnows, Turning
    <2>7. WorkerTypeOK'
      BY <1>1, <1>2, <2>2 DEF WorkerTypeOK, Workers, Actives, Pendings, Finals
    <2> QED BY <1>4, <2>1, <2>5, <2>6, <2>7 DEF WorkerInv, Invisible
  <1>5. CASE /\ LastSession # 0 /\ Enqueued(Request("final", "end", LastSession))
             /\ w' = [w EXCEPT !.pc = "final", !.final = "waiting"]
    <2> DEFINE r == Request("final", "end", LastSession)
    <2>1. r \in Requests /\ r.to = "final" /\ r.kind = "end"
      BY <1>1 DEF Request, Requests, LastSession, Callers, Kinds, Actives, Pendings
    <2> HIDE DEF r
    <2>2. Enqueued(r)
      BY <1>5 DEF r
    <2>3. <<r.kind, r.to>> \in Senders
      BY <2>1 DEF Senders
    <2>4. QueueTypeOK' /\ QueueInv' /\ Gains(r)
      BY <1>3, <2>1, <2>2, <2>3, JoinsLine, GainsKeepsQueue DEF WorkerInv
    <2>5. /\ w' \in Workers /\ w'.pc = "final" /\ w'.active = w.active
          /\ w'.pending = w.pending /\ w'.final = "waiting"
      BY <1>1, <1>5 DEF Workers, Finals
    <2>6. reply'["final"] = "waiting"
      BY <2>1, <2>2 DEF Enqueued, WorkerInv, QueueTypeOK, Callers
    <2>7. WorkerLeaves'
      BY <2>5, <2>6 DEF WorkerLeaves
    <2>8. WorkerKnows'
      BY <1>3, <2>5 DEF WorkerKnows, Turning
    <2>9. WorkerTypeOK'
      BY <1>1, <1>2, <2>5 DEF WorkerTypeOK, Workers, Actives, Pendings, Finals
    <2> QED BY <2>1, <2>2, <2>4, <2>7, <2>8, <2>9 DEF WorkerInv, Invisible
  <1>6. CASE NotEnqueued /\ w' = [w EXCEPT !.pc = "stopped", !.final = "refused"]
    <2>1. QueueTypeOK' /\ QueueInv' /\ UNCHANGED queueVars
      BY <1>6, IdleKeepsQueue DEF WorkerInv, NotEnqueued
    <2>2. /\ w' \in Workers /\ w'.pc = "stopped" /\ w'.active = w.active
          /\ w'.pending = w.pending /\ w'.final = "refused"
      BY <1>1, <1>6 DEF Workers, Finals
    <2>3. WorkerLeaves'
      BY <2>2 DEF WorkerLeaves
    <2>4. WorkerKnows'
      BY <1>3, <2>2 DEF WorkerKnows, Turning
    <2>5. WorkerTypeOK'
      BY <1>1, <1>2, <2>2 DEF WorkerTypeOK, Workers, Actives, Pendings, Finals
    <2> QED BY <2>1, <2>3, <2>4, <2>5 DEF WorkerInv, Invisible
  <1>7. \/ LastSession = 0 /\ w' = [w EXCEPT !.pc = "stopped"] /\ UNCHANGED queueVars
        \/ /\ LastSession # 0 /\ Enqueued(Request("final", "end", LastSession))
           /\ w' = [w EXCEPT !.pc = "final", !.final = "waiting"]
        \/ NotEnqueued /\ w' = [w EXCEPT !.pc = "stopped", !.final = "refused"]
    BY DEF WorkerShutdown
  <1> QED BY <1>4, <1>5, <1>6, <1>7

LEMMA StopsKeeps ==
  ASSUME WorkerInv, WorkerStops
  PROVE  WorkerInv' /\ Invisible
  <1>1. /\ w \in Workers /\ w.pc = "final" /\ UNCHANGED <<mail, moved>>
        /\ w.final = "waiting" /\ reply["final"] # "none"
        /\ reply["final"] \in Statuses
    BY TypedWorker DEF WorkerInv, WorkerStops, WorkerLeaves, QueueTypeOK, Statuses, Callers
  <1>2. CASE /\ reply["final"] # "waiting" /\ Collected("final")
             /\ w' = [w EXCEPT !.pc = "stopped", !.final = reply["final"]]
    <2>1. QueueTypeOK' /\ QueueInv' /\ Line' = Line /\ session' = session
      BY <1>2, CollectedKeepsQueue DEF WorkerInv, Callers
    <2>2. /\ w' \in Workers /\ w'.pc = "stopped" /\ w'.active = w.active
          /\ w'.pending = w.pending /\ w'.final = reply["final"]
      BY <1>1, <1>2 DEF Workers, Finals, Statuses
    <2>3. reply["final"] = "ok" => NothingToCome
      BY DEF WorkerInv, QueueInv, FinalIsLast, NothingToCome
    <2>4. WorkerLeaves'
      BY <1>1, <2>1, <2>2, <2>3 DEF WorkerLeaves, NothingToCome
    <2>5. WorkerKnows'
      BY <2>2 DEF WorkerInv, WorkerKnows, Turning
    <2>6. WorkerTypeOK'
      BY <1>1, <2>2, TypedWorker DEF WorkerInv, WorkerTypeOK, Workers, Actives, Pendings, Finals
    <2> QED BY <1>2, <2>1, <2>4, <2>5, <2>6 DEF WorkerInv, Invisible
  <1>3. CASE w' = [w EXCEPT !.pc = "stopped", !.final = "timeout"] /\ UNCHANGED queueVars
    <2>1. QueueTypeOK' /\ QueueInv'
      BY <1>3, IdleKeepsQueue DEF WorkerInv
    <2>2. /\ w' \in Workers /\ w'.pc = "stopped" /\ w'.active = w.active
          /\ w'.pending = w.pending /\ w'.final = "timeout"
      BY <1>1, <1>3 DEF Workers, Finals
    <2>3. WorkerLeaves'
      BY <2>2 DEF WorkerLeaves
    <2>4. WorkerKnows'
      BY <2>2 DEF WorkerInv, WorkerKnows, Turning
    <2>5. WorkerTypeOK'
      BY <1>1, <2>2, TypedWorker DEF WorkerInv, WorkerTypeOK, Workers, Actives, Pendings, Finals
    <2> QED BY <1>3, <2>1, <2>3, <2>4, <2>5 DEF WorkerInv, Invisible
  <1> QED BY <1>2, <1>3 DEF WorkerStops

-----------------------------------------------------------------------------
(* The steps of the pump and of its user *)

PumpPcs == {"loop", "dispatched", "saving", "wait profiles", "automation", "engine", "done"}
Pumps(pending) == [pc : PumpPcs, pending : {pending}, inFlight : BOOLEAN, busy : BOOLEAN]

LEMMA TypedPump ==
  /\ PumpTypes => u \in Pumps(u.pending)
  /\ \A p : u' \in Pumps(p) => PumpTypes'
  <1>1. PumpTypes => u \in Pumps(u.pending)
    BY DEF PumpTypes, Pumps, PumpPcs
  <1>2. ASSUME NEW p, u' \in Pumps(p) PROVE PumpTypes'
    BY <1>2 DEF PumpTypes, Pumps, PumpPcs
  <1> QED BY <1>1, <1>2

LEMMA WorkerStill ==
  ASSUME WorkerTypeOK, UNCHANGED workerVars PROVE WorkerTypeOK'
  BY DEF WorkerTypeOK, workerVars

LEMMA PumpTurnsIdle ==
  ASSUME ApplicationInv,
         \/ \E k \in Knobs : UserClicks(k)
         \/ PumpCounts \/ PumpBusy \/ PumpGivesUp \/ UserConfigures \/ PumpCloses \/ PumpDone
  PROVE  ApplicationInv'
  <1>1. u \in Pumps(u.pending) /\ mail \in Seq({"configure", "shutdown"}) /\ moved \in BOOLEAN
    BY TypedPump DEF ApplicationInv, WorkerTypeOK
  <1>2. /\ UNCHANGED queueVars /\ UNCHANGED w
        /\ u.pc \in {"loop", "dispatched", "engine"}
    BY DEF UserClicks, PumpCounts, PumpBusy, PumpGivesUp, UserConfigures, PumpCloses, PumpDone,
         workerVars, Polls, NotEnqueued
  <1>3. /\ PumpTypes'
        /\ \/ u'.inFlight = u.inFlight /\ u.pc # "engine"
           \/ u'.pc \in {"automation", "done"}
    <2>1. ASSUME NEW k \in Knobs, UserClicks(k)
          PROVE  u' \in Pumps(Append(Without(u.pending, k), k)) /\ u'.inFlight = u.inFlight
                 /\ u.pc # "engine"
      BY <1>1, <2>1 DEF UserClicks, Pumps, PumpPcs
    <2>2. CASE PumpCounts
      <3>1. u' \in Pumps(u.pending) /\ u'.inFlight = u.inFlight /\ u.pc # "engine"
        BY <1>1, <2>2 DEF PumpCounts, Pumps, PumpPcs
      <3> QED BY <3>1, TypedPump
    <2>3. CASE PumpBusy
      <3>1. u' \in Pumps(u.pending) /\ u'.inFlight = u.inFlight /\ u.pc # "engine"
        BY <1>1, <2>3 DEF PumpBusy, Polls, Pumps, PumpPcs
      <3> QED BY <3>1, TypedPump
    <2>4. CASE PumpGivesUp
      <3>1. /\ u' \in Pumps(Without(Tail(u.pending), Head(u.pending)))
            /\ u'.inFlight = u.inFlight /\ u.pc # "engine"
        BY <1>1, <2>4 DEF PumpGivesUp, Polls, Pumps, PumpPcs
      <3> QED BY <3>1, TypedPump
    <2>5. CASE UserConfigures
      <3>1. u' = u /\ u.pc # "engine"
        BY <2>5 DEF UserConfigures
      <3> QED BY <1>1, <3>1, TypedPump
    <2>6. CASE PumpCloses
      <3>1. u' \in Pumps(<<>>) /\ u'.pc = "automation"
        BY <2>6 DEF PumpCloses, Pumps, PumpPcs
      <3> QED BY <3>1, TypedPump
    <2>7. CASE PumpDone
      <3>1. u' \in Pumps(u.pending) /\ u'.pc = "done"
        BY <1>1, <2>7 DEF PumpDone, Pumps, PumpPcs
      <3> QED BY <3>1, TypedPump
    <2> QED BY <2>1, <2>2, <2>3, <2>4, <2>5, <2>6, <2>7, TypedPump
  <1>4. WorkerTypeOK'
    <2>1. mail' \in Seq({"configure", "shutdown"}) /\ moved' \in BOOLEAN
      <3>1. \/ mail' = mail \/ mail' = Append(mail, "configure") \/ mail' = Append(mail, "shutdown")
        BY DEF UserClicks, PumpCounts, PumpBusy, PumpGivesUp, UserConfigures, PumpCloses, PumpDone,
             workerVars
      <3>2. moved' = moved \/ moved' = TRUE
        BY DEF UserClicks, PumpCounts, PumpBusy, PumpGivesUp, UserConfigures, PumpCloses, PumpDone,
             workerVars
      <3>3. \A m \in {"configure", "shutdown"} : Append(mail, m) \in Seq({"configure", "shutdown"})
        BY <1>1
      <3>4. mail' \in Seq({"configure", "shutdown"})
        BY <1>1, <3>1, <3>3
      <3>5. moved' \in BOOLEAN
        BY <1>1, <3>2
      <3> QED BY <3>4, <3>5
    <2> QED BY <1>2, <2>1 DEF WorkerTypeOK, ApplicationInv
  <1>5. QueueTypeOK' /\ QueueInv' /\ Line' = Line
    BY <1>2, IdleKeepsQueue DEF ApplicationInv
  <1>6. WorkerKnows' /\ WorkerLeaves'
    BY <1>2, <1>5, OthersKeepWorker DEF ApplicationInv, queueVars
  <1>7. PumpKnows'
    <2>1. u.pc # "engine" => u.pc \in {"loop", "dispatched", "saving", "wait profiles"}
      BY <1>2
    <2> QED BY <1>2, <1>3, <2>1 DEF ApplicationInv, PumpKnows, queueVars
  <1>8. ProfilesFirst'
    <2>1. ~NotAccepted
      BY <1>2 DEF NotAccepted
    <2> QED BY <1>2, <1>5, <2>1, OthersKeepProfilesFirst DEF ApplicationInv, queueVars
  <1> QED BY <1>3, <1>4, <1>5, <1>6, <1>7, <1>8 DEF ApplicationInv

LEMMA PumpSends ==
  ASSUME ApplicationInv, NEW r \in Requests, Enqueued(r), UNCHANGED workerVars,
         r.to \notin {"worker", "final"}, <<r.kind, r.to>> \in Senders,
         r.to = "pump" => reply["pump"] # "waiting"
  PROVE  /\ QueueTypeOK' /\ WorkerTypeOK' /\ QueueInv' /\ WorkerKnows' /\ WorkerLeaves'
         /\ Gains(r) /\ UNCHANGED <<queued, registry, stage>>
         /\ reply'[r.to] = "waiting" /\ \A c \in Callers : c # r.to => reply'[c] = reply[c]
  <1>1. r.kind # "begin" /\ (r.to \in Askers => reply[r.to] # "waiting")
    BY DEF Senders, Askers
  <1>2. QueueTypeOK' /\ QueueInv' /\ Gains(r)
    BY <1>1, JoinsLine, GainsKeepsQueue DEF ApplicationInv
  <1>3. WorkerTypeOK'
    BY DEF ApplicationInv, WorkerTypeOK, workerVars
  <1>4. /\ UNCHANGED <<queued, plan, session, registry, stage>>
        /\ reply'[r.to] = "waiting" /\ \A c \in Callers : c # r.to => reply'[c] = reply[c]
    <2>1. r.to \in Callers /\ reply \in [Callers -> Statuses]
      BY DEF Requests, ApplicationInv, QueueTypeOK, Statuses
    <2> QED BY <2>1 DEF Enqueued
  <1>5. \A i \in DOMAIN Line' : \/ i \in DOMAIN Line /\ Line'[i] = Line[i]
                                \/ Line'[i].to # "worker" /\ Line'[i].kind # "begin"
    BY <1>1, <1>2, GainsItem DEF ApplicationInv
  <1>6. WorkerKnows' /\ WorkerLeaves'
    BY <1>4, <1>5, OthersKeepWorker DEF ApplicationInv, workerVars, Callers
  <1> QED BY <1>2, <1>3, <1>4, <1>6

LEMMA DispatchesKeeps ==
  ASSUME ApplicationInv, PumpDispatches PROVE ApplicationInv'
  <1> DEFINE r == Request("pump", "apply", IF registry THEN 0 ELSE 1)
  <1>1. /\ r \in Requests /\ r.to = "pump" /\ r.kind = "apply" /\ (New(r) => ~registry)
        /\ <<r.kind, r.to>> \in Senders
    BY ControlQueueAssumption DEF Request, Requests, Callers, Kinds, New, Senders
  <1>2. Enqueued(r) /\ UNCHANGED workerVars /\ u.pc = "loop" /\ ~u.inFlight
    BY DEF PumpDispatches, Polls
  <1> HIDE DEF r
  <1>3. reply["pump"] # "waiting"
    BY <1>2 DEF ApplicationInv, PumpKnows
  <1>4. /\ QueueTypeOK' /\ WorkerTypeOK' /\ QueueInv' /\ WorkerKnows' /\ WorkerLeaves'
        /\ Gains(r) /\ UNCHANGED <<queued, registry, stage>>
    BY <1>1, <1>2, <1>3, PumpSends
  <1>5. u' \in Pumps(Tail(u.pending)) /\ u'.inFlight
    BY TypedPump DEF ApplicationInv, PumpDispatches, Pumps, PumpPcs
  <1>6. PumpTypes' /\ PumpKnows'
    BY <1>5, TypedPump DEF PumpKnows
  <1>7. ProfilesFirst'
    <2>1. ~NotAccepted
      BY <1>2 DEF NotAccepted
    <2>2. CASE stage = "running" /\ ~registry
      <3>1. \E j \in 1..Len(queued) : Line[j].kind = "profiles"
        BY <2>1, <2>2 DEF ApplicationInv, ProfilesFirst
      <3> QED BY <1>1, <1>4, <2>1, <3>1, GainsKeepsProfilesFirst DEF ApplicationInv
    <2>3. CASE ~(stage = "running" /\ ~registry)
      BY <1>4, <2>3 DEF ProfilesFirst
    <2> QED BY <2>2, <2>3
  <1> QED BY <1>4, <1>6, <1>7 DEF ApplicationInv

LEMMA ReplacesKeeps ==
  ASSUME ApplicationInv, PumpReplaces PROVE ApplicationInv'
  <1> DEFINE r == Request("profiles", "profiles", 0)
  <1>1. /\ r \in Requests /\ r.to = "profiles" /\ ~New(r) /\ <<r.kind, r.to>> \in Senders
    BY ControlQueueAssumption DEF Request, Requests, Callers, Kinds, New, Senders
  <1>2. Enqueued(r) /\ UNCHANGED workerVars /\ u.pc = "saving"
    BY DEF PumpReplaces
  <1> HIDE DEF r
  <1>3. /\ QueueTypeOK' /\ WorkerTypeOK' /\ QueueInv' /\ WorkerKnows' /\ WorkerLeaves'
        /\ Gains(r) /\ UNCHANGED <<queued, registry, stage>>
        /\ reply'["profiles"] = "waiting" /\ reply'["pump"] = reply["pump"]
    BY <1>1, <1>2, PumpSends DEF Callers
  <1>4. u' \in Pumps(u.pending) /\ u'.pc = "wait profiles" /\ u'.inFlight = u.inFlight
    BY TypedPump DEF ApplicationInv, PumpReplaces, Pumps, PumpPcs
  <1>5. PumpTypes' /\ PumpKnows'
    BY <1>2, <1>3, <1>4, TypedPump DEF ApplicationInv, PumpKnows
  <1>6. NotAccepted'
    BY <1>3, <1>4 DEF NotAccepted
  <1>7. ProfilesFirst'
    BY <1>1, <1>3, <1>6, GainsKeepsProfilesFirst DEF ApplicationInv
  <1> QED BY <1>3, <1>5, <1>7 DEF ApplicationInv

LEMMA StopsControlKeeps ==
  ASSUME ApplicationInv, PumpStopsControl PROVE ApplicationInv'
  <1> DEFINE r == Request("engine", "shutdown", 0)
  <1>1. /\ r \in Requests /\ r.to = "engine" /\ ~New(r) /\ <<r.kind, r.to>> \in Senders
    BY ControlQueueAssumption DEF Request, Requests, Callers, Kinds, New, Senders
  <1>2. Enqueued(r) /\ UNCHANGED workerVars /\ u.pc = "automation"
    BY DEF PumpStopsControl
  <1> HIDE DEF r
  <1>3. /\ QueueTypeOK' /\ WorkerTypeOK' /\ QueueInv' /\ WorkerKnows' /\ WorkerLeaves'
        /\ Gains(r) /\ UNCHANGED <<queued, registry, stage>>
    BY <1>1, <1>2, PumpSends
  <1>4. u' \in Pumps(u.pending) /\ u'.pc = "engine"
    BY TypedPump DEF ApplicationInv, PumpStopsControl, Pumps, PumpPcs
  <1>5. PumpTypes' /\ PumpKnows'
    BY <1>4, TypedPump DEF PumpKnows
  <1>6. ~NotAccepted
    BY <1>2 DEF NotAccepted
  <1>7. ProfilesFirst'
    BY <1>1, <1>3, <1>6, GainsKeepsProfilesFirst DEF ApplicationInv
  <1> QED BY <1>3, <1>5, <1>7 DEF ApplicationInv

LEMMA PumpCollects ==
  ASSUME ApplicationInv, PumpSweeps \/ PumpReplaced PROVE ApplicationInv'
  <1>1. PICK c \in {"pump", "profiles"} :
          /\ Collected(c) /\ reply[c] # "waiting" /\ UNCHANGED workerVars
          /\ \/ c = "pump" /\ u.pc = "loop"
             \/ c = "profiles" /\ u.pc = "wait profiles"
    BY DEF PumpSweeps, PumpReplaced
  <1>2. /\ QueueTypeOK' /\ QueueInv' /\ Line' = Line
        /\ UNCHANGED <<queued, plan, session, registry, stage>>
        /\ reply'[c] = "none" /\ \A d \in Callers : d # c => reply'[d] = reply[d]
    BY <1>1, CollectedKeepsQueue DEF ApplicationInv, Callers
  <1>3. WorkerTypeOK'
    BY <1>1, WorkerStill DEF ApplicationInv
  <1>4. WorkerKnows' /\ WorkerLeaves'
    BY <1>1, <1>2, OthersKeepWorker DEF ApplicationInv, workerVars, Callers
  <1>5. CASE PumpSweeps
    <2>1. u' \in Pumps(u.pending) /\ c = "pump" /\ u.pc = "loop"
      BY <1>1, <1>5, TypedPump DEF ApplicationInv, PumpSweeps, Pumps, PumpPcs
    <2>2. PumpTypes' /\ PumpKnows'
      BY <1>2, <2>1, TypedPump DEF PumpKnows
    <2>3. ~NotAccepted
      BY <2>1 DEF NotAccepted
    <2>4. ProfilesFirst'
      BY <1>2, <2>3, OthersKeepProfilesFirst DEF ApplicationInv
    <2> QED BY <1>2, <1>3, <1>4, <2>2, <2>4 DEF ApplicationInv
  <1>6. CASE PumpReplaced
    <2>1. /\ u' \in Pumps(u.pending) /\ u'.inFlight = u.inFlight /\ u.pc = "wait profiles"
          /\ u'.pc = IF Accepted THEN "loop" ELSE "saving"
      BY <1>6, TypedPump DEF ApplicationInv, PumpReplaced, Pumps, PumpPcs
    <2>2. PumpTypes' /\ PumpKnows'
      <3>1. reply'["pump"] # reply["pump"] => reply'["pump"] = "none"
        BY <1>2 DEF Callers
      <3> QED BY <2>1, <3>1, TypedPump DEF ApplicationInv, PumpKnows
    <2>3. NotAccepted => NotAccepted'
      <3>1. c = "profiles" /\ reply["profiles"] # "waiting"
        BY <1>1, <2>1
      <3> QED BY <2>1, <3>1 DEF NotAccepted, Accepted
    <2>4. ProfilesFirst'
      BY <1>2, <2>3, OthersKeepProfilesFirst DEF ApplicationInv
    <2> QED BY <1>2, <1>3, <1>4, <2>2, <2>4 DEF ApplicationInv
  <1> QED BY <1>5, <1>6

LEMMA SavesKeeps ==
  ASSUME ApplicationInv, UserSaves PROVE ApplicationInv'
  <1>1. /\ u.pc = "loop" /\ UNCHANGED <<workerVars, chan, queued, plan, session, stage, reply>>
        /\ registry' = FALSE
        /\ \A r \in ToSet(chan) \cup ToSet(queued) : r.kind = "apply" => r.id = 0
    BY DEF UserSaves
  <1>2. Line' = Line /\ QueueTypeOK' /\ WorkerTypeOK'
    <2>1. WorkerTypeOK'
      BY <1>1, WorkerStill DEF ApplicationInv
    <2> QED BY <1>1, <2>1 DEF Line, ApplicationInv, QueueTypeOK
  <1>3. QueueInv'
    BY <1>1, <1>2 DEF ApplicationInv, QueueInv, Formed, OneEach, BeginsFindNone, FinalIsLast
  <1>4. WorkerKnows' /\ WorkerLeaves'
    BY <1>1, <1>2, OthersKeepWorker DEF ApplicationInv, workerVars
  <1>5. u' \in Pumps(u.pending) /\ u'.pc = "saving" /\ u'.inFlight = u.inFlight
    BY TypedPump DEF ApplicationInv, UserSaves, Pumps, PumpPcs
  <1>6. PumpTypes' /\ PumpKnows'
    BY <1>1, <1>5, TypedPump DEF ApplicationInv, PumpKnows
  <1>7. \A i \in DOMAIN Line : ~New(Line[i])
    <2> SUFFICES ASSUME NEW i \in DOMAIN Line, New(Line[i]) PROVE FALSE
      OBVIOUS
    <2>1. Line[i] \in ToSet(chan) \cup ToSet(queued)
      <3>1. /\ DOMAIN Line = 1..(Len(queued) + Len(chan)) /\ Len(queued) \in Nat /\ Len(chan) \in Nat
            /\ chan \in Seq(Requests) /\ queued \in Seq(Requests)
        BY LineTypes DEF ApplicationInv, QueueTypeOK
      <3>2. CASE i <= Len(queued)
        <4>1. i \in DOMAIN queued /\ Line[i] = queued[i]
          BY <3>1, <3>2, LineTypes DEF ApplicationInv
        <4> QED BY <4>1 DEF ToSet
      <3>3. CASE ~(i <= Len(queued))
        <4> DEFINE j == i - Len(queued)
        <4>1. j \in 1..Len(chan) /\ Len(queued) + j = i
          BY <3>1, <3>3
        <4>2. j \in DOMAIN chan /\ Line[Len(queued) + j] = chan[j]
          BY <3>1, <4>1, LineTypes DEF ApplicationInv
        <4> QED BY <4>1, <4>2 DEF ToSet
      <3> QED BY <3>2, <3>3
    <2> QED BY <1>1, <2>1 DEF New
  <1>8. ProfilesFirst'
    BY <1>2, <1>5, <1>7 DEF ProfilesFirst, NotAccepted
  <1> QED BY <1>2, <1>3, <1>4, <1>6, <1>8 DEF ApplicationInv

-----------------------------------------------------------------------------
(* The theorems *)

LEMMA InitHolds == ASSUME Init PROVE ApplicationInv
  <1>1. /\ chan = <<>> /\ queued = <<>> /\ plan = NoPlan /\ session = 0 /\ registry = TRUE
        /\ stage = "running" /\ reply = [c \in Callers |-> "none"]
        /\ mail = <<>> /\ moved = FALSE
    BY DEF Init, QueueInit, WorkerInit
  <1>2. QueueTypeOK
    BY <1>1, ControlQueueAssumption DEF QueueTypeOK, NoPlan, Plans, Callers
  <1>3. /\ w \in Workers /\ w.pc = "turn" /\ w.active = Inactive /\ w.pending = NoTransition
        /\ w.final = "none"
    <2>1. 1 \in 1..MaxSessions + 1
      BY ControlQueueAssumption
    <2>2. w = [pc |-> "turn", active |-> Inactive, pending |-> NoTransition, paused |-> FALSE,
               recoveryFailed |-> FALSE, next |-> 1, candidate |-> NoProfile, final |-> "none"]
      BY DEF Init, WorkerInit
    <2> QED BY <2>1, <2>2, NoneTyped DEF Workers, Finals
  <1>4. WorkerTypeOK
    <2>1. mail \in Seq({"configure", "shutdown"})
      BY <1>1
    <2>2. moved \in BOOLEAN
      BY <1>1
    <2> QED BY <1>3, <2>1, <2>2, TypedWorker
  <1>5. PumpTypes /\ u.pc = "loop"
    BY DEF Init, PumpTypes
  <1>6. DOMAIN Line = {} /\ \A c \in Callers : reply[c] = "none"
    BY <1>1 DEF Line
  <1>7. QueueInv
    BY <1>1, <1>6, AskersCall DEF QueueInv, Formed, OneEach, BeginsFindNone, FinalIsLast, Askers
  <1>8. WorkerKnows
    BY <1>1, <1>3, <1>6 DEF WorkerKnows, Inactive, NoTransition, Callers
  <1>9. WorkerLeaves /\ PumpKnows /\ ProfilesFirst
    BY <1>1, <1>3, <1>6 DEF WorkerLeaves, PumpKnows, ProfilesFirst, Callers
  <1> QED BY <1>2, <1>4, <1>5, <1>7, <1>8, <1>9 DEF ApplicationInv

LEMMA CoordinatorKeeps ==
  ASSUME ApplicationInv, Coordinator \/ SafetyRestore, UNCHANGED <<workerVars, u>>
  PROVE  ApplicationInv'
  <1>1. PICK done : QueueTypeOK' /\ Serves(done)
    BY ReceiveServes, TakeServes, PlanStepServes, ShutdownServes, StopsServes
       DEF Coordinator, ApplicationInv
  <1>2. QueueInv'
    BY <1>1, ServesKeepsQueue DEF ApplicationInv
  <1>3. WorkerKnows' /\ WorkerLeaves' /\ PumpKnows'
    BY <1>1, ServesKeepsClients DEF ApplicationInv, workerVars
  <1>4. ProfilesFirst'
    BY CoordinatorKeepsProfilesFirst DEF ApplicationInv
  <1>5. WorkerTypeOK' /\ PumpTypes'
    <2>1. WorkerTypeOK'
      BY WorkerStill DEF ApplicationInv
    <2> QED BY <2>1 DEF ApplicationInv, PumpTypes
  <1> QED BY <1>1, <1>2, <1>3, <1>4, <1>5 DEF ApplicationInv

LEMMA WorkerStepKeeps ==
  ASSUME ApplicationInv, Worker, UNCHANGED u
  PROVE  ApplicationInv'
  <1>1. WorkerInv' /\ Invisible
    BY TurnKeeps, ScanKeeps, DispatchKeeps, ShutdownKeeps, StopsKeeps
       DEF Worker, ApplicationInv, WorkerInv
  <1>2. PumpKnows' /\ ProfilesFirst'
    BY <1>1, InvisibleKeeps DEF ApplicationInv, WorkerInv
  <1>3. PumpTypes'
    BY DEF ApplicationInv, PumpTypes
  <1> QED BY <1>1, <1>2, <1>3 DEF ApplicationInv, WorkerInv

LEMMA StepKeeps == ASSUME ApplicationInv, Next PROVE ApplicationInv'
  BY CoordinatorKeeps, WorkerStepKeeps, PumpTurnsIdle, DispatchesKeeps, ReplacesKeeps,
     StopsControlKeeps, PumpCollects, SavesKeeps DEF Next, UserActs, Pump

LEMMA StutterKeeps == ASSUME ApplicationInv, UNCHANGED vars PROVE ApplicationInv'
  <1>1. UNCHANGED queueVars /\ UNCHANGED workerVars /\ UNCHANGED u
    BY DEF vars
  <1>2. QueueTypeOK' /\ QueueInv' /\ Line' = Line
    BY <1>1, IdleKeepsQueue DEF ApplicationInv
  <1>3. WorkerTypeOK'
    BY <1>1, WorkerStill DEF ApplicationInv
  <1>4. WorkerKnows' /\ WorkerLeaves'
    BY <1>1, <1>2, OthersKeepWorker DEF ApplicationInv, queueVars, workerVars
  <1>5. PumpKnows' /\ ProfilesFirst'
    BY <1>1, <1>2, OthersKeepProfilesFirst DEF ApplicationInv, PumpKnows, NotAccepted, queueVars
  <1>6. PumpTypes'
    BY <1>1 DEF ApplicationInv, PumpTypes
  <1> QED BY <1>2, <1>3, <1>4, <1>5, <1>6 DEF ApplicationInv

\* The invariant holds: types, the line of requests, what the worker and the pump know of
\* their own requests, and what stands in front of a command that needs new profiles.
THEOREM ApplicationInvariance == Spec => []ApplicationInv
  <1>1. ApplicationInv /\ [Next]_vars => ApplicationInv'
    BY StepKeeps, StutterKeeps
  <1> QED BY <1>1, InitHolds, PTL DEF Spec

\* As long as the worker runs, an open session is the one it holds or the one its pending
\* transition is about, whatever it was refused, turned away or answered too late.
THEOREM SessionIsAlwaysKnown == Spec => []SessionIsKnown
  <1>1. ApplicationInv => SessionIsKnown
    BY DEF ApplicationInv, WorkerKnows, Turning, SessionIsKnown
  <1> QED BY <1>1, ApplicationInvariance, PTL

\* When the worker has stopped with its last restore acknowledged, or with nothing to
\* restore, no session is open and no Begin is on its way: shutdown orphans nothing.
THEOREM LastRestoreAlwaysLast == Spec => []LastRestoreIsLast
  <1>1. ASSUME ApplicationInv PROVE LastRestoreIsLast
    <2> SUFFICES ASSUME w.pc = "stopped", w.final \in {"none", "ok"}
                 PROVE  /\ session = 0 /\ \A i \in DOMAIN chan : chan[i].kind # "begin"
                        /\ \A i \in DOMAIN queued : queued[i].kind # "begin"
      BY DEF LastRestoreIsLast
    <2>1. session = 0 /\ \A i \in DOMAIN Line : Line[i].kind # "begin"
      BY <1>1 DEF ApplicationInv, WorkerLeaves, NothingToCome
    <2>2. /\ DOMAIN Line = 1..(Len(queued) + Len(chan)) /\ Len(queued) \in Nat /\ Len(chan) \in Nat
          /\ DOMAIN chan = 1..Len(chan) /\ DOMAIN queued = 1..Len(queued)
          /\ \A i \in 1..Len(queued) : Line[i] = queued[i]
          /\ \A i \in 1..Len(chan) : Line[Len(queued) + i] = chan[i]
      BY <1>1, LineTypes DEF ApplicationInv, QueueTypeOK
    <2>3. \A i \in DOMAIN queued : i \in DOMAIN Line
      BY <2>2
    <2>4. \A i \in DOMAIN chan : Len(queued) + i \in DOMAIN Line
      BY <2>2
    <2> QED BY <2>1, <2>2, <2>3, <2>4
  <1> QED BY <1>1, ApplicationInvariance, PTL

LEMMA OnTheLine ==
  ASSUME QueueTypeOK, NEW r \in ToSet(chan) \cup ToSet(queued)
  PROVE  \E i \in DOMAIN Line : Line[i] = r
  <1>1. /\ DOMAIN Line = 1..(Len(queued) + Len(chan)) /\ Len(queued) \in Nat /\ Len(chan) \in Nat
        /\ DOMAIN chan = 1..Len(chan) /\ DOMAIN queued = 1..Len(queued)
    BY LineTypes DEF QueueTypeOK
  <1>2. CASE r \in ToSet(queued)
    <2>1. PICK i \in DOMAIN queued : queued[i] = r
      BY <1>2 DEF ToSet
    <2> QED BY <1>1, <2>1, LineTypes
  <1>3. CASE r \in ToSet(chan)
    <2>1. PICK i \in DOMAIN chan : chan[i] = r
      BY <1>3 DEF ToSet
    <2>2. Len(queued) + i \in DOMAIN Line /\ Line[Len(queued) + i] = r
      BY SMTT(60), <1>1, <2>1, LineTypes
    <2> QED BY <2>2
  <1> QED BY <1>2, <1>3

\* No client touches the plan.
LEMMA OnlyCoordinatorPlans ==
  ASSUME Next, plan' # plan PROVE Coordinator \/ SafetyRestore
  BY DEF Next, UserActs, Pump, Worker, UserClicks, UserSaves, UserConfigures, PumpCloses,
                 PumpDispatches, PumpCounts, PumpBusy, PumpGivesUp, PumpSweeps, PumpReplaces,
                 PumpReplaced, PumpStopsControl, PumpDone, WorkerTurn, WorkerConfigured, ScanSkips,
                 ScanSelects, ScanDispatches, ScanRefused, WorkerShutdown, WorkerStops, PollsAnswer,
                 Enqueued, NotEnqueued, Collected, queueVars

LEMMA PublishedFirst ==
  ASSUME ApplicationInv, Next, NEW r \in ToSet(chan) \cup ToSet(queued), r.kind = "apply",
         Begins(r), r.id = 1, ~registry
  PROVE  UNCHANGED plan
  <1> SUFFICES ASSUME plan' # plan PROVE FALSE
    OBVIOUS
  <1>1. PICK n \in DOMAIN Line : Line[n] = r
    BY OnTheLine DEF ApplicationInv
  <1>2. r.to = "pump" /\ reply["pump"] = "waiting" /\ ~(plan # NoPlan /\ plan.to = "pump")
        /\ \A i \in DOMAIN Line : Line[i].to = "pump" => i = n
    BY <1>1 DEF ApplicationInv, QueueInv, Formed, Senders, OneEach, Askers
  <1>3. plan'.kind = "apply" /\ plan'.to = "pump" /\ plan' # NoPlan
    BY <1>2 DEF Begins, Rejects, BeginsApply, BeginsSession, EndsSession, EndsNothing, Installs,
         Starts, NoPlan
  <1>4. PlanCloses \/ Take
    <2>1. Coordinator \/ SafetyRestore
      BY OnlyCoordinatorPlans
    <2> QED BY <1>3, <2>1 DEF Coordinator, Receive, PlanSucceeds, PlanFails, PlanEnds, ShutdownTaken,
         Stops, SafetyRestore
  <1>5. CASE PlanCloses
    <2>1. plan' = [plan EXCEPT !.closes = FALSE] /\ plan.closes
      BY <1>3, <1>5 DEF PlanCloses
    <2>2. plan'.to = plan.to /\ plan # NoPlan
      BY <2>1 DEF ApplicationInv, QueueTypeOK, Plans, NoPlan
    <2> QED BY <1>2, <1>3, <2>2
  <1>6. CASE Take
    <2>1. Len(Line) > 0 /\ Begins(Line[1]) /\ stage = "running" /\ plan = NoPlan
      BY <1>6, FirstTaken DEF ApplicationInv
    <2>2. 1 \in DOMAIN Line /\ Line[1].kind = "apply"
      <3>1. 1 \in DOMAIN Line
        BY <2>1, LineTypes DEF ApplicationInv
      <3>2. Line[1].kind = plan'.kind
        BY <2>1 DEF Begins, Rejects, BeginsApply, BeginsSession, EndsSession, EndsNothing, Installs,
             Starts
      <3> QED BY <1>3, <3>1, <3>2
    <2>3. n = 1
      <3>1. Line[1].to = "pump"
        BY <2>2 DEF ApplicationInv, QueueInv, Formed, Senders
      <3> QED BY <1>2, <2>2, <3>1
    <2>4. New(Line[1])
      BY <1>1, <2>3 DEF New
    <2>5. Ahead(1)
      BY <2>1, <2>2, <2>4 DEF ApplicationInv, ProfilesFirst
    <2>6. \A j \in 1..Len(queued) : ~(j < 1)
      BY LineTypes DEF ApplicationInv
    <2> QED BY <2>5, <2>6 DEF Ahead
  <1> QED BY <1>4, <1>5, <1>6

\* A command that was dispatched after profiles had been published is planned by the
\* coordinator only once these profiles are installed, through both queues.
THEOREM AppliesAlwaysPublishedProfiles == Spec => AppliesPublishedProfiles
  <1>1. ApplicationInv /\ [Next]_vars =>
          [\A r \in ToSet(chan) \cup ToSet(queued) :
             (r.kind = "apply" /\ Begins(r) /\ r.id = 1 /\ ~registry) => UNCHANGED plan]_vars
    <2>1. ASSUME ApplicationInv, Next
          PROVE  \A r \in ToSet(chan) \cup ToSet(queued) :
                   (r.kind = "apply" /\ Begins(r) /\ r.id = 1 /\ ~registry) => UNCHANGED plan
      BY <2>1, PublishedFirst
    <2> QED BY <2>1
  <1> QED BY <1>1, ApplicationInvariance, PTL DEF Spec, AppliesPublishedProfiles

=============================================================================
