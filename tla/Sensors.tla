------------------------------- MODULE Sensors -------------------------------
(***************************************************************************)
(* What a collector makes of its provider (telemetry/collectors.rs) and what *)
(* the store keeps of it (telemetry/store.rs).  A provider's reading is the   *)
(* instant it was taken at, so that a sample shows which instant its value    *)
(* belongs to; counters count `used`, the work done since the start.          *)
(*                                                                            *)
(* A round takes time: its calls read one after another, at instants between  *)
(* its beginning and its end, and a sample is dated when they have returned.  *)
(* What they read is only the clock and the work, so the action that ends a   *)
(* round chooses these instants.                                              *)
(***************************************************************************)
EXTENDS Integers, Sequences, SequencesExt

CONSTANTS
  Counter,      \* the width of the energy counter: it wraps there (2^32)
  Started,      \* what it shows at the start
  Burns,        \* the work one unit of time may take
  MaxTime, MaxRounds,
  MaxStall,     \* bound: how long a round may last
  RingCapacity, \* RING_CAPACITY
  RepushTicks,  \* TJMAX_REPUSH_TICKS, POWER_LIMIT_REPUSH_TICKS
  FanInterval,  \* FAN_MIN_INTERVAL and the cache of the HP actor
  Outages       \* which reads may fail together

\* A counter that wraps twice between two reads cannot be told from one that did not.
ASSUME CounterAssumption ==
  /\ Counter \in Nat \ {0} /\ Started \in 0..(Counter - 1) /\ MaxTime \in Nat
  /\ \A b \in Burns : b \in Nat /\ b * MaxTime < Counter
  /\ RingCapacity \in Nat \ {0}

VARIABLES
  instant,  \* Instant::now
  used,     \* used[t]: the work done by instant t
  source,   \* the collector of this behaviour
  began,    \* when the round under way began; 0: none
  msr,      \* PawnioCollector: the previous energy and clock readings, with the time their
            \* base is counted from and, for the properties, when the counter was read
  pdh,      \* WindowsPdh: primed, and when its counters were last collected
  fanRead,  \* HpFanCollector: the date of the last sample; 0: none yet
  fanCache, \* FanCache of the actor: the last attempt, and the sample if it was answered
  rounds,   \* rounds so far, of each collector its ticks
  health,   \* ProviderStatus
  rings     \* TelemetryStore: the samples of each metric

sensorVars == <<instant, used, source, began, msr, pdh, fanRead, fanCache, rounds, health, rings>>

Metrics == {"pkgTemp", "tjMax", "pkgPower", "clock", "limits", "pl4", "gpuTemp", "gpuPower",
            "gpuLimit", "rate", "memory", "policy", "battery", "fan"}
Sources == {"pawnio", "nvapi", "pdh", "power", "ppm", "fans"}
NoReading == [at |-> 0, read |-> 0, work |-> 0]
NoFanSample == [at |-> 0, value |-> 0]

SensorInit ==
  /\ instant = 1 /\ used = <<0>> /\ source \in Sources /\ began = 0
  /\ msr = [energy |-> NoReading, perf |-> NoReading]
  /\ pdh = [primed |-> FALSE, at |-> 0]
  /\ fanRead = 0 /\ fanCache = [tried |-> 0, sample |-> NoFanSample]
  /\ rounds = 0 /\ health = "ok"
  /\ rings = [m \in Metrics |-> <<>>]

Elapse ==
  /\ instant < MaxTime /\ (began # 0 => instant - began < MaxStall)
  /\ \E b \in Burns : used' = Append(used, used[instant] + b)
  /\ instant' = instant + 1
  /\ UNCHANGED <<source, began, msr, pdh, fanRead, fanCache, rounds, health, rings>>

\* The instants at which the n calls of the round under way read, and the last one returns.
Moments(n) ==
  {m \in [1..n + 1 -> began..instant] : \A i \in 1..n : m[i] <= m[i + 1]}

\* MetricSample::fresh: a sample says when it was made; `since` is for the properties.
Fresh(value, at) == [at |-> at, value |-> value, since |-> began]

PushedOn(ring, sample) ==
  Append(IF Len(ring) = RingCapacity THEN Tail(ring) ELSE ring, sample)
Push(samples) ==
  rings' = [m \in Metrics |-> IF m \in DOMAIN samples THEN PushedOn(rings[m], samples[m])
                                                      ELSE rings[m]]
Keep(samples, ms) == [m \in ms |-> samples[m]]
When(condition, metric) == IF condition THEN {metric} ELSE {}

EnergyRaw(t) == (Started + used[t]) % Counter
DeltaEnergy(prev, raw) == (raw - prev) % Counter

\* A rate: the work counted over a time, with the instants of the two readings and how
\* long after the ends of that time they were taken.
Rate(work, time, prev, upto, late) ==
  [work |-> work, time |-> time, from |-> prev.read, upto |-> upto,
   late |-> late + (prev.read - prev.at)]

\* Over the time since the round of the reading before, which the clock was asked for at
\* its beginning; none on the first, and none in no time.
PowerFrom(prev, t) ==
  Rate(DeltaEnergy(prev.work, EnergyRaw(t)), began - prev.at, prev, t, t - began)
HasPower(prev) == prev.at # 0 /\ began > prev.at

\* MPERF is the time here, and it is read before APERF.  A ratio outside its range, or of
\* a counter that stood still, is no clock.
ClockFrom(prev, t, u) == Rate(used[u] - prev.work, t - prev.at, prev, u, u - t)
HasClock(prev, c) == prev.at # 0 /\ c.time # 0 /\ c.work # 0 /\ c.work <= 3 * c.time

Repushes(tick) == tick = 1 \/ tick % RepushTicks = 0

\* The readings the next round starts from: those of this one, where there are any.
Remembered(outage, m) ==
  [energy |-> IF "energy" \in outage THEN msr.energy
              ELSE [at |-> began, read |-> m[2], work |-> EnergyRaw(m[2])],
   perf   |-> IF outage \cap {"mperf", "aperf"} # {} THEN msr.perf
              ELSE [at |-> m[3], read |-> m[4], work |-> used[m[4]]]]

\* The package's thermal status falls back on the core's; a reading that is not valid
\* is none.  The supplementary PL4 channel never changes the provider's health.  Each
\* sample is dated before the next call.
CpuRound(outage) ==
  /\ source = "pawnio"
  /\ \E m \in Moments(6) :
       LET thermal == ~({"pkgTherm", "coreTherm"} \subseteq outage)
           clock   == ClockFrom(msr.perf, m[3], m[4])
           samples == [pkgTemp  |-> Fresh(m[1], m[2]), tjMax |-> Fresh("static", m[5]),
                       pkgPower |-> Fresh(PowerFrom(msr.energy, m[2]), m[3]),
                       clock    |-> Fresh(clock, m[5]),
                       limits   |-> Fresh(m[5], m[6]), pl4 |-> Fresh(m[6], m[7])]
       IN  /\ msr' = Remembered(outage, m)
           /\ Push(Keep(samples,
                   When(thermal /\ "invalid" \notin outage, "pkgTemp")
                   \cup When("energy" \notin outage /\ HasPower(msr.energy), "pkgPower")
                   \cup When(outage \cap {"mperf", "aperf"} = {} /\ HasClock(msr.perf, clock),
                             "clock")
                   \cup When(Repushes(rounds), "tjMax")
                   \cup When("limit" \notin outage, "limits")
                   \cup When("mchbar" \notin outage, "pl4")))
           /\ health' = IF thermal /\ outage \cap {"energy", "mperf", "aperf", "limit"} = {}
                        THEN "ok" ELSE "degraded"
  /\ UNCHANGED <<pdh, fanRead, fanCache>>

\* NvidiaGpu::sample: power comes from NVML, else from the power topology; without
\* temperature and utilization the whole sample is refused.
NvmlReads(outage) == "nvml" \notin outage
TopologyReads(outage) == "topology" \notin outage
ThermalReads(outage) == "thermal" \notin outage
UtilizationReads(outage) == "util" \notin outage

GpuSampled(outage) == ThermalReads(outage) \/ UtilizationReads(outage)

\* Power first, then the temperature, and the limit last; the collector dates all of them
\* when the whole sample is there.
GpuRound(outage) ==
  /\ source = "nvapi"
  /\ \E m \in Moments(3) :
       LET samples == [gpuPower |-> Fresh(m[1], m[4]), gpuTemp |-> Fresh(m[2], m[4]),
                       gpuLimit |-> Fresh(m[3], m[4])]
       IN  Push(IF ~GpuSampled(outage) THEN <<>>
                ELSE Keep(samples,
                          When(ThermalReads(outage), "gpuTemp")
                          \cup When(NvmlReads(outage) \/ TopologyReads(outage), "gpuPower")
                          \cup When(NvmlReads(outage) /\ Repushes(rounds), "gpuLimit")))
  /\ health' = IF GpuSampled(outage) THEN "ok" ELSE "degraded"
  /\ UNCHANGED <<msr, pdh, fanRead, fanCache>>

\* The API computes a rate between two collects, and none over no time: the first has
\* nothing before it, and one whose memory status then fails still counts as collected.
PdhPrimed == pdh.primed
RateOf(t) ==
  Rate(IF pdh.at = 0 THEN 0 ELSE used[t] - used[pdh.at], t - pdh.at,
       [at |-> pdh.at, read |-> pdh.at], t, 0)
PdhRound(outage) ==
  /\ source = "pdh"
  /\ \E m \in Moments(2) :
       LET samples == [rate |-> Fresh(RateOf(m[1]), m[3]), memory |-> Fresh(m[2], m[3])]
       IN  /\ pdh' = IF "collect" \in outage THEN pdh ELSE [primed |-> TRUE, at |-> m[1]]
           /\ Push(IF outage \cap {"collect", "memory"} # {} THEN <<>>
                   ELSE Keep(samples,
                             {"memory"}
                             \cup When(PdhPrimed /\ m[1] > pdh.at /\ "counter" \notin outage,
                                       "rate")))
  /\ health' = IF outage \cap {"collect", "memory"} = {} THEN "ok" ELSE "degraded"
  /\ UNCHANGED <<msr, fanRead, fanCache>>

\* One read each, whole or not at all.
PowerRound(outage) ==
  /\ source = "power"
  /\ \E m \in Moments(1) :
       Push(IF "read" \in outage THEN <<>> ELSE [battery |-> Fresh(m[1], m[2])])
  /\ health' = IF "read" \in outage THEN "degraded" ELSE "ok"
  /\ UNCHANGED <<msr, pdh, fanRead, fanCache>>

PpmRound(outage) ==
  /\ source = "ppm"
  /\ \E m \in Moments(1) :
       Push(IF "read" \in outage THEN <<>> ELSE [policy |-> Fresh(m[1], m[2])])
  /\ health' = IF "read" \in outage THEN "degraded" ELSE "ok"
  /\ UNCHANGED <<msr, pdh, fanRead, fanCache>>

\* FanCache::read: an attempt that is young answers with what it has, a failure too; a new
\* one dates its sample before it reads.
Young(t) == fanCache.tried # 0 /\ t - fanCache.tried < FanInterval
FanAttempt(t, sample) == [tried |-> t, sample |-> sample]

\* The sample keeps the actor's date, and a round too soon after it does nothing.  A call
\* that is given up may have been served.
FanStamp_now(at) == instant
FanStamp(at) == at
Throttled == fanRead # 0 /\ began - fanRead < FanInterval
FanRound(outage) ==
  /\ source = "fans"
  /\ \E m \in Moments(2) :
       LET read   == [at |-> m[1], value |-> m[2]]
           answer == IF Young(m[1]) THEN fanCache.sample
                     ELSE IF "read" \in outage THEN NoFanSample ELSE read
           failed == answer = NoFanSample
       IN  /\ Throttled \/ m[1] >= fanCache.tried
           /\ IF Throttled THEN UNCHANGED fanCache
              ELSE fanCache' \in IF Young(m[1]) THEN {fanCache}
                                 ELSE {FanAttempt(m[1], answer)}
                                      \cup (IF failed THEN {FanAttempt(m[1], read)} ELSE {})
           /\ IF Throttled \/ failed THEN Push(<<>>) /\ UNCHANGED fanRead
              ELSE /\ fanRead' = answer.at
                   /\ Push([fan |-> Fresh(answer.value, FanStamp(answer.at))])
           /\ health' = IF Throttled THEN health ELSE IF failed THEN "degraded" ELSE "ok"
  /\ UNCHANGED <<msr, pdh>>

\* The coordinator of fan control reads through the same actor.
OtherFanRead ==
  /\ source = "fans" /\ ~Young(instant)
  /\ fanCache' \in {FanAttempt(instant, s) :
                    s \in {NoFanSample, [at |-> instant, value |-> instant]}}
  /\ UNCHANGED <<instant, used, source, began, msr, pdh, fanRead, rounds, health, rings>>

\* Cadence and refreshes alone decide when a round runs.
RoundBegins ==
  /\ began = 0 /\ rounds < MaxRounds
  /\ began' = instant /\ rounds' = rounds + 1
  /\ UNCHANGED <<instant, used, source, msr, pdh, fanRead, fanCache, health, rings>>

RoundEnds ==
  /\ began # 0 /\ began' = 0
  /\ \E outage \in Outages :
       CpuRound(outage) \/ GpuRound(outage) \/ PdhRound(outage)
       \/ PowerRound(outage) \/ PpmRound(outage) \/ FanRound(outage)
  /\ UNCHANGED <<instant, used, source, rounds>>

SensorNext == Elapse \/ RoundBegins \/ RoundEnds \/ OtherFanRead

SensorSpec == SensorInit /\ [][SensorNext]_sensorVars

-----------------------------------------------------------------------------
(* Properties *)

\* What was counted between two readings, the second in the round that dates the sample,
\* over the time between them up to what the two calls waited: exactly that time when
\* neither did.
CoversItsTime(s) ==
  LET v == s.value IN
    /\ v.from <= v.upto /\ v.upto \in s.since..s.at
    /\ v.work = used[v.upto] - used[v.from]
    /\ v.time \in (v.upto - v.from - v.late)..(v.upto - v.from + v.late)

\* No old value under a new date, which would keep the watchdog of manual fan control
\* quiet: a sample was read in the round that dates it, rates and counters too, and the
\* fans' levels, which may come from the actor's cache, never before their date.
SamplesAreTrue ==
  \A m \in Metrics : \A s \in ToSet(rings[m]) :
    CASE m \in {"pkgPower", "clock", "rate"} -> CoversItsTime(s)
      [] m = "tjMax" -> TRUE
      [] m = "fan"   -> s.at <= s.value
      [] OTHER       -> s.value \in s.since..s.at

=============================================================================
