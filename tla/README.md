# Verification of phelper

phelper controls fans, thermal mode, power limits, GPU platform policy, the display MUX
and CPU policy of HP laptops on Windows, and schedules processes by rules and on battery.
It writes firmware states that the firmware may take back, that outlive a crash, and that
can overheat a machine. This project models the parts of the program that decide, carry
out, confirm and undo those writes, and the threads and queues between them; TLC checks
the models and TLAPS proves the main invariants.

Paths below are relative to the repository; `core/` stands for
`crates/phelper-core/src/`.

## 1. The system

| part | state it keeps | operations | interacts through |
|---|---|---|---|
| control coordinator, `core/control/coordinator.rs` | observed state, `*_dirty` flags, scoped session, active plan, control epoch | accept a command, advance a plan by one write or readback, safety tick, fan curve, heartbeat, restore, shutdown | bounded request channel, HP actor, recovery file |
| safety supervisor, `core/control/safety.rs` | `override_saved` | `evaluate`, `validate`, `note_user_fan_mode`, `retain_override` | called by the coordinator |
| keep-alive, `core/control/keepalive.rs` | next due time, failures in a row | reschedule, success, failure | called by the coordinator |
| recovery ledger, `core/control/recovery.rs` | one JSON record on disk | open, save (atomic replacement) | coordinator, next process |
| deferred verification, `core/control/verification.rs` | target, polls left | poll | active plan |
| HP WMI actor, `core/platform/hp_wmi/actor.rs` | FIFO of envelopes, cancel flags | call with a 5 s timeout, run | one thread for the firmware |
| fan curve, MUX lifecycle, journal, lease, drift (`core/control/`) | last target; pending reboot; log; kernel object | | coordinator, engine |
| automation worker, `core/automation.rs` | active session, pending transition, manual generation | begin and end sessions, pause on manual use, shutdown | control queue, scheduler |
| automatic scheduler, `core/automatic_scheduler.rs` | power source, managed processes | confirm the source, reconcile, restore | OS policy |
| OS policy, `core/platform/windows_os_policy.rs` | baselines, active policies with owners | apply, restore, discard | one mutex |
| power schemes, `core/platform/windows_ppm.rs` | (Windows) | read and write knobs of the active scheme | coordinator |
| telemetry, `core/telemetry/` | sample store, subscribers | collect, publish | bounded channels; `ThermalFeed` of the coordinator |
| app runtime, `core/app/` | pump, coalescer, UI state | one slot per knob, Busy retry | control queue |
| engine, `core/engine.rs` | which parts run | start, shutdown with deadlines | all of the above |
| profiles, `core/profiles.rs` | built-ins and the files of a directory | load, expand to steps | coordinator, app runtime |
| capability, `core/capability/` | what each domain may do | probe, merge with the board's profile | gate of every write |
| desktop, `apps/desktop/` | one window, one tray icon | launch, wake, hide, quit | named event and mutex |
| persistence, measurements, OGH watch, CLI, installer | | | |

Behaviours that are hard to test: a crash between saving an obligation and the write it
is for; a write that times out and lands later; a restore that fails for one channel of
a domain; a restore between two steps of a plan; an override racing a readback; a
heartbeat that re-asserts what was given back; a session whose power scheme changed;
requests at the limit of a queue; a manual take-over racing a transition of the
automation; process ids reused under an owned policy; a power source that flips while it
is confirmed; a sample dated newer than its value; a display switch that no boot
confirmed; two desktops that start together. Each one is listed with its line under
`hazards` in `PROJECT.json`, with the properties that cover it; the one without a
property says why.

What makes the parts correct:

- coordinator and ledger: whatever is changed can be restored after a crash; what was
  restored is not taken over again; an overtaken plan writes nothing;
- safety: heat under held fans ends in max fan, which stays on until it is safe;
- sessions: an automatic session never loses its baseline nor writes it elsewhere;
- automation, scheduler, OS policy: manual settings win; nothing owned stays behind;
- actor: a request cancelled in the queue never runs; a readback offered as confirmation
  is younger than the write;
- values: what is dropped from the ledger really has its old value, through every
  rounding and sentinel; what is reported as applied is in force;
- queues and telemetry: every click is decided, a slow reader blocks nobody, shutdown
  ends in order.

## 2. Modules

| module | models | composed with |
|---|---|---|
| `HpFirmware` | five write channels behind the actor, the three ways a call ends (accepted, refused, unknown), late landing, the firmware taking its states back | |
| `SafetySupervisor` | `evaluate()`, `note_user_fan_mode()` and the fan gate of `validate()`, as operators over classes of samples | |
| `ControlCoordinator` | the thread: commands, plans, restore, safety tick, heartbeat, sessions, crash and restart | `HpFirmware`, `SafetySupervisor` |
| `WriteAheadLedger` | what the recovery record is for, as an abstract specification | instance of `ControlCoordinator` |
| `HpActor` | the firmware thread: FIFO, five-second timeout, cancel flag, fan cache, panics, shutdown | `HpFirmware`'s variables |
| `FirmwareCalls` | the part of `HpFirmware` a caller relies on, as an abstract specification | instance of `HpFirmware` |
| `HpTransport`, `LimitWrites` | method shapes, retries and return codes of a write; power limits and GPU policy from capture through encoding to the restore's readback | `LimitWrites` extends `HpTransport` |
| `FanCurve` | the gate of a curve, interpolation, smoothing, ramps and one write a second, failed writes and hand-backs, over one firmware | |
| `CpuPolicy` | a CPU policy knob by knob and rail by rail over the stored schemes | |
| `MuxLifecycle` | the display switch and its record over boots and BIOS versions | |
| `ControlJournal` | append, limit, rotation, crash, reopen | |
| `Capability` | the probe's reads over the board's profile, and what the gate lets through | |
| `WriterLease` | the kernel object, the scan, start and teardown of processes | |
| `Sensors` | what each collector makes of its provider, and the ring of each metric | |
| `ProfileStamp` | the name of the profile shown as active, through plans, sessions and drift | |
| `Resident` | the one desktop window: event, mutex, listener, loop, elevation | |
| `ControlQueue` | the coordinator's bounded channel and loop as its clients see them | |
| `AutomationWorker` | the rules thread: sessions, transitions, manual generation | |
| `Application` | the pump and the coalescer of the desktop | `ControlQueue`, `AutomationWorker` |
| `OsPolicy` | the process-policy ledger: owners, baselines, apply, rollback, restore, discard | |
| `BatteryScheduler` | the worker that applies it on battery, and the user at the same ledger | `OsPolicy` |
| `Telemetry` | collector threads, publication, subscribers, refresh, panics | |
| `Engine` | teardown of telemetry, control, actor and lease with their deadlines | `Telemetry` |
| `MCControlCoordinator`, `MCBatteryScheduler`, `MCApplication`, `MCEngine` | instances of the above | |
| `MCParts` | an instance of the parts that stand alone: `HpActor`, `MuxLifecycle`, `ControlJournal`, `CpuPolicy`, `FanCurve`, `LimitWrites`, `Capability`, `WriterLease`, `Sensors`, `ProfileStamp`, `Resident` | all of these |
| `ControlCoordinator_proofs`, `HpActor_proofs`, `CpuPolicy_proofs`, `BatteryScheduler_proofs`, `Application_proofs` | theorems, section 4 | the module they are named after |
| `ControlLedger_proofs` | theorems about the ledger, the override and the sessions | `ControlCoordinator_proofs` |
| `Lifetimes_proofs` | theorems about the lease, the teardown, the notifications and the window | `WriterLease`, `Engine`, `Resident` |
| `Parts_proofs` | theorems about the parts that stand alone | `MuxLifecycle`, `ControlJournal`, `Capability`, `Sensors`, `ProfileStamp`, `LimitWrites`, `FanCurve` |

Every definition that stands for code is listed in `PROJECT.json` with the lines it
stands for. Names follow the source; a name with a trailing underscore avoids one that
another part has.

### State and code of the coordinator

| variable | code |
|---|---|
| `hw`, `stuck`, `doubt` | the firmware; a timed-out request the actor is executing; a history variable: why the ledger need not know a fan channel |
| `cpu`, `scheme` | policy stored in every Windows power scheme; the active one |
| `sensor` | class of the `ThermalFeed` samples (age against 5 s and 90 s, value against 85 and 90 °C) |
| `disk`, `prev`, `foreign` | recovery file; `previous_recovery`; its board or BIOS differs |
| `obs`, `dirty`, `scope` | `ObservedState`, the four `*_dirty` flags, `scoped_session` |
| `override`, `keepalive` | `override_saved`; heartbeat scheduled and failures in a row |
| `active` | `ActivePlan`: steps, index, `restore_scope_steps`, `waiting` with polls left; `stale` is "epoch differs from `control_epoch`"; `moved` is history: the scheme was switched during the plan |
| `pc`, `frame` | position inside a handler and its locals; `frame.moved` is history: the scheme was switched between the restore's check of it and the writes |

`pc = "loop"` is the point between two handlers of `run()`. Inside a handler there is
one step per call that can fail or be cut off: a ledger save or a firmware write, with
everything the code does up to the next such call. A crash can happen at any of these
points, and the user can switch the power scheme at any of them. A session records the
active scheme or, where it could not be read, none (`NoScheme`), which every later check
lets pass. The sections of the module follow the functions: `begin_plan` (`BeginDirect`,
`BeginScoped`, `BeginUnscope`, `BeginSession`), `advance_plan` (`Advance*`,
`Readback*`, `PlanApplied`, `FinishPlan`), `exec_*` (`Own`, `Set`, `Auto*`, `MaxOn`,
`Held*`, `ExecCpu`, `ExecSession`), `restore_firmware_auto` (`Restore*`), `tick` and
`run_safety_action` (`Tick*`, `ForceMax`, `Release*`, `Rearm`, `CurveWrite`),
`run_heartbeat` (`Heartbeat*`). `PROJECT.json` maps every definition to its lines.

### State and code of the other modules

| module | variables | code |
|---|---|---|
| `HpActor` | `fifo`, `cur`, `actor` | the actor's channel, the envelope it works on, its thread |
| | `call`, `cache`, `landing` | the caller's reply channel and deadline; the cached fan levels with their time; history: which timed-out write is still to land |
| `HpTransport` | `firmware`, `hpCall`, `misses` | limits, GPU bytes of the firmware; the attempts of one write; bound of transport errors |
| `LimitWrites` | `feed`, `owed`, `doing`, `before`, `doubted` | MSR and MCHBAR samples; dirty flags with captured baselines; the position in exec or restore; history: firmware values before the first write, domains of which a rejected attempt landed |
| `FanCurve` | `fans`, `maxFan`, `fanMode`, `fanDirty`, `curve`, `ctl`, `temps`, `faults` | the firmware's levels; max fan as it is ("stray": left on by a failed call) and as it is observed; observed mode; the obligation; the running curve; `FanCurveController`; the feed; bound of failures |
| `CpuPolicy` | `power`, `writable`, `seen`, `batch`, `outcome`, `others` | values per scheme, knob and rail with the active scheme; probed knobs; `ObservedState.cpu_policy`; position in the batch; what the plan reports; history: what somebody else did |
| `MuxLifecycle` | `mux`, `muxDisk`, `muxUp`, `lifecycle`, `switched`, `proof` | the hardware; the JSON record; whether the process runs; `MuxLifecycle` in memory; history: the mode before the switches no boot has confirmed, and the boots in which each mode was asked for and reported |
| `ControlJournal` | `active`, `backup`, `handle`, `written`, `torn`, `cuts` | the two files with their lines (`open`: the last one has no end yet), the open handle; history: all entries so far, how many were cut short and after which |
| `Capability` | `probe`, `caps`, `shown` | reads left and done; `CapabilitySet`; history: what the firmware really answered |
| `WriterLease` | `app`, `handles`, `writers` | stage of `Engine::start` or of the teardown; handles of the kernel object; control threads |
| `Sensors` | `instant`, `used`, `source`, `began`, `msr`, `pdh`, `fanRead`, `fanCache`, `rounds`, `health`, `rings` | the clock and the work done by each instant; the collector, when its round under way began, and its memory; the actor's cache; `ProviderStatus`; `TelemetryStore` |
| `ProfileStamp` | `machine`, `astray`, `lastSet`, `desired`, `activeName`, `scope`, `plan`, `moves` | knobs; history: those moved by others; `DesiredState`; `active_profile`; session; plan; bound |
| `Resident` | `stage`, `mutex`, `event`, `signalled`, `desktop`, `wish` | progress of `main`; handles; the event; threads and window; history: a launch that wants the window |
| `ControlQueue` | `chan`, `queued`, `plan`, `session`, `registry`, `stage`, `reply` | the bounded channel, requests put aside during a plan, active plan, `scoped_session`, published profiles, the thread, answers |
| `AutomationWorker` | `w`, `mail`, `moved` | the worker's locals and its channel; environment of the rules |
| `Application` | `u` | pump and `Coalescer` |
| `OsPolicy` | `alive`, `born`, `os`, `gpu`, `baseline`, `active`, `gpuBase`, `retry`, `before`, `strays`, `lost`, `faults` | Windows' processes and their settings; `Inner`'s maps; what the request that holds the mutex captured; history: processes written as another one's, processes discarded while alive; bound of failing calls |
| `BatteryScheduler` | `source`, `w`, `user` | the power source; the worker; the user's call |
| `Telemetry` | `worker`, `wake`, `pending`, `commands`, `coord`, `store`, `reader`, `mark`, `overdue` | threads and channels; the flag; the coordinator's thread; samples; a subscriber; history: the sample that is followed, whether a join timed out |
| `Engine` | `engine`, `control`, `actor` | stage of `shutdown`; two threads |

A step of a module is what a thread does between two points at which another thread can
act, a call can fail or the process can end. A check of one thread on a snapshot and the
action on it are therefore two steps wherever the code does not hold a lock over both
(the scan of `BatteryScheduler`, the loop of `AutomationWorker`, the launch in
`Resident`). The mutex of `OsPolicy` keeps the other thread out and not the processes:
a request opens its process by id for the capture, again for the write and again for the
rollback, which are steps of their own between which the id may be reused; a restore
checks and writes through one handle and is one step.

### What is abstracted in the coordinator

- A channel value is "base" (before the session) or "user". Levels, watts and policy
  fields differ only in this.
- Clocks: heartbeats, ticks and polls may be due whenever the loop could run them, so
  every order of them is covered, impossible ones included.
- The request queue: any request may arrive whenever the loop would take one. Which
  caller waits, and Busy, are not modelled.
- Samples change between handlers, not inside one. The one place where the code looks
  twice inside a handler (the curve's second temperature check) is a nondeterministic
  failure.
- The numeric envelopes of `validate()` appear as a refusal that may happen to any power
  or CPU step when it is due; capabilities are those of a supported board.
- A fan readback may match any speed, since RPM within 1000 of the target is a match.
- A CPU policy is one value; a failing batch leaves it old or new.
- Journal, notices, desired state and the profile stamp are left out: no control
  decision reads them. MUX, `RefreshObserved` and `ReplaceProfiles` are left out too.
- On restart, the first observation is "unknown" for fan, max fan, thermal and power.

MUX, CPU policy, the values of limits and GPU policy, the profile's name, the curve and
the queue have modules of their own, in which the coordinator appears reduced to what
concerns them. That the reductions agree with `ControlCoordinator` is by reading, except
for the firmware thread, where it is a theorem (section 4).

### What is abstracted in the other modules

- `HpActor`: the firmware takes nothing back by itself; two callers, the coordinator and
  the fan collector, with one call each at a time.
- `HpTransport`, `LimitWrites`: the firmware does not change limits by itself; a sample
  and its stamp are one step; there are no samples during a call; the D-state drifts
  only while something is owed; the gate's freshness, which only refuses, is left out;
  deferred verification of a plan is in `ControlCoordinator`. Watts come in eighths.
- `FanCurve`: whole degrees, a smoothing distance below one degree is none; temperatures
  below the override; a failing write lands, if it does, before the controller goes on.
  `ControlCoordinator` has late landings, and fans without a curve's levels.
- `CpuPolicy`: in the instance a snapshot reads all knobs or fails as a whole; the
  boost field that sets both rails is `boostBoth`.
- `Capability`: knobs are readable as one set per pair of rails; the parts of the fan
  gate about overrides and freshness are in `SafetySupervisor`.
- `WriterLease`: a desktop started with `--read-only` is no desktop here; an engine that
  is dropped without shutdown is left out.
- `Sensors`: a reading is the instant it was taken at; one collector per behaviour. A
  round has a beginning and an end; its calls read in their order at instants between the
  two and a sample is dated when they have returned. What they read is only the clock and
  the work, so the step that ends the round chooses these instants. PDH computes its rates
  itself; metric quality is left out; the energy counter wraps but is never reset.
- `ProfileStamp`: write and readback of a step are one step; definitions are fixed while
  a behaviour lasts.
- `Resident`: the autostart task's own operations, read-only instances (names of their
  own) and a crash of the owner are left out; several signals collapse to one, as they do
  in the event.
- `ControlQueue`, `AutomationWorker`, `Application`: `RefreshObserved`, captures for
  measurements and the published view state are left out; a session adopted from an
  earlier record appears only as a close.
- `OsPolicy`: a thread with a policy of its own behaves like a process; the writes to one
  opened process are one step; one executable, so that two processes sharing one GPU
  preference is a hazard without a property.
- `Telemetry`, `Engine`: one subscriber; refreshes and subscriptions happen while the
  engine runs; swapping the flag and sending are one step; the sample that is followed
  counts only for a subscriber who is present.

### Not modelled

OGH watch and identity (reads processes and SMBIOS; its effect on control, the firmware
taking a state back, is in `ControlCoordinator`); measurements and smoke tests
(diagnostics that read and print, over the queue that `ControlQueue` models); the command
line (a front end over the same engine); the pages of the desktop and the installer; the
encoding of firmware commands other than limits, GPU policy and MUX, COM objects, TOML,
units and PDH paths. They are input and output without a protocol of their own.

## 3. Runs

| run | instance | question |
|---|---|---|
| `MCFans` | eight sample classes; plans auto, curve, max then manual | does the ledger cover the fans, is what the heartbeat keeps alive still owed back, does an overtaken plan stay quiet, does an override hold max fan |
| `MCDomains` | thermal; power then GPU; two polls | does the coordinator implement `WriteAheadLedger`, for domains with and without readback, rejections included |
| `MCSession` | one session over CPU and power, CPU commands, two schemes | is a session durable, is an old record kept, does a closed session have its CPU policy back |
| `MCLive` | cool and hot, max then manual, fairness | do plans end, does heat engage an override, is a failed max-fan write retried until it works |
| `MCPolicy` | one process id, two processes behind it, one failing call, a user | does every process get back what it had, does the user's choice win over the scheduler's snapshot, is nothing of an earlier process written to the one that has its id, does the scheduler follow the power source |
| `MCClients` | channel of depth one, two sessions, one knob, one profile | does the worker know each open session, is its last restore the last thing that happens, does a manual take-over end the session, is every click decided, does shutdown end |
| `MCEngine` | two collectors, one refresh | are parts torn down after their users, does every sample reach a reader, do all threads stop |
| `MCParts` | one part per behaviour, bounds below | the fourteen properties of the parts |
| `DocWritesAreSavedFirst`, `DocUnknownOutcomeKeepsRecord`, `DocUnfinishedRestoreKeepsRecord`, `DocTrackedIsScheduled` | cool and hot, plans as in `MCFans` | statements of the documentation the code does not keep, section 6 |

The properties of `MCParts`:

| property | part | says |
|---|---|---|
| `KeepsFirmwarePromises` | `HpActor` | the thread with its queue and timeouts implements `FirmwareCalls` |
| `ReadbackIsOfTheWrite` | `HpActor` | a cached readback is never offered for a write that came after it |
| `DroppedIsGivenBack` | `LimitWrites` | an obligation that is dropped left the firmware as it was before |
| `AppliedIsInForce`, `MinimumBelowMaximum` | `CpuPolicy` | what a plan reports is true; two bounds set one at a time never cross |
| `CurveSettles` | `FanCurve` | steady temperatures bring the fans to the levels of the curve for them, and max fan does not lie over them unseen |
| `UnconfirmedSwitchIsRecorded`, `WritableIsProven` | `MuxLifecycle` | a switch no boot confirmed is on disk with its way back; the desktop may write only when each mode was reported by a boot later than a request for it, one of them on a request made from the other mode |
| `LatestEntriesKept` | `ControlJournal` | rotation and crashes lose only the oldest entries, torn ones and the ones that joined a torn line |
| `UsableIsProven` | `Capability` | what the gate lets through is in the profile and was proved by a read |
| `OneWriter` | `WriterLease` | at most one process runs a control thread |
| `SamplesAreTrue` | `Sensors` | a sample was read in the round that dates it, a rate is the work between its two readings over their distance up to what the calls waited, fan levels are not older than their date |
| `StampIsTrue` | `ProfileStamp` | the profile shown as active is in force, knobs moved by others excepted |
| `WakeIsKept` | `Resident` | a launch that found the desktop is shown by it, or that desktop ends |

### Bounds

`Plans` fix the step sequences, not how many plans run: any number of them, in
any order, with any number of crashes, restarts and restores. Two steps are the shortest
plan in which something can happen between two writes. One session id is enough for an
open session to be unrelated to a command; a second one only adds a refusal. Two schemes
let the active scheme be the wrong one. `VerifyPolls` is the number of readbacks; with
two of them both "again" and "the last one" happen. Heartbeat failures are capped at two,
where the code fails closed and never looks further. The sample classes left out of a run
lead to the same decisions as one that is in it: `MCFans` has all of them except `warm`,
which differs from `cool` by releasing nothing and from `gpuHot` by engaging nothing.
The proofs have none of these bounds.

`MCPolicy`: one id is enough for reuse, since entries of different ids share only the
GPU preference; two processes behind it make one capture, one exit and one reuse; one
failing call may hit the apply, its rollback or a restore, and with a failed apply the
target is retried, so the second chance happens without a second fault.
`MCClients`: at depth one each queue is full after one request, so every Busy answer of
the code (32 deep) occurs; two session ids are one transition from an old session to a
new one; a user may click, save and configure at any time, and saves again only when no
command from before the save before is queued.
`MCEngine`: one collector that goes through the HP actor and one that does not are the
two that the teardown treats differently; one refresh may be under way when it starts.
`MCParts`: a FIFO of two holds one call under way and one behind it; three boots with two
BIOS versions are a switch there, a switch back and the boot that reports it; a
journal of three entries with nine appends rotates twice, with two entries cut short; two schemes, two levels, one foreign change; one transport error over up to three
shapes of a write, two polls; three processes of which two are desktops; a four-bit
energy counter that starts at 14 and therefore wraps, four instants and three rounds, of
which one may last from one instant to the next, so that rings of two drop samples and
two re-pushes happen; one move by somebody else; two curve failures, each of
which may take the hand-back and its fallback with it; three launches of which two in the background. The proofs of section 4
have no bound that the code does not have, except the bounds that are constants of a
module, which they take as arbitrary.

### Fairness

`ControlCoordinator`. `WF(Inside)`: a handler is straight-line code, and a firmware call
returns after at most five seconds. `SF(Advance)` and `SF(Tick)`: every iteration of
`run()` advances the active plan, and the safety deadline is absolute, so both occur
again and again however many requests are queued; strong fairness because handlers of
the other kind disable them in between. Nothing is assumed of the environment: no write
ever has to succeed, no request to arrive, no process to be restarted. Only
`OverrideReachesMax` supposes, inside the formula, that the max-fan write does not fail
for ever.

`BatteryScheduler`: weak fairness for the rest of a user's call, which never waits once it
has the mutex and therefore returns it; strong for the worker's steps, since the user's
calls take the mutex in between and it is given to who waits for it; strong for the three
due branches of its loop, because messages may go first but deadlines are absolute and
stay due. `Application`: each thread runs (weak fairness for what a thread does
next); strong for the worker's selection and dispatch and for the pump's sweep, dispatch
and replacement, since other messages may be handled before each of them.
`ManualTakesOver` and `ClicksAreDecided` suppose, inside the formula, that the user
comes to rest. `Telemetry` and `Engine`: every thread runs, the engine's teardown goes
on, a subscriber reads; nobody has to refresh, subscribe or leave. `FanCurve`: ticks,
seconds and heartbeats keep coming; `CurveSettles` supposes steady temperatures and a
curve that stays, and the bound on failures lets them end. The environment (processes,
power, writes, users) is never obliged to do anything.

`CHECK_DEADLOCK FALSE` stands where a program really ends: after shutdown in `MCPolicy`,
`MCClients`, `MCEngine` and in parts of `MCParts`, which also stop at their bounds.

Every property of a passing run has a mutant, an operator next to the definition it
changes, that makes the run fail; they are plausible slips (a domain taken as restored
after one of its channels, a gate that looks at samples only, a retry left out, a cached
value under the date of now).

## 4. Proofs

### The coordinator

`ControlCoordinator_proofs` proves `Spec => []TypeOK` for all plans, schemes, sessions
and poll counts. `TypeOK` alone is not inductive: a step's effect depends on what `pc`,
`frame` and `active` say together (a position inside a plan's step implies a plan with
that step, a restore's origin fits the handler it came from). `ControlOK` says so and
`TypeInv == TypeOK /\ ControlOK` is inductive.

`ControlLedger_proofs` proves, for the same constants,

- `LedgerAlwaysCovers`, `TrackedAlwaysOwned`, `EarlierRecordAlwaysKept`,
  `SessionAlwaysDurable`, `StalePlanNeverWritesHolds`: the five safety invariants;
- `OverrideAlwaysHoldsMax`: the action property, from the same invariant.

The invariant `IInv` has four parts. `StuckDoubted`: a stuck fan write is in doubt.
`LedgerInv`: what the hardware holds is on disk (`OnDisk`), what a running process
changed is in memory or in the adopted record (`InMemory`), what memory owes is on disk
wherever no save is outstanding (`DirtyOnDisk`), and the same for sessions. `ObsInv`:
what is observed as off, automatic, held or on says something about the hardware or the
obligations. `PointInv`: what holds at the points inside a handler, for instance that a
restored channel really is at its base value before its domain is dropped, or that an
obligation is on disk at every point from which a ledgered write is issued. The last two
are why the ledger invariant needs the observed state: `restore_firmware_auto` skips the
0x27 write on the strength of `max_fan = false`.

The proof has one step per action and, under it, one per conjunct the action can
disturb; facts about the operators are lemmas of their own. The assumptions are the four
named ASSUMEs of `ControlCoordinator`: plans are nonempty sequences of steps, there is a
scheme and a sample class, and a verification polls at least once.

### The firmware thread implements what the coordinator relies on

`HpFirmware` gives the coordinator calls that end in one of three ways and may land
later. `FirmwareCalls` is that behaviour as a specification, and `HpActor_proofs` shows
that the thread in `core/platform/hp_wmi/actor.rs` implements it:
`ActorKeepsFirmwarePromises`. The mapping is on `hw`: a channel whose new value the
caller has not been told of, and still waits for, shows its old one (`Known`). The
invariant behind it, `ActorInv` (`RequestsAndLandingsMatch`), says which envelope
belongs to which call, that an envelope whose caller gave up is cancelled or already at
work, that at most the envelope at work can still land, and that an answer fits what was
written. Each step of the thread is then a call's end, a landing or a stutter.
`ReadbackIsAlwaysOfTheWrite` adds that the cached levels belong to the time they carry
(`LevelMatches`).

### The coordinator is a write-ahead ledger

`WriteAheadLedger` says what the recovery record is for and nothing of how a handler
works: writes reach only what the file names (`Work`), the file is replaced in steps that
write nothing to the hardware (`Save`), a process that ends leaves the file as it is
(`Close`), the next one takes the whole record over before it writes (`Adopt`), and the
hardware may take a state back at any time (`Fade`). From these five steps alone follows
`Recoverable`: all that was touched is in the file, and a running process owes all of it
(`WriteAheadLedgerRecovers`).

`CoordinatorIsWriteAheadLedger` shows that `ControlCoordinator` implements it. The mapping
takes for touched the domains whose firmware state is not the one before the session and
that the ledger vouches for, for recorded the domains of the file, for owed the dirty
flags, and for open a running process with no earlier record pending. With `IInv` at hand
each step of the coordinator is one of the five, for no step changes the file and writes
to the hardware: a firmware write with its bookkeeping is `Work`, a save
`Save`, a crash or the end of a process `Close`, the restore that takes over an earlier
record, or a restart that finds none, `Adopt`, and what the firmware takes back while
no process may write `Fade`.

### Sessions and the CPU policy

`ClosedSessionAlwaysRestoredCpu` is about a step that closes a session without looking at
the CPU policy: that it is back follows from where the closing plan stands. `SessionInv`
therefore says how far the plan has come: as long as it is at the steps of its baseline,
the session is open, those steps are the session's own, and what is applied of them is in
the scheme it was opened under (`ClosesSession`); at a restore, that the scheme is still
the one that was checked as long as the CPU step is due and nothing moved it
(`CheckHolds`); a baseline has one value of the policy
(`SessionsConsistent`); and a plan that ends a session restores nothing else on the way
(`ClosersAreSteps`). A session that recorded no scheme, and a scheme that was switched after
its last check (`SwitchedSinceCheck`), are outside the property, as they are for the
code. It stands on `TypeInv` and `IInv`.

### The battery scheduler

`NothingIsEverLeftBehind`, `StoppedAlwaysReleasedAll`, `ManualAlwaysWins` and
`ReusedPidNeverTouched`, for any ids, processes, failures and what a user's policy
writes. A request is two or three steps of its caller: the capture through a handle whose
identity was checked, the write through one that is opened by number, and the rollback.
`SchedulerInv` holds the ledger and the processes together: a number is given to one
process only (`NumberIsFresh`), there is a baseline exactly while somebody holds the
target or asks for it (`HeldHasBaseline`), a request stands on that baseline
(`RequestMatches`), a living process that is not on the ledger carries nothing of phelper's
(`ChangedIsOnLedger`), a baseline holds nothing of phelper's (`BaselineIsClean`; the second
capture of a process that is already on the ledger would break it), who is inside a
request has the mutex (`Calls`), and during a restore what is still held is still to do, or
something failed (`RestoreCovers`). The two `Excused` kinds of process, `lost` and `strays`,
are those of items 6 and 19 of section 6.

### The clients of the queue

`SessionIsAlwaysKnown`, `LastRestoreAlwaysLast` and `AppliesAlwaysPublishedProfiles`, for
any depth of the channel and number of sessions. The channel and the queue behind it are
one line of requests, `queued \o chan`, and `ApplicationInv` is said of that line: who is
in it waits and is in it once (`OneEach`), a Begin in it finds no session
(`BeginsFindNone`) and never comes behind the final restore (`FinalIsLast`), a command
that needs profiles comes behind them (`ProfilesFirst`), and what the worker has pending
is what it has in the line (`WorkerKnows`). A client appends to the line; each step of the
coordinator takes some requests out and leaves the others in their order. So the
invariant is carried over that one kind of step (`Serves`), and each action of the
coordinator is shown to be of the kind. What waits in the coalescer is left untyped,
since no property here depends on it.

### The parts

- `Lifetimes_proofs`. `TeardownAlwaysInOrder`, from `TeardownInv`: each stage is reached
  only after what it waits for ended or its deadline passed, and what ended stays ended.
  `WakeAlwaysKept` and `OneHostAlways`, from `ResidentInv`: handles belong to stages, there
  is one host, and a host has a listener and a loop until it ends. `LeaseHasOneWriter`.
- Also there, about `Telemetry`: `NoWakeUpIsLost`. The `pending` flag stands for exactly one
  notification in the queue (`FlagIsQueued`), although a worker that finds it raised
  sends nothing; the coordinator lowers it before it looks at the store. So a sample that
  no snapshot has yet always has a notification under way for its subscriber, and after a
  shutdown each worker that still runs finds its channel closed. It is the safety half of
  `SampleReachesReader` and `WorkersStop`; no run checks it by itself.
- `CpuPolicy_proofs`. `AppliedAlwaysInForce` and `MinimumAlwaysBelowMaximum`, from
  `CpuInv`: as long as nobody else was at the schemes, the knobs the batch is done with
  are in force and observed; the final bounds of a running batch are in order and what the
  gate compares is what is stored.
- MUX: `UnconfirmedSwitchAlwaysRecorded` and `WritableAlwaysProven`, from `MuxInv`: memory
  agrees with the disk unless the lifecycle is blocked, a request is outstanding exactly
  while a switch is unconfirmed, each recorded mode was reported by a boot later than a
  request for it (`PastBacks`, `ProofInPast`), and the first request a record stands for was a
  switch (`BeganBySwitch`).
- Journal: `LatestEntriesAlwaysKept`. `JournalInv` counts: the last `a` entries are in the
  active file and the `b` before them in the backup, what else is in either was cut short, once
  an entry is lost the backup is as long as the limit, and nothing was acknowledged since a
  line was left without its end where the next entry goes (`OpenAfterCut`), so that only the
  entries `LatestEntriesKept` names can have joined a cut line.
- Capability: `UsableIsAlwaysProven`. `CapsInv` says of each read that it is still awaited,
  or succeeded, or what it proves is not usable. For the clamp, which is the least and the
  greatest of the listed levels, it needs that a finite set of numbers has a least
  element; that is taken from the library's well-founded order of finite subsets
  (`LeastNumber`), without an induction of its own.
- Sensors: `SamplesAreAlwaysTrue`, for any width of the energy counter. The calls of a
  round read at any time between its begin and its end; a reading kept for the next round
  was read no later than that round began (`Earlier`), and a rate has its base wrong by what
  its two calls waited at most (`RateIsTrue`). What is computed
  from two wrapped readings is the work between them because that work is below one round
  of the counter (`WorkIsBounded`, from `CounterAssumption`).
- Profile name: `StampIsAlwaysTrue`. `StampInv` follows a plan step by step: what it has
  done of a baseline or of a profile is in force (`PlanProgress`), and a session remembers
  what its previous profile needs (`ScopeKnows`).
- Power limits and GPU policy: `DroppedIsAlwaysGivenBack`, with `LimitInv`: the
  captured baseline is the firmware's value in whole watts, or 255, which the firmware
  takes for "no change" (`BaselineIsRounded`); a sample counts as confirmation only when
  taken since the write (`FeedIsTrue`); what is not owed was given back (`LimitsRest`) and
  what a restore has confirmed stays so (`ConfirmedIsBack`).
- Fan curve: `FansAlwaysAllowed`, for every curve the gate accepts and every temperature:
  the fans are the firmware's or both turn at levels of the board, and neither ever
  stops; max fan lies over them only where the coordinator shows it, or where a call that
  failed has put it (`MaxFanIsShown`). A target lies between two levels of the curve, and the smoothing and the ramp
  only choose between targets (`FansInv`). No run checks this one by itself;
  `MCParts` checks `CurveSettles` over the same steps.

### What the proofs assume, and what they showed

All theorems hold for every value of the constants that satisfies the named ASSUMEs of
their modules, which TLC evaluates on its instances: sets that are numbers or nonempty, a
FIFO, a ring and a channel of at least one, collectors among which is the one that uses
the HP actor, background launches among the launches, desktops among the processes,
entries of the fan table that are bytes, profiles over the knobs there are, registers as
the firmware has them (`LimitAssumption`), an interval of fan levels, and less than one
round of the energy counter between two reads (`CounterAssumption`; item 15 of section 6
says what happens otherwise).

Each inductive invariant was checked by TLC as an invariant of its specification before
it was proved: `SchedulerInv` over 1 026 558 states, `ApplicationInv` over 113 960,
`MuxInv` 809 652, `JournalInv` 1 741, `CapsInv` 9 088, `SensorInv` 113 611, `StampInv`
1 172 873, `LimitInv` 3 552 774, `FansInv` 20 572, `NotifyInv` 245 017; the write-ahead ledger over 143 493 states of `MCDomains`
and 907 050 of the instance of `MCFans`.

The proofs changed the models where these could not be reasoned about: CASE expressions
whose guards overlapped, of which TLC takes the first and a prover any (the worker's
answer, the request at the end of the queue, the sample that is followed), now have
disjoint guards; `@@` and `SelectSeq` in `LimitWrites` gave way to what they compute there.

### What is only model-checked

Liveness, which is out of the prover's reach since fairness and ENABLED are: `PlanEnds`,
`HeatEngages`, `OverrideReachesMax`, `OffBatteryReleases`, `BatteryTakesOver`,
`ManualTakesOver`, `ClicksAreDecided`, `ShutdownEnds`, `SampleReachesReader`,
`WorkersStop` and `CurveSettles`. Every safety and action property of a passing run is a theorem. No
theorem needs induction over data.

## 5. What the results mean

`LedgerCovers` excludes a fan channel in doubt. A channel gets into doubt in three ways:
its last write had an unknown outcome, max fan was switched on while no obligation was
on disk, or max fan was recorded as off without a write. These are exactly the three
findings below; all other paths, under any sequence of failures and crashes, are covered.
Thermal mode, GPU policy and power limits are never in doubt: there the obligation stays
after an unknown outcome.

`OverrideHoldsMax` excludes the two deliberate ways out of an override, the user's auto
command and a restore. `ClosedSessionRestoredCpu` excludes a scheme switched after its last
check, which is when the code accepts the closing plan, or when a restore begins with
the CPU; the baseline then goes into the new scheme. It also excludes a session that began
without a readable scheme, whose baseline goes wherever the active scheme is (item 5).

`NothingLeftBehind` excludes a process whose entry was discarded while it lived (section
6, item 6) and one that was written without a capture of its own, since it got its number
between the capture and the write (item 19); `ReusedPidUntouched` excludes only that stray
write itself; `StoppedReleasedAll` a shutdown in which a restore failed.
`LastRestoreIsLast` says nothing of a final restore that failed or timed out.
`ManualTakesOver` excludes a session whose restore failed, which stops the worker until
it is configured again. `TeardownInOrder` excludes joins that ran into their deadline, where
the code goes on by design. `DroppedIsGivenBack` excludes a
domain of which a rejected call landed all the same (item 11) and PL4 when its channel was
silent at the capture (item 13). `AppliedIsInForce` and `StampIsTrue` exclude what
somebody else changed meanwhile, `MinimumBelowMaximum` a batch that failed in part.
`LatestEntriesKept` counts a torn entry as one of the limit and leaves out, by name
(`AfterCut`), the entry acknowledged right after a torn one, which may share its line
(item 9). `WritableIsProven` is weaker than what the file promises (item 12).
`SamplesAreTrue` says "read in the round that dates it", not "at its date", for samples are
dated after their calls returned, and a rate is exact only if neither of its calls waited
(item 15); it rests on `CounterAssumption`. `CurveSettles` is about the levels: after a failed
hand-back max fan may lie over them, and is then shown as on, unless the call that put it
there was reported as failed. `WakeIsKept` is about launches
that found the event (item 17).

## 6. Disagreements met

The first four are runs of their own.

1. `DocWritesAreSavedFirst`. `docs/ogh-milestones.md:36` says an HP write is preceded by
   saving its restore obligation. The safety path writes max fan first: curve held, it
   gets hot, the forced write fails, it cools, the release's curve write fails, the
   restore hands everything back and clears the record, `retain_override` keeps the
   override and the re-arm turns max fan on with an empty record on disk.
2. `DocUnknownOutcomeKeepsRecord`. `coordinator.rs:3137` tells the user that after an
   unknown outcome the record is kept until a readback or a restore. A restore that
   relies on the observed `max_fan = false` drops it without touching 0x27.
3. `DocUnfinishedRestoreKeepsRecord`. The same line of the milestones says the record of
   an unfinished restore is kept. The first max-fan write of a process times out while
   `max_fan` was never observed, so it stays unknown. A direct curve takes unknown for off,
   writes no 0x27 and records max fan as off (`coordinator.rs:1588`, `1634`; a held mode does
   the same at `1493`, `1550`). The timed-out write lands; the restore at shutdown trusts the
   record (`2564-2565`), writes no 0x27 and clears the file while max fan is on.
4. `DocTrackedIsScheduled`. `keepalive.rs:92` asks for a recomputed schedule after a
   safety action; `run_safety_action` does not, so a max fan that replaces untracked
   state has no heartbeat until the next command.

The others were met while modelling; the models have the code's behaviour, and the
properties leave the case out as section 5 says.

5. Fan obligations: after a definite rejection of a fan write the fan obligation is kept,
   unlike the other domains (`coordinator.rs:1514-1529`, `1364-1366`). Session and scheme:
   a switch between the check at `coordinator.rs:2784` and the writes from `2785` on, or
   after a closing plan was accepted, and a session with no recorded scheme (`889-894`, which
   `2809-2824` lets pass) can end with the baseline in another scheme, against
   `docs/ogh-milestones.md:37`.
6. Discarded while alive: a process whose metadata cannot be read is discarded
   (`automatic_scheduler.rs:458-461`), so its settings stay; the comment at
   `windows_os_policy.rs:439-441` speaks of processes that ended. The model remembers
   such processes in `lost`.
7. GPU preference: it is stored per executable, yet a restore needs the same living
   process (`windows_os_policy.rs:1595-1613`, `1654`); `docs/windows-os-policy.md`
   promises the registry value back at exit.
8. Battery scheduler: a failed restore with mode Off loses its error at the next refresh;
   the release on AC is skipped when nothing counts as managed although a stuck entry is
   active; a restore writes all captured knobs against
   `docs/automatic-scheduling-architecture.md:144`; committing the active scheme
   re-activates it and can revert a switch the user made meanwhile
   (`windows_ppm.rs:479-482`, `docs/windows-power-policy.md:64`).
9. Journal: an entry cut off by a crash has no newline, so the next entry joins its line
   (`journal.rs:139-158`) and neither can be parsed, although each is "one self-contained
   JSONL entry" and "a crash must never take the record of the last write with it"
   (`journal.rs:1-5`); when the rename
   succeeds and the reopen fails, every append fails until a restart.
10. CPU policy: a knob whose AC rail was written before DC or the commit failed counts as
    not applied, so a plan of it ends as Rejected although something was written (comment
    near `coordinator.rs:1966`); a batch that fails in part can leave min above max, and
    an unknown observed bound passes the gate.
11. Retries: `write_execute` (`hp_wmi/mod.rs:332-372`) tries a mutation again after a
    transport error. When the first attempt landed and a later one is refused, the caller
    takes it for a definite rejection (`coordinator.rs:3089-3096`) and drops the
    obligation. `LimitWrites` has it as `doubted`; `HpFirmware` assumes that a rejected
    write never landed.
12. MUX: the module's comment (`mux.rs:2`) and `docs/ogh-milestones.md:51` keep desktop
    writes gated until both directions are proven. A request for the mode the machine is in,
    accepted in place of an outstanding one, counts as proof although the mode was never
    left: a Discrete request and then a Hybrid one in the same hybrid boot confirm Hybrid at
    the next, and one Discrete boot after that makes the desktop writable, although the way
    back was never seen. `WritableIsProven` states what does hold.
13. Power limits: the baseline's `round() as u8` saturates at 255, which the firmware reads
    as "no change", so such a restore cannot be verified; PL4 is captured as 0 when its
    channel is silent at the first write, and a later PL4 write is then never restored
    although the record is cleared; the readback's reference time is taken before the call.
14. Capability: the table's levels replace the profile's clamp and may widen it although
    "Probe results may only DOWNGRADE"; `fan.count` is overwritten before it is compared,
    so the note about a difference never appears; a failed system design read leaves the
    MUX as it was; the board file says to promote `power_limits` to "supported" while the
    gate asks for exactly Experimental.
15. Sensors: a sample is dated after its calls returned (`collectors.rs:36-50`;
    `nvidia.rs:604-642` makes up to eight of them first), and the clock of the energy counter
    is taken at `collectors.rs:152`, its value read at `174`. A call that stalls gives an old value
    a date later by the stall, and a rate a wrong base. `FanCache` is dated before its read
    (`actor.rs:309-315`). A RAPL counter that is reset, or wraps more than once during an outage, gives
    a power sample that is wrong (`pawnio.rs:180`). Telemetry: "Slow/dead receivers are
    pruned automatically" (`telemetry/mod.rs:118`), but a full channel keeps its
    subscriber (`:323`); a refresh queued at shutdown and two stalled calls outlast the
    nine seconds of the join.
16. Profile name: a hand-back clears only the shown name; a later session remembers the
    desired one and shows it at its end (`coordinator.rs:883-889`) although the message at
    `:2543` says the profile has to be applied again. `ReplaceProfiles` can change a shown
    profile's definition until the next refresh. Drift compares CPU and GPU only.
17. Desktop: a launch between an owner's mutex and its event is lost, since the result of
    `signal_existing_instance` is ignored (`resident.rs:101`); a launch during the up to
    forty seconds of a shutdown signals a listener that is stopping. Any failing
    `schtasks` is taken for "there is no task".
18. Writer lease: two desktops started together see each other in the scan and both
    refuse; a process that only opens the object keeps it alive for a moment, so that a
    third one can be refused although the owner has gone.
19. Reused id: `apply_process` captures through a handle whose identity it checked and closed
    (`windows_os_policy.rs:269`), then opens by id again without looking (`1381-1387`). A
    process that got the id in between is written although it was never captured; the
    mutex does not prevent it, and the comment at `1648-1650` names the race for the rollback
    only. `docs/automatic-scheduling-architecture.md:262` and `docs/windows-os-policy.md:30` and
    `:95` promise otherwise. The model remembers such processes in `strays`.

## 7. What is left

1. `ControlQueue` as what `ControlCoordinator` offers its clients: a refinement that would
   need the coordinator's answers, which it leaves out.
2. Two executables and two processes of one, for the shared GPU preference.
3. Sample changes inside a handler of `ControlCoordinator`.
4. Firmware that rejects after it landed (item 11) in `HpFirmware`, to see which of the
   ledger's guarantees rest on the rejection being definite.
