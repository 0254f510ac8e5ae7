-------------------------- MODULE Lifetimes_proofs --------------------------
(***************************************************************************)
(* Who runs, and until when, for any number of processes and collectors:    *)
(* the one writer of the hardware (WriterLease), the one desktop of a       *)
(* session (Resident), the order in which an engine is torn down, and who   *)
(* is woken by whom until then (Telemetry).                                 *)
(***************************************************************************)
EXTENDS Engine, WriterLease, Resident, TLAPS

-----------------------------------------------------------------------------
(* The lease has at most one owner, a process past the creation of the       *)
(* object that still holds its handle, and only an owner's control thread    *)
(* runs.                                                                     *)

Owns(p) == p \in handles /\ app[p] \in {"owns", "ends"}

OneOwner == \A p, q \in Apps : Owns(p) /\ Owns(q) => p = q

\* Who has not opened the object yet, or has closed it, holds no handle.
HandlesMatch ==
  \A p \in Apps :
    /\ app[p] \in {"off", "scans", "creates", "readOnly"} => p \notin handles
    /\ app[p] = "owns" => p \in handles

WritersOwn == \A p \in writers : Owns(p)

LeaseInv == LeaseTypeOK /\ HandlesMatch /\ OneOwner /\ WritersOwn

LEMMA LeaseInvInit == LeaseInit => LeaseInv
BY DEF LeaseInit, LeaseInv, LeaseTypeOK, HandlesMatch, OneOwner, WritersOwn, Owns

\* A new owner found no handle open, so nobody owned the lease; every other
\* step leaves the owners as they are or takes one away.
LEMMA LeaseInvStep == LeaseInv /\ [LeaseNext]_leaseVars => LeaseInv'
<1> SUFFICES ASSUME LeaseInv, [LeaseNext]_leaseVars
             PROVE  LeaseInv'
  OBVIOUS
<1> USE DEF LeaseInv, At, Goes
<1>1. ASSUME UNCHANGED leaseVars
      PROVE  LeaseInv'
  BY <1>1 DEF leaseVars, LeaseTypeOK, HandlesMatch, OneOwner, WritersOwn, Owns
<1>2. ASSUME NEW p \in Apps, LeaseStep(p)
      PROVE  LeaseInv'
  <2>1. CASE Launch(p)
    BY <2>1 DEF Launch, LeaseTypeOK, HandlesMatch, OneOwner, WritersOwn, Owns
  <2>2. CASE Scans(p)
    BY <2>2 DEF Scans, LeaseTypeOK, HandlesMatch, OneOwner, WritersOwn, Owns
  <2>3. CASE Creates(p)
    <3>1. LeaseTypeOK' /\ HandlesMatch' /\ WritersOwn'
      BY <2>3 DEF Creates, LeaseTypeOK, HandlesMatch, WritersOwn, Owns
    <3>2. OneOwner'
      BY <2>3 DEF Creates, Existed, LeaseTypeOK, OneOwner, Owns
    <3> QED BY <3>1, <3>2
  <2>4. CASE Closes(p)
    BY <2>4 DEF Closes, LeaseTypeOK, HandlesMatch, OneOwner, WritersOwn, Owns
  <2>5. CASE StartsControl(p)
    BY <2>5 DEF StartsControl, LeaseTypeOK, HandlesMatch, OneOwner, WritersOwn, Owns
  <2>6. CASE ShutsDown(p)
    BY <2>6 DEF ShutsDown, LeaseTypeOK, HandlesMatch, OneOwner, WritersOwn, Owns
  <2>7. CASE ControlEnds(p)
    BY <2>7 DEF ControlEnds, LeaseTypeOK, HandlesMatch, OneOwner, WritersOwn, Owns
  <2>8. CASE Released(p)
    BY <2>8 DEF Released, Stopped, LeaseTypeOK, HandlesMatch, OneOwner, WritersOwn, Owns
  <2>9. CASE Dies(p)
    BY <2>9 DEF Dies, LeaseTypeOK, HandlesMatch, OneOwner, WritersOwn, Owns
  <2> QED
    BY <1>2, <2>1, <2>2, <2>3, <2>4, <2>5, <2>6, <2>7, <2>8, <2>9 DEF LeaseStep
<1> QED BY <1>1, <1>2 DEF LeaseNext

\* The processes, their handles of the kernel object and the running control
\* threads are what Engine::start and Engine::shutdown can make of them.
THEOREM LeaseIsTyped == LeaseSpec => []LeaseTypeOK
<1>1. LeaseInv => LeaseTypeOK
  BY DEF LeaseInv
<1> QED BY LeaseInvInit, LeaseInvStep, <1>1, PTL DEF LeaseSpec

\* However many programs are started, look for each other, fail, end or crash,
\* at most one of them has a control thread that writes the hardware.
THEOREM LeaseHasOneWriter == LeaseSpec => []OneWriter
<1>1. LeaseInv => OneWriter
  BY DEF LeaseInv, LeaseTypeOK, WritersOwn, OneOwner, OneWriter
<1> QED BY LeaseInvInit, LeaseInvStep, <1>1, PTL DEF LeaseSpec

-----------------------------------------------------------------------------
(* Teardown: each stage is only entered when what the stages before it wait  *)
(* for has ended, or a bounded wait has run out, and what has ended does not *)
(* start again.                                                              *)

WorkerStages == {"waits", "collects", "notifies", "panicked", "gone"}

EngineTypes ==
  /\ worker \in [Collectors -> WorkerStages]
  /\ engine \in Stages /\ control \in {"runs", "restores", "gone"} /\ overdue \in BOOLEAN

\* What has ended by the time a stage is entered.
StagesAreEarned ==
  /\ engine \in {"telemetry", "actor", "done"} => control = "gone"
  /\ ~overdue /\ engine \in {"actor", "done"} => coord = "gone"
  /\ ~overdue /\ engine = "done" => actor = "gone"
  /\ actor # "runs" => engine \in {"actor", "done"}

JoinedWorkersAreGone == ~overdue /\ coord = "gone" => AllStopped

TeardownInv == EngineTypes /\ StagesAreEarned /\ JoinedWorkersAreGone

-----------------------------------------------------------------------------
\* What a step may do to the workers and the telemetry coordinator: who has ended stays so.
EndedStaysEnded ==
  /\ \A c \in Collectors : worker[c] = "gone" => worker'[c] = "gone"
  /\ coord = "gone" => coord' = "gone"
  /\ coord' = "gone" => coord = "gone" \/ overdue' \/ AllStopped
  /\ overdue => overdue'

LEMMA TeardownInit == Init => TeardownInv
BY DEF Init, TelemetryInit, TeardownInv, EngineTypes, WorkerStages, Stages, StagesAreEarned,
       JoinedWorkersAreGone

\* A step of telemetry, whatever stage the engine is in.
LEMMA TelemetryKeeps ==
  ASSUME TeardownInv, EndedStaysEnded, worker' \in [Collectors -> WorkerStages], overdue' \in BOOLEAN,
         UNCHANGED <<engine, control, actor>>
  PROVE  TeardownInv'
<1>1. StagesAreEarned'
  BY DEF TeardownInv, StagesAreEarned, EndedStaysEnded, EngineTypes
<1>2. JoinedWorkersAreGone'
  BY DEF TeardownInv, JoinedWorkersAreGone, EndedStaysEnded, AllStopped
<1> QED BY <1>1, <1>2 DEF TeardownInv, EngineTypes

LEMMA WorkerKeeps ==
  ASSUME TeardownInv, NEW c \in Collectors, WorkerSteps(c)
  PROVE  EndedStaysEnded /\ worker' \in [Collectors -> WorkerStages] /\ overdue' = overdue
<1>1. worker \in [Collectors -> WorkerStages]
  BY DEF TeardownInv, EngineTypes
<1>2. /\ worker[c] # "gone" /\ coord' = coord /\ overdue' = overdue
      /\ \E s \in WorkerStages : worker' = [worker EXCEPT ![c] = s]
  <2>1. CASE Wakes(c) \/ Stops(c)
    BY <2>1 DEF Wakes, Stops, WorkerStages
  <2>2. CASE Stores(c) \/ StoresNothing(c) \/ Panics(c)
    BY <2>2 DEF Stores, StoresNothing, Panics, WorkerStages
  <2>3. CASE Notifies(c)
    BY <2>3 DEF Notifies, WorkerStages
  <2> QED BY <2>1, <2>2, <2>3 DEF WorkerSteps
<1>3. worker' \in [Collectors -> WorkerStages] /\ \A d \in Collectors \ {c} : worker'[d] = worker[d]
  BY <1>1, <1>2
<1> QED BY <1>2, <1>3 DEF EndedStaysEnded

LEMMA CoordKeeps ==
  ASSUME TeardownInv, CoordSteps
  PROVE  EndedStaysEnded /\ worker' \in [Collectors -> WorkerStages] /\ overdue' \in BOOLEAN
<1>1. worker' = worker /\ worker \in [Collectors -> WorkerStages] /\ overdue \in BOOLEAN /\ coord # "gone"
  BY DEF CoordSteps, Collected, TakesSnapshot, Offers, Refreshes, Welcomes, TakesShutdown, Joined, Turn,
         TeardownInv, EngineTypes
<1>2. CASE Joined
  BY <1>1, <1>2 DEF Joined, EndedStaysEnded
<1>3. CASE Collected \/ TakesSnapshot \/ Offers \/ Refreshes \/ Welcomes \/ TakesShutdown
  <2>1. coord' # "gone" /\ overdue' = overdue
    BY <1>3 DEF Collected, TakesSnapshot, Offers, Refreshes, Welcomes, TakesShutdown, Turn
  <2> QED BY <1>1, <2>1 DEF EndedStaysEnded
<1> QED BY <1>2, <1>3 DEF CoordSteps

\* Readers and callers touch neither.
LEMMA OthersKeep ==
  ASSUME TeardownInv, ReaderSteps \/ HandleSteps
  PROVE  EndedStaysEnded /\ worker' = worker /\ overdue' = overdue
<1>1. worker' = worker /\ coord' = coord /\ overdue' = overdue
  BY DEF ReaderSteps, Reads, Leaves, HandleSteps, RequestsFresh, Subscribes, Asks
<1> QED BY <1>1 DEF EndedStaysEnded

\* A stage is entered from the one before it.
LEMMA StageKeeps ==
  ASSUME TeardownInv, Teardown
  PROVE  TeardownInv'
<1>1. worker' = worker /\ coord' = coord
  BY DEF Teardown, Shutdown, ControlDone, TelemetryDone, ActorDone, Enters
<1>2. EngineTypes'
  BY <1>1 DEF Teardown, Shutdown, ControlDone, TelemetryDone, ActorDone, Enters, NextStage, Stages,
              TeardownInv, EngineTypes
<1>3. overdue => overdue'
  BY DEF Teardown, Shutdown, ControlDone, TelemetryDone, ActorDone
<1>4. JoinedWorkersAreGone'
  BY <1>1, <1>3 DEF TeardownInv, JoinedWorkersAreGone, AllStopped
<1>5. StagesAreEarned'
  <2>1. CASE Shutdown
    BY <2>1 DEF Shutdown, Enters, NextStage, TeardownInv, StagesAreEarned
  <2>2. CASE ControlDone
    BY <2>2 DEF ControlDone, Enters, NextStage, TeardownInv, StagesAreEarned
  <2>3. CASE TelemetryDone
    BY <1>1, <2>3 DEF TelemetryDone, Enters, NextStage, TeardownInv, StagesAreEarned
  <2>4. CASE ActorDone
    BY <1>1, <2>4 DEF ActorDone, Enters, NextStage, TeardownInv, StagesAreEarned
  <2> QED BY <2>1, <2>2, <2>3, <2>4 DEF Teardown
<1> QED BY <1>2, <1>4, <1>5 DEF TeardownInv

LEMMA TeardownStep == TeardownInv /\ [Next]_vars => TeardownInv'
<1> SUFFICES ASSUME TeardownInv, [Next]_vars PROVE TeardownInv'
  OBVIOUS
<1>1. worker \in [Collectors -> WorkerStages] /\ overdue \in BOOLEAN
  BY DEF TeardownInv, EngineTypes
<1>2. CASE UNCHANGED vars
  BY <1>2 DEF vars, telemetryVars, TeardownInv, EngineTypes, StagesAreEarned, JoinedWorkersAreGone, AllStopped
<1>3. CASE (HandleSteps \/ ReaderSteps) /\ UNCHANGED <<engine, control, actor>>
  BY <1>1, <1>3, OthersKeep, TelemetryKeeps
<1>4. CASE CoordSteps /\ UNCHANGED <<engine, control, actor>>
  BY <1>4, CoordKeeps, TelemetryKeeps
<1>5. ASSUME NEW c \in Collectors, WorkerSteps(c), UNCHANGED <<engine, control, actor>>
      PROVE  TeardownInv'
  BY <1>1, <1>5, WorkerKeeps, TelemetryKeeps
<1>6. CASE Teardown
  BY <1>6, StageKeeps
<1>7. CASE ControlStops \/ ActorEnds
  <2>1. UNCHANGED <<worker, coord, overdue, engine>>
    BY <1>7 DEF ControlStops, ActorEnds, telemetryVars
  <2>2. EngineTypes' /\ JoinedWorkersAreGone'
    BY <1>7, <2>1 DEF ControlStops, ActorEnds, TeardownInv, EngineTypes, JoinedWorkersAreGone, AllStopped
  <2>3. StagesAreEarned'
    BY <1>7, <2>1 DEF ControlStops, ActorEnds, TeardownInv, StagesAreEarned
  <2> QED BY <2>2, <2>3 DEF TeardownInv
<1> QED BY <1>2, <1>3, <1>4, <1>5, <1>6, <1>7 DEF Next

\* With any number of collectors: whatever the threads do, the actor is not stopped while
\* control or its collector may call it, and the lease goes last, unless a wait ran out.
THEOREM TeardownAlwaysInOrder == Spec => []TeardownInOrder
<1>1. TeardownInv => TeardownInOrder
  BY EngineAssumption DEF TeardownInv, EngineTypes, StagesAreEarned, JoinedWorkersAreGone, AllStopped,
                          TeardownInOrder
<1> QED BY TeardownInit, TeardownStep, <1>1, PTL DEF Spec

-----------------------------------------------------------------------------
(* Notifications: who finds the flag lowered queues one, and who takes it    *)
(* out lowers the flag before it looks at the store, so that what is stored  *)
(* meanwhile is announced again.                                             *)

Commands == {"collected", "refresh", "subscribe", "shutdown"}
Queued(s) == \E i \in DOMAIN s : s[i] = "collected"
AtMostOne(s) == \A i, j \in DOMAIN s : s[i] = "collected" /\ s[j] = "collected" => i = j

\* The flag stands for the one notification in the queue, while somebody reads the queue.
FlagIsQueued == coord # "gone" => (pending <=> Queued(commands)) /\ AtMostOne(commands)

\* What no snapshot has yet is being announced, or the coordinator is about to take one.
NoWakeUpLost ==
  store = "fresh" /\ reader.thread = "reads" /\ coord # "gone" =>
    \/ \E c \in Collectors : worker[c] \in {"notifies", "panicked"}
    \/ Queued(commands)
    \/ coord = "publishes"

\* From the shutdown on, a worker that still runs has a closed channel to find.
WorkersAreTold ==
  coord \in {"joins", "gone"} => \A c \in Collectors : worker[c] # "gone" => wake[c].closed

NotifyTypes ==
  /\ commands \in Seq(Commands) /\ pending \in BOOLEAN
  /\ worker \in [Collectors -> WorkerStages]
  /\ wake \in [Collectors -> [msg : Messages, closed : BOOLEAN]]
  /\ reader = [thread |-> reader.thread, slot |-> reader.slot]

NotifyInv == NotifyTypes /\ FlagIsQueued /\ NoWakeUpLost /\ WorkersAreTold

LEMMA QueueGrows ==
  ASSUME NEW s \in Seq(Commands), NEW m \in Commands
  PROVE  /\ Append(s, m) \in Seq(Commands)
         /\ m # "collected" => /\ Queued(Append(s, m)) <=> Queued(s)
                               /\ AtMostOne(s) => AtMostOne(Append(s, m))
         /\ m = "collected" => /\ Queued(Append(s, m))
                               /\ ~Queued(s) => AtMostOne(Append(s, m))
<1>1. /\ Append(s, m) \in Seq(Commands) /\ Len(s) \in Nat
      /\ DOMAIN Append(s, m) = 1..(Len(s) + 1) /\ DOMAIN s = 1..Len(s)
      /\ \A i \in 1..Len(s) : Append(s, m)[i] = s[i]
      /\ Append(s, m)[Len(s) + 1] = m
  OBVIOUS
<1>2. \A i \in DOMAIN Append(s, m) : i \in DOMAIN s \/ i = Len(s) + 1
  BY <1>1
<1>3. DOMAIN s \subseteq DOMAIN Append(s, m) /\ Len(s) + 1 \in DOMAIN Append(s, m)
  BY <1>1
<1>4. \A i \in DOMAIN s : Append(s, m)[i] = s[i]
  BY <1>1
<1>5. m # "collected" => (Queued(Append(s, m)) <=> Queued(s))
  BY <1>1, <1>2, <1>3, <1>4 DEF Queued
<1>6. m # "collected" => (AtMostOne(s) => AtMostOne(Append(s, m)))
  BY <1>1, <1>2, <1>3, <1>4 DEF AtMostOne
<1>7. m = "collected" => Queued(Append(s, m)) /\ (~Queued(s) => AtMostOne(Append(s, m)))
  BY <1>1, <1>2, <1>3, <1>4 DEF Queued, AtMostOne
<1> QED BY <1>1, <1>5, <1>6, <1>7

LEMMA QueueServes ==
  ASSUME NEW s \in Seq(Commands), s # <<>>, AtMostOne(s)
  PROVE  /\ Tail(s) \in Seq(Commands) /\ AtMostOne(Tail(s))
         /\ Queued(Tail(s)) <=> Queued(s) /\ Head(s) # "collected"
<1>1. /\ Tail(s) \in Seq(Commands) /\ Len(s) \in Nat \ {0} /\ Head(s) = s[1]
      /\ DOMAIN Tail(s) = 1..(Len(s) - 1) /\ DOMAIN s = 1..Len(s)
      /\ \A i \in 1..(Len(s) - 1) : Tail(s)[i] = s[i + 1]
  OBVIOUS
<1>2. \A i \in DOMAIN Tail(s) : i + 1 \in DOMAIN s /\ i + 1 # 1 /\ Tail(s)[i] = s[i + 1]
  BY <1>1
<1>3. 1 \in DOMAIN s /\ \A i \in DOMAIN s : i # 1 => i - 1 \in DOMAIN Tail(s) /\ Tail(s)[i - 1] = s[i]
  BY <1>1
<1>4. AtMostOne(Tail(s))
  <2>1. ASSUME NEW i \in DOMAIN Tail(s), NEW j \in DOMAIN Tail(s),
               Tail(s)[i] = "collected", Tail(s)[j] = "collected"
        PROVE  i = j
    <3>1. i + 1 = j + 1
      BY <2>1, <1>2 DEF AtMostOne
    <3> QED BY <1>1, <3>1
  <2> QED BY <2>1 DEF AtMostOne
<1>5. Queued(Tail(s)) => Queued(s) /\ Head(s) # "collected"
  BY <1>1, <1>2, <1>3 DEF Queued, AtMostOne
<1>6. Queued(s) /\ Head(s) # "collected" => Queued(Tail(s))
  BY <1>1, <1>3 DEF Queued
<1> QED BY <1>1, <1>4, <1>5, <1>6

LEMMA NotifyInit == Init => NotifyInv
<1> SUFFICES ASSUME Init PROVE NotifyInv
  OBVIOUS
<1>1. /\ commands = <<>> /\ pending = FALSE /\ coord = "listens" /\ store = "empty"
      /\ worker = [c \in Collectors |-> "waits"]
      /\ wake = [c \in Collectors |-> [msg |-> "none", closed |-> FALSE]]
      /\ reader = [thread |-> "out", slot |-> "none"]
  BY DEF Init, TelemetryInit
<1>2. ~Queued(commands) /\ AtMostOne(commands) /\ commands \in Seq(Commands)
  BY <1>1 DEF Queued, AtMostOne
<1>3. NotifyTypes
  BY <1>1, <1>2 DEF NotifyTypes, WorkerStages, Messages
<1>4. FlagIsQueued /\ NoWakeUpLost /\ WorkersAreTold
  BY <1>1, <1>2 DEF FlagIsQueued, NoWakeUpLost, WorkersAreTold
<1> QED BY <1>3, <1>4 DEF NotifyInv

\* A worker before its notification.
LEMMA WorkerNotifies ==
  ASSUME NotifyInv, NEW c \in Collectors, WorkerSteps(c)
  PROVE  NotifyInv'
<1> USE DEF NotifyInv, NotifyTypes
<1>1. CASE Wakes(c) \/ Stops(c)
  <2>1. /\ worker[c] = "waits" /\ UNCHANGED <<pending, commands, coord, store, reader>>
        /\ \E s \in {"collects", "gone"} : worker' = [worker EXCEPT ![c] = s]
    BY <1>1 DEF Wakes, Stops
  <2>2. wake' \in [Collectors -> [msg : Messages, closed : BOOLEAN]]
    <3>1. wake' = [wake EXCEPT ![c].msg = "none"] \/ wake' = [wake EXCEPT ![c] = Closed]
      BY <1>1 DEF Wakes, Stops
    <3>2. wake[c] \in [msg : Messages, closed : BOOLEAN] /\ "none" \in Messages
      BY DEF Messages
    <3>3. /\ Closed \in [msg : Messages, closed : BOOLEAN]
          /\ [wake[c] EXCEPT !.msg = "none"] \in [msg : Messages, closed : BOOLEAN]
      BY <3>2 DEF Closed
    <3>4. \E x \in [msg : Messages, closed : BOOLEAN] : wake' = [wake EXCEPT ![c] = x]
      BY <3>1, <3>3
    <3> QED BY <3>4
  <2>3. \A d \in Collectors : wake[d].closed => wake'[d].closed
    BY <1>1 DEF Wakes, Stops, Closed
  <2>4. NotifyTypes'
    BY <2>1, <2>2 DEF WorkerStages
  <2>5. FlagIsQueued'
    BY <2>1 DEF FlagIsQueued, Queued, AtMostOne
  <2>6. NoWakeUpLost'
    BY <2>1 DEF NoWakeUpLost, Queued
  <2>7. WorkersAreTold'
    BY <2>1, <2>3 DEF WorkersAreTold
  <2> QED BY <2>4, <2>5, <2>6, <2>7
<1>2. CASE Stores(c) \/ StoresNothing(c) \/ Panics(c)
  <2>1. /\ UNCHANGED <<pending, commands, coord, reader, wake>>
        /\ \E s \in {"notifies", "panicked"} : worker' = [worker EXCEPT ![c] = s]
    BY <1>2 DEF Stores, StoresNothing, Panics
  <2>2. NotifyTypes'
    BY <2>1 DEF WorkerStages
  <2>3. worker'[c] \in {"notifies", "panicked"} /\ worker[c] # "gone"
    BY <1>2, <2>1 DEF Stores, StoresNothing, Panics
  <2>4. FlagIsQueued'
    BY <2>1 DEF FlagIsQueued, Queued, AtMostOne
  <2>5. NoWakeUpLost'
    BY <2>3 DEF NoWakeUpLost
  <2>6. WorkersAreTold'
    BY <2>1, <2>3 DEF WorkersAreTold
  <2> QED BY <2>2, <2>4, <2>5, <2>6
<1>3. CASE Notifies(c)
  <2>1. /\ worker[c] \in {"notifies", "panicked"} /\ UNCHANGED <<coord, store, reader>>
        /\ pending' = TRUE /\ commands' = commands \o Notification
        /\ \E s \in {"waits", "gone"} : worker' = [worker EXCEPT ![c] = s]
    BY <1>3 DEF Notifies
  <2>2. /\ wake' \in [Collectors -> [msg : Messages, closed : BOOLEAN]]
        /\ \A d \in Collectors : wake[d].closed => wake'[d].closed
    BY <1>3 DEF Notifies, Closed, Messages
  <2>3. /\ commands' \in Seq(Commands)
        /\ coord # "gone" => Queued(commands') /\ AtMostOne(commands')
    <3>1. CASE pending \/ coord = "gone"
      <4>1. commands' = commands
        BY <2>1, <3>1 DEF Notification
      <4> QED BY <3>1, <4>1 DEF FlagIsQueued
    <3>2. CASE ~(pending \/ coord = "gone")
      <4>1. commands' = commands \o <<"collected">>
        BY <2>1, <3>2 DEF Notification
      <4>2. commands' = Append(commands, "collected")
        BY <4>1
      <4>3. ~Queued(commands)
        BY <3>2 DEF FlagIsQueued
      <4> QED BY <4>2, <4>3, QueueGrows DEF Commands
    <3> QED BY <3>1, <3>2
  <2>4. NotifyTypes'
    BY <2>1, <2>2, <2>3 DEF WorkerStages
  <2>5. FlagIsQueued'
    BY <2>1, <2>3 DEF FlagIsQueued, Queued, AtMostOne
  <2>6. NoWakeUpLost'
    BY <2>1, <2>3 DEF NoWakeUpLost, Queued
  <2>7. WorkersAreTold'
    BY <2>1, <2>2 DEF WorkersAreTold
  <2> QED BY <2>4, <2>5, <2>6, <2>7
<1> QED BY <1>1, <1>2, <1>3 DEF WorkerSteps

\* The queue gets a command that is no notification.
LEMMA AskingNotifies ==
  ASSUME NotifyInv, NEW m \in Commands \ {"collected"}, commands' = Append(commands, m),
         reader' = [thread |-> reader'.thread, slot |-> reader'.slot],
         reader'.thread = "reads" => reader.thread = "reads",
         UNCHANGED <<worker, wake, pending, coord, store>>
  PROVE  NotifyInv'
<1> USE DEF NotifyInv, NotifyTypes
<1>1. /\ commands' \in Seq(Commands)
      /\ Queued(commands') <=> Queued(commands)
      /\ AtMostOne(commands) => AtMostOne(commands')
  BY QueueGrows
<1>2. NotifyTypes'
  BY <1>1
<1>3. FlagIsQueued'
  BY <1>1 DEF FlagIsQueued, Queued, AtMostOne
<1>4. NoWakeUpLost'
  BY <1>1 DEF NoWakeUpLost, Queued
<1>5. WorkersAreTold'
  BY DEF WorkersAreTold
<1> QED BY <1>2, <1>3, <1>4, <1>5

LEMMA ReaderNotifies ==
  ASSUME NotifyInv, ReaderSteps PROVE NotifyInv'
<1> USE DEF NotifyInv, NotifyTypes
<1>1. /\ UNCHANGED <<worker, wake, pending, commands, coord, store>>
      /\ reader' = [thread |-> reader'.thread, slot |-> reader'.slot]
      /\ reader'.thread = "reads" => reader.thread = "reads"
  BY DEF ReaderSteps, Reads, Leaves
<1>2. NotifyTypes'
  BY <1>1
<1>3. FlagIsQueued' /\ WorkersAreTold'
  BY <1>1 DEF FlagIsQueued, Queued, AtMostOne, WorkersAreTold
<1>4. NoWakeUpLost'
  BY <1>1 DEF NoWakeUpLost, Queued
<1> QED BY <1>2, <1>3, <1>4

LEMMA CoordNotifies ==
  ASSUME NotifyInv, CoordSteps PROVE NotifyInv'
<1> USE DEF NotifyInv, NotifyTypes
<1>1. coord # "gone" /\ worker' = worker
  BY DEF CoordSteps, Turn, Collected, TakesSnapshot, Offers, Refreshes, Welcomes, TakesShutdown, Joined
<1>2. /\ pending <=> Queued(commands)
      /\ AtMostOne(commands)
  BY <1>1 DEF FlagIsQueued
<1>3. CASE Collected
  <2>1. /\ coord = "listens" /\ commands # <<>> /\ Head(commands) = "collected"
        /\ commands' = Tail(commands) /\ pending' = FALSE /\ coord' = "publishes"
        /\ UNCHANGED <<wake, store, reader>>
    BY <1>3 DEF Collected, Turn, PendingAfter
  <2>2. commands' \in Seq(Commands) /\ AtMostOne(commands') /\ ~Queued(commands')
    BY <1>2, <2>1, QueueServes
  <2>3. NotifyTypes'
    BY <1>1, <2>1, <2>2
  <2>4. FlagIsQueued'
    BY <2>1, <2>2 DEF FlagIsQueued, Queued, AtMostOne
  <2>5. NoWakeUpLost' /\ WorkersAreTold'
    BY <2>1 DEF NoWakeUpLost, WorkersAreTold
  <2> QED BY <2>3, <2>4, <2>5
<1>4. CASE TakesSnapshot \/ Offers
  <2>1. /\ UNCHANGED <<wake, commands, pending>> /\ coord' \in {"listens", "offers"}
        /\ reader' = [thread |-> reader'.thread, slot |-> reader'.slot]
        /\ reader'.thread = "reads" => reader.thread = "reads"
        /\ store' = store \/ store' = "published"
        /\ coord = "publishes" /\ reader'.thread = "reads" => store' # "fresh"
    BY <1>4 DEF TakesSnapshot, Offers, PendingAfter
  <2>2. NotifyTypes'
    BY <1>1, <2>1
  <2>3. FlagIsQueued' /\ WorkersAreTold'
    BY <1>2, <2>1 DEF FlagIsQueued, Queued, AtMostOne, WorkersAreTold
  <2>4. NoWakeUpLost'
    BY <1>1, <2>1 DEF NoWakeUpLost, Queued
  <2> QED BY <2>2, <2>3, <2>4
<1>5. CASE Refreshes \/ Welcomes \/ TakesShutdown
  <2>1. /\ coord = "listens" /\ commands # <<>> /\ Head(commands) # "collected"
        /\ commands' = Tail(commands) /\ pending' = pending /\ coord' \in {"listens", "joins"}
    BY <1>5 DEF Refreshes, Welcomes, TakesShutdown, Turn
  <2>2. /\ commands' \in Seq(Commands) /\ AtMostOne(commands')
        /\ Queued(commands') <=> Queued(commands)
    BY <1>2, <2>1, QueueServes
  <2>3. /\ wake' \in [Collectors -> [msg : Messages, closed : BOOLEAN]]
        /\ coord' = "joins" => \A c \in Collectors : wake'[c].closed
    <3>1. CASE Refreshes
      <4>1. \A c \in Collectors : wake[c] \in [msg : Messages, closed : BOOLEAN]
        OBVIOUS
      <4>2. \A c \in Collectors : [wake[c] EXCEPT !.msg = "refresh"] \in [msg : Messages, closed : BOOLEAN]
        BY <4>1 DEF Messages
      <4> QED BY <3>1, <2>1, <4>1, <4>2 DEF Refreshes
    <3>2. CASE Welcomes
      BY <3>2, <2>1 DEF Welcomes
    <3>3. CASE TakesShutdown
      <4>1. \A c \in Collectors : /\ wake[c].msg \in Messages /\ "stop" \in Messages /\ "none" \in Messages
        BY DEF Messages
      <4> QED BY <3>3, <4>1 DEF TakesShutdown, ClosedAfter, Closed
    <3> QED BY <1>5, <3>1, <3>2, <3>3
  <2>4. /\ reader' = [thread |-> reader'.thread, slot |-> reader'.slot]
        /\ store' = store \/ store' = "published"
        /\ reader'.thread = "reads" => reader.thread = "reads" \/ store' # "fresh"
    BY <1>5 DEF Refreshes, Welcomes, TakesShutdown
  <2>5. NotifyTypes'
    BY <1>1, <2>1, <2>2, <2>3, <2>4
  <2>6. FlagIsQueued'
    BY <1>2, <2>1, <2>2 DEF FlagIsQueued, Queued, AtMostOne
  <2>7. NoWakeUpLost'
    BY <1>1, <2>1, <2>2, <2>4 DEF NoWakeUpLost, Queued
  <2>8. WorkersAreTold'
    BY <2>1, <2>3 DEF WorkersAreTold
  <2> QED BY <2>5, <2>6, <2>7, <2>8
<1>6. CASE Joined
  <2>1. /\ coord = "joins" /\ coord' = "gone" /\ commands' = <<>>
        /\ UNCHANGED <<wake, pending, store, reader>>
    BY <1>6 DEF Joined
  <2>2. NotifyTypes'
    BY <1>1, <2>1
  <2>3. FlagIsQueued' /\ NoWakeUpLost'
    BY <2>1 DEF FlagIsQueued, NoWakeUpLost
  <2>4. WorkersAreTold'
    BY <1>1, <2>1 DEF WorkersAreTold
  <2> QED BY <2>2, <2>3, <2>4
<1> QED BY <1>3, <1>4, <1>5, <1>6 DEF CoordSteps

LEMMA StageNotifies ==
  ASSUME NotifyInv, Teardown PROVE NotifyInv'
<1>1. UNCHANGED <<worker, wake, pending, coord, store, reader>>
  BY DEF Teardown, Shutdown, ControlDone, TelemetryDone, ActorDone, Enters
<1>2. commands' = commands \/ commands' = Append(commands, "shutdown")
  BY DEF Teardown, Shutdown, ControlDone, TelemetryDone, ActorDone, Enters
<1>3. CASE commands' = commands
  BY <1>1, <1>3 DEF NotifyInv, NotifyTypes, FlagIsQueued, NoWakeUpLost, WorkersAreTold, Queued, AtMostOne
<1>4. CASE commands' = Append(commands, "shutdown")
  BY <1>1, <1>4, AskingNotifies DEF Commands, NotifyInv, NotifyTypes
<1> QED BY <1>2, <1>3, <1>4

LEMMA NotifyStep == NotifyInv /\ [Next]_vars => NotifyInv'
<1> SUFFICES ASSUME NotifyInv, [Next]_vars PROVE NotifyInv'
  OBVIOUS
<1>1. CASE HandleSteps
  <2>1. /\ UNCHANGED <<worker, wake, pending, coord, store>>
        /\ \E m \in Commands \ {"collected"} : commands' = Append(commands, m)
        /\ reader' = [thread |-> reader'.thread, slot |-> reader'.slot]
        /\ reader'.thread = "reads" => reader.thread = "reads"
    BY <1>1 DEF HandleSteps, RequestsFresh, Subscribes, Asks, Commands, NotifyInv, NotifyTypes
  <2> QED BY <2>1, AskingNotifies
<1>2. CASE UNCHANGED vars \/ ControlStops \/ ActorEnds
  BY <1>2 DEF ControlStops, ActorEnds, vars, telemetryVars, NotifyInv, NotifyTypes, FlagIsQueued, NoWakeUpLost,
              WorkersAreTold, Queued, AtMostOne
<1> QED BY <1>1, <1>2, WorkerNotifies, ReaderNotifies, CoordNotifies, StageNotifies DEF Next

\* The workers' loop and TelemetryCoordinator::run, with any number of collectors: a notification that
\* finds the flag raised is not sent, yet what was stored before it is always announced, in
\* the queue or by a publication about to look; and after a shutdown each worker that is
\* still at work finds its channel closed.
THEOREM NotificationInvariance == Spec => []NotifyInv
<1> QED BY NotifyInit, NotifyStep, PTL DEF Spec

\* A subscriber's fresh sample is never left without a notification, and no worker is left
\* waiting for a message that will not come.
THEOREM NoWakeUpIsLost == Spec => [](NoWakeUpLost /\ WorkersAreTold)
<1>1. NotifyInv => NoWakeUpLost /\ WorkersAreTold
  BY DEF NotifyInv
<1> QED BY <1>1, NotificationInvariance, PTL

-----------------------------------------------------------------------------
(* One resident desktop.  The mutex lets one process at a time become the    *)
(* host, only the host has the event, and a running host has its listener    *)
(* and its loop: so a signal always finds somebody who will take it.         *)

WithoutHandles == {"off", "looks", "elevates", "elevated", "claims", "missed", "refused"}
WithEvent == {"starts", "runs", "quits", "ends"}
Hosting == WithEvent \cup {"hosts", "leaves"}

\* The event and the mutex are open exactly in the stages that hold them.
HandlesMatchStages ==
  \A p \in Launches : /\ p \in event <=> stage[p] \in WithEvent
                      /\ p \in mutex <=> stage[p] \in Hosting \cup {"yields"}

OneHost == \A p, q \in Launches : stage[p] \in Hosting /\ stage[q] \in Hosting => p = q

LoopRuns ==
  \A p \in Launches : IF stage[p] = "runs" THEN desktop[p].listener /\ desktop[p].loop # "off"
                                           ELSE desktop[p].loop = "off"

ResidentInv == ResidentTypeOK /\ HandlesMatchStages /\ OneHost /\ LoopRuns /\ WakeIsKept

-----------------------------------------------------------------------------
DesktopStates == [listener : BOOLEAN, mail : BOOLEAN, shown : BOOLEAN,
             loop : {"off", "reconciles", "turns", "autostart"}]

LEMMA StageMoves ==
  ASSUME ResidentInv, NEW p \in Launches, NEW s \in LaunchStages, Comes(p, s)
  PROVE  /\ stage' \in [Launches -> LaunchStages] /\ stage'[p] = s
         /\ \A q \in Launches : q # p => stage'[q] = stage[q]
BY DEF ResidentInv, ResidentTypeOK, Comes

LEMMA DesktopMoves ==
  ASSUME ResidentInv, NEW p \in Launches, NEW d \in DesktopStates, Becomes(p, d)
  PROVE  /\ desktop' \in [Launches -> DesktopStates] /\ desktop'[p] = d
         /\ \A q \in Launches : q # p => desktop'[q] = desktop[q]
BY DEF ResidentInv, ResidentTypeOK, Becomes, DesktopStates

\* Moves that take or give back no handle.
LEMMA HandlesKept ==
  ASSUME ResidentInv, NEW p \in Launches, NEW s \in LaunchStages, Comes(p, s), UNCHANGED <<mutex, event>>,
         \/ stage[p] \in WithoutHandles /\ s \in WithoutHandles
         \/ stage[p] \in WithEvent /\ s \in WithEvent
  PROVE  HandlesMatchStages' /\ OneHost'
<1>1. stage'[p] = s /\ \A q \in Launches : q # p => stage'[q] = stage[q]
  BY StageMoves
<1>2. \A q \in Launches : /\ stage'[q] \in WithEvent <=> stage[q] \in WithEvent
                          /\ stage'[q] \in Hosting <=> stage[q] \in Hosting
                          /\ stage'[q] \in Hosting \cup {"yields"} <=> stage[q] \in Hosting \cup {"yields"}
  BY <1>1 DEF WithoutHandles, WithEvent, Hosting
<1> QED BY <1>2 DEF ResidentInv, HandlesMatchStages, OneHost

\* A process that has no window and no listener moves on.
LEMMA QuietMove ==
  ASSUME ResidentInv, NEW p \in Launches, NEW s \in LaunchStages \ WithEvent, Comes(p, s),
         stage[p] \notin WithEvent, UNCHANGED <<event, signalled, desktop, wish>>, mutex' \subseteq Launches
  PROVE  ResidentTypeOK' /\ LoopRuns' /\ WakeIsKept'
<1>1. /\ stage' \in [Launches -> LaunchStages] /\ stage'[p] = s
      /\ \A q \in Launches : q # p => stage'[q] = stage[q]
  BY StageMoves
<1>2. ResidentTypeOK'
  BY <1>1 DEF ResidentInv, ResidentTypeOK
<1>3. \A q \in Launches : stage'[q] = "runs" <=> stage[q] = "runs"
  BY <1>1 DEF WithEvent
<1>4. LoopRuns'
  BY <1>3 DEF ResidentInv, LoopRuns
<1>5. \A o \in event : o \in Launches /\ stage[o] \in WithEvent /\ stage'[o] = stage[o]
  BY <1>1 DEF ResidentInv, ResidentTypeOK, HandlesMatchStages
<1>6. WakeIsKept'
  BY <1>5 DEF ResidentInv, WakeIsKept
<1> QED BY <1>2, <1>4, <1>6

\* The host that has the event is there to take the signal.
LEMMA SignalFinds ==
  ASSUME ResidentInv, NEW o \in event
  PROVE  /\ o \in Launches /\ stage[o] \in WithEvent
         /\ stage[o] \in {"quits", "ends", "starts"} \/ desktop[o].listener
BY DEF ResidentInv, ResidentTypeOK, HandlesMatchStages, LoopRuns, WithEvent

\* Signalling leaves the signal with that host.
LEMMA SignalIsKept ==
  ASSUME ResidentInv, NEW p \in Launches, NEW s \in LaunchStages \ WithEvent, Comes(p, s),
         stage[p] \notin WithEvent, Signal, UNCHANGED <<event, desktop>>, mutex' \subseteq Launches
  PROVE  ResidentTypeOK' /\ LoopRuns' /\ WakeIsKept'
<1>1. /\ stage' \in [Launches -> LaunchStages] /\ stage'[p] = s
      /\ \A q \in Launches : q # p => stage'[q] = stage[q]
  BY StageMoves
<1>2. signalled' \in BOOLEAN /\ wish' \in BOOLEAN
  BY DEF Signal, ResidentInv, ResidentTypeOK
<1>3. ResidentTypeOK'
  BY <1>1, <1>2 DEF ResidentInv, ResidentTypeOK
<1>4. LoopRuns'
  BY <1>1 DEF ResidentInv, LoopRuns, WithEvent
<1>5. \A o \in event : /\ stage'[o] = stage[o]
                       /\ stage[o] \in {"quits", "ends", "starts"} \/ desktop[o].listener
  BY <1>1, SignalFinds
<1>6. WakeIsKept'
  <2>1. CASE event = {}
    BY <2>1 DEF Signal, ResidentInv, WakeIsKept
  <2>2. CASE event # {}
    <3>1. signalled'
      BY <2>2 DEF Signal
    <3>2. PICK o \in event : TRUE
      BY <2>2
    <3> QED BY <1>5, <3>1, <3>2 DEF WakeIsKept
  <2> QED BY <2>1, <2>2
<1> QED BY <1>3, <1>4, <1>6

-----------------------------------------------------------------------------
LEMMA InvInit == ResidentInit => ResidentInv
<1> SUFFICES ASSUME ResidentInit PROVE ResidentInv
  OBVIOUS
<1>1. NoDesktop \in DesktopStates /\ NoDesktop.loop = "off"
  BY DEF NoDesktop, DesktopStates
<1>2. ResidentTypeOK
  BY <1>1 DEF ResidentInit, ResidentTypeOK, LaunchStages, DesktopStates
<1>3. HandlesMatchStages /\ OneHost /\ WakeIsKept
  BY DEF ResidentInit, HandlesMatchStages, OneHost, WakeIsKept, WithEvent, Hosting
<1>4. LoopRuns
  BY <1>1 DEF ResidentInit, LoopRuns
<1> QED BY <1>2, <1>3, <1>4 DEF ResidentInv

\* Launching, elevating and giving up take no handle.
LEMMA InvGoesOn ==
  ASSUME ResidentInv, NEW p \in Launches, Launched(p) \/ Elevates(p) \/ Exits(p)
  PROVE  ResidentInv'
<1>1. PICK s \in WithoutHandles : Comes(p, s) /\ stage[p] \in WithoutHandles
  BY DEF Launched, Elevates, Exits, WithoutHandles
<1>2. s \in LaunchStages \ WithEvent /\ stage[p] \notin WithEvent
  BY <1>1 DEF WithoutHandles, WithEvent, LaunchStages
<1>3. UNCHANGED <<mutex, event, signalled, desktop, wish>>
  BY DEF Launched, Elevates, Exits
<1>4. mutex' \subseteq Launches
  BY <1>3 DEF ResidentInv, ResidentTypeOK
<1> QED BY <1>1, <1>2, <1>3, <1>4, HandlesKept, QuietMove DEF ResidentInv

LEMMA InvLooks ==
  ASSUME ResidentInv, NEW p \in Launches, LooksForInstance(p)
  PROVE  ResidentInv'
<1>1. PICK s \in WithoutHandles : Comes(p, s) /\ stage[p] \in WithoutHandles
  BY DEF LooksForInstance, WithoutHandles
<1>2. s \in LaunchStages \ WithEvent /\ stage[p] \notin WithEvent
  BY <1>1 DEF WithoutHandles, WithEvent, LaunchStages
<1>3. Signal /\ UNCHANGED <<mutex, event, desktop>>
  BY DEF LooksForInstance
<1>4. mutex' \subseteq Launches
  BY <1>3 DEF ResidentInv, ResidentTypeOK
<1> QED BY <1>1, <1>2, <1>3, <1>4, HandlesKept, SignalIsKept DEF ResidentInv

\* Only a process that finds no other handle becomes the host.
LEMMA InvClaims ==
  ASSUME ResidentInv, NEW p \in Launches, ClaimsMutex(p)
  PROVE  ResidentInv'
<1> DEFINE s == IF mutex = {} THEN "hosts" ELSE "yields"
<1>1. /\ stage[p] = "claims" /\ Comes(p, s) /\ mutex' = mutex \cup {p}
      /\ UNCHANGED <<event, signalled, desktop, wish>>
  BY DEF ClaimsMutex
<1>2. s \in LaunchStages \ WithEvent /\ stage[p] \notin WithEvent /\ mutex' \subseteq Launches
  BY <1>1 DEF LaunchStages, WithEvent, ResidentInv, ResidentTypeOK
<1>3. stage'[p] = s /\ \A q \in Launches : q # p => stage'[q] = stage[q]
  BY <1>1, <1>2, StageMoves
<1>4. HandlesMatchStages'
  BY <1>1, <1>3 DEF ResidentInv, HandlesMatchStages, WithEvent, Hosting
<1>5. OneHost'
  <2>1. CASE mutex = {}
    <3>1. \A q \in Launches : stage[q] \notin Hosting
      BY <2>1 DEF ResidentInv, HandlesMatchStages
    <3> QED BY <1>3, <3>1 DEF OneHost
  <2>2. CASE mutex # {}
    BY <1>1, <1>3, <2>2 DEF ResidentInv, OneHost, WithEvent, Hosting
  <2> QED BY <2>1, <2>2
<1> QED BY <1>1, <1>2, <1>4, <1>5, QuietMove DEF ResidentInv

LEMMA InvYields ==
  ASSUME ResidentInv, NEW p \in Launches, Yields(p)
  PROVE  ResidentInv'
<1> DEFINE s == IF event # {} THEN "off" ELSE "missed"
<1>1. /\ stage[p] = "yields" /\ Comes(p, s) /\ mutex' = mutex \ {p} /\ Signal
      /\ UNCHANGED <<event, desktop>>
  BY DEF Yields
<1>2. s \in LaunchStages \ WithEvent /\ stage[p] \notin WithEvent /\ mutex' \subseteq Launches
  BY <1>1 DEF LaunchStages, WithEvent, ResidentInv, ResidentTypeOK
<1>3. stage'[p] = s /\ \A q \in Launches : q # p => stage'[q] = stage[q]
  BY <1>1, <1>2, StageMoves
<1>4. HandlesMatchStages'
  BY <1>1, <1>3 DEF ResidentInv, HandlesMatchStages, WithEvent, Hosting
<1>5. OneHost'
  BY <1>1, <1>3 DEF ResidentInv, OneHost, WithEvent, Hosting
<1> QED BY <1>1, <1>2, <1>4, <1>5, SignalIsKept DEF ResidentInv

\* There is no event while a host has none, so nothing is waiting when it is made.
LEMMA InvCreatesEvent ==
  ASSUME ResidentInv, NEW p \in Launches, CreatesEvent(p)
  PROVE  ResidentInv'
<1>1. stage[p] = "hosts" /\ UNCHANGED <<desktop, wish>>
  BY DEF CreatesEvent
<1>2. event = {}
  BY <1>1 DEF ResidentInv, ResidentTypeOK, HandlesMatchStages, OneHost, WithEvent, Hosting
<1>3. ~wish
  BY <1>2 DEF ResidentInv, WakeIsKept
<1>4. CASE event' = event \cup {p} /\ signalled' = (signalled /\ event # {}) /\ Comes(p, "starts")
           /\ UNCHANGED mutex
  <2>1. /\ stage' \in [Launches -> LaunchStages] /\ stage'[p] = "starts"
        /\ \A q \in Launches : q # p => stage'[q] = stage[q]
    BY <1>4, StageMoves DEF LaunchStages
  <2>2. ResidentTypeOK'
    BY <1>1, <1>4, <2>1 DEF ResidentInv, ResidentTypeOK
  <2>3. HandlesMatchStages'
    BY <1>1, <1>4, <2>1 DEF ResidentInv, HandlesMatchStages, WithEvent, Hosting
  <2>4. OneHost'
    BY <1>1, <2>1 DEF ResidentInv, OneHost, WithEvent, Hosting
  <2>5. LoopRuns' /\ WakeIsKept'
    BY <1>1, <1>3, <2>1 DEF ResidentInv, LoopRuns, WakeIsKept
  <2> QED BY <2>2, <2>3, <2>4, <2>5 DEF ResidentInv
<1>5. CASE mutex' = mutex \ {p} /\ Comes(p, "refused") /\ UNCHANGED <<event, signalled>>
  <2>1. /\ stage'[p] = "refused" /\ "refused" \in LaunchStages \ WithEvent
        /\ \A q \in Launches : q # p => stage'[q] = stage[q]
    BY <1>5, StageMoves DEF LaunchStages, WithEvent
  <2>2. HandlesMatchStages'
    BY <1>1, <1>5, <2>1 DEF ResidentInv, HandlesMatchStages, WithEvent, Hosting
  <2>3. OneHost'
    BY <1>1, <2>1 DEF ResidentInv, OneHost, WithEvent, Hosting
  <2>4. mutex' \subseteq Launches /\ stage[p] \notin WithEvent
    BY <1>1, <1>5 DEF ResidentInv, ResidentTypeOK, WithEvent
  <2> QED BY <1>1, <1>5, <2>1, <2>2, <2>3, <2>4, QuietMove DEF ResidentInv
<1> QED BY <1>4, <1>5 DEF CreatesEvent

-----------------------------------------------------------------------------
\* There is one host, so a wish is kept by it.
LEMMA HostKeepsWish ==
  ASSUME ResidentInv, NEW p \in Launches, stage[p] \in WithEvent
  PROVE  /\ event = {p} /\ desktop[p] \in DesktopStates
         /\ wish => \/ stage[p] \in {"quits", "ends"}
                    \/ signalled /\ (desktop[p].listener \/ stage[p] = "starts")
                    \/ desktop[p].mail /\ desktop[p].loop # "off"
<1>1. event = {p}
  BY DEF ResidentInv, ResidentTypeOK, HandlesMatchStages, OneHost, Hosting
<1>2. desktop[p] \in DesktopStates
  BY DEF ResidentInv, ResidentTypeOK, DesktopStates
<1> QED BY <1>1, <1>2 DEF ResidentInv, WakeIsKept

\* A step of the host that keeps its handles: it has to keep the wish, and its loop.
LEMMA InvHostStep ==
  ASSUME ResidentInv, NEW p \in Launches, stage[p] \in WithEvent, NEW s \in WithEvent, Comes(p, s),
         NEW d \in DesktopStates, Becomes(p, d), UNCHANGED <<mutex, event>>,
         signalled' \in BOOLEAN, wish' \in BOOLEAN,
         IF s = "runs" THEN d.listener /\ d.loop # "off" ELSE d.loop = "off",
         wish' => \/ s \in {"quits", "ends"}
                  \/ signalled' /\ (d.listener \/ s = "starts")
                  \/ d.mail /\ d.loop # "off"
  PROVE  ResidentInv'
<1>1. s \in LaunchStages
  BY DEF WithEvent, LaunchStages
<1>2. /\ stage' \in [Launches -> LaunchStages] /\ stage'[p] = s
      /\ \A q \in Launches : q # p => stage'[q] = stage[q]
  BY <1>1, StageMoves
<1>3. /\ desktop' \in [Launches -> DesktopStates] /\ desktop'[p] = d
      /\ \A q \in Launches : q # p => desktop'[q] = desktop[q]
  BY DesktopMoves
<1>4. ResidentTypeOK'
  BY <1>2, <1>3 DEF ResidentInv, ResidentTypeOK, DesktopStates
<1>5. HandlesMatchStages' /\ OneHost'
  BY <1>1, HandlesKept
<1>6. LoopRuns'
  BY <1>2, <1>3 DEF ResidentInv, LoopRuns
<1>7. WakeIsKept'
  <2>1. event' = {p}
    BY HostKeepsWish
  <2> QED BY <1>2, <1>3, <2>1 DEF WakeIsKept
<1> QED BY <1>4, <1>5, <1>6, <1>7 DEF ResidentInv

LEMMA InvStartsDesktop ==
  ASSUME ResidentInv, NEW p \in Launches, StartsDesktop(p)
  PROVE  ResidentInv'
<1>1. stage[p] = "starts" /\ stage[p] \in WithEvent /\ UNCHANGED <<mutex, event, signalled>>
  BY DEF StartsDesktop, WithEvent
<1>2. /\ wish => signalled
      /\ signalled' \in BOOLEAN
  BY <1>1, HostKeepsWish DEF ResidentInv, ResidentTypeOK, LoopRuns
<1>3. CASE /\ Comes(p, "runs")
           /\ Becomes(p, [listener |-> TRUE, mail |-> FALSE, loop |-> "reconciles",
                          shown |-> p \notin Background])
           /\ wish' = (wish /\ p \in Background)
  <2>1. PICK v \in BOOLEAN : v = (p \notin Background)
    OBVIOUS
  <2> DEFINE d == [listener |-> TRUE, mail |-> FALSE, loop |-> "reconciles", shown |-> v]
  <2>2. Becomes(p, d) /\ d \in DesktopStates /\ d.listener /\ d.loop # "off"
    BY <1>3, <2>1 DEF DesktopStates
  <2>3. wish' \in BOOLEAN /\ (wish' => signalled')
    BY <1>1, <1>2, <1>3
  <2>4. "runs" \in WithEvent
    BY DEF WithEvent
  <2> HIDE DEF d
  <2> QED BY <1>1, <1>2, <1>3, <2>2, <2>3, <2>4, InvHostStep
<1>4. CASE /\ Comes(p, "quits")
           /\ Becomes(p, [NoDesktop EXCEPT !.listener = TRUE])
           /\ UNCHANGED wish
  <2> DEFINE d == [NoDesktop EXCEPT !.listener = TRUE]
  <2>1. d \in DesktopStates /\ d.loop = "off" /\ Becomes(p, d)
    BY <1>4 DEF NoDesktop, DesktopStates
  <2>2. wish' \in BOOLEAN /\ "quits" \in WithEvent
    BY <1>4 DEF ResidentInv, ResidentTypeOK, WithEvent
  <2> HIDE DEF d
  <2> QED BY <1>1, <1>2, <1>4, <2>1, <2>2, InvHostStep
<1> QED BY <1>3, <1>4 DEF StartsDesktop

\* The stage stays as it is.
LEMMA StageUnchanged ==
  ASSUME ResidentInv, NEW p \in Launches, UNCHANGED stage
  PROVE  Comes(p, stage[p])
BY DEF ResidentInv, ResidentTypeOK, Comes

\* The signal moves from the event to the channel, or waits for the next host.
LEMMA InvListenerTakes ==
  ASSUME ResidentInv, NEW p \in Launches, ListenerTakes(p)
  PROVE  ResidentInv'
<1> DEFINE d == [desktop[p] EXCEPT !.mail = TRUE]
<1>1. /\ stage[p] \in {"runs", "quits", "ends"} /\ stage[p] \in WithEvent /\ ~signalled'
      /\ desktop[p].listener /\ Becomes(p, d) /\ UNCHANGED <<stage, mutex, event, wish>>
  BY DEF ListenerTakes, WithEvent
<1>2. /\ d \in DesktopStates /\ d.mail /\ d.listener = desktop[p].listener /\ d.loop = desktop[p].loop
  BY ZenonT(60), <1>1, HostKeepsWish DEF DesktopStates
<1>3. IF stage[p] = "runs" THEN d.listener /\ d.loop # "off" ELSE d.loop = "off"
  BY <1>1, <1>2 DEF ResidentInv, LoopRuns
<1>4. signalled' \in BOOLEAN /\ wish' \in BOOLEAN
  BY <1>1 DEF ListenerTakes, ResidentInv, ResidentTypeOK
<1> HIDE DEF d
<1>5. wish' => \/ stage[p] \in {"quits", "ends"}
               \/ d.mail /\ d.loop # "off"
  BY <1>1, <1>2, <1>3
<1> QED BY <1>1, <1>2, <1>3, <1>4, <1>5, StageUnchanged, InvHostStep

\* Steps of the host that leave the signal, the wish and the mail alone.
LEMMA InvHostGoesOn ==
  ASSUME ResidentInv, NEW p \in Launches,
         \/ ListenerEnds(p) \/ ReconcileEnds(p) \/ AutostartEnds(p) \/ CloseRequested(p)
         \/ PlatformQuits(p) \/ ShutdownReturns(p)
  PROVE  ResidentInv'
<1>1. UNCHANGED <<mutex, event, signalled, wish>> /\ stage[p] \in WithEvent
  BY DEF ListenerEnds, ReconcileEnds, AutostartEnds, CloseRequested, PlatformQuits, ShutdownReturns, WithEvent
<1>2. /\ desktop[p] \in DesktopStates /\ signalled' \in BOOLEAN /\ wish' \in BOOLEAN
      /\ wish => \/ stage[p] \in {"quits", "ends"}
                 \/ signalled /\ (desktop[p].listener \/ stage[p] = "starts")
                 \/ desktop[p].mail /\ desktop[p].loop # "off"
      /\ IF stage[p] = "runs" THEN desktop[p].listener /\ desktop[p].loop # "off"
                              ELSE desktop[p].loop = "off"
  BY <1>1, HostKeepsWish DEF ResidentInv, ResidentTypeOK, LoopRuns
<1>3. CASE ListenerEnds(p)
  <2> DEFINE d == [desktop[p] EXCEPT !.listener = FALSE]
  <2>1. stage[p] \in {"quits", "ends"} /\ Becomes(p, d) /\ Comes(p, stage[p])
    BY <1>3, StageUnchanged DEF ListenerEnds
  <2>2. d \in DesktopStates /\ d.loop = "off"
    BY <1>2, <2>1 DEF DesktopStates
  <2> HIDE DEF d
  <2> QED BY <1>1, <1>2, <2>1, <2>2, InvHostStep
<1>4. CASE ReconcileEnds(p) \/ AutostartEnds(p) \/ CloseRequested(p)
  <2>1. PICK d \in DesktopStates :
          /\ Becomes(p, d) /\ stage[p] = "runs" /\ d.listener = desktop[p].listener
          /\ d.mail = desktop[p].mail /\ d.loop # "off"
    <3>1. CASE ReconcileEnds(p) \/ AutostartEnds(p)
      <4> DEFINE d == [desktop[p] EXCEPT !.loop = "turns"]
      <4>1. Becomes(p, d) /\ stage[p] = "runs"
        BY <3>1 DEF ReconcileEnds, AutostartEnds, AfterReconcile
      <4>2. /\ d \in DesktopStates /\ d.loop # "off"
            /\ d.listener = desktop[p].listener /\ d.mail = desktop[p].mail
        BY <1>2 DEF DesktopStates
      <4> QED BY <4>1, <4>2
    <3>2. CASE CloseRequested(p)
      <4> DEFINE d == [desktop[p] EXCEPT !.shown = FALSE]
      <4>1. Becomes(p, d) /\ stage[p] = "runs"
        BY <3>2 DEF CloseRequested
      <4>2. /\ d \in DesktopStates /\ d.loop # "off"
            /\ d.listener = desktop[p].listener /\ d.mail = desktop[p].mail
        BY <1>2, <4>1 DEF DesktopStates
      <4> QED BY <4>1, <4>2
    <3> QED BY <1>4, <3>1, <3>2
  <2>2. Comes(p, stage[p])
    BY <1>4, StageUnchanged DEF ReconcileEnds, AutostartEnds, CloseRequested
  <2> QED BY <1>1, <1>2, <2>1, <2>2, InvHostStep
<1>5. CASE PlatformQuits(p)
  <2> DEFINE d == [desktop[p] EXCEPT !.loop = "off"]
  <2>1. Comes(p, "quits") /\ Becomes(p, d) /\ "quits" \in WithEvent
    BY <1>5 DEF PlatformQuits, WithEvent
  <2>2. d \in DesktopStates /\ d.loop = "off"
    BY <1>2 DEF DesktopStates
  <2> HIDE DEF d
  <2> QED BY <1>1, <1>2, <2>1, <2>2, InvHostStep
<1>6. CASE ShutdownReturns(p)
  <2> DEFINE d == [desktop[p] EXCEPT !.shown = FALSE, !.mail = FALSE]
  <2>1. stage[p] = "quits" /\ Comes(p, "ends") /\ Becomes(p, d) /\ "ends" \in WithEvent
    BY <1>6 DEF ShutdownReturns, WithEvent
  <2>2. d \in DesktopStates /\ d.loop = "off"
    BY <1>2, <2>1 DEF DesktopStates
  <2> HIDE DEF d
  <2> QED BY <1>1, <1>2, <2>1, <2>2, InvHostStep
<1> QED BY <1>3, <1>4, <1>5, <1>6

\* A turn of the loop takes the mail and shows the window, or is the last one.
LEMMA InvTurn ==
  ASSUME ResidentInv, NEW p \in Launches, LoopTurns(p)
  PROVE  ResidentInv'
<1>1. /\ stage[p] = "runs" /\ stage[p] \in WithEvent /\ desktop[p].listener
      /\ UNCHANGED <<mutex, event, signalled>>
  BY DEF LoopTurns, WithEvent, ResidentInv, LoopRuns
<1>2. /\ desktop[p] \in DesktopStates /\ signalled' \in BOOLEAN /\ wish \in BOOLEAN
      /\ wish => signalled \/ desktop[p].mail
  BY <1>1, HostKeepsWish DEF ResidentInv, ResidentTypeOK
<1>3. CASE \E shown \in BOOLEAN, loop \in {"turns", "autostart"} :
             /\ Becomes(p, [desktop[p] EXCEPT !.shown = desktop[p].mail \/ shown, !.mail = FALSE, !.loop = loop])
             /\ wish' = (wish /\ ~(desktop[p].mail \/ shown))
             /\ UNCHANGED stage
  <2>1. PICK shown \in BOOLEAN, loop \in {"turns", "autostart"} :
          /\ Becomes(p, [desktop[p] EXCEPT !.shown = desktop[p].mail \/ shown, !.mail = FALSE, !.loop = loop])
          /\ wish' = (wish /\ ~(desktop[p].mail \/ shown))
          /\ UNCHANGED stage
    BY <1>3
  <2>2. PICK v \in BOOLEAN : v = (desktop[p].mail \/ shown)
    OBVIOUS
  <2> DEFINE d == [desktop[p] EXCEPT !.shown = v, !.mail = FALSE, !.loop = loop]
  <2>3. Becomes(p, d)
    BY <2>1, <2>2
  <2>4. d \in DesktopStates /\ d.loop # "off" /\ d.listener = desktop[p].listener
    BY <1>2 DEF DesktopStates
  <2>5. wish' \in BOOLEAN /\ (wish' => signalled')
    BY <1>1, <1>2, <2>1
  <2>6. Comes(p, stage[p])
    BY <2>1, StageUnchanged
  <2> HIDE DEF d
  <2> QED BY <1>1, <1>2, <2>3, <2>4, <2>5, <2>6, InvHostStep
<1>4. CASE Comes(p, "quits") /\ Becomes(p, [desktop[p] EXCEPT !.loop = "off"]) /\ UNCHANGED wish
  <2> DEFINE d == [desktop[p] EXCEPT !.loop = "off"]
  <2>1. d \in DesktopStates /\ d.loop = "off" /\ Becomes(p, d) /\ "quits" \in WithEvent
    BY <1>2, <1>4 DEF DesktopStates, WithEvent
  <2> HIDE DEF d
  <2> QED BY <1>1, <1>2, <1>4, <2>1, InvHostStep
<1> QED BY ZenonT(60), <1>3, <1>4 DEF LoopTurns

\* The host lets go of the event, and later of the mutex.
LEMMA InvClosesEvent ==
  ASSUME ResidentInv, NEW p \in Launches, ClosesEvent(p)
  PROVE  ResidentInv'
<1>1. /\ stage[p] = "ends" /\ Comes(p, "leaves") /\ event' = event \ {p} /\ wish' = FALSE
      /\ signalled' \in BOOLEAN /\ UNCHANGED <<mutex, desktop>>
  BY DEF ClosesEvent
<1>2. /\ stage' \in [Launches -> LaunchStages] /\ stage'[p] = "leaves"
      /\ \A q \in Launches : q # p => stage'[q] = stage[q]
  BY <1>1, StageMoves DEF LaunchStages
<1>3. ResidentTypeOK'
  BY <1>1, <1>2 DEF ResidentInv, ResidentTypeOK
<1>4. HandlesMatchStages'
  BY <1>1, <1>2 DEF ResidentInv, HandlesMatchStages, WithEvent, Hosting
<1>5. OneHost'
  BY <1>1, <1>2 DEF ResidentInv, OneHost, WithEvent, Hosting
<1>6. LoopRuns' /\ WakeIsKept'
  BY <1>1, <1>2 DEF ResidentInv, LoopRuns, WakeIsKept
<1> QED BY <1>3, <1>4, <1>5, <1>6 DEF ResidentInv

LEMMA InvClosesMutex ==
  ASSUME ResidentInv, NEW p \in Launches, ClosesMutex(p)
  PROVE  ResidentInv'
<1>1. /\ stage[p] = "leaves" /\ Comes(p, "off") /\ mutex' = mutex \ {p} /\ mutex' \subseteq Launches
      /\ UNCHANGED <<event, signalled, desktop, wish>>
  BY DEF ClosesMutex, ResidentInv, ResidentTypeOK
<1>2. "off" \in LaunchStages \ WithEvent /\ stage[p] \notin WithEvent
  BY <1>1 DEF LaunchStages, WithEvent
<1>3. stage'[p] = "off" /\ \A q \in Launches : q # p => stage'[q] = stage[q]
  BY <1>1, <1>2, StageMoves
<1>4. HandlesMatchStages'
  BY <1>1, <1>3 DEF ResidentInv, HandlesMatchStages, WithEvent, Hosting
<1>5. OneHost'
  BY <1>1, <1>3 DEF ResidentInv, OneHost, WithEvent, Hosting
<1> QED BY <1>1, <1>2, <1>4, <1>5, QuietMove DEF ResidentInv

LEMMA InvStep == ResidentInv /\ [ResidentNext]_residentVars => ResidentInv'
<1> SUFFICES ASSUME ResidentInv, [ResidentNext]_residentVars PROVE ResidentInv'
  OBVIOUS
<1>1. CASE UNCHANGED residentVars
  BY <1>1 DEF residentVars, ResidentInv, ResidentTypeOK, HandlesMatchStages, OneHost, LoopRuns, WakeIsKept
<1>2. ASSUME NEW p \in Launches,
             \/ Launched(p) \/ LooksForInstance(p) \/ Elevates(p) \/ ClaimsMutex(p) \/ Yields(p)
             \/ CreatesEvent(p) \/ StartsDesktop(p) \/ ListenerTakes(p) \/ ListenerEnds(p)
             \/ ReconcileEnds(p) \/ LoopTurns(p) \/ AutostartEnds(p) \/ CloseRequested(p)
             \/ PlatformQuits(p) \/ ShutdownReturns(p) \/ ClosesEvent(p) \/ ClosesMutex(p) \/ Exits(p)
      PROVE  ResidentInv'
  BY <1>2, InvGoesOn, InvLooks, InvClaims, InvYields, InvCreatesEvent, InvStartsDesktop, InvListenerTakes,
     InvHostGoesOn, InvTurn, InvClosesEvent, InvClosesMutex
<1> QED BY <1>1, <1>2 DEF ResidentNext

\* However many launches there are and in whatever order they come, a wish to show the
\* window that a launch left behind stays with the desktop that runs.
THEOREM WakeAlwaysKept == ResidentSpec => []WakeIsKept
<1>1. ResidentInv => WakeIsKept
  BY DEF ResidentInv
<1> QED BY InvInit, InvStep, <1>1, PTL DEF ResidentSpec

\* At no time are two desktops past the mutex.
THEOREM OneHostAlways == ResidentSpec => []OneHost
<1>1. ResidentInv => OneHost
  BY DEF ResidentInv
<1> QED BY InvInit, InvStep, <1>1, PTL DEF ResidentSpec

=============================================================================
