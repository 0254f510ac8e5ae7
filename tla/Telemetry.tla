----------------------------- MODULE Telemetry ------------------------------
(***************************************************************************)
(* The telemetry of the engine (telemetry/mod.rs): one worker thread per    *)
(* collector, a shared store, a `pending` flag that coalesces the workers'  *)
(* notifications, and a coordinator thread that publishes snapshots to a    *)
(* subscriber through a channel of capacity one.                            *)
(*                                                                          *)
(* Samples are abstract: `store` says whether the store has any, and        *)
(* whether the last snapshot has them all; now and then one sample is       *)
(* followed through store, snapshot and channel to a subscriber (`mark`).   *)
(* Cadences and time-outs may expire at any moment.                         *)
(***************************************************************************)
EXTENDS Naturals, Sequences

CONSTANTS
  Collectors,   \* the collectors that could be opened
  MaxAsked      \* bound: refresh requests that wait in the command queue

ASSUME TelemetryAssumption == Collectors # {} /\ MaxAsked \in Nat

VARIABLES
  worker,       \* each collector's thread
  wake,         \* each worker's channel of capacity one: a message, and whether it is closed
  pending,      \* a notification is on its way, or being looked at
  commands,     \* the coordinator's queue
  coord,        \* what the coordinator thread does
  store,        \* "fresh" when it has a sample the last snapshot does not have
  reader,       \* the subscriber: its thread, and its channel of capacity one
  mark,         \* where the followed sample is
  overdue       \* a bounded wait of the teardown has run out

telemetryVars ==
  <<worker, wake, pending, commands, coord, store, reader, mark, overdue>>

Closed == [msg |-> "none", closed |-> TRUE]
Messages == {"none", "refresh", "stop"}

TelemetryTypeOK ==
  /\ worker \in [Collectors -> {"waits", "collects", "notifies", "panicked", "gone"}]
  /\ wake \in [Collectors -> [msg : Messages, closed : BOOLEAN]]
  /\ pending \in BOOLEAN
  /\ commands \in Seq({"collected", "refresh", "subscribe", "shutdown"})
  /\ Len(SelectSeq(commands, LAMBDA m : m = "collected")) <= 1
  /\ coord \in {"listens", "publishes", "offers", "joins", "gone"}
  /\ store \in {"empty", "fresh", "published"}
  /\ reader \in [thread : {"out", "asked", "reads", "left", "pruned"}, slot : {"none", "empty", "full"}]
  /\ mark \in {"none", "stored", "taken", "offered"}
  /\ overdue \in BOOLEAN

TelemetryInit ==
  /\ worker = [c \in Collectors |-> "waits"]
  /\ wake = [c \in Collectors |-> [msg |-> "none", closed |-> FALSE]]
  /\ pending = FALSE
  /\ commands = <<>>
  /\ coord = "listens"
  /\ store = "empty"
  /\ reader = [thread |-> "out", slot |-> "none"]
  /\ mark = "none"
  /\ overdue = FALSE

-----------------------------------------------------------------------------
(* A worker *)

\* Its cadence is due, or it takes a refresh out of its channel.
Wakes(c) ==
  /\ worker[c] = "waits" /\ wake[c].msg # "stop"
  /\ wake[c].msg = "refresh" \/ ~wake[c].closed
  /\ worker' = [worker EXCEPT ![c] = "collects"]
  /\ wake' = [wake EXCEPT ![c].msg = "none"]
  /\ UNCHANGED <<pending, commands, coord, store, reader, mark, overdue>>

Stops(c) ==
  /\ worker[c] = "waits"
  /\ wake[c].msg = "stop" \/ (wake[c].msg = "none" /\ wake[c].closed)
  /\ worker' = [worker EXCEPT ![c] = "gone"]
  /\ wake' = [wake EXCEPT ![c] = Closed]
  /\ UNCHANGED <<pending, commands, coord, store, reader, mark, overdue>>

\* collect() has returned a sample, and it is pushed into the store.
Stores(c) ==
  /\ worker[c] = "collects"
  /\ worker' = [worker EXCEPT ![c] = "notifies"]
  /\ store' = "fresh"
  /\ mark' \in {mark} \cup IF mark = "none" /\ reader.thread \in {"asked", "reads"} THEN {"stored"} ELSE {}
  /\ UNCHANGED <<wake, pending, commands, coord, reader, overdue>>

\* A throttled or failed read leaves the store's sample alone.
StoresNothing(c) ==
  /\ worker[c] = "collects"
  /\ worker' = [worker EXCEPT ![c] = "notifies"]
  /\ UNCHANGED <<wake, pending, commands, coord, store, reader, mark, overdue>>

\* A panic in collect() marks the provider unavailable and ends the worker.
Panics(c) ==
  /\ worker[c] = "collects"
  /\ worker' = [worker EXCEPT ![c] = "panicked"]
  /\ UNCHANGED <<wake, pending, commands, coord, store, reader, mark, overdue>>

\* pending.swap(true): whoever finds it lowered tells the coordinator.
Notification == IF pending \/ coord = "gone" THEN <<>> ELSE <<"collected">>

Notifies(c) ==
  /\ worker[c] \in {"notifies", "panicked"}
  /\ worker' = [worker EXCEPT ![c] = IF @ = "notifies" THEN "waits" ELSE "gone"]
  /\ pending' = TRUE
  /\ commands' = commands \o Notification
  /\ wake' = [wake EXCEPT ![c] = IF worker[c] = "panicked" THEN Closed ELSE @]
  /\ UNCHANGED <<coord, store, reader, mark, overdue>>

-----------------------------------------------------------------------------
(* TelemetryHandle *)

Asks(what) ==
  /\ coord # "gone"
  /\ commands' = Append(commands, what)
  /\ UNCHANGED <<worker, wake, pending, coord, store, mark, overdue>>

RequestsFresh ==
  /\ Len(SelectSeq(commands, LAMBDA m : m = "refresh")) < MaxAsked
  /\ Asks("refresh")
  /\ UNCHANGED reader

Subscribes ==
  /\ reader.thread = "out"
  /\ reader' = [thread |-> "asked", slot |-> "empty"]
  /\ Asks("subscribe")

\* The subscriber takes the snapshot out of its channel.
Reads ==
  /\ reader.thread \in {"asked", "reads"} /\ reader.slot = "full"
  /\ reader' = [reader EXCEPT !.slot = "empty"]
  /\ mark' = IF mark = "offered" THEN "none" ELSE mark
  /\ UNCHANGED <<worker, wake, pending, commands, coord, store, overdue>>

\* The subscriber drops its receiver, and whatever is in it.
Leaves ==
  /\ reader.thread \in {"asked", "reads"}
  /\ reader' = [thread |-> "left", slot |-> "none"]
  /\ mark' = "none"
  /\ UNCHANGED <<worker, wake, pending, commands, coord, store, overdue>>

-----------------------------------------------------------------------------
(* TelemetryCoordinator::run *)

Turn(what) == coord = "listens" /\ commands # <<>> /\ Head(commands) = what

PendingAfter(step) == step # "received" /\ pending

Collected ==
  /\ Turn("collected")
  /\ commands' = Tail(commands)
  /\ pending' = PendingAfter("received")
  /\ coord' = "publishes"
  /\ UNCHANGED <<worker, wake, store, reader, mark, overdue>>

KeepsReader_unlessFull(slot) == slot = "empty"

\* Only a closed channel costs a subscriber its place, not a full one.
KeepsReader(slot) == slot # "none"

\* publish(): nothing without a subscriber, else a snapshot of the store ...
TakesSnapshot ==
  /\ coord = "publishes"
  /\ IF reader.thread = "reads"
     THEN /\ coord' = "offers"
          /\ store' = IF store = "fresh" THEN "published" ELSE store
          /\ mark' = IF mark = "stored" THEN "taken" ELSE mark
          /\ UNCHANGED pending
     ELSE /\ coord' = "listens"
          /\ pending' = PendingAfter("published")
          /\ UNCHANGED <<store, mark>>
  /\ UNCHANGED <<worker, wake, commands, reader, overdue>>

\* ... and try_send of it, which a full channel drops.
Offers ==
  /\ coord = "offers"
  /\ coord' = "listens"
  /\ pending' = PendingAfter("published")
  /\ reader' = IF reader.thread # "reads" THEN reader
               ELSE [thread |-> IF KeepsReader(reader.slot) THEN "reads" ELSE "pruned",
                     slot |-> IF reader.slot = "empty" THEN "full" ELSE reader.slot]
  /\ mark' = IF mark # "taken" THEN mark
             ELSE IF reader.slot = "empty" THEN "offered" ELSE "stored"
  /\ UNCHANGED <<worker, wake, commands, store, overdue>>

Refreshes ==
  /\ Turn("refresh")
  /\ commands' = Tail(commands)
  /\ wake' = [c \in Collectors |->
       IF ~wake[c].closed /\ wake[c].msg = "none" THEN [wake[c] EXCEPT !.msg = "refresh"]
       ELSE wake[c]]
  /\ UNCHANGED <<worker, pending, coord, store, reader, mark, overdue>>

\* A new subscriber is shown what is in the store, if anything is.
Welcomes ==
  /\ Turn("subscribe")
  /\ commands' = Tail(commands)
  /\ reader' = IF reader.thread # "asked" THEN reader
               ELSE [thread |-> "reads", slot |-> IF store = "empty" THEN "empty" ELSE "full"]
  /\ mark' = IF mark = "stored" /\ reader.thread = "asked" THEN "offered" ELSE mark
  /\ store' = IF store = "fresh" THEN "published" ELSE store
  /\ UNCHANGED <<worker, wake, pending, coord, overdue>>

ClosedAfter_sentOnly(w) == IF w.msg = "none" THEN [w EXCEPT !.msg = "stop"] ELSE w

\* try_send(false) may find a refresh in the channel; dropping the sender ends the
\* worker after that refresh.
ClosedAfter(w) == [msg |-> IF w.msg = "none" THEN "stop" ELSE w.msg, closed |-> TRUE]

TakesShutdown ==
  /\ Turn("shutdown")
  /\ commands' = Tail(commands)
  /\ wake' = [c \in Collectors |-> IF worker[c] = "gone" THEN Closed ELSE ClosedAfter(wake[c])]
  /\ coord' = "joins"
  /\ UNCHANGED <<worker, pending, store, reader, mark, overdue>>

AllStopped == \A c \in Collectors : worker[c] = "gone"

\* All workers have finished, or nine seconds are over; then the handle has its ack.
Joined ==
  /\ coord = "joins"
  /\ coord' = "gone"
  /\ commands' = <<>>
  /\ overdue' = (overdue \/ ~AllStopped)
  /\ UNCHANGED <<worker, wake, pending, store, reader, mark>>

WorkerSteps(c) == Wakes(c) \/ Stops(c) \/ Stores(c) \/ StoresNothing(c) \/ Panics(c) \/ Notifies(c)
HandleSteps == RequestsFresh \/ Subscribes
ReaderSteps == Reads \/ Leaves
CoordSteps == Collected \/ TakesSnapshot \/ Offers \/ Refreshes \/ Welcomes \/ TakesShutdown \/ Joined

=============================================================================
