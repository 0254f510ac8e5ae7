---------------------------- MODULE WriterLease -----------------------------
(***************************************************************************)
(* One process writes the hardware (control/lease.rs, engine.rs): the named *)
(* kernel object whose presence is the lease, the scan for desktops that    *)
(* predate it, and the life of the control thread under it.                 *)
(***************************************************************************)
EXTENDS FiniteSets

CONSTANTS Apps, Desktops   \* processes; those that a scan takes for a writer

ASSUME LeaseAssumption == Desktops \subseteq Apps

VARIABLES
  app,      \* how far Engine::start, or the teardown, has come
  handles,  \* who holds a handle of the kernel object; it exists while one is open
  writers   \* whose control thread runs

leaseVars == <<app, handles, writers>>

LeaseTypeOK ==
  /\ app \in [Apps -> {"off", "scans", "creates", "closes", "owns", "readOnly", "ends"}]
  /\ handles \subseteq Apps
  /\ writers \subseteq Apps

LeaseInit == app = [p \in Apps |-> "off"] /\ handles = {} /\ writers = {}

At(p, stage) == app[p] = stage
Goes(p, stage) == app' = [app EXCEPT ![p] = stage]

Launch(p) ==
  /\ At(p, "off")
  /\ Goes(p, "scans")
  /\ UNCHANGED <<handles, writers>>

\* Another desktop that runs, however far it has come, is taken for a writer.
\* The scan itself may fail.
Scans(p) ==
  /\ At(p, "scans")
  /\ \/ Goes(p, "readOnly")
     \/ /\ \A q \in Desktops \ {p} : At(q, "off")
        /\ Goes(p, "creates")
  /\ UNCHANGED <<handles, writers>>

\* The call makes the object, or opens the one that is there and says so.
Existed == handles # {}
Creates(p) ==
  /\ At(p, "creates")
  /\ handles' = handles \cup {p}
  /\ Goes(p, IF Existed THEN "closes" ELSE "owns")
  /\ UNCHANGED writers

Closes(p) ==
  /\ At(p, "closes")
  /\ handles' = handles \ {p}
  /\ Goes(p, "readOnly")
  /\ UNCHANGED writers

\* The coordinator may fail to start; the lease is held all the same.
StartsControl(p) ==
  /\ At(p, "owns")
  /\ writers' = writers \cup {p}
  /\ UNCHANGED <<app, handles>>

\* The acknowledgement of the control thread has no time limit.
Stopped_unawaited(p) == TRUE
Stopped(p) == p \notin writers

ShutsDown(p) ==
  /\ At(p, "owns") \/ At(p, "readOnly")
  /\ Goes(p, "ends")
  /\ UNCHANGED <<handles, writers>>

\* It restores and ends.
ControlEnds(p) ==
  /\ At(p, "ends") /\ p \in writers
  /\ writers' = writers \ {p}
  /\ UNCHANGED <<app, handles>>

\* The engine is dropped with the lease in it.
Released(p) ==
  /\ At(p, "ends") /\ Stopped(p)
  /\ handles' = handles \ {p}
  /\ Goes(p, "off")
  /\ UNCHANGED writers

\* The kernel ends the threads of a process and closes its handles.
Dies(p) ==
  /\ ~At(p, "off")
  /\ Goes(p, "off")
  /\ handles' = handles \ {p}
  /\ writers' = writers \ {p}

LeaseStep(p) ==
  \/ Launch(p) \/ Scans(p) \/ Creates(p) \/ Closes(p) \/ StartsControl(p)
  \/ ShutsDown(p) \/ ControlEnds(p) \/ Released(p) \/ Dies(p)

LeaseNext == \E p \in Apps : LeaseStep(p)
LeaseSpec == LeaseInit /\ [][LeaseNext]_leaseVars

-----------------------------------------------------------------------------
\* Two programs never write the hardware at once: not while one looks at the
\* object of the other, not while the first one still restores, and not after
\* a crash.
OneWriter == \A p, q \in writers : p = q

=============================================================================
