------------------------------ MODULE Resident -------------------------------
(***************************************************************************)
(* The desktop that stays in the tray (apps/desktop/src/resident.rs and       *)
(* main.rs): a later launch wakes the one that runs through a named event and *)
(* ends, the named mutex decides between launches, and one loop on the window *)
(* thread shows, hides and exits.                                             *)
(***************************************************************************)
EXTENDS FiniteSets

CONSTANTS
  Launches,   \* processes that the user, or the logon task, may start any time
  Background  \* those started with --background

ASSUME LaunchAssumption == Background \subseteq Launches

VARIABLES
  stage,       \* how far main has come
  mutex,       \* who holds a handle of the mutex; it exists while one is open
  event,       \* who holds one of the show event
  signalled,   \* the event is set, until a waiting thread takes it
  desktop,     \* what runs inside: the listener, its channel, the loop, the window
  wish         \* history: a launch left it to a running desktop to show its window

residentVars == <<stage, mutex, event, signalled, desktop, wish>>

LaunchStages == {"off", "looks", "elevates", "elevated", "claims", "yields", "hosts", "starts",
                 "runs", "quits", "ends", "leaves", "missed", "refused"}
NoDesktop == [listener |-> FALSE, mail |-> FALSE, loop |-> "off", shown |-> FALSE]

ResidentTypeOK ==
  /\ stage \in [Launches -> LaunchStages]
  /\ mutex \subseteq Launches /\ event \subseteq Launches /\ signalled \in BOOLEAN
  /\ wish \in BOOLEAN
  /\ desktop \in [Launches -> [listener : BOOLEAN, mail : BOOLEAN, shown : BOOLEAN,
                               loop : {"off", "reconciles", "turns", "autostart"}]]

ResidentInit ==
  /\ stage = [p \in Launches |-> "off"]
  /\ mutex = {} /\ event = {} /\ signalled = FALSE /\ wish = FALSE
  /\ desktop = [p \in Launches |-> NoDesktop]

Comes(p, s) == stage' = [stage EXCEPT ![p] = s]
Becomes(p, d) == desktop' = [desktop EXCEPT ![p] = d]

Launched(p) ==
  /\ stage[p] = "off"
  /\ Comes(p, "looks")
  /\ UNCHANGED <<mutex, event, signalled, desktop, wish>>

\* signal_existing_instance: false when there is no event.
Signal ==
  /\ signalled' = (signalled \/ event # {})
  /\ wish' = (wish \/ event # {})

\* Before it asks for elevation; the elevated process it starts does the same again.
LooksForInstance(p) ==
  /\ stage[p] \in {"looks", "elevated"}
  /\ Signal
  /\ \/ event # {} /\ Comes(p, "off")
     \/ event = {} /\ Comes(p, "claims")
     \/ event = {} /\ stage[p] = "looks" /\ Comes(p, "elevates")
  /\ UNCHANGED <<mutex, event, desktop>>

\* The user may decline.
Elevates(p) ==
  /\ stage[p] = "elevates"
  /\ Comes(p, "elevated") \/ Comes(p, "refused")
  /\ UNCHANGED <<mutex, event, signalled, desktop, wish>>

ClaimsMutex(p) ==
  /\ stage[p] = "claims"
  /\ mutex' = mutex \cup {p}
  /\ Comes(p, IF mutex = {} THEN "hosts" ELSE "yields")
  /\ UNCHANGED <<event, signalled, desktop, wish>>

\* Somebody has the mutex: it is signalled, if it has its event yet, and left alone.
Yields(p) ==
  /\ stage[p] = "yields"
  /\ Signal
  /\ mutex' = mutex \ {p}
  /\ Comes(p, IF event # {} THEN "off" ELSE "missed")
  /\ UNCHANGED <<event, desktop>>

\* The event is made, unset, or the call fails.
CreatesEvent(p) ==
  /\ stage[p] = "hosts"
  /\ \/ /\ event' = event \cup {p}
        /\ signalled' = (signalled /\ event # {})
        /\ Comes(p, "starts")
        /\ UNCHANGED mutex
     \/ /\ mutex' = mutex \ {p}
        /\ Comes(p, "refused")
        /\ UNCHANGED <<event, signalled>>
  /\ UNCHANGED <<desktop, wish>>

\* Listener, window, tray and loop; without window or tray it shuts down.
StartsDesktop(p) ==
  /\ stage[p] = "starts"
  /\ \/ /\ Comes(p, "runs")
        /\ Becomes(p, [listener |-> TRUE, mail |-> FALSE, loop |-> "reconciles",
                       shown |-> p \notin Background])
        /\ wish' = (wish /\ p \in Background)
     \/ /\ Comes(p, "quits")
        /\ Becomes(p, [NoDesktop EXCEPT !.listener = TRUE])
        /\ UNCHANGED wish
  /\ UNCHANGED <<mutex, event, signalled>>

\* It looks at shutting_down between its waits, so it may take one after that was set.
ListenerTakes(p) ==
  /\ desktop[p].listener /\ signalled /\ stage[p] \in {"runs", "quits", "ends"}
  /\ signalled' = FALSE
  /\ Becomes(p, [desktop[p] EXCEPT !.mail = TRUE])
  /\ UNCHANGED <<stage, mutex, event, wish>>

ListenerEnds(p) ==
  /\ desktop[p].listener /\ stage[p] \in {"quits", "ends"}
  /\ Becomes(p, [desktop[p] EXCEPT !.listener = FALSE])
  /\ UNCHANGED <<stage, mutex, event, signalled, wish>>

\* The task is looked at once before the first turn, and the loop goes on without it.
AfterReconcile_onSuccess(ok) == IF ok THEN "turns" ELSE "off"
AfterReconcile(ok) == "turns"
ReconcileEnds(p) ==
  /\ stage[p] = "runs" /\ desktop[p].loop = "reconciles"
  /\ \E ok \in BOOLEAN : Becomes(p, [desktop[p] EXCEPT !.loop = AfterReconcile(ok)])
  /\ UNCHANGED <<stage, mutex, event, signalled, wish>>

\* One turn: the tray's clicks, then a waiting signal, then the commands of the window,
\* which are awaited; or the tray's exit, which ends the loop.
LoopTurns(p) ==
  LET d == desktop[p]
  IN  /\ stage[p] = "runs" /\ d.loop = "turns"
      /\ \/ \E shown \in BOOLEAN, loop \in {"turns", "autostart"} :
              /\ Becomes(p, [d EXCEPT !.shown = d.mail \/ shown, !.mail = FALSE, !.loop = loop])
              /\ wish' = (wish /\ ~(d.mail \/ shown))
              /\ UNCHANGED stage
         \/ /\ Comes(p, "quits")
            /\ Becomes(p, [d EXCEPT !.loop = "off"])
            /\ UNCHANGED wish
      /\ UNCHANGED <<mutex, event, signalled>>

AutostartEnds(p) ==
  /\ stage[p] = "runs" /\ desktop[p].loop = "autostart"
  /\ Becomes(p, [desktop[p] EXCEPT !.loop = "turns"])
  /\ UNCHANGED <<stage, mutex, event, signalled, wish>>

\* The cross of the title bar hides.
CloseRequested(p) ==
  /\ stage[p] = "runs" /\ desktop[p].shown
  /\ Becomes(p, [desktop[p] EXCEPT !.shown = FALSE])
  /\ UNCHANGED <<stage, mutex, event, signalled, wish>>

\* Logoff, or any other end the platform asks for.
PlatformQuits(p) ==
  /\ stage[p] = "runs"
  /\ Comes(p, "quits")
  /\ Becomes(p, [desktop[p] EXCEPT !.loop = "off"])
  /\ UNCHANGED <<mutex, event, signalled, wish>>

\* AppHandle::shutdown, for at most 40 s on the window thread; then the window is gone.
ShutdownReturns(p) ==
  /\ stage[p] = "quits"
  /\ Comes(p, "ends")
  /\ Becomes(p, [desktop[p] EXCEPT !.shown = FALSE, !.mail = FALSE])
  /\ UNCHANGED <<mutex, event, signalled, wish>>

\* InstanceGuard::drop, after the listener was joined: the event, then the mutex.
ClosesEvent(p) ==
  /\ stage[p] = "ends" /\ ~desktop[p].listener
  /\ event' = event \ {p}
  /\ signalled' = (signalled /\ event # {p})
  /\ wish' = FALSE
  /\ Comes(p, "leaves")
  /\ UNCHANGED <<mutex, desktop>>

ClosesMutex(p) ==
  /\ stage[p] = "leaves"
  /\ mutex' = mutex \ {p}
  /\ Comes(p, "off")
  /\ UNCHANGED <<event, signalled, desktop, wish>>

Exits(p) ==
  /\ stage[p] \in {"missed", "refused"}
  /\ Comes(p, "off")
  /\ UNCHANGED <<mutex, event, signalled, desktop, wish>>

ResidentNext ==
  \E p \in Launches :
    \/ Launched(p) \/ LooksForInstance(p) \/ Elevates(p) \/ ClaimsMutex(p) \/ Yields(p)
    \/ CreatesEvent(p) \/ StartsDesktop(p) \/ ListenerTakes(p) \/ ListenerEnds(p)
    \/ ReconcileEnds(p) \/ LoopTurns(p) \/ AutostartEnds(p) \/ CloseRequested(p)
    \/ PlatformQuits(p) \/ ShutdownReturns(p) \/ ClosesEvent(p) \/ ClosesMutex(p) \/ Exits(p)

ResidentSpec == ResidentInit /\ [][ResidentNext]_residentVars

-----------------------------------------------------------------------------
(* Properties *)

\* A launch that leaves it to the running desktop to show its window is not forgotten:
\* until a window is shown, its signal is in the event, with the listener's channel, or
\* that desktop is on its way out.  The signal may come before there is a listener,
\* while the loop waits for the task, or while the window is being hidden again.
WakeIsKept ==
  wish => \E o \in event :
            \/ stage[o] \in {"quits", "ends"}
            \/ signalled /\ (desktop[o].listener \/ stage[o] = "starts")
            \/ desktop[o].mail /\ desktop[o].loop # "off"

=============================================================================
