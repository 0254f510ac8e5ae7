------------------------------ MODULE MCParts -------------------------------
(***************************************************************************)
(* The parts below and beside the coordinator, each small enough to be      *)
(* explored alone.  A behaviour of this instance is a behaviour of one part *)
(* (`part`, chosen at the start) while the others stay where they begin.    *)
(***************************************************************************)
EXTENDS HpActor, MuxLifecycle, ControlJournal, CpuPolicy, FanCurve,
        LimitWrites, Capability, WriterLease, Sensors, ProfileStamp, Resident

VARIABLE part

allVars == <<part, actorVars, muxVars, journalVars, cpuVars, limitVars, capsVars,
             leaseVars, sensorVars, stampVars, fanVars, residentVars>>

Init ==
  /\ part \in {"actor", "mux", "journal", "cpu", "limits", "caps", "lease",
              "sensors", "stamp", "curve", "resident"}
  /\ ActorInit /\ JournalInit /\ ResidentInit
  /\ CurveInit /\ (part # "curve" => ~fanDirty)
  /\ LimitInit
  /\ MuxInit /\ (part # "mux" => muxDisk.readable)
  /\ CpuInit
  /\ CapsInit
  /\ part # "caps" => ~probe.elevated /\ ~probe.handle /\ probe.rails = {} /\ ~probe.profile.known
  /\ LeaseInit /\ StampInit
  /\ SensorInit /\ (part # "sensors" => source = "power")
  /\ \A s \in Schemes : power.store[s]["min"]["ac"] = 1
  /\ part # "cpu" => writable = {} /\ others.smooth

Next ==
  /\ part' = part
  /\ \/ /\ part = "actor" /\ ActorNext
        /\ UNCHANGED <<muxVars, journalVars, cpuVars, limitVars, capsVars,
                       leaseVars, sensorVars, stampVars, fanVars, residentVars>>
     \/ /\ part = "mux" /\ MuxNext
        /\ UNCHANGED <<actorVars, journalVars, cpuVars, limitVars, capsVars,
                       leaseVars, sensorVars, stampVars, fanVars, residentVars>>
     \/ /\ part = "journal" /\ JournalNext
        /\ UNCHANGED <<actorVars, muxVars, cpuVars, limitVars, capsVars,
                       leaseVars, sensorVars, stampVars, fanVars, residentVars>>
     \/ /\ part = "cpu" /\ CpuNext
        /\ UNCHANGED <<actorVars, muxVars, journalVars, limitVars, capsVars,
                       leaseVars, sensorVars, stampVars, fanVars, residentVars>>
     \/ /\ part = "limits" /\ LimitNext
        /\ UNCHANGED <<actorVars, muxVars, journalVars, cpuVars, capsVars,
                       leaseVars, sensorVars, stampVars, fanVars, residentVars>>
     \/ /\ part = "caps" /\ CapsNext
        /\ UNCHANGED <<actorVars, muxVars, journalVars, cpuVars, limitVars,
                       leaseVars, sensorVars, stampVars, fanVars, residentVars>>
     \/ /\ part = "lease" /\ LeaseNext
        /\ UNCHANGED <<actorVars, muxVars, journalVars, cpuVars, limitVars,
                       capsVars, sensorVars, stampVars, fanVars, residentVars>>
     \/ /\ part = "sensors" /\ SensorNext
        /\ UNCHANGED <<actorVars, muxVars, journalVars, cpuVars, limitVars,
                       capsVars, leaseVars, stampVars, fanVars, residentVars>>
     \/ /\ part = "stamp" /\ StampNext
        /\ UNCHANGED <<actorVars, muxVars, journalVars, cpuVars, limitVars,
                       capsVars, leaseVars, sensorVars, fanVars, residentVars>>
     \/ /\ part = "curve" /\ CurveNext
        /\ UNCHANGED <<actorVars, muxVars, journalVars, cpuVars, limitVars,
                       capsVars, leaseVars, sensorVars, stampVars, residentVars>>
     \/ /\ part = "resident" /\ ResidentNext
        /\ UNCHANGED <<actorVars, muxVars, journalVars, cpuVars, limitVars,
                       capsVars, leaseVars, sensorVars, stampVars, fanVars>>

\* Only the property of the curve is about progress.
Spec == Init /\ [][Next]_allVars /\ CurveFairness

-----------------------------------------------------------------------------
MCLevels == 1..2
Policy(k, ac, dc) == [NoPolicy EXCEPT !.set[k] = [ac |-> ac, dc |-> dc]]

\* One bound at a time, both at once, and the boost with its single-rail field.
MCRequests ==
  { Policy("min", 2, 0), Policy("max", 1, 0),
    [Policy("min", 2, 0) EXCEPT !.set["max"]["ac"] = 2],
    [Policy("boost", 1, 0) EXCEPT !.boostBoth = 2] }

\* A snapshot reads everything, or fails as a whole.
MCHidden == {{}, Knobs}

Point(t, l, r) == [temp |-> t, left |-> l, right |-> r]

\* The second one is refused: its temperatures do not increase.
MCCurves ==
  { <<Point(1, 2, 2), Point(4, 3, 4), Point(6, 4, 4)>>,
    <<Point(1, 2, 2), Point(1, 3, 4), Point(6, 4, 4)>> }
MCClamp == 2..4

\* Eighths of a watt: PL1 is not a whole number, PL4 is one watt above a byte.
Watts(pl1, pl2, pl4) == [pl1 |-> pl1, pl2 |-> pl2, pl4 |-> pl4]
MCOriginals ==
  {[limits |-> Watts(444, 1256, 2048), factory |-> Watts(440, 1256, 1600), gpu |-> <<1, 0, 1, 0>>]}
\* With PL4, without it, and one that is refused: PL1 is above PL2.
MCLimitRequests == {Watts(45, 90, 100), Watts(45, 90, 0), Watts(90, 45, 0)}
\* Refused: there is no fifth D-state.
MCGpuRequests == {[ctgp |-> FALSE, ppab |-> TRUE, dstate |-> 5, slowdown |-> 0]}
\* The second is refused: 20 degrees are out of range.
MCPatches == {[slowdown |-> 87], [slowdown |-> 20]}

\* The board's profile as it is, one with less, and a board nobody knows.
Board == [known |-> TRUE, gpu |-> TRUE, mux |-> TRUE, limits |-> "experimental",
          clamp |-> <<0, 55>>]
MCProfiles ==
  {Board, NoProfile,
   [Board EXCEPT !.mux = FALSE, !.gpu = FALSE, !.limits = "supported", !.clamp = NoClamp]}

\* One to trust, one that is empty, one out of range, and one level only.
MCTables ==
  {<< <<20, 22>>, <<50, 58>>, <<0, 0>>, <<99, 99>> >>, << <<0, 0>> >>,
   << <<20, 120>> >>, << <<30, 30>> >>}
MCFanRequests == {<<21, 58>>, <<10, 55>>, <<0, 30>>, <<60, 99>>}

\* Which reads fail together: none, one, or all a channel can fall back on.
MCOutages ==
  {{}, {"pkgTherm"}, {"pkgTherm", "coreTherm"}, {"energy", "invalid"}, {"aperf"},
   {"limit", "mchbar"}, {"thermal", "util", "nvml"}, {"nvml", "topology"},
   {"collect"}, {"memory"}, {"counter"}, {"read"}}

\* A file with the name of a built-in, and definitions that share a knob.
MCBuiltins == [quiet |-> [cpu |-> 1, fan |-> 1], fast |-> [cpu |-> 2]]
MCFiles == [quiet |-> [fan |-> 2]]
MCManual == {[knob |-> "cpu", value |-> 2]}

=============================================================================
