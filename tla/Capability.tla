----------------------------- MODULE Capability -----------------------------
(***************************************************************************)
(* What the program believes this machine can do (capability/mod.rs), and   *)
(* what the gate lets through because of it (control/safety.rs).  The       *)
(* board's profile is the ceiling; every read of the probe may lower it.    *)
(***************************************************************************)
EXTENDS Integers, Sequences

CONSTANTS
  Profiles,    \* board profiles, NoProfile among them
  Tables,      \* what the fan table may decode to: sequences of level pairs
  FanRequests  \* levels a client may ask for, <<left, right>>

Ranks == [supported |-> 3, experimental |-> 2, unsupported |-> 1, notProbed |-> 0]

\* A level of the table is a byte.
ASSUME CapabilityAssumption ==
  /\ \A table \in Tables : table \in Seq((0..255) \X (0..255))
  /\ \A profile \in Profiles : profile.limits \in DOMAIN Ranks

VARIABLES
  probe,  \* the reads still to come, and what the probe was given
  caps,   \* CapabilitySet: a Support for each domain, and the fan clamp
  shown   \* history: the reads that succeeded, and the table that was read

capsVars == <<probe, caps, shown>>

Merged_higher(profile, seen) == IF Ranks[seen] > Ranks[profile] THEN seen ELSE profile
Merged(profile, seen) == IF Ranks[seen] < Ranks[profile] THEN seen ELSE profile

HpDomains == {"thermal", "rpm", "manual", "max", "gpu", "mux", "limits"}
Reads == <<"count", "sdd", "table", "levels", "gpu", "mux">>
NoClamp == <<>>
NoProfile == [known |-> FALSE, gpu |-> FALSE, mux |-> FALSE,
              limits |-> "unsupported", clamp |-> NoClamp]

\* The domains a read is the proof of.  The thermal mode has none.
Proves(read) ==
  CASE read = "count"  -> {"rpm", "manual", "max"}
    [] read = "table"  -> {"manual"}
    [] read = "levels" -> {"rpm"}
    [] read \in {"gpu", "mux"} -> {read}
    [] OTHER -> {}

If(b) == IF b THEN "supported" ELSE "unsupported"

\* Without a handle nothing of HP's is usable, whatever the profile says.
Ceiling(profile, handle) ==
  [d \in HpDomains |->
     IF ~profile.known \/ ~handle THEN "unsupported"
     ELSE CASE d = "gpu" -> If(profile.gpu)
            [] d = "mux" -> If(profile.mux)
            [] d = "limits" -> profile.limits
            [] OTHER -> "supported"]

CapsInit ==
  \E profile \in Profiles, handle, elevated \in BOOLEAN, rails \in SUBSET {"ac", "dc"} :
    /\ probe = [left |-> IF handle THEN Reads ELSE <<>>, profile |-> profile,
                handle |-> handle, elevated |-> elevated, rails |-> rails]
    /\ caps = [hp |-> Ceiling(profile, handle), clamp |-> profile.clamp,
               knobs |-> If(rails = {"ac", "dc"})]
    /\ shown = [reads |-> {}, table |-> <<>>]

Lowered(domains) ==
  [d \in HpDomains |->
     IF d \in domains THEN Merged(caps.hp[d], "unsupported") ELSE caps.hp[d]]

Reading(read) == probe.left # <<>> /\ Head(probe.left) = read
Passes == probe' = [probe EXCEPT !.left = Tail(@)]
Usable(support) == support \in {"supported", "experimental"}

-----------------------------------------------------------------------------
(* The reads of the probe *)

ReadSucceeds(read) ==
  /\ Reading(read) /\ read \notin {"sdd", "table"}
  /\ read = "mux" => Usable(caps.hp["mux"])
  /\ Passes
  /\ caps' = [caps EXCEPT !.hp["rpm"] =
                IF read = "count" THEN Merged(@, "supported") ELSE @]
  /\ shown' = [shown EXCEPT !.reads = @ \cup {read}]

ReadFails(read) ==
  /\ Reading(read)
  /\ read = "mux" => Usable(caps.hp["mux"])
  /\ Passes
  /\ caps' = [caps EXCEPT !.hp = Lowered(Proves(read))]
  /\ UNCHANGED shown

\* The design data may deny the MUX; unreadable, they leave it to the profile.
ReadsSdd(hasMux) ==
  /\ Reading("sdd")
  /\ Passes
  /\ caps' = [caps EXCEPT !.hp = IF hasMux THEN @ ELSE Lowered({"mux"})]
  /\ shown' = [shown EXCEPT !.reads = @ \cup IF hasMux THEN {"sdd"} ELSE {"noMux"}]

\* The read of the MUX is made only while the domain is usable.
SkipsMux ==
  /\ Reading("mux") /\ ~Usable(caps.hp["mux"])
  /\ Passes
  /\ UNCHANGED <<caps, shown>>

\* decode_fan_table: the entries end at the first one of zeros.
Entries(table) ==
  LET padding == {i \in DOMAIN table : table[i] = <<0, 0>>}
  IN {table[i] : i \in {j \in DOMAIN table : \A p \in padding : j < p}}
LevelsOf(entries) == UNION {{e[1], e[2]} : e \in entries}

\* clamp_range: a table that looks wrong is not trusted.
Plausible(levels) ==
  /\ \E v, w \in levels : v # w
  /\ \A v \in levels : v <= 100
Range2(levels) ==
  <<CHOOSE lo \in levels : \A v \in levels : lo <= v,
    CHOOSE hi \in levels : \A v \in levels : hi >= v>>

ReadsTable(table) ==
  /\ Reading("table")
  /\ Passes
  /\ LET levels == LevelsOf(Entries(table)) IN
       caps' = [caps EXCEPT !.clamp = IF Plausible(levels) THEN Range2(levels) ELSE @]
  /\ shown' = [reads |-> shown.reads \cup {"table"}, table |-> table]

Probed ==
  probe.left = <<>> /\ (caps.clamp = NoClamp => ~Usable(caps.hp["manual"]))

\* Manual fan control needs a clamp.
Concludes ==
  /\ ~Probed /\ probe.left = <<>>
  /\ caps' = [caps EXCEPT !.hp = Lowered({"manual"})]
  /\ UNCHANGED <<probe, shown>>

CapsNext ==
  \/ \E i \in DOMAIN Reads : ReadSucceeds(Reads[i]) \/ ReadFails(Reads[i])
  \/ \E hasMux \in BOOLEAN : ReadsSdd(hasMux)
  \/ SkipsMux
  \/ \E table \in Tables : ReadsTable(table)
  \/ Concludes

CapsSpec == CapsInit /\ [][CapsNext]_capsVars

-----------------------------------------------------------------------------
(* The gate *)

\* The power limits are the exception: only an experimental domain is allowed.
Allowed(domain) ==
  CASE domain = "limits" -> caps.hp["limits"] = "experimental"
    [] domain = "knobs" -> caps.knobs = "supported" /\ probe.elevated
    [] domain = "mux" ->
         probe.profile.known /\ caps.hp["mux"] = "supported" /\ probe.elevated
    [] OTHER -> caps.hp[domain] = "supported"

LevelAllowed(v) == v # 0 /\ v \in caps.clamp[1]..caps.clamp[2]
LevelsAllowed(l) ==
  /\ Allowed("manual")
  /\ caps.clamp # NoClamp /\ LevelAllowed(l[1]) /\ LevelAllowed(l[2])

-----------------------------------------------------------------------------
Proofs ==
  [rpm |-> {"count", "levels"}, manual |-> {"count", "table"}, max |-> {"count"},
   gpu |-> {"gpu"}, mux |-> {"mux"}, thermal |-> {}, limits |-> {}]

Proven(domain) ==
  CASE domain = "knobs" -> probe.rails = {"ac", "dc"} /\ probe.elevated
    [] OTHER ->
         /\ probe.profile.known /\ probe.handle
         /\ Proofs[domain] \subseteq shown.reads
         /\ domain = "gpu" => probe.profile.gpu
         /\ domain = "mux" => probe.profile.mux /\ "noMux" \notin shown.reads
         /\ domain = "limits" => probe.profile.limits # "unsupported"

\* A level the firmware lists itself, or lies between two that it lists; the
\* profile's range counts when the table is no help.
Listed(v) ==
  LET levels == LevelsOf(Entries(shown.table)) IN
  IF levels # {} /\ (\A w \in levels : w <= 100) /\ (\E w, x \in levels : w # x)
  THEN \E w, x \in levels : w <= v /\ v <= x
  ELSE v \in probe.profile.clamp[1]..probe.profile.clamp[2]

\* Whatever fails while the program looks at the machine, what the gate lets
\* through afterwards is in the board's profile and every read that is its
\* proof succeeded; fan levels stay within what the firmware lists.
UsableIsProven ==
  Probed =>
    /\ \A d \in HpDomains \cup {"knobs"} : Allowed(d) => Proven(d)
    /\ \A l \in FanRequests : LevelsAllowed(l) => Listed(l[1]) /\ Listed(l[2])

=============================================================================
