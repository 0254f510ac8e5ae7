---------------------------- MODULE HpTransport -----------------------------
(***************************************************************************)
(* The HP WMI transport (platform/hp_wmi/mod.rs, commands.rs): what a write *)
(* of the GPU policy (0x22) or of the power limits (0x29) puts on the wire, *)
(* what the firmware makes of it, and the three method shapes a write is    *)
(* tried in.  Watts are bytes on the wire and eighths of a watt in the      *)
(* processor's registers, from which they are read back.                    *)
(***************************************************************************)
EXTENDS Integers, Sequences

CONSTANT MaxMisses    \* bound: calls that fail below the firmware, or lie

VARIABLES
  firmware,   \* what it holds: the limits and the bytes of the GPU policy
  hpCall,     \* the write under way
  misses      \* how often an attempt did not do what its answer says

hpVars == <<firmware, hpCall, misses>>

PerWatt == 8
NoChange == 255
Factory == 0
Shapes == 3

NoCall == [to |-> "none", bytes |-> <<>>, left |-> 0, end |-> "none",
           landed |-> FALSE]

\* PL2 comes first on this board.  A PL4 of 0 is one that was not asked for;
\* the fourth byte can neither be read back nor restored and is never written.
EncodeLimits(l) ==
  <<l.pl2, l.pl1, IF l.pl4 = 0 THEN NoChange ELSE l.pl4, NoChange>>

Flag(b) == IF b THEN 1 ELSE 0
EncodeGpu(p) == <<Flag(p.ctgp), Flag(p.ppab), p.dstate, p.slowdown>>
DecodeGpu(b) ==
  [ctgp |-> b[1] # 0, ppab |-> b[2] # 0, dstate |-> b[3], slowdown |-> b[4]]

\* The whole watts a register rounds to, as a byte.
RoundedWatts(raw) ==
  LET w == (2 * raw + PerWatt) \div (2 * PerWatt) IN IF w > 255 THEN 255 ELSE w

\* How the firmware takes one byte of 0x29: leave, factory value, or watts.
Register(old, factory, byte) ==
  IF byte = NoChange THEN old
  ELSE IF byte = Factory THEN factory ELSE PerWatt * byte

Effect(to, b) ==
  IF to = "gpu" THEN [firmware EXCEPT !.gpu = b]
  ELSE [firmware EXCEPT !.limits =
          [pl1 |-> Register(@.pl1, firmware.factory.pl1, b[2]),
           pl2 |-> Register(@.pl2, firmware.factory.pl2, b[1]),
           pl4 |-> Register(@.pl4, firmware.factory.pl4, b[3])]]

TransportInit(original) == firmware = original /\ hpCall = NoCall /\ misses = 0

\* A typed setter: the payload, and all method shapes still to be tried.
StartsCall(to, bytes) ==
  hpCall' = [to |-> to, bytes |-> bytes, left |-> Shapes, end |-> "none",
           landed |-> FALSE]

InCall == hpCall.to # "none" /\ hpCall.left > 0
Misbehaves == misses < MaxMisses /\ misses' = misses + 1

Ends(end, landed) ==
  hpCall' = [hpCall EXCEPT !.left = 0, !.end = end, !.landed = @ \/ landed]

\* The next shape is tried, and the last answer is the one that counts.
TriesNext(end, landed) ==
  hpCall' = [hpCall EXCEPT !.left = @ - 1, !.end = end, !.landed = @ \/ landed]

AttemptAccepted ==
  /\ InCall
  /\ firmware' = Effect(hpCall.to, hpCall.bytes)
  /\ Ends("accepted", TRUE)
  /\ UNCHANGED misses

\* Accepted and without effect: why there is a readback.
AttemptIgnored ==
  /\ InCall /\ Misbehaves
  /\ Ends("accepted", FALSE)
  /\ UNCHANGED firmware

\* Return codes 3 and 4 may mean the wrong method; any other one is final.
AttemptOfWrongShape ==
  /\ InCall
  /\ TriesNext("rejected", FALSE)
  /\ UNCHANGED <<firmware, misses>>

AttemptRejected ==
  /\ InCall
  /\ Ends("rejected", FALSE)
  /\ UNCHANGED <<firmware, misses>>

\* Below the firmware: nobody knows whether it took effect.
AttemptFails(landed) ==
  /\ InCall /\ Misbehaves
  /\ firmware' = IF landed THEN Effect(hpCall.to, hpCall.bytes) ELSE firmware
  /\ TriesNext("unknown", landed)

Attempt ==
  \/ AttemptAccepted \/ AttemptIgnored
  \/ AttemptOfWrongShape \/ AttemptRejected
  \/ \E landed \in BOOLEAN : AttemptFails(landed)

Ended == hpCall.to # "none" /\ hpCall.left = 0

\* definite_hp_rejection: what a rejected call wrote is taken to be nothing.
Rejected == hpCall.end = "rejected"

\* A rejected call of which an earlier attempt did land.
RejectedInPart == Rejected /\ hpCall.landed

=============================================================================
