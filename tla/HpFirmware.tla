----------------------------- MODULE HpFirmware -----------------------------
(***************************************************************************)
(* The HP firmware as the control coordinator reaches it: five write       *)
(* channels behind the HP actor (hp_wmi/actor.rs), which executes one      *)
(* request at a time in FIFO order and whose caller gives up after five    *)
(* seconds.  A call therefore ends in one of three ways:                   *)
(*   - accepted: rc = 0, the value is in place;                            *)
(*   - refused: a definite rejection, nothing was written;                 *)
(*   - unknown: timeout or transport error.  The request may never run     *)
(*     (the actor skips cancelled envelopes), or it is executing and lands *)
(*     later ("stuck").                                                    *)
(* A definite reply implies that the actor is past every earlier request,  *)
(* so a stuck write has landed before it.                                  *)
(*                                                                         *)
(* A channel value is "base" (what the machine had before the session: fan *)
(* target handed to the firmware, max fan off, Balanced, startup GPU       *)
(* policy, captured power limits) or "user" (anything else).               *)
(***************************************************************************)
EXTENDS Naturals

Channels == {"level", "max", "thermal", "gpu", "power"}
FanChannels == {"level", "max"}
Domains == {"fan", "thermal", "gpu", "power"}
Values == {"base", "user"}

DomainOf(ch) == IF ch \in FanChannels THEN "fan" ELSE ch
ChannelsOf(d) == IF d = "fan" THEN FanChannels ELSE {d}

\* "unknown": the last write had an unknown outcome; "unsaved": max fan was
\* switched on without saving the obligation; "assumed": recorded as off unwritten.
Doubts == {"none", "unknown", "unsaved", "assumed"}

NoWrite == [ch |-> "none", val |-> "base"]
Writes == [ch : Channels, val : Values]

VARIABLES
  hw,     \* the value every channel really has
  stuck,  \* a timed-out write that is still executing, or NoWrite
  doubt   \* history: why the ledger need not know what a fan channel holds

hwVars == <<hw, stuck, doubt>>

HwTypeOK ==
  /\ hw \in [Channels -> Values]
  /\ stuck \in Writes \cup {NoWrite}
  /\ doubt \in [FanChannels -> Doubts]

HwInit ==
  /\ hw = [ch \in Channels |-> "base"]
  /\ stuck = NoWrite
  /\ doubt = [ch \in FanChannels |-> "none"]

\* The channels once the actor has finished the write it was stuck in.
Settled == IF stuck = NoWrite THEN hw ELSE [hw EXCEPT ![stuck.ch] = stuck.val]

Doubted(chs, why) == [ch \in FanChannels |-> IF ch \in chs THEN why ELSE doubt[ch]]

\* rc = 0: the write is in place and vouched for.
Accepted(ch, v) ==
  /\ hw' = [Settled EXCEPT ![ch] = v]
  /\ stuck' = NoWrite
  /\ doubt' = Doubted({ch}, "none")

\* The actor replied without writing: a definite rejection, or a readback.
Refused ==
  /\ hw' = Settled
  /\ stuck' = NoWrite
  /\ UNCHANGED doubt

\* Timeout or transport error: the request is skipped, or it lands later.
Unknown(ch, v) ==
  /\ hw' = hw
  /\ stuck' \in {stuck} \cup IF stuck = NoWrite THEN {[ch |-> ch, val |-> v]} ELSE {}
  /\ doubt' = Doubted({ch}, "unknown")

\* A call the coordinator sees as an error.
CallFails(ch, v) == Refused \/ Unknown(ch, v)

\* The stuck write lands after its caller has moved on (or crashed).
LateLanding ==
  /\ stuck # NoWrite
  /\ hw' = Settled
  /\ stuck' = NoWrite
  /\ UNCHANGED doubt

\* The firmware takes user fan and thermal states back (no heartbeat for
\* about 120 s, OGH, an AC/DC transition).
Clawback ==
  /\ hw' = [ch \in Channels |-> IF ch \in {"level", "max", "thermal"} THEN "base" ELSE hw[ch]]
  /\ hw' # hw
  /\ UNCHANGED <<stuck, doubt>>

=============================================================================
