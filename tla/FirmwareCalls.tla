--------------------------- MODULE FirmwareCalls ----------------------------
(***************************************************************************)
(* What the control coordinator takes for granted about its firmware calls: *)
(* every call ends as HpFirmware says, and nothing else writes.  HpActor    *)
(* implements it.                                                           *)
(***************************************************************************)
EXTENDS HpFirmware

Next ==
  \/ \E ch \in Channels, v \in Values : Accepted(ch, v) \/ CallFails(ch, v)
  \/ LateLanding

Spec == HwInit /\ [][Next]_hwVars

=============================================================================
