------------------------- MODULE MCBatteryScheduler -------------------------
(* Instances of BatteryScheduler for TLC. *)
EXTENDS BatteryScheduler

CpuPolicy == <<"sets">>
NoProcess == {}
SecondSetsItself == {<<2, "priority">>}

=============================================================================
