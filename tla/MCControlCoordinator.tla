----------------------- MODULE MCControlCoordinator -----------------------
(* Small instances of ControlCoordinator for TLC. *)
EXTENDS ControlCoordinator

Fan(mode) == [op |-> "fan", val |-> mode]
User(op) == [op |-> op, val |-> "user"]

\* Every fan mode, and a two-step plan that takes max fan back for a level.
FanPlans == {<<Fan("auto")>>, <<Fan("curve")>>, <<Fan("max"), Fan("manual")>>}

\* Every domain besides the fans: two with a readback, one without.
DomainPlans == {<<User("thermal")>>, <<User("power"), User("gpu")>>}

\* An automation session over CPU policy and power limits, next to CPU commands.
SessionPlans == {<<User("cpu"), User("power")>>}
ManualPlans == {<<User("cpu")>>}
OneSession == {1}

\* A plan that can be caught by an override between its two steps.
LivePlans == {<<Fan("max"), Fan("manual")>>}

None == {}

=============================================================================
