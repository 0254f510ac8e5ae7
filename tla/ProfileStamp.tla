---------------------------- MODULE ProfileStamp -----------------------------
(***************************************************************************)
(* The name of the profile that is said to be in force: ObservedState's       *)
(* active_profile, and DesiredState's, which a scoped session remembers and   *)
(* gives back.  Plans of several steps, their failures, sessions, hand-backs  *)
(* and other software all move the machine under that name.                   *)
(***************************************************************************)
EXTENDS Naturals, Sequences

CONSTANTS
  Builtins, UserFiles,  \* functions from names to definitions: what ships, and the directory
  Readable,             \* the knobs whose value can be read back
  Manual,               \* single steps a user may ask for
  Outside,              \* values other software may set; the override's is the highest, Full
  Full,
  MaxMoves              \* a bound: how often somebody else moves the machine

VARIABLES
  machine,  \* the value of each knob
  astray,   \* knobs moved by anyone but a step known to be applied, or put back to such a value
  lastSet,  \* what is known of the knobs that have no readback
  desired,  \* DesiredState.profile
  activeName, \* ObservedState.active_profile
  scope,    \* scoped_session
  plan,     \* the active plan
  moves

stampVars == <<machine, astray, lastSet, desired, activeName, scope, plan, moves>>

ProfileKnobs == {"cpu", "limits", "gpu", "thermal", "fan"}
NoDefinition == [k \in {} |-> 0]
NoName == "none"
NoScope_ == [open |-> FALSE, baseline |-> NoDefinition, astray |-> {}, previous |-> NoName]
NoPlan_ == [steps |-> <<>>, index |-> 0, name |-> NoName, restores |-> 0, tried |-> FALSE]
Default == 0

\* A definition has a field for each of the knobs and no other.
ASSUME StampAssumption ==
  /\ \A n \in DOMAIN Builtins : DOMAIN Builtins[n] \subseteq ProfileKnobs
  /\ \A n \in DOMAIN UserFiles : DOMAIN UserFiles[n] \subseteq ProfileKnobs

\* A file never stands for a built-in name, and one that does not parse is left out.
Registry == [n \in DOMAIN Builtins \cup DOMAIN UserFiles |->
               IF n \in DOMAIN Builtins THEN Builtins[n] ELSE UserFiles[n]]

StampInit ==
  /\ machine = [k \in ProfileKnobs |-> Default]
  /\ astray = {}
  /\ lastSet = NoDefinition
  /\ desired = NoName /\ activeName = NoName
  /\ scope = NoScope_ /\ plan = NoPlan_ /\ moves = 0

\* expand_definition: the steps of what the definition sets, the fan last; without any it
\* is refused.
StepFor(k, definition) ==
  IF k \in DOMAIN definition THEN <<[knob |-> k, value |-> definition[k]]>> ELSE <<>>
Expanded(definition) ==
  StepFor("cpu", definition) \o StepFor("limits", definition) \o StepFor("gpu", definition)
    \o StepFor("thermal", definition) \o StepFor("fan", definition)

\* What is read back, or else was written last, or else is the firmware's own.
ScopeBaseline(definition) ==
  [k \in DOMAIN definition |->
     IF k \in Readable THEN machine[k]
     ELSE IF k \in DOMAIN lastSet THEN lastSet[k] ELSE Default]

Idle_ == plan.steps = <<>>
Starts(steps, name, restores) ==
  plan' = [steps |-> steps, index |-> 0, name |-> name, restores |-> restores, tried |-> FALSE]

\* Any command but a session's own first puts back what the session changed.
Restore == Expanded(scope.baseline)
TakesOver(steps, name) ==
  IF scope.open THEN Starts(Restore \o steps, name, Len(Restore)) ELSE Starts(steps, name, 0)

ApplyProfile(n) ==
  /\ Idle_ /\ Expanded(Registry[n]) # <<>>
  /\ TakesOver(Expanded(Registry[n]), n)
  /\ UNCHANGED <<machine, astray, lastSet, desired, activeName, scope>>

SetKnob(step) ==
  /\ Idle_
  /\ TakesOver(<<step>>, NoName)
  /\ UNCHANGED <<machine, astray, lastSet, desired, activeName, scope>>

\* The session keeps the name desired before it, whatever is shown by then.
ApplyScopedProfile(n) ==
  /\ Idle_ /\ ~scope.open /\ Expanded(Registry[n]) # <<>>
  /\ scope' = [open |-> TRUE, baseline |-> ScopeBaseline(Registry[n]),
               astray |-> {k \in DOMAIN Registry[n] :
                             k \in astray \/ ScopeBaseline(Registry[n])[k] # machine[k]},
               previous |-> desired]
  /\ Starts(Expanded(Registry[n]), n, 0)
  /\ UNCHANGED <<machine, astray, lastSet, desired, activeName>>

RestoreScopedProfile ==
  /\ Idle_ /\ scope.open
  /\ Starts(Restore, NoName, Len(Restore))
  /\ UNCHANGED <<machine, astray, lastSet, desired, activeName, scope>>

-----------------------------------------------------------------------------
(* One step of the plan: exec_one, record_desired and what advance_plan makes of it *)

Step == plan.steps[plan.index + 1]
Restoring_ == plan.index < plan.restores
LastStep == plan.index + 1 = Len(plan.steps)
Sets(k, v) == machine' = [machine EXCEPT ![k] = v]

\* What a session found astray is put back as it was found.
Applied_ ==
  /\ Sets(Step.knob, Step.value)
  /\ astray' = IF Restoring_ /\ Step.knob \in scope.astray THEN astray \cup {Step.knob}
                                                            ELSE astray \ {Step.knob}
  /\ lastSet' = [k \in DOMAIN lastSet \cup {Step.knob} |->
                   IF k = Step.knob THEN Step.value ELSE lastSet[k]]

\* The last restoring step closes the session and brings its earlier name back; the last
\* of all stamps the plan's own name; any other leaves no name.
StampAfter ==
  IF LastStep /\ plan.name # NoName THEN plan.name
  ELSE IF plan.index + 1 = plan.restores THEN scope.previous ELSE NoName
StepApplied ==
  /\ ~Idle_
  /\ Applied_
  /\ desired' = StampAfter /\ activeName' = StampAfter
  /\ scope' = IF plan.index + 1 = plan.restores THEN NoScope_ ELSE scope
  /\ plan' = IF LastStep THEN NoPlan_ ELSE [plan EXCEPT !.index = @ + 1, !.tried = TRUE]

\* A plan that did not succeed takes the shown name back once it tried a step.
GivenUp(tried) ==
  /\ activeName' = IF tried THEN NoName ELSE activeName
  /\ plan' = NoPlan_
  /\ UNCHANGED scope

\* The gate before the step refuses; nothing of this step was tried.
StepRefused ==
  /\ ~Idle_
  /\ GivenUp(plan.tried)
  /\ UNCHANGED <<machine, astray, lastSet, desired>>

\* The step is written and its readback shows something else, or it was written in part:
\* either way the desired name goes as well.
Forgets_shownOnly == desired
Forgets == NoName
StepFails ==
  /\ ~Idle_
  /\ desired' = Forgets
  /\ GivenUp(TRUE)
  /\ \E v \in {machine[Step.knob], Step.value} : Sets(Step.knob, v)
  /\ UNCHANGED <<astray, lastSet>>

\* Every write of the step was rejected.  A rail of a CPU policy may be written all the
\* same when its other rail, or the commit, failed.
StepRejected ==
  /\ ~Idle_
  /\ GivenUp(TRUE)
  /\ \/ UNCHANGED <<machine, astray>>
     \/ Step.knob = "cpu" /\ Sets("cpu", Step.value) /\ astray' = astray \cup {"cpu"}
  /\ UNCHANGED <<lastSet, desired>>

-----------------------------------------------------------------------------
(* What else moves the machine *)

\* The thermal override takes the fan.
ForceMaxFan ==
  /\ machine["fan"] # Full
  /\ Sets("fan", Full) /\ astray' = astray \cup {"fan"}
  /\ activeName' = NoName
  /\ UNCHANGED <<lastSet, desired, scope, plan>>

\* The fail-closed hand-back of the keep-alive: everything but the CPU policy returns to
\* its baseline, a session's CPU policy to the session's; a running plan ends with it.
Returned(k) ==
  IF k # "cpu" THEN Default
  ELSE IF scope.open /\ k \in DOMAIN scope.baseline THEN scope.baseline[k] ELSE machine[k]
HandBack ==
  /\ machine' = [k \in ProfileKnobs |-> Returned(k)]
  /\ astray' = astray \cup {k \in ProfileKnobs : k # "cpu" \/ (scope.open /\ k \in DOMAIN scope.baseline)}
  /\ activeName' = NoName
  /\ scope' = NoScope_ /\ plan' = NoPlan_
  /\ UNCHANGED <<lastSet, desired>>

Moved(k, v) ==
  /\ machine[k] # v
  /\ Sets(k, v) /\ astray' = astray \cup {k}
  /\ UNCHANGED <<lastSet, desired, activeName, scope, plan>>

\* reconcile_profile, after a refresh: only the CPU and GPU policy are compared.
StillMatches(definition) ==
  \A k \in DOMAIN definition \cap {"cpu", "gpu"} : machine[k] = definition[k]
Reconcile ==
  /\ Idle_ /\ activeName # NoName
  /\ ~StillMatches(Registry[activeName])
  /\ activeName' = NoName
  /\ UNCHANGED <<machine, astray, lastSet, desired, scope, plan>>

StampNext ==
  \/ /\ \/ \E n \in DOMAIN Registry : ApplyProfile(n) \/ ApplyScopedProfile(n)
        \/ \E step \in Manual : SetKnob(step)
        \/ RestoreScopedProfile
        \/ StepApplied \/ StepRefused \/ StepFails \/ StepRejected
        \/ Reconcile
     /\ UNCHANGED moves
  \/ /\ moves < MaxMoves /\ moves' = moves + 1
     /\ ForceMaxFan \/ HandBack \/ \E k \in ProfileKnobs, v \in Outside : Moved(k, v)

StampSpec == StampInit /\ [][StampNext]_stampVars

-----------------------------------------------------------------------------
(* Properties *)

\* The profile that is shown as active is in force: each of its knobs has its value, unless
\* somebody else moved that knob, through every sequence of plans that stop half-way,
\* sessions that give an earlier name back, take-overs and hand-backs.
StampIsTrue ==
  activeName # NoName =>
    \A k \in DOMAIN Registry[activeName] : machine[k] = Registry[activeName][k] \/ k \in astray

=============================================================================
