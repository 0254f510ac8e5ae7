-------------------------- MODULE WriteAheadLedger --------------------------
(***************************************************************************)
(* What the recovery record is for, whatever the handlers between the calls *)
(* do: a process records an obligation in a step before the first write it  *)
(* covers, forgets it only once the hardware has its old value back, and    *)
(* writes nothing after a crash until it has taken over the whole record.   *)
(* ControlCoordinator implements it.                                        *)
(***************************************************************************)
CONSTANT Kinds   \* kinds of obligations

VARIABLES
  touched,    \* kinds of which the hardware has, or is about to get, another value
  recorded,   \* kinds that the file names
  owed,       \* kinds that the running process knows it has to restore
  open        \* a process runs, and no record of an earlier one is in its way

ledgerVars == <<touched, recorded, owed, open>>

LedgerInit == touched = {} /\ recorded = {} /\ owed = {} /\ open = TRUE

\* Writes reach what the file names already; memory drops what is untouched.
Work ==
  /\ open
  /\ touched' \subseteq recorded
  /\ touched' \subseteq owed' /\ owed' \subseteq Kinds
  /\ UNCHANGED <<recorded, open>>

\* The process ends, by itself or by a crash, and its memory is gone.
Ends == ~open' /\ owed' = {}

\* The file is replaced by what is owed, in no step that writes to the hardware.
Save ==
  /\ open
  /\ recorded' \subseteq Kinds /\ touched \subseteq recorded'
  /\ touched' \subseteq touched
  /\ (open' /\ owed' = recorded') \/ Ends

Close == open /\ Ends /\ UNCHANGED <<touched, recorded>>

\* What an earlier process left is taken over as a whole.
Adopt ==
  /\ ~open /\ open' /\ owed' = recorded
  /\ UNCHANGED <<touched, recorded>>

\* The hardware takes a state back, at any time.
Fade == touched' \subseteq touched /\ UNCHANGED <<recorded, owed, open>>

LedgerNext == Work \/ Save \/ Close \/ Adopt \/ Fade

LedgerSpec == LedgerInit /\ [][LedgerNext]_ledgerVars

\* What follows: a crash at any point can be followed by a complete restore.
Recoverable == touched \subseteq recorded /\ (open => touched \subseteq owed)

=============================================================================
