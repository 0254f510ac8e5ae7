---------------------------- MODULE MuxLifecycle ----------------------------
(***************************************************************************)
(* Switching the graphics multiplexer (control/mux.rs, and SetMuxMode in    *)
(* coordinator.rs).  A switch takes effect at a reboot: the request is      *)
(* saved before the firmware is asked, and only a later boot that reports   *)
(* the requested mode confirms it.  Both modes have to be confirmed before  *)
(* the desktop may write.                                                   *)
(*                                                                          *)
(* External: the firmware selects the mode of the next boot and reports the *)
(* selected or the active one; a user may also switch in the BIOS setup; a  *)
(* call may fail after it took effect.                                      *)
(***************************************************************************)
EXTENDS Naturals

CONSTANTS
  MaxBoots,   \* bound: boots of the machine
  MaxBios     \* bound: BIOS versions it goes through

ASSUME MuxAssumption == MaxBoots \in Nat \ {0} /\ MaxBios \in Nat \ {0}

MuxModes == {"hybrid", "discrete"}
NoPending == [previous |-> "none", requested |-> "none", boot |-> 0]
NoRecord == [bios |-> 0, pending |-> NoPending, verified |-> {}]

VARIABLES
  mux,        \* firmware: the mode of this boot, the mode of the next, boots so far, BIOS
  muxDisk,    \* <journal>.mux.json: its record (NoRecord: no file), and whether it parses
  muxUp,      \* the control coordinator runs
  lifecycle,  \* its MuxLifecycle: record, boot identity (0: unknown), blocked, writable
  switched,   \* history: the mode before the switches no boot has confirmed
  proof       \* history: boots in which each mode was asked for, and reported at a start

muxVars == <<mux, muxDisk, muxUp, lifecycle, switched, proof>>

Boots == 1..MaxBoots
Never == [m \in MuxModes |-> 0]

Pendings == [previous : MuxModes, requested : MuxModes, boot : Boots] \cup {NoPending}
Records == [bios : 0..MaxBios, pending : Pendings, verified : SUBSET MuxModes]

MuxTypeOK ==
  /\ mux \in [active : MuxModes, next : MuxModes, boot : Boots, bios : 1..MaxBios]
  /\ muxDisk \in [record : Records, readable : BOOLEAN]
  /\ muxUp \in BOOLEAN
  /\ lifecycle \in [record : Records, boot : 0..MaxBoots, blocked : BOOLEAN, writable : BOOLEAN]
  /\ switched \in MuxModes \cup {"none"}
  /\ proof \in [asked : [MuxModes -> 0..MaxBoots], again : [MuxModes -> 0..MaxBoots],
                reported : [MuxModes -> 0..MaxBoots]]

MuxInit ==
  /\ mux \in [active : {"hybrid"}, next : {"hybrid"}, boot : {1}, bios : {1}]
  /\ muxDisk \in [record : {NoRecord}, readable : BOOLEAN]
  /\ muxUp = FALSE
  /\ lifecycle = [record |-> NoRecord, boot |-> 0, blocked |-> FALSE, writable |-> FALSE]
  /\ switched = "none"
  /\ proof = [asked |-> Never, again |-> Never, reported |-> Never]

\* What a mode query may answer.
Reported == {mux.active, mux.next}

-----------------------------------------------------------------------------
(* MuxLifecycle::open *)

Blank == [NoRecord EXCEPT !.bios = mux.bios]

\* The saved record, if it is of this board and BIOS.
Loaded ==
  IF muxDisk.readable /\ muxDisk.record.bios = mux.bios THEN muxDisk.record ELSE Blank

\* A request left pending under another BIOS, or an unreadable file, needs a human.
OpensBlocked ==
  \/ ~muxDisk.readable
  \/ muxDisk.record.pending # NoPending /\ muxDisk.record.bios # mux.bios

Confirms_anyMode(pending, boot, actual) == boot # 0 /\ boot # pending.boot

\* Only a boot other than the one of the request confirms it.
Confirms(pending, boot, actual) ==
  boot # 0 /\ boot # pending.boot /\ actual = pending.requested

Confirmed(record) ==
  [record EXCEPT !.pending = NoPending, !.verified = @ \cup {record.pending.requested}]

Opened(record, boot, blocked) ==
  [record |-> record, boot |-> boot, blocked |-> blocked,
   writable |-> ~blocked /\ record.verified = MuxModes]

Saved(record) == muxDisk' = [muxDisk EXCEPT !.record = record]

\* The start of the control coordinator; `actual` is "none" when the query fails.
MuxOpen ==
  /\ ~muxUp
  /\ muxUp' = TRUE
  /\ \E boot \in {0, mux.boot}, actual \in Reported \cup {"none"} :
       /\ IF Loaded.pending # NoPending /\ Confirms(Loaded.pending, boot, actual)
          THEN \* saved, or the save fails and the lifecycle is blocked
               \/ /\ Saved(Confirmed(Loaded))
                  /\ lifecycle' = Opened(Confirmed(Loaded), boot, OpensBlocked)
                  /\ switched' = "none"
               \/ /\ lifecycle' = Opened(Confirmed(Loaded), boot, TRUE)
                  /\ UNCHANGED <<muxDisk, switched>>
          ELSE /\ lifecycle' = Opened(Loaded, boot, OpensBlocked)
               /\ UNCHANGED <<muxDisk, switched>>
       /\ proof' = IF actual = "none" THEN proof
                   ELSE [proof EXCEPT !.reported[actual] = mux.boot]
  /\ UNCHANGED mux

-----------------------------------------------------------------------------
(* SetMuxMode: prepare, then the firmware call *)

Previous_current(current) == current

\* The mode to go back to is the one before the first request still outstanding.
Previous(current) ==
  IF lifecycle.record.pending = NoPending THEN current ELSE lifecycle.record.pending.previous

Requested(current, target) ==
  [lifecycle.record EXCEPT !.pending =
     [previous |-> Previous(current), requested |-> target, boot |-> lifecycle.boot]]

MayPrepare(current, target) ==
  /\ muxUp /\ ~lifecycle.blocked /\ lifecycle.boot # 0
  /\ lifecycle.record.pending # NoPending \/ current # target

\* The first request for a mode, from the other one or while it was reported already.
Noted(current, target) ==
  IF current = target
  THEN [proof EXCEPT !.again[target] = IF @ = 0 THEN mux.boot ELSE @]
  ELSE [proof EXCEPT !.asked[target] = IF @ = 0 THEN mux.boot ELSE @]

\* Saved first.  The request stays pending whatever the call returns: it may take
\* effect after its caller has given up.
SetMuxMode(target) ==
  \E current \in Reported :
    /\ MayPrepare(current, target)
    /\ lifecycle' = [lifecycle EXCEPT !.record = Requested(current, target)]
    /\ Saved(Requested(current, target))
    /\ mux' \in {mux, [mux EXCEPT !.next = target]}
    /\ switched' = IF switched = "none" THEN current ELSE switched
    /\ proof' = Noted(current, target)
    /\ UNCHANGED muxUp

-----------------------------------------------------------------------------
(* The machine *)

\* phelper ends or crashes; nothing is written.
MuxStops ==
  /\ muxUp
  /\ muxUp' = FALSE
  /\ UNCHANGED <<mux, muxDisk, lifecycle, switched, proof>>

Reboots ==
  /\ mux.boot < MaxBoots
  /\ muxUp' = FALSE
  /\ \E bios \in {mux.bios, mux.bios + 1}, next \in MuxModes :
       /\ bios <= MaxBios
       /\ next # mux.next => mux.boot = 1   \* a switch in the BIOS setup, early in the run
       /\ mux' = [active |-> next, next |-> next, boot |-> mux.boot + 1, bios |-> bios]
  /\ UNCHANGED <<muxDisk, lifecycle, switched, proof>>

MuxNext == MuxOpen \/ MuxStops \/ Reboots \/ \E m \in MuxModes : SetMuxMode(m)

MuxSpec == MuxInit /\ [][MuxNext]_muxVars

-----------------------------------------------------------------------------
(* Properties *)

\* A switch that no boot has confirmed is on record, with the mode to go back to, while
\* phelper runs and after it ends.
UnconfirmedSwitchIsRecorded ==
  switched # "none" => muxDisk.record.pending.previous = switched

\* The mode was asked for from the other one, and a later boot reported it at a start.
Reached(m) == 0 < proof.asked[m] /\ proof.asked[m] < proof.reported[m]

\* The same for a request made while the mode was reported already, which is accepted
\* in place of an outstanding one: the machine need not have left the mode.
Stayed(m) == 0 < proof.again[m] /\ proof.again[m] < proof.reported[m]

\* Writes are opened to the desktop only when each mode was reported by a boot later
\* than a request for it, and one mode at least on a request from the other one.  That
\* both were, as the head of the file promises, is not so (README, section 6).
WritableIsProven ==
  muxUp /\ lifecycle.writable =>
    /\ \A m \in MuxModes : Reached(m) \/ Stayed(m)
    /\ \E m \in MuxModes : Reached(m)

=============================================================================
