---------------------------- MODULE Parts_proofs ----------------------------
(***************************************************************************)
(* The parts that stand alone, each with its inductive invariant: the record *)
(* of the graphics multiplexer, the control journal, the capabilities, the   *)
(* sensors, the name of the active profile, the values of the GPU policy and *)
(* the power limits, and the levels of the fan curve.                        *)
(***************************************************************************)
EXTENDS MuxLifecycle, ControlJournal, Capability, Sensors, ProfileStamp, LimitWrites, FanCurve,
        SequencesExt, FiniteSetTheorems, SequenceTheorems, WellFoundedInduction, TLAPS

\* A sequence is one of its own elements, whatever they are.
LEMMA OwnElements ==
  ASSUME NEW U, NEW s \in Seq(U) PROVE s \in Seq(ToSet(s))
<1>1. \A i \in 1..Len(s) : s[i] \in ToSet(s)
  BY DEF ToSet
<1>2. QED BY <1>1

-----------------------------------------------------------------------------
(* The record of the graphics multiplexer, for any number of boots and BIOS versions: what *)
(* a running phelper holds in memory and what is on disk name the same outstanding request *)
(* unless phelper is blocked, a request is outstanding exactly while no boot has confirmed *)
(* the switches before it, a mode counts as verified only after it was reported by a boot  *)
(* later than a request for it, and the first request a record stands for was a switch.    *)

\* What a record says is backed by what was asked and reported.
PastBacks(record) ==
  /\ \A m \in record.verified : Reached(m) \/ Stayed(m)
  /\ record.pending # NoPending =>
       /\ record.pending.boot \in 1..mux.boot
       /\ \/ proof.asked[record.pending.requested] \in 1..record.pending.boot
          \/ proof.again[record.pending.requested] \in 1..record.pending.boot

\* A record that is not empty began with a request for the other mode.
BeganBySwitch(record) ==
  record.pending # NoPending \/ record.verified # {} =>
    \E m \in MuxModes :
      /\ proof.asked[m] # 0
      /\ record.pending # NoPending => proof.asked[m] <= record.pending.boot
      /\ m \in record.verified => proof.asked[m] < proof.reported[m]

Backed(record) == PastBacks(record) /\ BeganBySwitch(record)

ProofInPast ==
  \A m \in MuxModes : /\ proof.asked[m] <= mux.boot /\ proof.again[m] <= mux.boot
                      /\ proof.reported[m] <= mux.boot

BootKnown == muxUp => lifecycle.boot \in {0, mux.boot}

MemoryMatchesDisk ==
  muxUp /\ ~lifecycle.blocked => lifecycle.record.pending = muxDisk.record.pending

SwitchMatchesRecord ==
  /\ (switched = "none") <=> (muxDisk.record.pending = NoPending)
  /\ UnconfirmedSwitchIsRecorded

WritableMatches == muxUp /\ lifecycle.writable => lifecycle.record.verified = MuxModes

MuxInv ==
  /\ MuxTypeOK /\ BootKnown /\ MemoryMatchesDisk /\ SwitchMatchesRecord /\ WritableMatches
  /\ ProofInPast /\ Backed(muxDisk.record) /\ (muxUp => Backed(lifecycle.record))

-----------------------------------------------------------------------------
LEMMA NoPendingIsNone ==
  /\ NoPending.previous = "none" /\ NoPending \in Pendings
  /\ \A p \in Pendings : p # NoPending => p.previous \in MuxModes /\ p.requested \in MuxModes
                                          /\ p.boot \in 1..MaxBoots
BY DEF NoPending, Pendings, MuxModes, Boots

LEMMA BlankRecord ==
  ASSUME MuxTypeOK
  PROVE  Blank \in Records /\ Blank.pending = NoPending /\ Blank.verified = {}
BY NoPendingIsNone DEF Blank, NoRecord, Records, MuxTypeOK

ProofTypeOK ==
  proof \in [asked : [MuxModes -> 0..MaxBoots], again : [MuxModes -> 0..MaxBoots],
            reported : [MuxModes -> 0..MaxBoots]]

\* What is asked for and reported later takes nothing away from what was.
ProofGrows ==
  /\ ProofTypeOK /\ ProofTypeOK' /\ mux.boot \in Boots /\ mux'.boot \in Boots
  /\ mux.boot <= mux'.boot
  /\ \A m \in MuxModes :
       /\ proof.asked[m] # 0 => proof'.asked[m] = proof.asked[m]
       /\ proof.again[m] # 0 => proof'.again[m] = proof.again[m]
       /\ proof.reported[m] <= proof'.reported[m]

LEMMA BackedStays ==
  ASSUME ProofGrows, NEW record \in Records, Backed(record)
  PROVE  Backed(record)'
<1>1. /\ \A m \in MuxModes :
           /\ proof.asked[m] \in Nat /\ proof.again[m] \in Nat /\ proof.reported[m] \in Nat
           /\ proof'.asked[m] \in Nat /\ proof'.again[m] \in Nat /\ proof'.reported[m] \in Nat
      /\ record.verified \subseteq MuxModes /\ mux.boot \in Nat /\ mux'.boot \in Nat
  BY MuxAssumption DEF ProofGrows, ProofTypeOK, Records, Boots
<1>2. \A m \in MuxModes : (Reached(m) => Reached(m)') /\ (Stayed(m) => Stayed(m)')
  BY <1>1 DEF ProofGrows, Reached, Stayed
<1>3. record.pending # NoPending => record.pending.requested \in MuxModes
                                    /\ record.pending.boot \in Boots
  BY NoPendingIsNone DEF Records, Boots
<1>4. PastBacks(record)'
  <2>1. \A m \in record.verified : Reached(m)' \/ Stayed(m)'
    BY <1>1, <1>2 DEF Backed, PastBacks
  <2>2. ASSUME record.pending # NoPending
        PROVE  /\ record.pending.boot \in 1..mux'.boot
               /\ \/ proof'.asked[record.pending.requested] \in 1..record.pending.boot
                  \/ proof'.again[record.pending.requested] \in 1..record.pending.boot
    BY <1>1, <1>3, <2>2, MuxAssumption DEF Backed, PastBacks, ProofGrows, Boots
  <2> QED BY <2>1, <2>2 DEF PastBacks
<1>5. BeganBySwitch(record)'
  <2> SUFFICES ASSUME record.pending # NoPending \/ record.verified # {}
               PROVE  \E m \in MuxModes :
                        /\ proof'.asked[m] # 0
                        /\ record.pending # NoPending => proof'.asked[m] <= record.pending.boot
                        /\ m \in record.verified => proof'.asked[m] < proof'.reported[m]
    BY DEF BeganBySwitch
  <2>1. PICK m \in MuxModes :
          /\ proof.asked[m] # 0
          /\ record.pending # NoPending => proof.asked[m] <= record.pending.boot
          /\ m \in record.verified => proof.asked[m] < proof.reported[m]
    BY DEF Backed, BeganBySwitch
  <2>2. proof'.asked[m] = proof.asked[m] /\ proof.reported[m] <= proof'.reported[m]
    BY <2>1 DEF ProofGrows
  <2> QED BY <1>1, <2>1, <2>2
<1> QED BY <1>4, <1>5 DEF Backed

LEMMA VerifiedStays ==
  ASSUME ProofGrows, NEW m \in MuxModes, Reached(m) \/ Stayed(m)
  PROVE  Reached(m)' \/ Stayed(m)'
BY MuxAssumption DEF ProofGrows, ProofTypeOK, Reached, Stayed, Boots

LEMMA LoadedRecord ==
  ASSUME MuxInv
  PROVE  /\ Loaded \in Records /\ Backed(Loaded)
         /\ ~OpensBlocked => Loaded.pending = muxDisk.record.pending
         /\ Loaded.pending # NoPending => Loaded.pending = muxDisk.record.pending
<1>1. CASE muxDisk.readable /\ muxDisk.record.bios = mux.bios
  BY <1>1 DEF Loaded, MuxInv, MuxTypeOK
<1>2. CASE ~(muxDisk.readable /\ muxDisk.record.bios = mux.bios)
  <2>1. Loaded = Blank
    BY <1>2 DEF Loaded
  <2>2. ~OpensBlocked => muxDisk.record.pending = NoPending
    BY <1>2 DEF OpensBlocked
  <2> QED BY <2>1, <2>2, BlankRecord DEF Backed, PastBacks, BeganBySwitch, MuxInv
<1> QED BY <1>1, <1>2

LEMMA MuxInvInit == MuxInit => MuxInv
<1> SUFFICES ASSUME MuxInit PROVE MuxInv
  OBVIOUS
<1>1. NoRecord \in Records
  BY MuxAssumption, NoPendingIsNone DEF Records, NoRecord
<1>2. MuxTypeOK
  <2>1. mux \in [active : MuxModes, next : MuxModes, boot : 1..MaxBoots, bios : 1..MaxBios]
    BY MuxAssumption DEF MuxInit, MuxModes, Boots
  <2>2. muxDisk \in [record : Records, readable : BOOLEAN] /\ muxUp \in BOOLEAN
    BY <1>1 DEF MuxInit
  <2>3. lifecycle \in [record : Records, boot : 0..MaxBoots, blocked : BOOLEAN, writable : BOOLEAN]
    BY <1>1, MuxAssumption DEF MuxInit
  <2>4. switched \in MuxModes \cup {"none"} /\ ProofTypeOK
    BY MuxAssumption DEF MuxInit, ProofTypeOK, Never
  <2> QED BY <2>1, <2>2, <2>3, <2>4 DEF MuxTypeOK, ProofTypeOK, Boots
<1> QED BY <1>2 DEF MuxInit, MuxInv, BootKnown, MemoryMatchesDisk, SwitchMatchesRecord, WritableMatches,
                    Backed, PastBacks, BeganBySwitch, ProofInPast, UnconfirmedSwitchIsRecorded,
                    NoRecord, Never

\* The start after a request: what it reports is noted, and nothing else changes.
LEMMA ReportIsNoted ==
  ASSUME MuxInv, NEW actual \in Reported \cup {"none"}, UNCHANGED mux,
         proof' = IF actual = "none" THEN proof ELSE [proof EXCEPT !.reported[actual] = mux.boot]
  PROVE  /\ ProofGrows /\ ProofInPast' /\ ProofTypeOK'
         /\ actual # "none" => actual \in MuxModes /\ proof'.reported[actual] = mux.boot
<1>1. mux.boot \in Boots /\ ProofTypeOK /\ (actual # "none" => actual \in MuxModes)
  BY DEF MuxInv, MuxTypeOK, ProofTypeOK, Reported
<1>2. CASE actual = "none"
  BY <1>1, <1>2, MuxAssumption DEF ProofGrows, ProofTypeOK, ProofInPast, MuxInv, Boots
<1>3. CASE actual # "none"
  <2>1. /\ proof'.asked = proof.asked /\ proof'.again = proof.again
        /\ proof'.reported = [proof.reported EXCEPT ![actual] = mux.boot]
        /\ ProofTypeOK'
    BY <1>1, <1>3 DEF ProofTypeOK, Boots
  <2>2. \A m \in MuxModes : proof'.reported[m] = IF m = actual THEN mux.boot ELSE proof.reported[m]
    BY <1>1, <1>3, <2>1 DEF ProofTypeOK
  <2> QED BY <1>1, <1>3, <2>1, <2>2, MuxAssumption
          DEF ProofGrows, ProofTypeOK, ProofInPast, MuxInv, Boots
<1> QED BY <1>2, <1>3

\* The request a later boot confirms was made in an earlier one, and this one reports it.
LEMMA ConfirmedIsBacked ==
  ASSUME MuxInv, NEW boot \in {0, mux.boot}, NEW actual \in Reported \cup {"none"},
         Loaded.pending # NoPending, Confirms(Loaded.pending, boot, actual), UNCHANGED mux,
         proof' = IF actual = "none" THEN proof ELSE [proof EXCEPT !.reported[actual] = mux.boot]
  PROVE  \E done \in Records : /\ done = Confirmed(Loaded) /\ done.pending = NoPending
                              /\ Backed(done)'
<1>0. PICK loaded \in Records : loaded = Loaded /\ Backed(loaded)
  BY LoadedRecord
<1> DEFINE asked == loaded.pending
<1>1. asked \in Pendings /\ asked # NoPending
  BY <1>0 DEF Records
<1>2. PICK done \in Records : /\ done = Confirmed(Loaded) /\ done.pending = NoPending
                             /\ done.verified = loaded.verified \cup {asked.requested}
  <2>1. loaded \in [bios : 0..MaxBios, pending : Pendings, verified : SUBSET MuxModes]
    BY <1>0 DEF Records
  <2>2. asked.requested \in MuxModes
    BY <1>1, NoPendingIsNone
  <2>3. Confirmed(Loaded) = [loaded EXCEPT !.pending = NoPending,
                                          !.verified = @ \cup {asked.requested}]
    BY <1>0 DEF Confirmed
  <2> QED BY <2>1, <2>2, <2>3, NoPendingIsNone DEF Records
<1>3. actual = asked.requested /\ actual \in MuxModes /\ asked.boot \in 1..(mux.boot - 1)
  <2>1. actual = asked.requested /\ asked.requested \in MuxModes
    BY <1>0, <1>1, NoPendingIsNone DEF Confirms
  <2>2. asked.boot \in 1..mux.boot /\ asked.boot # mux.boot /\ mux.boot \in Boots
    BY <1>0, <1>1 DEF Confirms, Backed, PastBacks, MuxInv, MuxTypeOK
  <2> QED BY <2>1, <2>2 DEF Boots
<1>4. ProofGrows /\ proof'.reported[actual] = mux.boot /\ Backed(loaded)'
  <2>1. ProofGrows /\ proof'.reported[actual] = mux.boot
    BY <1>3, ReportIsNoted DEF MuxModes
  <2> QED BY <1>0, <2>1, BackedStays
<1>5. PastBacks(done)'
  <2>1. proof'.asked[actual] \in 1..asked.boot \/ proof'.again[actual] \in 1..asked.boot
    BY <1>0, <1>1, <1>3, <1>4, NoPendingIsNone, MuxAssumption
    DEF Backed, PastBacks, ProofGrows, ProofTypeOK, Boots
  <2>2. Reached(actual)' \/ Stayed(actual)'
    BY <1>3, <1>4, <2>1, MuxAssumption DEF Reached, Stayed, ProofGrows, ProofTypeOK, Boots
  <2>3. \A m \in loaded.verified : Reached(m)' \/ Stayed(m)'
    BY <1>0, <1>4, VerifiedStays DEF Backed, PastBacks, Records
  <2> QED BY <1>2, <1>3, <2>2, <2>3 DEF PastBacks
<1>6. BeganBySwitch(done)'
  <2>1. PICK m \in MuxModes :
          /\ proof.asked[m] # 0
          /\ proof.asked[m] <= asked.boot
          /\ m \in loaded.verified => proof.asked[m] < proof.reported[m]
    BY <1>0, <1>1 DEF Backed, BeganBySwitch
  <2>2. /\ proof'.asked[m] = proof.asked[m] /\ proof.reported[m] <= proof'.reported[m]
        /\ proof.asked[m] \in Nat /\ proof.reported[m] \in Nat /\ proof'.reported[m] \in Nat
        /\ mux.boot \in Nat /\ asked.boot \in Nat
    BY <1>3, <1>4, <2>1, MuxAssumption DEF ProofGrows, ProofTypeOK, Boots
  <2>3. m \in done.verified => proof'.asked[m] < proof'.reported[m]
    BY <1>2, <1>3, <1>4, <2>1, <2>2
  <2> QED BY <1>2, <2>1, <2>2, <2>3 DEF BeganBySwitch
<1> QED BY <1>2, <1>5, <1>6 DEF Backed

LEMMA OpenedFields ==
  ASSUME NEW record \in Records, NEW boot \in 0..MaxBoots, NEW blocked \in BOOLEAN
  PROVE  /\ Opened(record, boot, blocked) \in
              [record : Records, boot : 0..MaxBoots, blocked : BOOLEAN, writable : BOOLEAN]
         /\ Opened(record, boot, blocked).record = record
         /\ Opened(record, boot, blocked).boot = boot
         /\ Opened(record, boot, blocked).blocked = blocked
         /\ Opened(record, boot, blocked).writable => record.verified = MuxModes
<1>1. ASSUME NEW w \in BOOLEAN
      PROVE  LET l == [record |-> record, boot |-> boot, blocked |-> blocked, writable |-> w]
             IN /\ l \in [record : Records, boot : 0..MaxBoots, blocked : BOOLEAN, writable : BOOLEAN]
                /\ l.record = record /\ l.boot = boot /\ l.blocked = blocked /\ l.writable = w
  OBVIOUS
<1>2. CASE ~blocked /\ record.verified = MuxModes
  <2>1. Opened(record, boot, blocked) =
          [record |-> record, boot |-> boot, blocked |-> blocked, writable |-> TRUE]
    BY <1>2 DEF Opened
  <2> QED BY <1>1, <1>2, <2>1
<1>3. CASE ~(~blocked /\ record.verified = MuxModes)
  <2>1. Opened(record, boot, blocked) =
          [record |-> record, boot |-> boot, blocked |-> blocked, writable |-> FALSE]
    BY <1>3 DEF Opened
  <2> QED BY <1>1, <2>1
<1> QED BY <1>2, <1>3

\* What a lifecycle has to be opened from.
LEMMA InvOpensWith ==
  ASSUME MuxInv, NEW record \in Records, NEW boot \in {0, mux.boot}, NEW blocked \in BOOLEAN,
         lifecycle' = Opened(record, boot, blocked), muxUp', UNCHANGED mux,
         ProofTypeOK', ProofInPast', Backed(record)',
         muxDisk' \in [record : Records, readable : BOOLEAN], Backed(muxDisk.record)',
         switched' \in MuxModes \cup {"none"},
         ~blocked => record.pending = muxDisk'.record.pending, SwitchMatchesRecord', muxUp' \in BOOLEAN
  PROVE  MuxInv'
<1>1. boot \in 0..MaxBoots
  BY MuxAssumption DEF MuxInv, MuxTypeOK, Boots
<1>2. /\ lifecycle' \in [record : Records, boot : 0..MaxBoots, blocked : BOOLEAN, writable : BOOLEAN]
      /\ lifecycle'.record = record /\ lifecycle'.boot = boot /\ lifecycle'.blocked = blocked
      /\ lifecycle'.writable => record.verified = MuxModes
  BY <1>1, OpenedFields
<1>3. MuxTypeOK'
  BY <1>2 DEF MuxInv, MuxTypeOK, ProofTypeOK
<1>4. BootKnown' /\ MemoryMatchesDisk' /\ WritableMatches'
  BY <1>2 DEF BootKnown, MemoryMatchesDisk, WritableMatches
<1>5. Backed(lifecycle.record)'
  BY <1>2 DEF Backed, PastBacks, BeganBySwitch
<1> QED BY <1>3, <1>4, <1>5 DEF MuxInv

LEMMA InvOpens ==
  ASSUME MuxInv, MuxOpen
  PROVE  MuxInv'
<1>1. PICK boot \in {0, mux.boot}, actual \in Reported \cup {"none"} :
        /\ IF Loaded.pending # NoPending /\ Confirms(Loaded.pending, boot, actual)
           THEN \/ /\ Saved(Confirmed(Loaded))
                   /\ lifecycle' = Opened(Confirmed(Loaded), boot, OpensBlocked)
                   /\ switched' = "none"
                \/ /\ lifecycle' = Opened(Confirmed(Loaded), boot, TRUE)
                   /\ UNCHANGED <<muxDisk, switched>>
           ELSE /\ lifecycle' = Opened(Loaded, boot, OpensBlocked)
                /\ UNCHANGED <<muxDisk, switched>>
        /\ proof' = IF actual = "none" THEN proof ELSE [proof EXCEPT !.reported[actual] = mux.boot]
  BY DEF MuxOpen
<1>2. muxUp' /\ muxUp' \in BOOLEAN /\ UNCHANGED mux
  BY DEF MuxOpen
<1>3. OpensBlocked \in BOOLEAN
  BY DEF OpensBlocked
<1>4. /\ muxDisk \in [record : Records, readable : BOOLEAN] /\ muxDisk.record \in Records
      /\ Backed(muxDisk.record) /\ switched \in MuxModes \cup {"none"} /\ SwitchMatchesRecord
  BY DEF MuxInv, MuxTypeOK
<1>5. ProofGrows /\ ProofInPast' /\ ProofTypeOK'
  BY <1>1, <1>2, ReportIsNoted
<1>6. UNCHANGED <<muxDisk, switched>> => SwitchMatchesRecord' /\ Backed(muxDisk.record)'
  <2>1. ASSUME UNCHANGED muxDisk
        PROVE  Backed(muxDisk.record)'
    <3> DEFINE record == muxDisk.record
    <3>1. Backed(record)
      BY <1>4
    <3>2. record \in Records
      BY <1>4
    <3>3. muxDisk'.record = record
      BY <2>1
    <3> HIDE DEF record
    <3>4. PICK saved \in Records : saved = record
      BY <3>2
    <3>5. Backed(saved)'
      BY <1>5, <3>1, <3>4, BackedStays
    <3> QED BY <3>3, <3>4, <3>5 DEF Backed, PastBacks, BeganBySwitch
  <2> QED BY <1>4, <2>1 DEF SwitchMatchesRecord, UnconfirmedSwitchIsRecorded
<1>7. PICK loaded \in Records : loaded = Loaded
  BY LoadedRecord
<1>8. CASE ~(Loaded.pending # NoPending /\ Confirms(Loaded.pending, boot, actual))
  <2>1. lifecycle' = Opened(loaded, boot, OpensBlocked) /\ UNCHANGED <<muxDisk, switched>>
    BY <1>1, <1>7, <1>8
  <2>2. Backed(loaded)'
    BY <1>5, <1>7, LoadedRecord, BackedStays
  <2>3. ~OpensBlocked => loaded.pending = muxDisk'.record.pending
    BY <1>7, <2>1, LoadedRecord
  <2>4. PICK blocked \in BOOLEAN : blocked = OpensBlocked
    BY <1>3
  <2> QED BY <1>2, <1>4, <1>5, <1>6, <2>1, <2>2, <2>3, <2>4, InvOpensWith
<1>9. ASSUME Loaded.pending # NoPending, Confirms(Loaded.pending, boot, actual)
      PROVE  \E done \in Records : /\ done = Confirmed(Loaded) /\ done.pending = NoPending
                                   /\ Backed(done)'
  BY <1>1, <1>2, <1>9, ConfirmedIsBacked
<1>10. CASE /\ Loaded.pending # NoPending /\ Confirms(Loaded.pending, boot, actual)
            /\ Saved(Confirmed(Loaded))
            /\ lifecycle' = Opened(Confirmed(Loaded), boot, OpensBlocked)
            /\ switched' = "none"
  <2>1. PICK done \in Records : done = Confirmed(Loaded) /\ done.pending = NoPending /\ Backed(done)'
    BY <1>9, <1>10
  <2>2. /\ muxDisk'.record = done
        /\ muxDisk' \in [record : Records, readable : BOOLEAN]
    BY <1>4, <1>10, <2>1 DEF Saved
  <2>3. SwitchMatchesRecord' /\ switched' \in MuxModes \cup {"none"}
    BY <1>10, <2>1, <2>2 DEF SwitchMatchesRecord, UnconfirmedSwitchIsRecorded
  <2>4. Backed(muxDisk.record)'
    BY <2>1, <2>2 DEF Backed, PastBacks, BeganBySwitch
  <2>5. PICK blocked \in BOOLEAN : blocked = OpensBlocked
    BY <1>3
  <2> QED BY <1>2, <1>5, <1>10, <2>1, <2>2, <2>3, <2>4, <2>5, InvOpensWith
<1>11. CASE /\ Loaded.pending # NoPending /\ Confirms(Loaded.pending, boot, actual)
            /\ lifecycle' = Opened(Confirmed(Loaded), boot, TRUE)
            /\ UNCHANGED <<muxDisk, switched>>
  <2>1. PICK done \in Records : done = Confirmed(Loaded) /\ done.pending = NoPending /\ Backed(done)'
    BY <1>9, <1>11
  <2> QED BY <1>2, <1>4, <1>5, <1>6, <1>11, <2>1, InvOpensWith
<1> QED BY <1>1, <1>8, <1>10, <1>11

\* A request is noted once.
LEMMA RequestIsNoted ==
  ASSUME MuxInv, NEW current \in MuxModes, NEW target \in MuxModes, mux'.boot = mux.boot,
         proof' = Noted(current, target)
  PROVE  /\ ProofGrows /\ ProofInPast' /\ ProofTypeOK'
         /\ proof'.asked[target] \in 1..mux.boot \/ proof'.again[target] \in 1..mux.boot
         /\ current # target => proof'.asked[target] \in 1..mux.boot
<1>1. mux.boot \in Boots /\ ProofTypeOK
  BY DEF MuxInv, MuxTypeOK, ProofTypeOK
<1>2. CASE current = target
  <2>1. /\ proof'.asked = proof.asked /\ proof'.reported = proof.reported /\ ProofTypeOK'
        /\ \A m \in MuxModes : proof'.again[m] =
             IF m = target /\ proof.again[m] = 0 THEN mux.boot ELSE proof.again[m]
    BY <1>1, <1>2 DEF Noted, ProofTypeOK, Boots
  <2> QED BY <1>1, <1>2, <2>1, MuxAssumption DEF ProofGrows, ProofTypeOK, ProofInPast, MuxInv, Boots
<1>3. CASE current # target
  <2>1. /\ proof'.again = proof.again /\ proof'.reported = proof.reported /\ ProofTypeOK'
        /\ \A m \in MuxModes : proof'.asked[m] =
             IF m = target /\ proof.asked[m] = 0 THEN mux.boot ELSE proof.asked[m]
    BY <1>1, <1>3 DEF Noted, ProofTypeOK, Boots
  <2> QED BY <1>1, <1>3, <2>1, MuxAssumption DEF ProofGrows, ProofTypeOK, ProofInPast, MuxInv, Boots
<1> QED BY <1>2, <1>3

LEMMA InvSetMuxMode ==
  ASSUME MuxInv, NEW target \in MuxModes, SetMuxMode(target)
  PROVE  MuxInv'
<1>1. PICK current \in Reported :
        /\ MayPrepare(current, target)
        /\ lifecycle' = [lifecycle EXCEPT !.record = Requested(current, target)]
        /\ Saved(Requested(current, target))
        /\ mux' \in {mux, [mux EXCEPT !.next = target]}
        /\ switched' = IF switched = "none" THEN current ELSE switched
        /\ proof' = Noted(current, target)
        /\ UNCHANGED muxUp
  BY DEF SetMuxMode
<1> DEFINE record == Requested(current, target)
<1>2. current \in MuxModes
  BY DEF Reported, MuxInv, MuxTypeOK
<1>3. lifecycle.boot = mux.boot /\ muxUp /\ ~lifecycle.blocked
      /\ lifecycle.record.pending = muxDisk.record.pending
  BY <1>1 DEF MayPrepare, MuxInv, BootKnown, MemoryMatchesDisk
<1>4. Previous(current) = IF switched = "none" THEN current ELSE switched
  BY <1>3 DEF Previous, MuxInv, SwitchMatchesRecord, UnconfirmedSwitchIsRecorded
<1>5. Previous(current) \in MuxModes
  BY <1>2, <1>4 DEF MuxInv, MuxTypeOK
<1>6. /\ record.pending = [previous |-> Previous(current), requested |-> target, boot |-> mux.boot]
      /\ record.verified = lifecycle.record.verified /\ record \in Records
  BY <1>3, <1>5 DEF Requested, MuxInv, MuxTypeOK, Records, Pendings, Boots
<1>7. record.pending # NoPending
  BY <1>5, <1>6 DEF NoPending, MuxModes
<1>8. /\ mux'.boot = mux.boot
      /\ mux' \in [active : MuxModes, next : MuxModes, boot : Boots, bios : 1..MaxBios]
  BY <1>1 DEF MuxInv, MuxTypeOK
<1> HIDE DEF record
<1>8a. PICK fresh \in Records : fresh = record
  BY <1>6
<1>9. /\ lifecycle'.record = record /\ lifecycle'.boot = lifecycle.boot
      /\ lifecycle'.blocked = lifecycle.blocked /\ lifecycle'.writable = lifecycle.writable
      /\ muxDisk'.record = record /\ switched' = Previous(current)
  BY <1>1, <1>4 DEF Saved, MuxInv, MuxTypeOK, record
<1>10. MuxTypeOK'
  <2>1. lifecycle' \in [record : Records, boot : 0..MaxBoots, blocked : BOOLEAN, writable : BOOLEAN]
        /\ muxDisk' \in [record : Records, readable : BOOLEAN]
    BY <1>1, <1>6 DEF Saved, MuxInv, MuxTypeOK, record
  <2>2. switched' \in MuxModes \cup {"none"} /\ ProofTypeOK'
    BY <1>1, <1>2, <1>8, RequestIsNoted DEF MuxInv, MuxTypeOK
  <2> QED BY <1>1, <1>8, <2>1, <2>2 DEF MuxInv, MuxTypeOK, ProofTypeOK
<1>11. /\ ProofGrows /\ ProofInPast'
       /\ proof'.asked[target] \in 1..mux.boot \/ proof'.again[target] \in 1..mux.boot
       /\ current # target => proof'.asked[target] \in 1..mux.boot
  BY <1>1, <1>2, <1>8, RequestIsNoted
<1>12. PICK old \in Records : old = lifecycle.record /\ Backed(old) /\ Backed(old)'
  <2>1. PICK old \in Records : old = lifecycle.record
    BY DEF MuxInv, MuxTypeOK
  <2>2. Backed(old)
    BY <1>3, <2>1 DEF MuxInv
  <2> QED BY <1>11, <2>1, <2>2, BackedStays
<1>13. PastBacks(fresh)'
  <2>1. \A m \in fresh.verified : Reached(m)' \/ Stayed(m)'
    BY <1>6, <1>12, <1>8a DEF Backed, PastBacks
  <2> QED BY <1>6, <1>8a, <1>8, <1>11, <2>1 DEF PastBacks, MuxInv, MuxTypeOK, Boots
<1>14. BeganBySwitch(fresh)'
  <2>1. CASE old.pending # NoPending \/ old.verified # {}
    <3>1. PICK m \in MuxModes :
            /\ proof'.asked[m] # 0
            /\ m \in old.verified => proof'.asked[m] < proof'.reported[m]
      BY <1>12, <2>1 DEF Backed, BeganBySwitch
    <3>2. proof'.asked[m] <= mux.boot
      BY <1>8, <1>11 DEF ProofInPast
    <3> QED BY <1>6, <1>7, <1>12, <1>8a, <3>1, <3>2 DEF BeganBySwitch
  <2>2. CASE old.pending = NoPending /\ old.verified = {}
    <3>1. proof'.asked[target] \in 1..mux.boot
      BY <1>1, <1>11, <1>12, <2>2 DEF MayPrepare
    <3>2. proof'.asked[target] # 0 /\ proof'.asked[target] <= mux.boot
      BY <3>1 DEF MuxInv, MuxTypeOK, Boots
    <3> QED BY <1>6, <1>7, <1>12, <1>8a, <2>2, <3>2 DEF BeganBySwitch
  <2> QED BY <2>1, <2>2
<1>15. Backed(lifecycle.record)' /\ Backed(muxDisk.record)'
  BY <1>9, <1>13, <1>14, <1>8a DEF Backed, PastBacks, BeganBySwitch
<1>16. BootKnown' /\ MemoryMatchesDisk' /\ WritableMatches'
  BY <1>1, <1>6, <1>8, <1>9 DEF MuxInv, BootKnown, MemoryMatchesDisk, WritableMatches
<1>17. SwitchMatchesRecord'
  BY <1>5, <1>6, <1>7, <1>9 DEF SwitchMatchesRecord, UnconfirmedSwitchIsRecorded, MuxModes
<1> QED BY <1>10, <1>11, <1>15, <1>16, <1>17 DEF MuxInv

\* A boot makes nothing less proven; phelper's memory is gone.
LEMMA InvReboots ==
  ASSUME MuxInv, Reboots
  PROVE  MuxInv'
<1>1. mux.boot < MaxBoots /\ ~muxUp' /\ UNCHANGED <<muxDisk, lifecycle, switched, proof>>
  BY DEF Reboots
<1>2. mux'.boot = mux.boot + 1
      /\ mux' \in [active : MuxModes, next : MuxModes, boot : Boots, bios : 1..MaxBios]
      /\ mux.boot \in Boots
  BY <1>1, MuxAssumption DEF Reboots, MuxInv, MuxTypeOK, Boots
<1>3. ProofGrows /\ ProofInPast'
  BY <1>1, <1>2, MuxAssumption
  DEF ProofGrows, ProofTypeOK, ProofInPast, MuxInv, MuxTypeOK, Boots
<1>4. Backed(muxDisk.record)'
  <2>1. PICK saved \in Records : saved = muxDisk.record
    BY DEF MuxInv, MuxTypeOK
  <2>2. Backed(saved)
    BY <2>1 DEF MuxInv
  <2>3. Backed(saved)' /\ muxDisk'.record = saved
    BY <1>1, <1>3, <2>1, <2>2, BackedStays
  <2> QED BY <2>3 DEF Backed, PastBacks, BeganBySwitch
<1>5. MuxTypeOK'
  BY <1>1, <1>2 DEF MuxInv, MuxTypeOK, Reboots
<1>6. SwitchMatchesRecord'
  BY <1>1 DEF MuxInv, SwitchMatchesRecord, UnconfirmedSwitchIsRecorded
<1>7. BootKnown' /\ MemoryMatchesDisk' /\ WritableMatches' /\ (muxUp' => Backed(lifecycle.record)')
  BY <1>1 DEF BootKnown, MemoryMatchesDisk, WritableMatches
<1> QED BY <1>3, <1>4, <1>5, <1>6, <1>7 DEF MuxInv

LEMMA MuxInvStep == MuxInv /\ [MuxNext]_muxVars => MuxInv'
<1> SUFFICES ASSUME MuxInv, [MuxNext]_muxVars PROVE MuxInv'
  OBVIOUS
<1>1. CASE UNCHANGED muxVars \/ MuxStops
  <2>1. UNCHANGED <<mux, muxDisk, lifecycle, switched, proof>>
        /\ (muxUp' = muxUp \/ muxUp' = FALSE)
    BY <1>1 DEF muxVars, MuxStops
  <2>2. MuxTypeOK' /\ SwitchMatchesRecord'
    BY <2>1 DEF MuxInv, MuxTypeOK, SwitchMatchesRecord, UnconfirmedSwitchIsRecorded
  <2>3. BootKnown' /\ MemoryMatchesDisk' /\ WritableMatches'
    BY <2>1 DEF MuxInv, BootKnown, MemoryMatchesDisk, WritableMatches
  <2>4. Backed(muxDisk.record)' /\ (muxUp' => Backed(lifecycle.record)')
    BY <2>1 DEF MuxInv, Backed, PastBacks, BeganBySwitch, Reached, Stayed
  <2>5. ProofInPast'
    BY <2>1 DEF MuxInv, ProofInPast
  <2> QED BY <2>2, <2>3, <2>4, <2>5 DEF MuxInv
<1> QED BY <1>1, InvOpens, InvSetMuxMode, InvReboots DEF MuxNext

\* Through crashes, failing calls, restarts, BIOS updates and any number of boots, a switch
\* that no boot has confirmed stays on disk with the mode to go back to.
THEOREM UnconfirmedSwitchAlwaysRecorded == MuxSpec => []UnconfirmedSwitchIsRecorded
<1>1. MuxInv => UnconfirmedSwitchIsRecorded
  BY DEF MuxInv, SwitchMatchesRecord
<1> QED BY MuxInvInit, MuxInvStep, <1>1, PTL DEF MuxSpec

\* Writes are opened to the desktop only when each mode was reported by a boot later than a
\* request for it, one of them at least on a request made from the other mode.
THEOREM WritableAlwaysProven == MuxSpec => []WritableIsProven
<1>1. MuxInv => WritableIsProven
  <2> SUFFICES ASSUME MuxInv, muxUp, lifecycle.writable
               PROVE  /\ \A m \in MuxModes : Reached(m) \/ Stayed(m)
                      /\ \E m \in MuxModes : Reached(m)
    BY DEF WritableIsProven
  <2>1. lifecycle.record.verified = MuxModes /\ Backed(lifecycle.record)
    BY DEF MuxInv, WritableMatches
  <2>2. \A m \in MuxModes : Reached(m) \/ Stayed(m)
    BY <2>1 DEF Backed, PastBacks
  <2>3. PICK m \in MuxModes : proof.asked[m] # 0 /\ proof.asked[m] < proof.reported[m]
    BY <2>1 DEF Backed, BeganBySwitch, MuxModes
  <2>4. Reached(m)
    BY <2>3 DEF Reached, MuxInv, MuxTypeOK
  <2> QED BY <2>2, <2>4
<1> QED BY MuxInvInit, MuxInvStep, <1>1, PTL DEF MuxSpec

-----------------------------------------------------------------------------
(* The control journal *)

\* The entry can be read back from the file, or the one before it was cut short.
ReadableIn(e, file) == e \in ToSet(file.lines) \/ e \in AfterCut

\* Of the entries acknowledged, the last `a` are in the active file and the `b` before
\* them in the backup; what else is in a file was cut short.  Once entries are lost, the
\* backup is as long as the limit.
JournalHolds(a, b) ==
  /\ a + b <= written
  /\ \A e \in (written - a + 1)..written : ReadableIn(e, active)
  /\ \A e \in (written - a - b + 1)..(written - a) : ReadableIn(e, backup)
  /\ Len(active.lines) <= a + torn /\ Len(backup.lines) <= b + torn
  /\ a + b = written \/ Len(backup.lines) >= JournalLimit

\* Nothing was acknowledged since a line was left unfinished where the next entry goes.
OpenAfterCut ==
  /\ active.open => written \in cuts
  /\ handle = "backup" /\ backup.open => written \in cuts

JournalInv ==
  /\ JournalTypeOK /\ OpenAfterCut
  /\ ~active.there => active.lines = <<>> /\ ~active.open
  /\ handle = "active" => active.there
  /\ handle = "backup" => ~active.there
  /\ \E a, b \in 0..written : JournalHolds(a, b)

\* What an append does to the entries of a file.
LEMMA AppendedEntries ==
  ASSUME NEW s \in Seq(0..MaxEntries), NEW x \in 0..MaxEntries
  PROVE  /\ Append(s, x) \in Seq(0..MaxEntries) /\ Len(Append(s, x)) = Len(s) + 1
         /\ ToSet(Append(s, x)) = ToSet(s) \cup {x}
<1>1. Append(s, x) \in Seq(0..MaxEntries) /\ Len(Append(s, x)) = Len(s) + 1 /\ Len(s) \in Nat
  OBVIOUS
<1>2. ToSet(s) \subseteq ToSet(Append(s, x)) /\ x \in ToSet(Append(s, x))
  <2>1. ASSUME NEW i \in DOMAIN s PROVE s[i] \in ToSet(Append(s, x))
    <3>1. i \in DOMAIN Append(s, x) /\ Append(s, x)[i] = s[i]
      OBVIOUS
    <3>2. QED BY <3>1 DEF ToSet
  <2>2. Len(s) + 1 \in DOMAIN Append(s, x) /\ Append(s, x)[Len(s) + 1] = x
    OBVIOUS
  <2>3. QED BY <2>1, <2>2 DEF ToSet
<1>3. ASSUME NEW i \in DOMAIN Append(s, x) PROVE Append(s, x)[i] \in ToSet(s) \cup {x}
  <2>1. CASE i = Len(s) + 1
    BY <2>1
  <2>2. CASE i # Len(s) + 1
    <3>1. i \in DOMAIN s /\ Append(s, x)[i] = s[i]
      BY <2>2, <1>1
    <3>2. QED BY <3>1 DEF ToSet
  <2>3. QED BY <2>1, <2>2
<1>4. ToSet(Append(s, x)) \subseteq ToSet(s) \cup {x}
  BY <1>3 DEF ToSet
<1>5. QED BY <1>1, <1>2, <1>4

LEMMA EmptyHasNoEntries == ToSet(<<>>) = {}
BY DEF ToSet

\* A file that takes one more entry, or a part of one.
LEMMA PutsEntry ==
  ASSUME NEW file \in Files, NEW x \in 0..MaxEntries, 0 \in 0..MaxEntries
  PROVE  /\ Puts(file, x) \in Files /\ Puts(file, x).there = file.there /\ ~Puts(file, x).open
         /\ Len(Puts(file, x).lines) = Len(file.lines) + 1
         /\ ToSet(file.lines) \subseteq ToSet(Puts(file, x).lines)
         /\ ~file.open => x \in ToSet(Puts(file, x).lines)
<1>1. PICK y \in 0..MaxEntries : y = IF file.open THEN 0 ELSE x
  OBVIOUS
<1>2. file.lines \in Seq(0..MaxEntries) /\ Puts(file, x).lines = Append(file.lines, y)
      /\ Puts(file, x).there = file.there /\ ~Puts(file, x).open
  BY <1>1 DEF Files, Puts
<1>3. /\ Append(file.lines, y) \in Seq(0..MaxEntries)
      /\ Len(Append(file.lines, y)) = Len(file.lines) + 1
      /\ ToSet(Append(file.lines, y)) = ToSet(file.lines) \cup {y}
  BY <1>2, AppendedEntries
<1>4. Puts(file, x) \in Files
  BY <1>1, <1>3 DEF Files, Puts
<1>5. QED BY <1>1, <1>2, <1>3, <1>4

LEMMA PutsPartOfEntry ==
  ASSUME NEW file \in Files, NEW ended \in BOOLEAN, 0 \in 0..MaxEntries
  PROVE  /\ PutsPart(file, ended) \in Files /\ PutsPart(file, ended).there = file.there
         /\ Len(PutsPart(file, ended).lines) = Len(file.lines) + 1
         /\ ToSet(file.lines) \subseteq ToSet(PutsPart(file, ended).lines)
<1>1. file.lines \in Seq(0..MaxEntries) /\ PutsPart(file, ended).lines = Append(file.lines, 0)
      /\ PutsPart(file, ended).there = file.there
  BY DEF Files, PutsPart
<1>2. /\ Append(file.lines, 0) \in Seq(0..MaxEntries)
      /\ Len(Append(file.lines, 0)) = Len(file.lines) + 1
      /\ ToSet(Append(file.lines, 0)) = ToSet(file.lines) \cup {0}
  BY <1>1, AppendedEntries
<1>3. PutsPart(file, ended) \in Files
  BY <1>2 DEF Files, PutsPart
<1>4. QED BY <1>1, <1>2, <1>3

LEMMA NoFileIsEmpty ==
  /\ NoFile \in Files /\ Opened_(NoFile) \in Files
  /\ NoFile.lines = <<>> /\ Opened_(NoFile).lines = <<>>
  /\ ~NoFile.there /\ Opened_(NoFile).there /\ ~NoFile.open /\ ~Opened_(NoFile).open
<1>1. <<>> \in Seq(0..MaxEntries)
  OBVIOUS
<1>2. QED BY <1>1 DEF NoFile, Opened_, Files

LEMMA JournalStarts == JournalInit => JournalInv
<1> SUFFICES ASSUME JournalInit PROVE JournalInv
  OBVIOUS
<1>1. JournalTypeOK
  BY JournalAssumption, NoFileIsEmpty DEF JournalInit, JournalTypeOK
<1>2. JournalHolds(0, 0) /\ OpenAfterCut
  BY NoFileIsEmpty, JournalAssumption DEF JournalInit, JournalHolds, OpenAfterCut
<1>3. 0 \in 0..written
  BY DEF JournalInit
<1>4. QED BY <1>1, <1>2, <1>3, NoFileIsEmpty DEF JournalInv, JournalInit

\* The two ways a file rotates: the active file is full and there, the handle is not on the
\* backup, and what was active is all that is left of the older entries.
LEMMA RotationHolds ==
  ASSUME JournalInv, IsFull(active), Renamed, written' = written, torn' = torn, cuts' = cuts,
         active'.lines = <<>>
  PROVE  \E a, b \in 0..written' : JournalHolds(a, b)'
<1>1. PICK a, b \in 0..written : JournalHolds(a, b)
  BY DEF JournalInv
<1>2. /\ written \in Nat /\ torn \in Nat /\ a \in Nat /\ b \in Nat /\ JournalLimit \in Nat
      /\ Len(active.lines) \in Nat
  BY JournalAssumption DEF JournalInv, JournalTypeOK, Files
<1>3. Len(active.lines) >= JournalLimit
  BY DEF IsFull
<1>4. JournalHolds(0, a)'
  <2>1. 0 + a <= written'
    BY <1>1, <1>2 DEF JournalHolds
  <2>2. \A e \in (written' - 0 + 1)..written' : ReadableIn(e, active)'
    BY <1>2
  <2>3. \A e \in (written' - 0 - a + 1)..(written' - 0) : ReadableIn(e, backup)'
    BY <1>1, <1>2 DEF JournalHolds, Renamed, ReadableIn, AfterCut
  <2>4. Len(active'.lines) <= 0 + torn' /\ Len(backup'.lines) <= a + torn'
    BY <1>1, <1>2 DEF JournalHolds, Renamed
  <2>5. Len(backup'.lines) >= JournalLimit
    BY <1>3 DEF Renamed
  <2>6. QED BY <2>1, <2>2, <2>3, <2>4, <2>5 DEF JournalHolds
<1>5. 0 \in 0..written' /\ a \in 0..written'
  BY <1>2
<1>6. QED BY <1>4, <1>5

LEMMA OpenKeepsJournal ==
  ASSUME JournalInv, JournalOpen PROVE JournalInv'
<1>1. active \in Files /\ backup \in Files /\ JournalTypeOK
  BY DEF JournalInv, JournalTypeOK
<1>2. CASE active' = Opened_(active) /\ UNCHANGED backup
  <2>1. active'.lines = active.lines /\ active'.there /\ active' \in Files
        /\ active'.open = active.open
    BY <1>1, <1>2 DEF Opened_, Files
  <2>2. JournalTypeOK'
    BY <2>1, <1>1, <1>2 DEF JournalTypeOK, JournalOpen
  <2>3. PICK a, b \in 0..written : JournalHolds(a, b)
    BY DEF JournalInv
  <2>4. JournalHolds(a, b)'
    BY <2>1, <2>3, <1>2 DEF JournalHolds, JournalOpen, ReadableIn, AfterCut
  <2>5. QED BY <2>1, <2>2, <2>3, <2>4 DEF JournalInv, JournalOpen, OpenAfterCut
<1>3. CASE IsFull(active) /\ Renamed /\ active' = Opened_(NoFile)
  <2>1. JournalTypeOK'
    BY <1>3, <1>1, NoFileIsEmpty DEF JournalTypeOK, JournalOpen, Renamed
  <2>2. \E a, b \in 0..written' : JournalHolds(a, b)'
    BY <1>3, NoFileIsEmpty, RotationHolds DEF JournalOpen
  <2>3. QED BY <1>3, <2>1, <2>2, NoFileIsEmpty DEF JournalInv, JournalOpen, OpenAfterCut
<1>4. QED BY <1>2, <1>3 DEF JournalOpen

\* One more acknowledged entry counts for the file the handle is on; nothing is in an
\* active file that is not there.
LEMMA AppendKeepsJournal ==
  ASSUME JournalInv, Append_ PROVE JournalInv'
<1>1. active \in Files /\ backup \in Files /\ JournalTypeOK
  BY DEF JournalInv, JournalTypeOK
<1>2. PICK a, b \in 0..written : JournalHolds(a, b)
  BY DEF JournalInv
<1>3. /\ written \in Nat /\ torn \in Nat /\ a \in Nat /\ b \in Nat /\ JournalLimit \in Nat
      /\ Len(active.lines) \in Nat /\ Len(backup.lines) \in Nat
      /\ written' = written + 1 /\ torn' = torn /\ written' \in 0..MaxEntries
      /\ MaxEntries \in Nat /\ cuts' = cuts /\ 0 \in 0..MaxEntries
  BY <1>1, JournalAssumption DEF JournalTypeOK, Files, Append_
<1>4. CASE handle = "active"
  <2>1. active' = Puts(active, written') /\ backup' = backup /\ handle' = handle
    BY <1>4 DEF Append_
  <2>2. /\ active' \in Files /\ active'.there
        /\ Len(active'.lines) = Len(active.lines) + 1 /\ ~active'.open
        /\ ToSet(active.lines) \subseteq ToSet(active'.lines)
        /\ ReadableIn(written, active)'
    <3>1. /\ active' \in Files /\ active'.there
          /\ Len(active'.lines) = Len(active.lines) + 1 /\ ~active'.open
          /\ ToSet(active.lines) \subseteq ToSet(active'.lines)
          /\ ~active.open => written' \in ToSet(active'.lines)
      BY <2>1, <1>1, <1>3, <1>4, PutsEntry DEF JournalInv
    <3>2. active.open => written' \in AfterCut'
      BY <1>3 DEF JournalInv, OpenAfterCut, AfterCut
    <3>3. QED BY <3>1, <3>2 DEF ReadableIn
  <2>3. JournalTypeOK'
    BY <1>1, <1>3, <2>1, <2>2 DEF JournalTypeOK
  <2>4. JournalHolds(a + 1, b)'
    <3>1. a + 1 + b <= written'
      BY <1>2, <1>3 DEF JournalHolds
    <3>2. ASSUME NEW e \in (written' - (a + 1) + 1)..written' PROVE ReadableIn(e, active)'
      <4>1. e = written' \/ e \in (written - a + 1)..written
        BY <1>3
      <4>2. QED BY <4>1, <1>2, <1>3, <2>2 DEF JournalHolds, ReadableIn, AfterCut
    <3>3. \A e \in (written' - (a + 1) - b + 1)..(written' - (a + 1)) : ReadableIn(e, backup)'
      <4>1. (written' - (a + 1) - b + 1)..(written' - (a + 1))
              = (written - a - b + 1)..(written - a)
        BY <1>3
      <4>2. \A e : ReadableIn(e, backup)' <=> ReadableIn(e, backup)
        BY <1>3, <2>1 DEF ReadableIn, AfterCut
      <4>3. QED BY <1>2, <4>1, <4>2, Zenon DEF JournalHolds
    <3>4. Len(active'.lines) <= a + 1 + torn' /\ Len(backup'.lines) <= b + torn'
      BY <1>2, <1>3, <2>1, <2>2 DEF JournalHolds
    <3>5. a + 1 + b = written' \/ Len(backup'.lines) >= JournalLimit
      BY <1>2, <1>3, <2>1 DEF JournalHolds
    <3>6. QED BY <3>1, <3>2, <3>3, <3>4, <3>5 DEF JournalHolds
  <2>5. a + 1 \in 0..written' /\ b \in 0..written'
    BY <1>2, <1>3 DEF JournalHolds
  <2>6. QED BY <1>4, <2>1, <2>2, <2>3, <2>4, <2>5 DEF JournalInv, OpenAfterCut
<1>5. CASE handle = "backup"
  <2>1. backup' = Puts(backup, written') /\ active' = active /\ handle' = handle
    BY <1>5 DEF Append_, File
  <2>2. /\ backup' \in Files
        /\ Len(backup'.lines) = Len(backup.lines) + 1 /\ ~backup'.open
        /\ ToSet(backup.lines) \subseteq ToSet(backup'.lines)
        /\ ReadableIn(written, backup)'
    <3>1. /\ backup' \in Files
          /\ Len(backup'.lines) = Len(backup.lines) + 1 /\ ~backup'.open
          /\ ToSet(backup.lines) \subseteq ToSet(backup'.lines)
          /\ ~backup.open => written' \in ToSet(backup'.lines)
      BY <2>1, <1>1, <1>3, PutsEntry
    <3>2. backup.open => written' \in AfterCut'
      BY <1>3, <1>5 DEF JournalInv, OpenAfterCut, AfterCut
    <3>3. QED BY <3>1, <3>2 DEF ReadableIn
  <2>3. JournalTypeOK'
    BY <1>1, <1>3, <2>1, <2>2 DEF JournalTypeOK
  <2>4. active.lines = <<>> /\ ~active.there /\ ~active.open
    BY <1>5 DEF JournalInv
  <2>5. Len(active'.lines) = 0
    BY <2>1, <2>4
  <2>6. JournalHolds(0, a + b + 1)'
    <3>1. 0 + (a + b + 1) <= written'
      BY <1>2, <1>3 DEF JournalHolds
    <3>2. ASSUME NEW e \in (written' - 0 - (a + b + 1) + 1)..(written' - 0)
          PROVE  ReadableIn(e, backup)'
      <4>1. \/ e = written' \/ e \in (written - a - b + 1)..(written - a)
            \/ e \in (written - a + 1)..written
        BY <1>3
      <4>2. CASE e \in (written - a + 1)..written
        <5>1. e \in AfterCut
          BY <1>2, <2>4, <4>2, EmptyHasNoEntries DEF JournalHolds, ReadableIn
        <5> QED BY <1>3, <5>1 DEF ReadableIn, AfterCut
      <4>3. QED BY <4>1, <4>2, <1>2, <1>3, <2>2 DEF JournalHolds, ReadableIn, AfterCut
    <3>3. \A e \in (written' - 0 + 1)..written' : ReadableIn(e, active)'
      BY <1>3
    <3>4. Len(active'.lines) <= 0 + torn' /\ Len(backup'.lines) <= (a + b + 1) + torn'
      <4>1. Len(backup.lines) <= b + torn
        BY <1>2 DEF JournalHolds
      <4>2. Len(backup'.lines) = Len(backup.lines) + 1
        BY <2>2
      <4>3. QED BY <4>1, <4>2, <1>3, <2>5
    <3>5. 0 + (a + b + 1) = written' \/ Len(backup'.lines) >= JournalLimit
      BY <1>2, <1>3, <2>2 DEF JournalHolds
    <3>6. QED BY <3>1, <3>2, <3>3, <3>4, <3>5 DEF JournalHolds
  <2>7. 0 \in 0..written' /\ a + b + 1 \in 0..written'
    BY <1>2, <1>3 DEF JournalHolds
  <2>8. QED BY <1>5, <2>1, <2>2, <2>3, <2>4, <2>6, <2>7 DEF JournalInv, OpenAfterCut
<1>6. QED BY <1>4, <1>5, <1>1 DEF Append_, JournalTypeOK

LEMMA CutKeepsJournal ==
  ASSUME JournalInv, AppendIsCut PROVE JournalInv'
<1>1. active \in Files /\ backup \in Files /\ JournalTypeOK
  BY DEF JournalInv, JournalTypeOK
<1>2. PICK a, b \in 0..written : JournalHolds(a, b)
  BY DEF JournalInv
<1>3. /\ written \in Nat /\ torn \in Nat /\ a \in Nat /\ b \in Nat /\ JournalLimit \in Nat
      /\ Len(active.lines) \in Nat /\ Len(backup.lines) \in Nat
      /\ written' = written /\ torn' = torn + 1 /\ torn' \in 0..MaxTorn
      /\ 0 \in 0..MaxEntries /\ handle' \in {handle, "none"}
      /\ cuts' = cuts \cup {written} /\ cuts' \subseteq 0..MaxEntries
  BY <1>1, JournalAssumption DEF JournalTypeOK, Files, AppendIsCut
<1>a. AfterCut \subseteq AfterCut' /\ OpenAfterCut'
  BY <1>3 DEF AfterCut, OpenAfterCut
<1>4. CASE handle = "active"
  <2>1. PICK ended \in BOOLEAN : active' = PutsPart(active, ended) /\ backup' = backup
    BY <1>4 DEF AppendIsCut
  <2>2. /\ active' \in Files /\ active'.there
        /\ Len(active'.lines) = Len(active.lines) + 1
        /\ ToSet(active.lines) \subseteq ToSet(active'.lines)
    BY <2>1, <1>1, <1>3, <1>4, PutsPartOfEntry DEF JournalInv
  <2>3. JournalTypeOK'
    BY <1>1, <1>3, <2>1, <2>2 DEF JournalTypeOK
  <2>4. JournalHolds(a, b)'
    BY <1>2, <1>3, <1>a, <2>1, <2>2 DEF JournalHolds, ReadableIn
  <2>5. QED BY <1>3, <1>4, <1>a, <2>2, <2>3, <2>4 DEF JournalInv
<1>5. CASE handle = "backup"
  <2>1. PICK ended \in BOOLEAN : backup' = PutsPart(backup, ended) /\ active' = active
    BY <1>5 DEF AppendIsCut, File
  <2>2. /\ backup' \in Files
        /\ Len(backup'.lines) = Len(backup.lines) + 1
        /\ ToSet(backup.lines) \subseteq ToSet(backup'.lines)
    BY <2>1, <1>1, <1>3, PutsPartOfEntry
  <2>3. JournalTypeOK'
    BY <1>1, <1>3, <2>1, <2>2 DEF JournalTypeOK
  <2>4. JournalHolds(a, b)'
    <3>1. \A e : ReadableIn(e, active) => ReadableIn(e, active)'
      BY <1>3, <1>a, <2>1 DEF ReadableIn, AfterCut
    <3>2. \A e : ReadableIn(e, backup) => ReadableIn(e, backup)'
      BY <1>3, <1>a, <2>2 DEF ReadableIn, AfterCut
    <3>3. QED BY <1>2, <1>3, <1>a, <2>1, <2>2, <3>1, <3>2 DEF JournalHolds
  <2>5. QED BY <1>3, <1>5, <1>a, <2>1, <2>3, <2>4 DEF JournalInv
<1>6. QED BY <1>4, <1>5, <1>1 DEF AppendIsCut, JournalTypeOK

LEMMA RotationKeepsJournal ==
  ASSUME JournalInv, AppendRotates PROVE JournalInv'
<1>1. active \in Files /\ backup \in Files /\ JournalTypeOK
  BY DEF JournalInv, JournalTypeOK
<1>2. PICK a, b \in 0..written : JournalHolds(a, b)
  BY DEF JournalInv
<1>3. /\ written \in Nat /\ torn \in Nat /\ a \in Nat /\ b \in Nat /\ JournalLimit \in Nat
      /\ Len(active.lines) \in Nat
      /\ written' = written + 1 /\ torn' = torn /\ written' \in 0..MaxEntries
      /\ cuts' = cuts /\ 0 \in 0..MaxEntries
  BY <1>1, JournalAssumption DEF JournalTypeOK, Files, AppendRotates
<1>4. active.there /\ handle = "active" /\ Len(active.lines) >= JournalLimit /\ backup' = active
  BY <1>1 DEF AppendRotates, Renamed, JournalInv, IsFull, File, JournalTypeOK
<1>5. /\ active' \in Files /\ active'.there /\ handle' = "active"
      /\ Len(active'.lines) = 1 /\ written' \in ToSet(active'.lines) /\ ~active'.open
  <2>1. active' = Puts(Opened_(NoFile), written') /\ handle' = "active"
    BY DEF AppendRotates
  <2>2. Opened_(NoFile) \in Files /\ Opened_(NoFile).there /\ Opened_(NoFile).lines = <<>>
        /\ ~Opened_(NoFile).open
    BY NoFileIsEmpty
  <2>3. /\ active' \in Files /\ active'.there /\ ~active'.open
        /\ Len(active'.lines) = Len(<<>>) + 1
        /\ written' \in ToSet(active'.lines)
    BY <2>1, <2>2, <1>3, PutsEntry
  <2>4. QED BY <2>1, <2>3
<1>6. JournalTypeOK'
  BY <1>1, <1>3, <1>4, <1>5 DEF JournalTypeOK
<1>7. JournalHolds(1, a)'
  <2>1. 1 + a <= written'
    BY <1>2, <1>3 DEF JournalHolds
  <2>2. \A e \in (written' - 1 + 1)..written' : ReadableIn(e, active)'
    BY <1>3, <1>5 DEF ReadableIn
  <2>3. \A e \in (written' - 1 - a + 1)..(written' - 1) : ReadableIn(e, backup)'
    BY <1>2, <1>3, <1>4 DEF JournalHolds, ReadableIn, AfterCut
  <2>4. Len(active'.lines) <= 1 + torn' /\ Len(backup'.lines) <= a + torn'
    BY <1>2, <1>3, <1>4, <1>5 DEF JournalHolds
  <2>5. QED BY <2>1, <2>2, <2>3, <2>4, <1>4 DEF JournalHolds
<1>8. 1 \in 0..written' /\ a \in 0..written'
  BY <1>3
<1>9. QED BY <1>5, <1>6, <1>7, <1>8 DEF JournalInv, OpenAfterCut

LEMMA LostHandleKeepsJournal ==
  ASSUME JournalInv, AppendLosesHandle PROVE JournalInv'
<1>1. active \in Files /\ backup \in Files /\ JournalTypeOK
  BY DEF JournalInv, JournalTypeOK
<1>2. active.there /\ handle = "active" /\ IsFull(active)
  BY <1>1 DEF AppendLosesHandle, Renamed, JournalInv, File, JournalTypeOK
<1>3. JournalTypeOK'
  BY <1>1, NoFileIsEmpty DEF JournalTypeOK, AppendLosesHandle, Renamed
<1>4. \E a, b \in 0..written' : JournalHolds(a, b)'
  BY <1>2, NoFileIsEmpty, RotationHolds DEF AppendLosesHandle
<1>5. OpenAfterCut'
  BY NoFileIsEmpty DEF AppendLosesHandle, Renamed, JournalInv, OpenAfterCut
<1>6. QED BY <1>3, <1>4, <1>5, NoFileIsEmpty DEF JournalInv, AppendLosesHandle

\* The control journal is always read from two files that together hold the latest of what
\* was acknowledged and did not join a line cut short (ControlJournal::append,
\* rotate_to_backup, and every failure of theirs).
THEOREM JournalInvariance == JournalSpec => []JournalInv
<1>1. JournalInv /\ [JournalNext]_journalVars => JournalInv'
  <2> SUFFICES ASSUME JournalInv, [JournalNext]_journalVars PROVE JournalInv'
    OBVIOUS
  <2>1. CASE JournalOpen
    BY <2>1, OpenKeepsJournal
  <2>2. CASE Append_
    BY <2>2, AppendKeepsJournal
  <2>3. CASE AppendIsCut
    BY <2>3, CutKeepsJournal
  <2>4. CASE AppendRotates
    BY <2>4, RotationKeepsJournal
  <2>5. CASE AppendLosesHandle
    BY <2>5, LostHandleKeepsJournal
  <2>6. CASE JournalEnds
    BY <2>6 DEF JournalEnds, JournalInv, JournalTypeOK, JournalHolds, OpenAfterCut, ReadableIn, AfterCut
  <2>7. CASE UNCHANGED journalVars
    BY <2>7 DEF journalVars, JournalInv, JournalTypeOK, JournalHolds, OpenAfterCut, ReadableIn, AfterCut
  <2>8. QED BY <2>1, <2>2, <2>3, <2>4, <2>5, <2>6, <2>7 DEF JournalNext
<1>2. QED BY <1>1, JournalStarts, PTL DEF JournalSpec

\* Rotation, failed rotation and crashes never take the evidence of the latest writes,
\* whatever the limit of a file and however many entries were written; only the entry that
\* follows one cut short may share its line and its fate.
THEOREM LatestEntriesAlwaysKept == JournalSpec => []LatestEntriesKept
<1>1. JournalInv => LatestEntriesKept
  <2> SUFFICES ASSUME JournalInv, NEW e \in (1..written) \ AfterCut,
                      e + JournalLimit > written + torn
               PROVE  e \in Kept
    BY DEF LatestEntriesKept
  <2>1. PICK a, b \in 0..written : JournalHolds(a, b)
    BY DEF JournalInv
  <2>2. /\ written \in Nat /\ torn \in Nat /\ a \in Nat /\ b \in Nat /\ JournalLimit \in Nat
        /\ Len(backup.lines) \in Nat
    BY JournalAssumption DEF JournalInv, JournalTypeOK, Files
  <2>3. written - a - b < e
    BY <2>1, <2>2 DEF JournalHolds
  <2>4. e \in (written - a + 1)..written \/ e \in (written - a - b + 1)..(written - a)
    BY <2>2, <2>3
  <2>5. QED BY <2>1, <2>4 DEF JournalHolds, Kept, ReadableIn
<1>2. QED BY <1>1, JournalInvariance, PTL

-----------------------------------------------------------------------------
(* The capabilities: what is usable was in the ceiling, and its reads are still to come or *)
(* succeeded *)

\* What the probe can have left to read.
Lefts == {<<>>, <<"mux">>, <<"gpu", "mux">>, <<"levels", "gpu", "mux">>,
          <<"table", "levels", "gpu", "mux">>, <<"sdd", "table", "levels", "gpu", "mux">>, Reads}
Awaited(left, r) == \E i \in DOMAIN left : left[i] = r

Supports == [HpDomains -> DOMAIN Ranks]
KnownLevels == LevelsOf(Entries(shown.table))

CapsShape ==
  /\ probe = [left |-> probe.left, profile |-> probe.profile, handle |-> probe.handle,
              elevated |-> probe.elevated, rails |-> probe.rails]
  /\ caps = [hp |-> caps.hp, clamp |-> caps.clamp, knobs |-> caps.knobs]
  /\ shown = [reads |-> shown.reads, table |-> shown.table]
  /\ probe.left \in Lefts /\ caps.hp \in Supports
  /\ caps.knobs = If(probe.rails = {"ac", "dc"})

WithinCeiling ==
  \A d \in HpDomains :
    Usable(caps.hp[d]) => caps.hp[d] = Ceiling(probe.profile, probe.handle)[d]

ProofsDone ==
  /\ probe.handle => \A r \in {"count", "table", "levels", "gpu", "mux"} :
       Awaited(probe.left, r) \/ r \in shown.reads \/ \A d \in Proves(r) : ~Usable(caps.hp[d])
  /\ "noMux" \in shown.reads => ~Usable(caps.hp["mux"])

ClampIsKnown ==
  /\ shown.table \in Tables \cup {<<>>}
  /\ Awaited(probe.left, "table") => shown.table = <<>>
  /\ caps.clamp = IF Plausible(KnownLevels) THEN Range2(KnownLevels) ELSE probe.profile.clamp

CapsInv == CapsShape /\ WithinCeiling /\ ProofsDone /\ ClampIsKnown

\* The least-number principle, from the library's well-founded strict subsets.
LEMMA LeastNumber ==
  ASSUME NEW n \in Nat, NEW T \in SUBSET (0..n), T # {}
  PROVE  \E lo \in T : \A v \in T : lo <= v
<1> DEFINE Below(v) == {w \in T : w < v}
           B == {Below(v) : v \in T}
<1>0. \A v \in T : v \in Int
  OBVIOUS
<1>1. IsFiniteSet(T)
  BY FS_BoundedSetOfNaturals
<1>2. B \subseteq FiniteSubsetsOf(T) /\ B # {}
  <2>1. \A v \in T : Below(v) \in SUBSET T
    OBVIOUS
  <2>2. B \subseteq SUBSET T
    BY <2>1
  <2>3. B # {}
    OBVIOUS
  <2>4. QED BY <2>2, <2>3, <1>1, FS_FiniteSubsetsOfFinite
<1>3. PICK b \in B : \A c \in B : <<c, b>> \notin StrictSubsetOrdering(T)
  <2> HIDE DEF B
  <2>1. IsWellFoundedOn(StrictSubsetOrdering(T), FiniteSubsetsOf(T))
    BY FS_StrictSubsetOrderingWellFounded
  <2>2. QED BY <2>1, <1>2, WFMin
<1>4. PICK lo \in T : b = Below(lo)
  OBVIOUS
<1>5. ASSUME NEW v \in T, v < lo PROVE FALSE
  <2>1. v \in Below(lo) /\ v \notin Below(v)
    BY <1>5, <1>0
  <2>2. Below(v) \subseteq Below(lo)
    <3>1. ASSUME NEW w \in T, w < v PROVE w < lo
      BY <1>0, <1>5, <3>1
    <3>2. QED BY <3>1
  <2>3. Below(v) \in B /\ Below(v) \in SUBSET T /\ Below(lo) \in SUBSET T
    OBVIOUS
  <2> HIDE DEF Below, B
  <2>4. <<Below(v), b>> \in StrictSubsetOrdering(T)
    BY <1>4, <2>1, <2>2, <2>3 DEF StrictSubsetOrdering
  <2>5. QED BY <1>3, <2>3, <2>4
<1>6. QED BY <1>5, <1>0

LEMMA LeastLevel ==
  ASSUME NEW T \in SUBSET (0..100), T # {}
  PROVE  \E lo \in T : \A v \in T : lo <= v
BY LeastNumber, 100 \in Nat

\* What is left after a read no longer waits for that read, and for nothing new.
LEMMA NextRead ==
  ASSUME NEW left \in Lefts, left # <<>>
  PROVE  /\ Tail(left) \in Lefts
         /\ \A r : Awaited(left, r) <=> r = Head(left) \/ Awaited(Tail(left), r)
         /\ ~Awaited(Tail(left), Head(left))
<1>1. CASE left = <<"mux">>
  BY <1>1 DEF Lefts, Awaited
<1>2. CASE left = <<"gpu", "mux">>
  BY <1>2 DEF Lefts, Awaited
<1>3. CASE left = <<"levels", "gpu", "mux">>
  BY <1>3 DEF Lefts, Awaited
<1>4. CASE left = <<"table", "levels", "gpu", "mux">>
  BY <1>4 DEF Lefts, Awaited
<1>5. CASE left = <<"sdd", "table", "levels", "gpu", "mux">>
  BY <1>5 DEF Lefts, Awaited
<1>6. CASE left = Reads
  BY <1>6 DEF Lefts, Awaited, Reads
<1>7. QED BY <1>1, <1>2, <1>3, <1>4, <1>5, <1>6 DEF Lefts

LEMMA NothingLeft == \A r : ~Awaited(<<>>, r)
BY DEF Awaited

\* Lowering takes what it names and adds nothing.
LEMMA LoweredSupports ==
  ASSUME caps.hp \in Supports, NEW D
  PROVE  /\ Lowered(D) \in Supports
         /\ \A d \in HpDomains : Usable(Lowered(D)[d]) => d \notin D /\ Lowered(D)[d] = caps.hp[d]
<1>1. ASSUME NEW d \in HpDomains, d \in D
      PROVE  /\ Merged(caps.hp[d], "unsupported") \in DOMAIN Ranks
             /\ ~Usable(Merged(caps.hp[d], "unsupported"))
  <2>1. caps.hp[d] \in {"supported", "experimental", "unsupported", "notProbed"}
    BY DEF Supports, Ranks
  <2>2. QED BY <2>1 DEF Merged, Usable, Ranks
<1>2. \A d \in HpDomains : caps.hp[d] \in DOMAIN Ranks
  BY DEF Supports
<1>3. QED BY <1>1, <1>2 DEF Lowered, Supports

\* Nothing is usable without a known board and a handle.
LEMMA CeilingSupports ==
  ASSUME NEW profile \in Profiles, NEW held \in BOOLEAN
  PROVE  /\ Ceiling(profile, held) \in Supports
         /\ \A d \in HpDomains : Usable(Ceiling(profile, held)[d]) => profile.known /\ held
<1>1. \A b : If(b) \in DOMAIN Ranks
  BY DEF If, Ranks
<1>2. {"supported", "unsupported"} \subseteq DOMAIN Ranks /\ profile.limits \in DOMAIN Ranks
  BY CapabilityAssumption DEF Ranks
<1>3. QED BY <1>1, <1>2 DEF Ceiling, Supports, Usable

LEMMA CapsStart == CapsInit => CapsInv
<1> SUFFICES ASSUME CapsInit PROVE CapsInv
  OBVIOUS
<1>1. PICK profile \in Profiles, held \in BOOLEAN, elevated \in BOOLEAN,
           rails \in SUBSET {"ac", "dc"} :
        /\ probe = [left |-> IF held THEN Reads ELSE <<>>, profile |-> profile,
                    handle |-> held, elevated |-> elevated, rails |-> rails]
        /\ caps = [hp |-> Ceiling(profile, held), clamp |-> profile.clamp,
                   knobs |-> If(rails = {"ac", "dc"})]
        /\ shown = [reads |-> {}, table |-> <<>>]
  BY DEF CapsInit
<1>2. CapsShape
  BY <1>1, CeilingSupports DEF CapsShape, Lefts
<1>3. WithinCeiling
  BY <1>1 DEF WithinCeiling
<1>4. ProofsDone
  BY <1>1 DEF ProofsDone, Awaited, Reads
<1>5. ClampIsKnown
  <2>1. LevelsOf(Entries(<<>>)) = {}
    BY DEF LevelsOf, Entries
  <2>2. ~Plausible({})
    BY DEF Plausible
  <2>3. QED BY <1>1, <2>1, <2>2 DEF ClampIsKnown, KnownLevels
<1>6. QED BY <1>2, <1>3, <1>4, <1>5 DEF CapsInv

\* What every read of the probe has in common.
LEMMA ReadKeepsCaps ==
  ASSUME CapsInv, NEW read, Reading(read), Passes,
         caps' = [caps EXCEPT !.hp = caps'.hp, !.clamp = caps'.clamp],
         shown' = [reads |-> shown'.reads, table |-> shown'.table],
         shown.reads \subseteq shown'.reads,
         caps'.hp \in Supports,
         \A d \in HpDomains : Usable(caps'.hp[d]) => caps'.hp[d] = caps.hp[d],
         read \in {"count", "table", "levels", "gpu", "mux"} =>
           read \in shown'.reads \/ \A d \in Proves(read) : ~Usable(caps'.hp[d]),
         "noMux" \in shown'.reads => "noMux" \in shown.reads \/ ~Usable(caps'.hp["mux"])
  PROVE  /\ CapsShape' /\ WithinCeiling' /\ ProofsDone'
         /\ \A r : Awaited(probe.left, r) <=> r = read \/ Awaited(probe'.left, r)
         /\ ~Awaited(probe'.left, read)
<1>1. /\ probe' = [probe EXCEPT !.left = Tail(@)]
      /\ probe.left \in Lefts /\ probe.left # <<>> /\ Head(probe.left) = read
  BY DEF CapsInv, CapsShape, Reading, Passes
<1>2. /\ probe'.left = Tail(probe.left) /\ probe'.profile = probe.profile
      /\ probe'.handle = probe.handle /\ probe'.rails = probe.rails
      /\ probe' = [left |-> probe'.left, profile |-> probe'.profile, handle |-> probe'.handle,
                   elevated |-> probe'.elevated, rails |-> probe'.rails]
  BY <1>1 DEF CapsInv, CapsShape
<1>3. /\ probe'.left \in Lefts
      /\ \A r : Awaited(probe.left, r) <=> r = read \/ Awaited(probe'.left, r)
      /\ ~Awaited(probe'.left, read)
  BY <1>1, <1>2, NextRead
<1>4. /\ caps' = [hp |-> caps'.hp, clamp |-> caps'.clamp, knobs |-> caps'.knobs]
      /\ caps'.knobs = caps.knobs
  <2>1. PICK h, c : caps' = [caps EXCEPT !.hp = h, !.clamp = c]
    OBVIOUS
  <2>2. caps = [hp |-> caps.hp, clamp |-> caps.clamp, knobs |-> caps.knobs]
    BY DEF CapsInv, CapsShape
  <2>3. QED BY <2>1, <2>2
<1>5. CapsShape'
  BY <1>2, <1>3, <1>4 DEF CapsInv, CapsShape
<1>6. WithinCeiling'
  BY <1>2 DEF CapsInv, WithinCeiling
<1>7. ProofsDone'
  <2>1. "mux" \in HpDomains /\ \A r : \A d \in Proves(r) : d \in HpDomains \/ r \notin
          {"count", "table", "levels", "gpu", "mux"}
    BY DEF HpDomains, Proves
  <2>2. ASSUME probe'.handle, NEW r \in {"count", "table", "levels", "gpu", "mux"},
               ~Awaited(probe'.left, r), r \notin shown'.reads, NEW d \in Proves(r)
        PROVE  ~Usable(caps'.hp[d])
    <3>1. CASE r = read
      BY <2>2, <3>1
    <3>2. CASE r # read
      <4>1. ~Usable(caps.hp[d])
        BY <2>2, <3>2, <1>2, <1>3 DEF CapsInv, ProofsDone
      <4>2. QED BY <4>1, <2>1, <2>2
    <3>3. QED BY <3>1, <3>2
  <2>3. "noMux" \in shown'.reads => ~Usable(caps'.hp["mux"])
    BY <2>1 DEF CapsInv, ProofsDone
  <2>4. QED BY <2>2, <2>3 DEF ProofsDone
<1>8. QED BY <1>3, <1>5, <1>6, <1>7

\* A read that leaves the fan table alone leaves the clamp alone.
LEMMA ClampUnmoved ==
  ASSUME CapsInv, shown'.table = shown.table, caps'.clamp = caps.clamp,
         probe'.profile = probe.profile,
         Awaited(probe'.left, "table") => Awaited(probe.left, "table")
  PROVE  ClampIsKnown'
BY DEF CapsInv, ClampIsKnown, KnownLevels

LEMMA PassedProbe ==
  ASSUME CapsInv, Passes
  PROVE  probe'.profile = probe.profile /\ probe'.handle = probe.handle
<1>1. probe = [left |-> probe.left, profile |-> probe.profile, handle |-> probe.handle,
               elevated |-> probe.elevated, rails |-> probe.rails]
  BY DEF CapsInv, CapsShape
<1>2. QED BY <1>1 DEF Passes

LEMMA SucceededKeepsCaps ==
  ASSUME CapsInv, NEW read, ReadSucceeds(read) PROVE CapsInv'
<1>1. /\ Reading(read) /\ Passes /\ read \notin {"sdd", "table"}
      /\ caps.hp \in Supports
      /\ caps = [hp |-> caps.hp, clamp |-> caps.clamp, knobs |-> caps.knobs]
      /\ shown = [reads |-> shown.reads, table |-> shown.table]
  BY DEF ReadSucceeds, CapsInv, CapsShape
<1>2. /\ "rpm" \in HpDomains
      /\ caps.hp["rpm"] \in {"supported", "experimental", "unsupported", "notProbed"}
  BY <1>1 DEF HpDomains, Supports, Ranks
<1>3. Merged(caps.hp["rpm"], "supported") = caps.hp["rpm"]
  BY <1>2 DEF Merged, Ranks
<1>4. caps'.hp = caps.hp /\ caps'.clamp = caps.clamp /\ caps' = caps
  <2>1. caps' = [caps EXCEPT !.hp = [caps.hp EXCEPT !["rpm"] =
                   IF read = "count" THEN Merged(caps.hp["rpm"], "supported") ELSE caps.hp["rpm"]]]
    BY DEF ReadSucceeds
  <2>2. [caps.hp EXCEPT !["rpm"] =
           IF read = "count" THEN Merged(caps.hp["rpm"], "supported") ELSE caps.hp["rpm"]] = caps.hp
    BY <1>1, <1>2, <1>3 DEF Supports
  <2>3. QED BY <2>1, <2>2, <1>1
<1>5. /\ shown'.reads = shown.reads \cup {read} /\ shown'.table = shown.table
      /\ shown' = [reads |-> shown'.reads, table |-> shown'.table]
  <2>1. shown' = [shown EXCEPT !.reads = shown.reads \cup {read}]
    BY DEF ReadSucceeds
  <2>2. QED BY <2>1, <1>1
<1>6. "noMux" \in shown'.reads => "noMux" \in shown.reads \/ ~Usable(caps'.hp["mux"])
  <2>1. read \in {Reads[i] : i \in DOMAIN Reads} \/ probe.left = <<>>
    BY <1>1 DEF Reading, CapsInv, CapsShape, Lefts, Reads
  <2>2. read # "noMux"
    BY <2>1, <1>1 DEF Reading, Reads
  <2>3. QED BY <2>2, <1>5
<1>7. /\ CapsShape' /\ WithinCeiling' /\ ProofsDone'
      /\ \A r : Awaited(probe.left, r) <=> r = read \/ Awaited(probe'.left, r)
  <2>1. caps' = [caps EXCEPT !.hp = caps'.hp, !.clamp = caps'.clamp]
    BY <1>1, <1>4
  <2>2. QED BY <2>1, <1>1, <1>4, <1>5, <1>6, ReadKeepsCaps
<1>8. ClampIsKnown'
  BY <1>1, <1>4, <1>5, <1>7, PassedProbe, ClampUnmoved
<1>9. QED BY <1>7, <1>8 DEF CapsInv

LEMMA FailedKeepsCaps ==
  ASSUME CapsInv, NEW read, ReadFails(read) PROVE CapsInv'
<1>1. /\ Reading(read) /\ Passes /\ shown' = shown /\ caps.hp \in Supports
      /\ caps = [hp |-> caps.hp, clamp |-> caps.clamp, knobs |-> caps.knobs]
      /\ shown = [reads |-> shown.reads, table |-> shown.table]
      /\ caps' = [caps EXCEPT !.hp = Lowered(Proves(read))]
  BY DEF ReadFails, CapsInv, CapsShape
<1>2. caps'.hp = Lowered(Proves(read)) /\ caps'.clamp = caps.clamp
  <2> HIDE DEF Lowered
  <2> QED BY <1>1
<1>3. /\ caps'.hp \in Supports
      /\ \A d \in HpDomains : Usable(caps'.hp[d]) => d \notin Proves(read) /\ caps'.hp[d] = caps.hp[d]
  BY <1>1, <1>2, LoweredSupports
<1>4. read \in {"count", "table", "levels", "gpu", "mux"} =>
        Proves(read) \subseteq HpDomains
  BY DEF Proves, HpDomains
<1>5. /\ CapsShape' /\ WithinCeiling' /\ ProofsDone'
      /\ \A r : Awaited(probe.left, r) <=> r = read \/ Awaited(probe'.left, r)
  <2>1. caps' = [caps EXCEPT !.hp = caps'.hp, !.clamp = caps'.clamp]
    BY <1>1, <1>2
  <2>2. read \in {"count", "table", "levels", "gpu", "mux"} =>
          read \in shown'.reads \/ \A d \in Proves(read) : ~Usable(caps'.hp[d])
    BY <1>3, <1>4
  <2>3. QED BY <2>1, <2>2, <1>1, <1>3, ReadKeepsCaps
<1>6. ClampIsKnown'
  BY <1>1, <1>2, <1>5, PassedProbe, ClampUnmoved
<1>7. QED BY <1>5, <1>6 DEF CapsInv

LEMMA SddKeepsCaps ==
  ASSUME CapsInv, NEW hasMux \in BOOLEAN, ReadsSdd(hasMux) PROVE CapsInv'
<1>1. /\ Reading("sdd") /\ Passes /\ caps.hp \in Supports
      /\ caps = [hp |-> caps.hp, clamp |-> caps.clamp, knobs |-> caps.knobs]
      /\ shown = [reads |-> shown.reads, table |-> shown.table]
  BY DEF ReadsSdd, CapsInv, CapsShape
<1>2. PICK h : caps' = [caps EXCEPT !.hp = h] /\ h = IF hasMux THEN caps.hp ELSE Lowered({"mux"})
  BY DEF ReadsSdd
<1>3. /\ caps'.hp = h /\ caps'.clamp = caps.clamp
      /\ caps' = [caps EXCEPT !.hp = caps'.hp, !.clamp = caps'.clamp]
  BY <1>1, <1>2
<1>4. /\ caps'.hp \in Supports /\ "mux" \in HpDomains
      /\ \A d \in HpDomains : Usable(caps'.hp[d]) => caps'.hp[d] = caps.hp[d]
      /\ ~hasMux => ~Usable(caps'.hp["mux"])
  <2>1. "mux" \in HpDomains
    BY DEF HpDomains
  <2>2. CASE hasMux
    BY <2>1, <2>2, <1>1, <1>2, <1>3
  <2>3. CASE ~hasMux
    BY <2>1, <2>3, <1>1, <1>2, <1>3, LoweredSupports
  <2>4. QED BY <2>2, <2>3
<1>5. PICK seen \in {"sdd", "noMux"} : /\ shown' = [shown EXCEPT !.reads = shown.reads \cup {seen}]
                                       /\ seen = "noMux" => ~hasMux
  BY DEF ReadsSdd
<1>6. /\ shown'.reads = shown.reads \cup {seen} /\ shown'.table = shown.table
      /\ shown' = [reads |-> shown'.reads, table |-> shown'.table]
  BY <1>1, <1>5
<1>7. /\ CapsShape' /\ WithinCeiling' /\ ProofsDone'
      /\ \A r : Awaited(probe.left, r) <=> r = "sdd" \/ Awaited(probe'.left, r)
  BY <1>1, <1>3, <1>4, <1>5, <1>6, ReadKeepsCaps
<1>8. ClampIsKnown'
  BY <1>1, <1>3, <1>6, <1>7, PassedProbe, ClampUnmoved
<1>9. QED BY <1>7, <1>8 DEF CapsInv

LEMMA SkipKeepsCaps ==
  ASSUME CapsInv, SkipsMux PROVE CapsInv'
<1>1. /\ Reading("mux") /\ Passes /\ caps' = caps /\ shown' = shown /\ caps.hp \in Supports
      /\ caps = [hp |-> caps.hp, clamp |-> caps.clamp, knobs |-> caps.knobs]
      /\ shown = [reads |-> shown.reads, table |-> shown.table]
      /\ ~Usable(caps.hp["mux"])
  BY DEF SkipsMux, CapsInv, CapsShape
<1>2. caps' = [caps EXCEPT !.hp = caps'.hp, !.clamp = caps'.clamp]
  BY <1>1
<1>3. Proves("mux") = {"mux"}
  BY DEF Proves
<1>4. /\ CapsShape' /\ WithinCeiling' /\ ProofsDone'
      /\ \A r : Awaited(probe.left, r) <=> r = "mux" \/ Awaited(probe'.left, r)
  BY <1>1, <1>2, <1>3, ReadKeepsCaps
<1>5. ClampIsKnown'
  BY <1>1, <1>4, PassedProbe, ClampUnmoved
<1>6. QED BY <1>4, <1>5 DEF CapsInv

\* The table is read once; until then nothing is known of the levels.
LEMMA TableKeepsCaps ==
  ASSUME CapsInv, NEW table \in Tables, ReadsTable(table) PROVE CapsInv'
<1>1. /\ Reading("table") /\ Passes /\ caps.hp \in Supports
      /\ caps = [hp |-> caps.hp, clamp |-> caps.clamp, knobs |-> caps.knobs]
      /\ shown' = [reads |-> shown.reads \cup {"table"}, table |-> table]
  BY DEF ReadsTable, CapsInv, CapsShape
<1>2. PICK c : /\ caps' = [caps EXCEPT !.clamp = c]
               /\ c = IF Plausible(LevelsOf(Entries(table)))
                      THEN Range2(LevelsOf(Entries(table))) ELSE caps.clamp
  BY DEF ReadsTable
<1>3. /\ caps'.hp = caps.hp /\ caps'.clamp = c
      /\ caps' = [caps EXCEPT !.hp = caps'.hp, !.clamp = caps'.clamp]
  BY <1>1, <1>2
<1>4. /\ shown'.reads = shown.reads \cup {"table"} /\ shown'.table = table
      /\ shown' = [reads |-> shown'.reads, table |-> shown'.table]
  BY <1>1
<1>5. /\ CapsShape' /\ WithinCeiling' /\ ProofsDone'
      /\ \A r : Awaited(probe.left, r) <=> r = "table" \/ Awaited(probe'.left, r)
      /\ ~Awaited(probe'.left, "table")
  BY <1>1, <1>3, <1>4, ReadKeepsCaps
<1>6. caps.clamp = probe.profile.clamp
  <2>1. Awaited(probe.left, "table")
    BY <1>5
  <2>2. shown.table = <<>> /\ LevelsOf(Entries(<<>>)) = {}
    BY <2>1 DEF CapsInv, ClampIsKnown, LevelsOf, Entries
  <2>3. ~Plausible({})
    BY DEF Plausible
  <2>4. QED BY <2>2, <2>3 DEF CapsInv, ClampIsKnown, KnownLevels
<1>7. ClampIsKnown'
  BY <1>1, <1>2, <1>3, <1>4, <1>5, <1>6, PassedProbe DEF ClampIsKnown, KnownLevels
<1>8. QED BY <1>5, <1>7 DEF CapsInv

LEMMA ConcludingKeepsCaps ==
  ASSUME CapsInv, Concludes PROVE CapsInv'
<1>1. /\ probe' = probe /\ shown' = shown /\ caps.hp \in Supports
      /\ caps = [hp |-> caps.hp, clamp |-> caps.clamp, knobs |-> caps.knobs]
      /\ caps' = [caps EXCEPT !.hp = Lowered({"manual"})]
  BY DEF Concludes, CapsInv, CapsShape
<1>2. PICK h : h = Lowered({"manual"})
  OBVIOUS
<1>3. /\ caps'.hp = h /\ caps'.clamp = caps.clamp /\ caps'.knobs = caps.knobs
      /\ caps' = [hp |-> caps'.hp, clamp |-> caps'.clamp, knobs |-> caps'.knobs]
  BY <1>1, <1>2
<1>4. h \in Supports /\ \A d \in HpDomains : Usable(h[d]) => h[d] = caps.hp[d]
  BY <1>1, <1>2, LoweredSupports
<1>5. "mux" \in HpDomains /\ \A r \in {"count", "table", "levels", "gpu", "mux"} :
        Proves(r) \subseteq HpDomains
  BY DEF HpDomains, Proves
<1>6. CapsShape' /\ WithinCeiling'
  BY <1>1, <1>3, <1>4 DEF CapsInv, CapsShape, WithinCeiling
<1>7. ProofsDone'
  BY <1>1, <1>3, <1>4, <1>5 DEF CapsInv, ProofsDone
<1>8. ClampIsKnown'
  BY <1>1, <1>3 DEF CapsInv, ClampIsKnown, KnownLevels
<1>9. QED BY <1>6, <1>7, <1>8 DEF CapsInv

\* What is usable is within the board's ceiling, and its reads are to come or succeeded.
THEOREM CapsInvariance == CapsSpec => []CapsInv
<1>1. CapsInv /\ [CapsNext]_capsVars => CapsInv'
  <2> SUFFICES ASSUME CapsInv, [CapsNext]_capsVars PROVE CapsInv'
    OBVIOUS
  <2>1. CASE \E i \in DOMAIN Reads : ReadSucceeds(Reads[i]) \/ ReadFails(Reads[i])
    BY <2>1, SucceededKeepsCaps, FailedKeepsCaps
  <2>2. CASE \E hasMux \in BOOLEAN : ReadsSdd(hasMux)
    BY <2>2, SddKeepsCaps
  <2>3. CASE SkipsMux
    BY <2>3, SkipKeepsCaps
  <2>4. CASE \E table \in Tables : ReadsTable(table)
    BY <2>4, TableKeepsCaps
  <2>5. CASE Concludes
    BY <2>5, ConcludingKeepsCaps
  <2>6. CASE UNCHANGED capsVars
    <3>1. probe' = probe /\ caps' = caps /\ shown' = shown
      BY <2>6 DEF capsVars
    <3>2. CapsShape' /\ WithinCeiling' /\ ProofsDone'
      BY <3>1 DEF CapsInv, CapsShape, WithinCeiling, ProofsDone
    <3>3. ClampIsKnown'
      BY <3>1 DEF CapsInv, ClampIsKnown, KnownLevels
    <3>4. QED BY <3>2, <3>3 DEF CapsInv
  <2>7. QED BY <2>1, <2>2, <2>3, <2>4, <2>5, <2>6 DEF CapsNext
<1>2. QED BY <1>1, CapsStart, PTL DEF CapsSpec

-----------------------------------------------------------------------------
\* The highest level is the lowest of what is left up to a hundred.
LEMMA GreatestLevel ==
  ASSUME NEW T \in SUBSET (0..100), T # {}
  PROVE  \E hi \in T : \A v \in T : hi >= v
<1> DEFINE U == {100 - v : v \in T}
<1>1. \A v \in T : v \in 0..100
  OBVIOUS
<1>2. U \in SUBSET (0..100) /\ U # {}
  <2>1. \A v \in T : 100 - v \in 0..100
    BY <1>1
  <2>2. \A u \in U : u \in 0..100
    BY <2>1
  <2>3. U # {}
    OBVIOUS
  <2>4. QED BY <2>2, <2>3
<1>3. PICK lo \in U : \A u \in U : lo <= u
  <2> HIDE DEF U
  <2> QED BY <1>2, LeastLevel
<1>4. PICK hi \in T : lo = 100 - hi
  OBVIOUS
<1>5. ASSUME NEW v \in T PROVE hi >= v
  <2>1. 100 - v \in U
    OBVIOUS
  <2>2. lo <= 100 - v
    BY <2>1, <1>3
  <2>3. QED BY <2>2, <1>1, <1>4
<1>6. QED BY <1>5

\* What lies in the range of a plausible table lies between two levels it lists.
LEMMA RangeIsListed ==
  ASSUME NEW levels \in SUBSET Nat, Plausible(levels),
         NEW v \in Range2(levels)[1]..Range2(levels)[2]
  PROVE  \E w, x \in levels : w <= v /\ v <= x
<1>1. levels \in SUBSET (0..100) /\ levels # {}
  BY DEF Plausible
<1>2. Range2(levels)[1] \in levels
  BY <1>1, LeastLevel DEF Range2
<1>3. Range2(levels)[2] \in levels
  BY <1>1, GreatestLevel DEF Range2
<1>4. Range2(levels)[1] <= v /\ v <= Range2(levels)[2]
  BY <1>1, <1>2, <1>3
<1>5. QED BY <1>2, <1>3, <1>4

LEMMA LevelsAreBytes ==
  ASSUME NEW table \in Tables \cup {<<>>}
  PROVE  LevelsOf(Entries(table)) \in SUBSET Nat
<1>1. table \in Seq((0..255) \X (0..255))
  <2>1. table = <<>> => table \in Seq((0..255) \X (0..255))
    OBVIOUS
  <2>2. QED BY <2>1, CapabilityAssumption
<1>2. ASSUME NEW i \in DOMAIN table PROVE table[i][1] \in Nat /\ table[i][2] \in Nat
  <2>1. table[i] \in (0..255) \X (0..255)
    BY <1>1
  <2>2. \A S : \A p \in S \X S : p[1] \in S /\ p[2] \in S
    OBVIOUS
  <2>3. table[i][1] \in 0..255 /\ table[i][2] \in 0..255
    BY <2>1, <2>2, Zenon
  <2>4. \A n \in 0..255 : n \in Nat
    OBVIOUS
  <2>5. QED BY <2>3, <2>4, Zenon
<1>3. ASSUME NEW e \in Entries(table) PROVE e[1] \in Nat /\ e[2] \in Nat
  <2>1. PICK i \in DOMAIN table : e = table[i]
    BY DEF Entries
  <2>2. QED BY <2>1, <1>2
<1>4. QED BY <1>3 DEF LevelsOf

\* Whatever fails while the machine is probed, what the gate lets through afterwards is in
\* the board's profile and every read that is its proof succeeded; fan levels stay within
\* what the firmware lists.  For every board, every table of bytes and every request.
THEOREM UsableIsAlwaysProven == CapsSpec => []UsableIsProven
<1>1. CapsInv => UsableIsProven
  <2> SUFFICES ASSUME CapsInv, Probed PROVE UsableIsProven
    BY DEF UsableIsProven
  <2>1. probe.left = <<>> /\ \A r : ~Awaited(probe.left, r)
    BY NothingLeft DEF Probed
  <2>2. ASSUME NEW d \in HpDomains, Usable(caps.hp[d])
        PROVE  /\ probe.profile.known /\ probe.handle
               /\ caps.hp[d] = Ceiling(probe.profile, probe.handle)[d]
               /\ \A r \in {"count", "table", "levels", "gpu", "mux"} :
                    d \in Proves(r) => r \in shown.reads
    <3>1. caps.hp[d] = Ceiling(probe.profile, probe.handle)[d]
      BY <2>2 DEF CapsInv, WithinCeiling
    <3>2. probe.profile.known /\ probe.handle
      BY <2>2, <3>1 DEF Ceiling, Usable
    <3>3. QED BY <2>1, <2>2, <3>1, <3>2 DEF CapsInv, ProofsDone
  <2>3. ASSUME NEW d \in HpDomains, Allowed(d) PROVE Usable(caps.hp[d])
    BY <2>3 DEF Allowed, Usable, HpDomains
  <2>4. ASSUME NEW d \in HpDomains, Allowed(d) PROVE Proven(d)
    <3>1. /\ probe.profile.known /\ probe.handle
          /\ caps.hp[d] = Ceiling(probe.profile, probe.handle)[d] /\ Usable(caps.hp[d])
      BY <2>2, <2>3, <2>4
    <3>2. Proofs[d] \subseteq shown.reads
      <4>1. \A r \in Proofs[d] : r \in {"count", "table", "levels", "gpu", "mux"} /\ d \in Proves(r)
        BY DEF Proofs, Proves, HpDomains
      <4>2. QED BY <4>1, <2>2, <2>3, <2>4
    <3>3. d = "gpu" => probe.profile.gpu
      BY <3>1 DEF Ceiling, Usable, If, HpDomains
    <3>4. d = "mux" => probe.profile.mux /\ "noMux" \notin shown.reads
      BY <3>1 DEF Ceiling, Usable, If, HpDomains, CapsInv, ProofsDone
    <3>5. d = "limits" => probe.profile.limits # "unsupported"
      BY <3>1 DEF Ceiling, Usable, HpDomains
    <3>6. d # "knobs"
      BY DEF HpDomains
    <3>7. QED BY <3>1, <3>2, <3>3, <3>4, <3>5, <3>6 DEF Proven
  <2>5. Allowed("knobs") => Proven("knobs")
    BY DEF Allowed, Proven, CapsInv, CapsShape, If
  <2>6. ASSUME NEW l, LevelsAllowed(l), NEW v \in caps.clamp[1]..caps.clamp[2] PROVE Listed(v)
    <3>1. KnownLevels \in SUBSET Nat
      BY LevelsAreBytes DEF KnownLevels, CapsInv, ClampIsKnown
    <3>2. CASE Plausible(KnownLevels)
      <4>1. \E w, x \in KnownLevels : w <= v /\ v <= x
        BY <3>1, <3>2, <2>6, RangeIsListed DEF CapsInv, ClampIsKnown
      <4>2. QED BY <4>1, <3>2 DEF Listed, KnownLevels, Plausible
    <3>3. CASE ~Plausible(KnownLevels)
      <4>1. v \in probe.profile.clamp[1]..probe.profile.clamp[2]
        BY <3>3, <2>6 DEF CapsInv, ClampIsKnown
      <4>2. ~((\A w \in KnownLevels : w <= 100) /\ (\E w, x \in KnownLevels : w # x))
        BY <3>3 DEF Plausible
      <4>3. QED BY <4>1, <4>2 DEF Listed, KnownLevels
    <3>4. QED BY <3>2, <3>3
  <2>7. \A l \in FanRequests : LevelsAllowed(l) => Listed(l[1]) /\ Listed(l[2])
    BY <2>6 DEF LevelsAllowed, LevelAllowed
  <2>8. QED BY <2>4, <2>5, <2>7 DEF UsableIsProven
<1>2. QED BY <1>1, CapsInvariance, PTL

-----------------------------------------------------------------------------
(* The sensors *)

\* What a sample of this metric has to say of the instant it names.
TrueSample(m, s) ==
  CASE m \in {"pkgPower", "clock", "rate"} -> /\ {s.value.from, s.value.upto} \subseteq 1..instant
                                              /\ CoversItsTime(s)
    [] m = "tjMax" -> TRUE
    [] m = "fan"   -> s.at <= s.value
    [] OTHER       -> s.value \in s.since..s.at

\* Between two instants the counter cannot wrap around.
WorkIsBounded ==
  \A t \in 1..instant : \A s \in 1..t :
    used[s] <= used[t] /\ (used[t] - used[s]) * MaxTime <= (Counter - 1) * (t - s)

\* The reading of an earlier round: its counter was read after the time it is counted from.
RoundStart == IF began = 0 THEN instant ELSE began
Earlier(reading) ==
  /\ reading.at \in Nat
  /\ reading.at # 0 => reading.at \in 1..reading.read /\ reading.read \in 1..RoundStart

ReadingsAreTrue ==
  /\ began \in 0..instant
  /\ Earlier(msr.energy) /\ Earlier(msr.perf) /\ pdh.at \in 0..RoundStart
  /\ msr.energy.at # 0 => msr.energy.work = (Started + used[msr.energy.read]) % Counter
  /\ msr.perf.at # 0 => msr.perf.work = used[msr.perf.read]
  /\ pdh.primed => pdh.at # 0
  /\ fanCache.sample.at <= fanCache.sample.value

RingsAreTrue ==
  \A m \in Metrics : /\ rings[m] \in Seq(ToSet(rings[m]))
                     /\ \A s \in ToSet(rings[m]) : TrueSample(m, s)

SensorInv ==
  /\ instant \in Nat \ {0} /\ (instant = 1 \/ instant <= MaxTime)
  /\ used \in Seq(Nat) /\ Len(used) = instant
  /\ WorkIsBounded /\ ReadingsAreTrue /\ RingsAreTrue

LEMMA Division ==
  ASSUME NEW a \in Nat, NEW c \in Nat \ {0}
  PROVE  \E q \in Nat, r \in 0..(c - 1) : a = c * q + r /\ a % c = r
<1>1. a % c \in 0..(c - 1)
  OBVIOUS
<1>2. a = c * (a \div c) + (a % c)
  BY SMTT(30)
<1>3. a \div c \in Nat
  OBVIOUS
<1>4. QED BY <1>1, <1>2, <1>3

\* The difference of two readings of a counter that wrapped at most once between them.
LEMMA WrappedDifference ==
  ASSUME NEW a \in Nat, NEW b \in Nat, NEW c \in Nat \ {0}, a <= b, b - a < c
  PROVE  ((b % c) - (a % c)) % c = b - a
<1>1. PICK q1 \in Nat, r1 \in 0..(c - 1) : a = c * q1 + r1 /\ a % c = r1
  BY Division
<1>2. PICK q2 \in Nat, r2 \in 0..(c - 1) : b = c * q2 + r2 /\ b % c = r2
  BY Division
<1>3. q2 - q1 \in {0, 1}
  <2>1. q2 >= q1 + 2 => c * q2 >= c * q1 + 2 * c
    OBVIOUS
  <2>2. q2 + 1 <= q1 => c * q2 + c <= c * q1
    OBVIOUS
  <2>3. c * q1 \in Nat /\ c * q2 \in Nat
    OBVIOUS
  <2>4. QED BY <1>1, <1>2, <2>1, <2>2, <2>3
<1>4. r2 - r1 = b - a \/ r2 - r1 = b - a - c
  BY <1>1, <1>2, <1>3
<1>5. \A x \in 0..(c-1) : x % c = x
  OBVIOUS
<1>6. \A x \in 0..(c-1) : (x - c) % c = x
  OBVIOUS
<1>7. QED BY <1>1, <1>2, <1>4, <1>5, <1>6

LEMMA BoundedWork ==
  ASSUME NEW x \in Nat, NEW M \in Nat, NEW C \in Nat \ {0}, NEW d \in Nat, d < M,
         x * M <= (C - 1) * d
  PROVE  x < C
<1>1. (C - 1) * d <= (C - 1) * M
  OBVIOUS
<1>2. x >= C => x * M >= C * M
  OBVIOUS
<1>3. QED BY <1>1, <1>2

LEMMA OneMoreUnit ==
  ASSUME NEW u \in Nat, NEW v \in Nat, NEW b \in Nat, NEW M \in Nat, NEW C \in Nat \ {0},
         NEW d \in Nat, v <= u, (u - v) * M <= (C - 1) * d, b * M < C
  PROVE  (u + b - v) * M <= (C - 1) * (d + 1)
OBVIOUS

\* A full ring loses its oldest sample; a new one comes last.
LEMMA PushedSamples ==
  ASSUME NEW ring, ring \in Seq(ToSet(ring)), NEW sample
  PROVE  /\ PushedOn(ring, sample) \in Seq(ToSet(PushedOn(ring, sample)))
         /\ ToSet(PushedOn(ring, sample)) \subseteq ToSet(ring) \cup {sample}
<1> DEFINE U == ToSet(ring) \cup {sample}
           kept == IF Len(ring) = RingCapacity THEN Tail(ring) ELSE ring
<1>1. \A i \in 1..Len(ring) : ring[i] \in U
  OBVIOUS
<1>2. ring \in Seq(U) /\ sample \in U
  BY <1>1
<1> HIDE DEF U
<1>3. kept \in Seq(U)
  <2>1. CASE Len(ring) = RingCapacity
    <3>1. ring # <<>>
      BY <2>1, <1>2, CounterAssumption
    <3>2. QED BY <2>1, <3>1, <1>2
  <2>2. CASE Len(ring) # RingCapacity
    BY <2>2, <1>2
  <2>3. QED BY <2>1, <2>2
<1> HIDE DEF kept
<1>4. PICK p : p = Append(kept, sample)
  OBVIOUS
<1>5. p \in Seq(U)
  BY <1>2, <1>3, <1>4
<1>6. p \in Seq(ToSet(p))
  BY <1>5, OwnElements
<1>7. \A i \in DOMAIN p : p[i] \in U
  BY <1>5
<1>8. ToSet(p) \subseteq U
  BY <1>7 DEF ToSet
<1>9. p = PushedOn(ring, sample)
  BY <1>4 DEF PushedOn, kept
<1>10. QED BY <1>6, <1>8, <1>9 DEF U

LEMMA PushKeepsRings ==
  ASSUME SensorInv, NEW samples, Push(samples), used' = used, instant' = instant,
         \A m \in Metrics : m \in DOMAIN samples => TrueSample(m, samples[m])
  PROVE  RingsAreTrue'
<1>1. \A m, s : TrueSample(m, s)' <=> TrueSample(m, s)
  BY DEF TrueSample, CoversItsTime
<1>2. SUFFICES ASSUME NEW m \in Metrics
               PROVE  /\ rings'[m] \in Seq(ToSet(rings'[m]))
                      /\ \A s \in ToSet(rings'[m]) : TrueSample(m, s)
  BY <1>1 DEF RingsAreTrue
<1>3. /\ rings[m] \in Seq(ToSet(rings[m]))
      /\ \A s \in ToSet(rings[m]) : TrueSample(m, s)
  BY DEF SensorInv, RingsAreTrue
<1>4. rings'[m] = IF m \in DOMAIN samples THEN PushedOn(rings[m], samples[m]) ELSE rings[m]
  BY DEF Push
<1>5. CASE m \in DOMAIN samples
  <2>1. /\ rings'[m] \in Seq(ToSet(rings'[m]))
        /\ ToSet(rings'[m]) \subseteq ToSet(rings[m]) \cup {samples[m]}
    BY <1>3, <1>4, <1>5, PushedSamples
  <2>2. QED BY <1>3, <1>5, <2>1
<1>6. CASE m \notin DOMAIN samples
  BY <1>3, <1>4, <1>6
<1>7. QED BY <1>5, <1>6

LEMMA NothingPushed ==
  ASSUME SensorInv, Push(<<>>), used' = used, instant' = instant PROVE RingsAreTrue'
<1>1. DOMAIN <<>> = {}
  OBVIOUS
<1>2. PICK none : none = <<>> /\ DOMAIN none = {}
  BY <1>1
<1>3. QED BY <1>2, PushKeepsRings

LEMMA KeptSamples ==
  ASSUME NEW samples, NEW ms
  PROVE  DOMAIN Keep(samples, ms) = ms /\ \A m \in ms : Keep(samples, ms)[m] = samples[m]
BY DEF Keep

\* The instants at which the calls of a round read.
LEMMA MomentsInOrder ==
  ASSUME NEW n \in Nat, NEW m \in Moments(n), began \in 0..instant, instant \in Nat
  PROVE  /\ \A i \in 1..n + 1 : m[i] \in began..instant /\ m[i] \in Nat
         /\ \A i \in 1..n : m[i] <= m[i + 1]
BY DEF Moments

\* A rate over the time from an earlier reading's to an instant at or before the second one.
LEMMA RateIsTrue ==
  ASSUME SensorInv, began # 0, NEW m \in {"pkgPower", "clock", "rate"},
         NEW prev, Earlier(prev), prev.at # 0,
         NEW clock \in Nat, NEW upto \in Nat, NEW at \in Nat, NEW work, NEW s,
         began <= clock, clock <= upto, upto <= at, at <= instant,
         work = used[upto] - used[prev.read],
         s = Fresh(Rate(work, clock - prev.at, prev, upto, upto - clock), at)
  PROVE  TrueSample(m, s)
<1>1. PICK from \in Nat, old \in Nat :
        /\ from = prev.read /\ old = prev.at /\ 1 <= old /\ old <= from /\ from <= began
        /\ began \in Nat /\ instant \in Nat
  BY DEF Earlier, RoundStart, SensorInv, ReadingsAreTrue
<1>2. /\ s.at = at /\ s.since = began /\ s.value.work = used[upto] - used[from]
      /\ s.value.time = clock - old /\ s.value.from = from /\ s.value.upto = upto
      /\ s.value.late = (upto - clock) + (from - old)
  BY <1>1 DEF Fresh, Rate
<1>3. from <= upto /\ upto \in began..at /\ from \in 1..instant /\ upto \in 1..instant
  BY <1>1
<1>4. clock - old \in (upto - from - ((upto - clock) + (from - old)))..
                      (upto - from + ((upto - clock) + (from - old)))
  BY <1>1
<1>5. CoversItsTime(s)
  BY <1>2, <1>3, <1>4 DEF CoversItsTime
<1>6. QED BY <1>2, <1>3, <1>5 DEF TrueSample

\* The energy counted between two readings, though the counter may have wrapped.
LEMMA EnergyIsCounted ==
  ASSUME SensorInv, began # 0, HasPower(msr.energy), NEW t \in began..instant
  PROVE  DeltaEnergy(msr.energy.work, EnergyRaw(t)) = used[t] - used[msr.energy.read]
<1>1. PICK at : at = msr.energy.read
  OBVIOUS
<1>2. /\ at \in 1..t /\ t \in 1..instant /\ instant \in Nat
      /\ Counter \in Nat \ {0} /\ Started \in Nat /\ MaxTime \in Nat
  BY <1>1, CounterAssumption
     DEF SensorInv, ReadingsAreTrue, Earlier, RoundStart, HasPower
<1>3. used[at] \in Nat /\ used[t] \in Nat
  BY <1>2 DEF SensorInv
<1>4. /\ used[at] <= used[t]
      /\ (used[t] - used[at]) * MaxTime <= (Counter - 1) * (t - at)
  BY <1>2 DEF SensorInv, WorkIsBounded
<1>5. used[t] - used[at] < Counter
  <2>1. CASE t = at
    BY <1>2, <1>3, <2>1
  <2>2. CASE t # at
    <3>1. instant <= MaxTime
      BY <1>2, <2>2 DEF SensorInv
    <3>2. PICK x \in Nat, d \in Nat : x = used[t] - used[at] /\ d = t - at /\ d < MaxTime
      BY <1>2, <1>3, <1>4, <3>1
    <3>3. x < Counter
      BY <1>2, <1>4, <3>2, BoundedWork
    <3> QED BY <3>2, <3>3
  <2>3. QED BY <2>1, <2>2
<1>6. PICK a \in Nat, b \in Nat : a = Started + used[at] /\ b = Started + used[t]
  BY <1>2, <1>3
<1>7. a <= b /\ b - a < Counter /\ b - a = used[t] - used[at]
  BY <1>2, <1>3, <1>4, <1>5, <1>6
<1>8. ((b % Counter) - (a % Counter)) % Counter = b - a
  BY <1>2, <1>7, WrappedDifference
<1>9. msr.energy.work = a % Counter /\ EnergyRaw(t) = b % Counter
  BY <1>1, <1>6 DEF SensorInv, ReadingsAreTrue, EnergyRaw, HasPower
<1>10. QED BY <1>1, <1>2, <1>7, <1>8, <1>9 DEF DeltaEnergy

LEMMA SensorStart == SensorInit => SensorInv
<1> SUFFICES ASSUME SensorInit PROVE SensorInv
  OBVIOUS
<1>1. instant = 1 /\ used = <<0>> /\ used \in Seq(Nat) /\ Len(used) = 1
  BY DEF SensorInit
<1>2. WorkIsBounded
  <2> SUFFICES ASSUME NEW t \in 1..instant, NEW s \in 1..t
               PROVE  used[s] <= used[t] /\ (used[t] - used[s]) * MaxTime <= (Counter - 1) * (t - s)
    BY DEF WorkIsBounded
  <2>1. t = 1 /\ s = 1 /\ used[1] = 0
    BY <1>1
  <2>2. 0 * MaxTime = 0 /\ (Counter - 1) * 0 = 0
    BY CounterAssumption
  <2>3. QED BY <2>1, <2>2
<1>3. ReadingsAreTrue
  BY DEF SensorInit, ReadingsAreTrue, Earlier, RoundStart, NoReading, NoFanSample
<1>4. RingsAreTrue
  <2>1. <<>> \in Seq(ToSet(<<>>)) /\ ToSet(<<>>) = {}
    BY DEF ToSet
  <2>2. \A m \in Metrics : rings[m] = <<>>
    BY DEF SensorInit
  <2>3. QED BY <2>1, <2>2 DEF RingsAreTrue
<1>5. QED BY <1>1, <1>2, <1>3, <1>4 DEF SensorInv

\* Time goes on, and what was counted by an earlier instant stays what it was.
LEMMA ElapseKeepsSensors ==
  ASSUME SensorInv, Elapse PROVE SensorInv'
<1>1. /\ instant \in Nat \ {0} /\ used \in Seq(Nat) /\ Len(used) = instant
      /\ instant < MaxTime /\ instant' = instant + 1 /\ MaxTime \in Nat /\ Counter \in Nat \ {0}
  BY CounterAssumption DEF SensorInv, Elapse
<1>2. PICK b \in Burns : used' = Append(used, used[instant] + b)
  BY DEF Elapse
<1>3. b \in Nat /\ b * MaxTime < Counter
  BY CounterAssumption
<1>4. used[instant] \in Nat
  BY <1>1
<1>5. /\ used' \in Seq(Nat) /\ Len(used') = instant'
      /\ \A t \in 1..instant : used'[t] = used[t] /\ used[t] \in Nat
      /\ used'[instant + 1] = used[instant] + b
  BY <1>1, <1>2, <1>3, <1>4
<1>6. WorkIsBounded'
  <2> SUFFICES ASSUME NEW t \in 1..(instant + 1), NEW s \in 1..t
               PROVE  /\ used'[s] <= used'[t]
                      /\ (used'[t] - used'[s]) * MaxTime <= (Counter - 1) * (t - s)
    BY <1>1 DEF WorkIsBounded
  <2>1. CASE t \in 1..instant
    <3>1. s \in 1..instant /\ used'[s] = used[s] /\ used'[t] = used[t]
      BY <1>1, <1>5, <2>1
    <3>2. used[s] <= used[t] /\ (used[t] - used[s]) * MaxTime <= (Counter - 1) * (t - s)
      BY <2>1 DEF SensorInv, WorkIsBounded
    <3>3. QED BY <3>1, <3>2
  <2>2. CASE t = instant + 1 /\ s = instant + 1
    <3>1. PICK n \in Nat : used'[t] = n /\ used'[s] = n
      BY <1>3, <1>4, <1>5, <2>2
    <3>2. t - s = 0 /\ n - n = 0
      BY <1>1, <2>2
    <3>3. 0 * MaxTime = 0 /\ (Counter - 1) * 0 = 0
      BY <1>1
    <3>4. QED BY <3>1, <3>2, <3>3
  <2>3. CASE t = instant + 1 /\ s \in 1..instant
    <3>1. /\ used[s] <= used[instant]
          /\ (used[instant] - used[s]) * MaxTime <= (Counter - 1) * (instant - s)
      BY <1>1, <2>3 DEF SensorInv, WorkIsBounded
    <3>2. PICK u \in Nat, v \in Nat, d \in Nat : u = used[instant] /\ v = used[s] /\ d = instant - s
      BY <1>1, <1>4, <1>5, <2>3
    <3>3. v <= u /\ (u - v) * MaxTime <= (Counter - 1) * d
      BY <3>1, <3>2
    <3>4. (u + b - v) * MaxTime <= (Counter - 1) * (d + 1)
      BY <1>1, <1>3, <3>3, OneMoreUnit
    <3>5. /\ used'[t] = u + b /\ used'[s] = v
          /\ t - s = d + 1 /\ v <= u + b
      BY SMTT(60), <1>1, <1>3, <1>5, <2>3, <3>2, <3>3
    <3>6. used'[t] - used'[s] = u + b - v
      BY <1>3, <3>5
    <3>7. (used'[t] - used'[s]) * MaxTime <= (Counter - 1) * (t - s)
      BY <3>4, <3>5, <3>6, Zenon
    <3>8. QED BY <3>5, <3>7
  <2>4. QED BY <1>1, <2>1, <2>2, <2>3
<1>7. ReadingsAreTrue'
  <2>1. msr' = msr /\ pdh' = pdh /\ fanCache' = fanCache /\ began' = began
    BY DEF Elapse
  <2>2. began \in 0..instant /\ RoundStart \in 1..instant /\ RoundStart' \in RoundStart..instant'
    BY <1>1, <2>1 DEF SensorInv, ReadingsAreTrue, RoundStart
  <2>3. ASSUME NEW at \in 1..RoundStart PROVE at \in 1..RoundStart' /\ used'[at] = used[at]
    BY <1>1, <1>5, <2>2
  <2>4. ASSUME NEW r, Earlier(r)
        PROVE  Earlier(r)' /\ (r.at # 0 => used'[r.read] = used[r.read])
    BY <2>3, <2>4 DEF Earlier
  <2>5. PICK e, p : e = msr.energy /\ p = msr.perf
    OBVIOUS
  <2>6. Earlier(e)' /\ Earlier(p)'
    BY <2>4, <2>5 DEF SensorInv, ReadingsAreTrue
  <2>7. Earlier(msr.energy)' /\ Earlier(msr.perf)'
    BY <2>1, <2>5, <2>6 DEF Earlier
  <2>8. pdh'.at \in 0..RoundStart'
    BY <1>1, <2>1, <2>2 DEF SensorInv, ReadingsAreTrue
  <2>9. QED BY <1>1, <2>1, <2>2, <2>4, <2>7, <2>8 DEF SensorInv, ReadingsAreTrue
<1>8. RingsAreTrue'
  <2>1. rings' = rings
    BY DEF Elapse
  <2>2. ASSUME NEW m, NEW s, TrueSample(m, s) PROVE TrueSample(m, s)'
    <3>1. CASE m \in {"pkgPower", "clock", "rate"}
      <4>1. s.value.from \in 1..instant /\ s.value.upto \in 1..instant /\ CoversItsTime(s)
        BY <2>2, <3>1 DEF TrueSample
      <4>2. /\ s.value.from \in 1..instant' /\ s.value.upto \in 1..instant'
            /\ used'[s.value.from] = used[s.value.from] /\ used'[s.value.upto] = used[s.value.upto]
        BY <1>1, <1>5, <4>1
      <4>3. CoversItsTime(s)'
        BY <4>1, <4>2 DEF CoversItsTime
      <4>4. QED BY <3>1, <4>2, <4>3 DEF TrueSample
    <3>2. CASE m \notin {"pkgPower", "clock", "rate"}
      BY <2>2, <3>2 DEF TrueSample
    <3>3. QED BY <3>1, <3>2
  <2>3. QED BY <2>1, <2>2 DEF SensorInv, RingsAreTrue
<1>9. QED BY <1>1, <1>5, <1>6, <1>7, <1>8 DEF SensorInv

\* What a round leaves alone: the time, the work, and what both mean for the readings.
LEMMA RoundKeepsWork ==
  ASSUME SensorInv, used' = used, instant' = instant, ReadingsAreTrue', RingsAreTrue'
  PROVE  SensorInv'
BY DEF SensorInv, WorkIsBounded

\* What every end of a round does.
EndsRound == SensorInv /\ used' = used /\ instant' = instant /\ began # 0 /\ began' = 0

LEMMA RoundTimes ==
  ASSUME EndsRound
  PROVE  /\ began \in 1..instant /\ instant \in Nat /\ began \in Nat
         /\ RoundStart = began /\ RoundStart' = instant
BY DEF EndsRound, SensorInv, ReadingsAreTrue, RoundStart

\* What a round that reads no counter has to keep.
LEMMA OtherReadings ==
  ASSUME EndsRound, msr' = msr, pdh' = pdh, fanCache'.sample.at <= fanCache'.sample.value
  PROVE  ReadingsAreTrue'
<1>1. /\ began \in 1..instant /\ instant \in Nat /\ began \in Nat
      /\ RoundStart = began /\ RoundStart' = instant
  BY RoundTimes
<1>2. Earlier(msr.energy) /\ Earlier(msr.perf) /\ pdh.at \in 0..began
  BY <1>1 DEF EndsRound, SensorInv, ReadingsAreTrue
<1>3. Earlier(msr.energy)' /\ Earlier(msr.perf)'
  BY <1>1, <1>2 DEF Earlier
<1>4. QED BY <1>1, <1>2, <1>3 DEF EndsRound, SensorInv, ReadingsAreTrue

LEMMA SeenIsTrue ==
  ASSUME EndsRound, NEW m, m \notin {"pkgPower", "clock", "rate", "fan"},
         NEW v \in began..instant, NEW at \in v..instant
  PROVE  TrueSample(m, Fresh(v, at))
<1>1. began \in Nat /\ instant \in Nat
  BY RoundTimes
<1>2. QED BY <1>1 DEF TrueSample, Fresh

LEMMA CpuRoundKeepsSensors ==
  ASSUME EndsRound, NEW outage, CpuRound(outage)
  PROVE  SensorInv'
<1>0. SensorInv /\ used' = used /\ instant' = instant /\ began # 0
  BY DEF EndsRound
<1>1. PICK m, samples, ms :
        /\ m \in Moments(6)
        /\ msr' = Remembered(outage, m)
        /\ samples = [pkgTemp |-> Fresh(m[1], m[2]), tjMax |-> Fresh("static", m[5]),
                      pkgPower |-> Fresh(PowerFrom(msr.energy, m[2]), m[3]),
                      clock |-> Fresh(ClockFrom(msr.perf, m[3], m[4]), m[5]),
                      limits |-> Fresh(m[5], m[6]), pl4 |-> Fresh(m[6], m[7])]
        /\ Push(Keep(samples, ms))
        /\ ms \subseteq {"pkgTemp", "tjMax", "pkgPower", "clock", "limits", "pl4"}
        /\ "pkgPower" \in ms => HasPower(msr.energy)
        /\ "clock" \in ms => msr.perf.at # 0
  <2>1. PICK m \in Moments(6) :
       LET thermal == ~({"pkgTherm", "coreTherm"} \subseteq outage)
           clock   == ClockFrom(msr.perf, m[3], m[4])
           samples == [pkgTemp  |-> Fresh(m[1], m[2]), tjMax |-> Fresh("static", m[5]),
                       pkgPower |-> Fresh(PowerFrom(msr.energy, m[2]), m[3]),
                       clock    |-> Fresh(clock, m[5]),
                       limits   |-> Fresh(m[5], m[6]), pl4 |-> Fresh(m[6], m[7])]
       IN  /\ msr' = Remembered(outage, m)
           /\ Push(Keep(samples,
                   When(thermal /\ "invalid" \notin outage, "pkgTemp")
                   \cup When("energy" \notin outage /\ HasPower(msr.energy), "pkgPower")
                   \cup When(outage \cap {"mperf", "aperf"} = {} /\ HasClock(msr.perf, clock),
                             "clock")
                   \cup When(Repushes(rounds), "tjMax")
                   \cup When("limit" \notin outage, "limits")
                   \cup When("mchbar" \notin outage, "pl4")))
    BY DEF CpuRound
  <2> DEFINE thermal == ~({"pkgTherm", "coreTherm"} \subseteq outage)
             clock   == ClockFrom(msr.perf, m[3], m[4])
             all == [pkgTemp |-> Fresh(m[1], m[2]), tjMax |-> Fresh("static", m[5]),
                     pkgPower |-> Fresh(PowerFrom(msr.energy, m[2]), m[3]),
                     clock |-> Fresh(ClockFrom(msr.perf, m[3], m[4]), m[5]),
                     limits |-> Fresh(m[5], m[6]), pl4 |-> Fresh(m[6], m[7])]
             names == When(thermal /\ "invalid" \notin outage, "pkgTemp")
                       \cup When("energy" \notin outage /\ HasPower(msr.energy), "pkgPower")
                       \cup When(outage \cap {"mperf", "aperf"} = {} /\ HasClock(msr.perf, clock),
                                 "clock")
                       \cup When(Repushes(rounds), "tjMax")
                       \cup When("limit" \notin outage, "limits")
                       \cup When("mchbar" \notin outage, "pl4")
  <2>2. msr' = Remembered(outage, m) /\ Push(Keep(all, names))
    BY <2>1
  <2>3. /\ names \subseteq {"pkgTemp", "tjMax", "pkgPower", "clock", "limits", "pl4"}
        /\ "pkgPower" \in names => HasPower(msr.energy)
        /\ "clock" \in names => HasClock(msr.perf, clock)
    BY DEF When
  <2>4. HasClock(msr.perf, clock) => msr.perf.at # 0
    BY DEF HasClock
  <2> HIDE DEF all, names, clock
  <2>5. QED BY <2>2, <2>3, <2>4 DEF all
<1>m. m \in Moments(6)
  BY <1>1
<1>2. /\ \A i \in 1..7 : m[i] \in began..instant /\ m[i] \in Nat
      /\ m[1] <= m[2] /\ m[2] <= m[3] /\ m[3] <= m[4] /\ m[4] <= m[5] /\ m[5] <= m[6] /\ m[6] <= m[7]
      /\ began \in 1..instant /\ instant \in Nat /\ RoundStart' = instant
  <2>1. /\ \A i \in 1..6 + 1 : m[i] \in began..instant /\ m[i] \in Nat
        /\ \A i \in 1..6 : m[i] <= m[i + 1]
        /\ began \in 1..instant /\ instant \in Nat /\ RoundStart' = instant
    BY <1>m, RoundTimes, MomentsInOrder
  <2>2. QED BY <2>1
<1>3. ASSUME NEW x \in ms PROVE TrueSample(x, samples[x])
  <2>1. CASE x = "pkgTemp"
    <3>1. samples[x] = Fresh(m[1], m[2]) /\ m[1] \in began..instant /\ m[2] \in m[1]..instant
      BY <1>1, <1>2, <2>1
    <3>2. QED BY <2>1, <3>1, SeenIsTrue
  <2>2. CASE x = "limits"
    <3>1. samples[x] = Fresh(m[5], m[6]) /\ m[5] \in began..instant /\ m[6] \in m[5]..instant
      BY <1>1, <1>2, <2>2
    <3>2. QED BY <2>2, <3>1, SeenIsTrue
  <2>3. CASE x = "pl4"
    <3>1. samples[x] = Fresh(m[6], m[7]) /\ m[6] \in began..instant /\ m[7] \in m[6]..instant
      BY <1>1, <1>2, <2>3
    <3>2. QED BY <2>3, <3>1, SeenIsTrue
  <2>4. CASE x = "tjMax"
    BY <2>4 DEF TrueSample
  <2>5. CASE x = "pkgPower"
    <3>1. PICK t \in Nat, d \in Nat, e \in {msr.energy} :
            /\ t = m[2] /\ d = m[3] /\ e = msr.energy /\ t \in began..instant
            /\ began <= t /\ t <= d /\ d <= instant
      BY <1>2
    <3>2. HasPower(e)
      BY <1>1, <2>5, <3>1
    <3>3. DeltaEnergy(e.work, EnergyRaw(t)) = used[t] - used[e.read]
      BY <1>0, <3>1, <3>2, EnergyIsCounted
    <3>4. samples[x] = Fresh(Rate(used[t] - used[e.read], began - e.at, e, t, t - began), d)
      BY <1>1, <2>5, <3>1, <3>3 DEF PowerFrom
    <3>5. Earlier(e) /\ e.at # 0
      BY <1>0, <3>1, <3>2 DEF HasPower, SensorInv, ReadingsAreTrue
    <3>6. began \in Nat /\ began <= began
      BY <1>2
    <3>7. QED BY <1>0, <2>5, <3>1, <3>4, <3>5, <3>6, RateIsTrue
  <2>6. CASE x = "clock"
    <3>1. PICK t \in Nat, u \in Nat, d \in Nat, p \in {msr.perf} :
            /\ t = m[3] /\ u = m[4] /\ d = m[5] /\ p = msr.perf
            /\ began <= t /\ t <= u /\ u <= d /\ d <= instant
      BY <1>2
    <3>2. p.at # 0 /\ Earlier(p) /\ p.work = used[p.read]
      BY <1>0, <1>1, <2>6, <3>1 DEF SensorInv, ReadingsAreTrue
    <3>3. samples[x] = Fresh(Rate(used[u] - used[p.read], t - p.at, p, u, u - t), d)
      BY <1>1, <2>6, <3>1, <3>2 DEF ClockFrom
    <3>4. QED BY <1>0, <2>6, <3>1, <3>2, <3>3, RateIsTrue
  <2>7. QED BY <1>1, <2>1, <2>2, <2>3, <2>4, <2>5, <2>6
<1>4. RingsAreTrue'
  <2>1. DOMAIN Keep(samples, ms) = ms /\ \A x \in ms : Keep(samples, ms)[x] = samples[x]
    BY KeptSamples
  <2>2. QED BY <1>0, <1>1, <1>3, <2>1, PushKeepsRings
<1>5. ReadingsAreTrue'
  <2>1. pdh' = pdh /\ fanCache' = fanCache /\ began' = 0
    BY DEF CpuRound, EndsRound
  <2>2. \/ msr'.energy = msr.energy
        \/ msr'.energy = [at |-> began, read |-> m[2], work |-> EnergyRaw(m[2])]
    BY <1>1 DEF Remembered
  <2>3. \/ msr'.perf = msr.perf
        \/ msr'.perf = [at |-> m[3], read |-> m[4], work |-> used[m[4]]]
    BY <1>1 DEF Remembered
  <2>4. ASSUME NEW r, Earlier(r) PROVE Earlier(r)'
    <3>1. RoundStart = began
      BY RoundTimes
    <3>2. QED BY <1>2, <2>4, <3>1 DEF Earlier
  <2>5. PICK e, p : e = msr.energy /\ p = msr.perf
    OBVIOUS
  <2>6. Earlier(e)' /\ Earlier(p)'
    BY <1>0, <2>4, <2>5 DEF SensorInv, ReadingsAreTrue
  <2>7. Earlier(msr.energy)' /\ (msr.energy.at # 0 =>
                                 msr.energy.work = (Started + used[msr.energy.read]) % Counter)'
    <3>1. CASE msr'.energy = msr.energy
      BY <1>0, <2>5, <2>6, <3>1 DEF Earlier, SensorInv, ReadingsAreTrue
    <3>2. CASE msr'.energy = [at |-> began, read |-> m[2], work |-> EnergyRaw(m[2])]
      BY <1>0, <1>2, <3>2 DEF Earlier, EnergyRaw
    <3>3. QED BY <2>2, <3>1, <3>2
  <2>8. Earlier(msr.perf)' /\ (msr.perf.at # 0 => msr.perf.work = used[msr.perf.read])'
    <3>1. CASE msr'.perf = msr.perf
      BY <1>0, <2>5, <2>6, <3>1 DEF Earlier, SensorInv, ReadingsAreTrue
    <3>2. CASE msr'.perf = [at |-> m[3], read |-> m[4], work |-> used[m[4]]]
      BY <1>0, <1>2, <3>2 DEF Earlier
    <3>3. QED BY <2>3, <3>1, <3>2
  <2>9. pdh.at \in 0..RoundStart'
    <3>1. pdh.at \in 0..began
      BY <1>0, RoundTimes DEF SensorInv, ReadingsAreTrue
    <3>2. QED BY <1>2, <3>1
  <2>10. QED BY <1>0, <1>2, <2>1, <2>7, <2>8, <2>9 DEF SensorInv, ReadingsAreTrue
<1>6. QED BY <1>0, <1>4, <1>5, RoundKeepsWork

\* A round whose samples are plain readings.
LEMMA PlainSamples ==
  ASSUME EndsRound, NEW samples, NEW ms, Push(Keep(samples, ms)), ReadingsAreTrue',
         \A x \in ms : /\ x \notin {"pkgPower", "clock", "rate", "fan"}
                       /\ \E v \in began..instant : \E at \in v..instant : samples[x] = Fresh(v, at)
  PROVE  SensorInv'
<1>1. \A x \in ms : TrueSample(x, samples[x])
  BY SeenIsTrue
<1>2. SensorInv /\ used' = used /\ instant' = instant
  BY DEF EndsRound
<1>3. RingsAreTrue'
  BY <1>1, <1>2, KeptSamples, PushKeepsRings
<1>4. QED BY <1>2, <1>3, RoundKeepsWork

LEMMA EmptyPushKeepsRings ==
  ASSUME EndsRound, Push(<<>>), ReadingsAreTrue' PROVE SensorInv'
<1>1. SensorInv /\ used' = used /\ instant' = instant
  BY DEF EndsRound
<1>2. QED BY <1>1, NothingPushed, RoundKeepsWork

LEMMA GpuRoundKeepsSensors ==
  ASSUME EndsRound, NEW outage, GpuRound(outage) PROVE SensorInv'
<1>1. ReadingsAreTrue'
  BY OtherReadings DEF GpuRound, EndsRound, SensorInv, ReadingsAreTrue
<1>2. PICK m, samples, ms :
        /\ m \in Moments(3)
        /\ samples = [gpuPower |-> Fresh(m[1], m[4]), gpuTemp |-> Fresh(m[2], m[4]),
                      gpuLimit |-> Fresh(m[3], m[4])]
        /\ Push(<<>>) \/ Push(Keep(samples, ms))
        /\ ms \subseteq {"gpuTemp", "gpuPower", "gpuLimit"}
  <2>1. PICK m \in Moments(3) :
       LET samples == [gpuPower |-> Fresh(m[1], m[4]), gpuTemp |-> Fresh(m[2], m[4]),
                       gpuLimit |-> Fresh(m[3], m[4])]
       IN  Push(IF ~GpuSampled(outage) THEN <<>>
                ELSE Keep(samples,
                          When(ThermalReads(outage), "gpuTemp")
                          \cup When(NvmlReads(outage) \/ TopologyReads(outage), "gpuPower")
                          \cup When(NvmlReads(outage) /\ Repushes(rounds), "gpuLimit")))
    BY DEF GpuRound
  <2> DEFINE all == [gpuPower |-> Fresh(m[1], m[4]), gpuTemp |-> Fresh(m[2], m[4]),
                     gpuLimit |-> Fresh(m[3], m[4])]
             names == When(ThermalReads(outage), "gpuTemp")
                        \cup When(NvmlReads(outage) \/ TopologyReads(outage), "gpuPower")
                        \cup When(NvmlReads(outage) /\ Repushes(rounds), "gpuLimit")
  <2>2. Push(<<>>) \/ Push(Keep(all, names))
    BY <2>1
  <2>3. names \subseteq {"gpuTemp", "gpuPower", "gpuLimit"}
    BY DEF When
  <2> HIDE DEF all, names
  <2>4. QED BY <2>2, <2>3 DEF all
<1>m. m \in Moments(3)
  BY <1>2
<1>3. /\ \A i \in 1..3 : m[i] \in began..instant /\ m[4] \in m[i]..instant
  <2>1. /\ \A i \in 1..3 + 1 : m[i] \in began..instant /\ m[i] \in Nat
        /\ \A i \in 1..3 : m[i] <= m[i + 1]
        /\ began \in 1..instant /\ instant \in Nat
    BY <1>m, RoundTimes, MomentsInOrder
  <2>2. m[1] <= m[2] /\ m[2] <= m[3] /\ m[3] <= m[4]
    BY <2>1
  <2>3. QED BY <2>1, <2>2
<1>4. CASE Push(Keep(samples, ms))
  <2>1. ASSUME NEW x \in ms
        PROVE  /\ x \notin {"pkgPower", "clock", "rate", "fan"}
               /\ \E i \in 1..3 : samples[x] = Fresh(m[i], m[4])
    BY <1>2
  <2>2. QED BY <1>1, <1>3, <1>4, <2>1, PlainSamples
<1>5. QED BY <1>1, <1>2, <1>4, EmptyPushKeepsRings

LEMMA OneReadKeepsSensors ==
  ASSUME EndsRound, NEW outage, PowerRound(outage) \/ PpmRound(outage) PROVE SensorInv'
<1>1. ReadingsAreTrue'
  BY OtherReadings DEF PowerRound, PpmRound, EndsRound, SensorInv, ReadingsAreTrue
<1>2. PICK m, p, q :
        /\ m \in Moments(1)
        /\ p = [battery |-> Fresh(m[1], m[2])] /\ q = [policy |-> Fresh(m[1], m[2])]
        /\ Push(<<>>) \/ Push(p) \/ Push(q)
  BY DEF PowerRound, PpmRound
<1>m. m \in Moments(1)
  BY <1>2
<1>3. m[1] \in began..instant /\ m[2] \in m[1]..instant
  <2>1. /\ \A i \in 1..1 + 1 : m[i] \in began..instant /\ m[i] \in Nat
        /\ \A i \in 1..1 : m[i] <= m[i + 1]
        /\ began \in 1..instant /\ instant \in Nat
    BY <1>m, RoundTimes, MomentsInOrder
  <2>2. m[1] <= m[2]
    BY <2>1
  <2>3. QED BY <2>1, <2>2
<1>4. SensorInv /\ used' = used /\ instant' = instant
  BY DEF EndsRound
<1>5. /\ \A x \in Metrics : x \in DOMAIN p => TrueSample(x, p[x])
      /\ \A x \in Metrics : x \in DOMAIN q => TrueSample(x, q[x])
  BY <1>2, <1>3, SeenIsTrue
<1>6. RingsAreTrue'
  BY <1>2, <1>4, <1>5, NothingPushed, PushKeepsRings
<1>7. QED BY <1>1, <1>4, <1>6, RoundKeepsWork

\* The actor's sample is never older than its date, from the cache or not.
LEMMA FanRoundKeepsSensors ==
  ASSUME EndsRound, NEW outage, FanRound(outage) PROVE SensorInv'
<1>1. PICK m, read, answer :
        /\ m \in Moments(2)
        /\ read = [at |-> m[1], value |-> m[2]]
        /\ answer \in {fanCache.sample, NoFanSample, read}
        /\ fanCache' \in {fanCache, FanAttempt(m[1], answer), FanAttempt(m[1], read)}
        /\ Push(<<>>) \/ Push([fan |-> Fresh(answer.value, FanStamp(answer.at))])
  <2>1. PICK m \in Moments(2) :
       LET read   == [at |-> m[1], value |-> m[2]]
           answer == IF Young(m[1]) THEN fanCache.sample
                     ELSE IF "read" \in outage THEN NoFanSample ELSE read
           failed == answer = NoFanSample
       IN  /\ IF Throttled THEN UNCHANGED fanCache
              ELSE fanCache' \in IF Young(m[1]) THEN {fanCache}
                                 ELSE {FanAttempt(m[1], answer)}
                                      \cup (IF failed THEN {FanAttempt(m[1], read)} ELSE {})
           /\ IF Throttled \/ failed THEN Push(<<>>) /\ UNCHANGED fanRead
              ELSE /\ fanRead' = answer.at
                   /\ Push([fan |-> Fresh(answer.value, FanStamp(answer.at))])
    BY DEF FanRound
  <2> DEFINE read   == [at |-> m[1], value |-> m[2]]
             answer == IF Young(m[1]) THEN fanCache.sample
                       ELSE IF "read" \in outage THEN NoFanSample ELSE read
  <2>2. /\ fanCache' \in {fanCache, FanAttempt(m[1], answer), FanAttempt(m[1], read)}
        /\ Push(<<>>) \/ Push([fan |-> Fresh(answer.value, FanStamp(answer.at))])
    BY <2>1
  <2>3. answer \in {fanCache.sample, NoFanSample, read}
    OBVIOUS
  <2> HIDE DEF answer
  <2>4. QED BY <2>2, <2>3
<1>m. m \in Moments(2)
  BY <1>1
<1>2. m[1] <= m[2]
  BY <1>m, RoundTimes, MomentsInOrder
<1>3. fanCache.sample.at <= fanCache.sample.value
  BY DEF EndsRound, SensorInv, ReadingsAreTrue
<1>4. answer.at <= answer.value /\ read.at <= read.value
  BY <1>1, <1>2, <1>3 DEF NoFanSample
<1>5. fanCache'.sample.at <= fanCache'.sample.value
  BY <1>1, <1>3, <1>4 DEF FanAttempt
<1>6. ReadingsAreTrue'
  BY <1>5, OtherReadings DEF FanRound
<1>7. PICK f : f = [fan |-> Fresh(answer.value, FanStamp(answer.at))]
  OBVIOUS
<1>8. \A x \in Metrics : x \in DOMAIN f => TrueSample(x, f[x])
  BY <1>4, <1>7 DEF TrueSample, Fresh, FanStamp
<1>9. SensorInv /\ used' = used /\ instant' = instant
  BY DEF EndsRound
<1>10. RingsAreTrue'
  BY <1>1, <1>7, <1>8, <1>9, NothingPushed, PushKeepsRings
<1>11. QED BY <1>6, <1>9, <1>10, RoundKeepsWork

LEMMA PdhRoundKeepsSensors ==
  ASSUME EndsRound, NEW outage, PdhRound(outage) PROVE SensorInv'
<1>0. SensorInv /\ used' = used /\ instant' = instant /\ began # 0
  BY DEF EndsRound
<1>1. PICK m, samples, ms :
        /\ m \in Moments(2)
        /\ pdh' = pdh \/ pdh' = [primed |-> TRUE, at |-> m[1]]
        /\ samples = [rate |-> Fresh(RateOf(m[1]), m[3]), memory |-> Fresh(m[2], m[3])]
        /\ Push(<<>>) \/ Push(Keep(samples, ms))
        /\ ms \subseteq {"memory", "rate"}
        /\ "rate" \in ms => PdhPrimed
  <2>1. PICK m \in Moments(2) :
       LET samples == [rate |-> Fresh(RateOf(m[1]), m[3]), memory |-> Fresh(m[2], m[3])]
       IN  /\ pdh' = IF "collect" \in outage THEN pdh ELSE [primed |-> TRUE, at |-> m[1]]
           /\ Push(IF outage \cap {"collect", "memory"} # {} THEN <<>>
                   ELSE Keep(samples,
                             {"memory"}
                             \cup When(PdhPrimed /\ m[1] > pdh.at /\ "counter" \notin outage,
                                       "rate")))
    BY DEF PdhRound
  <2> DEFINE all == [rate |-> Fresh(RateOf(m[1]), m[3]), memory |-> Fresh(m[2], m[3])]
             names == {"memory"} \cup When(PdhPrimed /\ m[1] > pdh.at /\ "counter" \notin outage,
                                            "rate")
  <2>2. /\ pdh' = pdh \/ pdh' = [primed |-> TRUE, at |-> m[1]]
        /\ Push(<<>>) \/ Push(Keep(all, names))
    BY <2>1
  <2>3. names \subseteq {"memory", "rate"} /\ ("rate" \in names => PdhPrimed)
    BY DEF When
  <2> HIDE DEF all, names
  <2>4. QED BY <2>2, <2>3 DEF all
<1>m. m \in Moments(2)
  BY <1>1
<1>2. /\ \A i \in 1..3 : m[i] \in began..instant /\ m[i] \in Nat
      /\ m[1] <= m[2] /\ m[2] <= m[3]
      /\ began \in 1..instant /\ instant \in Nat /\ RoundStart = began /\ RoundStart' = instant
  <2>1. /\ \A i \in 1..2 + 1 : m[i] \in began..instant /\ m[i] \in Nat
        /\ \A i \in 1..2 : m[i] <= m[i + 1]
        /\ began \in 1..instant /\ instant \in Nat /\ RoundStart = began /\ RoundStart' = instant
    BY <1>m, RoundTimes, MomentsInOrder
  <2>2. QED BY <2>1
<1>3. ReadingsAreTrue'
  <2>1. PICK old : old = pdh
    OBVIOUS
  <2>2. CASE pdh' = pdh
    BY <2>2, OtherReadings DEF PdhRound, EndsRound, SensorInv, ReadingsAreTrue
  <2>3. CASE pdh' = [primed |-> TRUE, at |-> m[1]]
    <3>1. Earlier(msr.energy)' /\ Earlier(msr.perf)'
      <4>1. msr' = msr /\ Earlier(msr.energy) /\ Earlier(msr.perf)
        BY <1>0 DEF PdhRound, SensorInv, ReadingsAreTrue
      <4>2. QED BY <1>2, <4>1 DEF Earlier
    <3>2. msr' = msr /\ fanCache' = fanCache /\ began' = 0
      BY DEF PdhRound, EndsRound
    <3>3. pdh'.at \in 1..instant
      BY <1>2, <2>3
    <3>4. QED BY <1>0, <1>2, <3>1, <3>2, <3>3 DEF SensorInv, ReadingsAreTrue
  <2>4. QED BY <1>1, <2>2, <2>3
<1>4. CASE Push(<<>>)
  BY <1>3, <1>4, EmptyPushKeepsRings
<1>5. CASE Push(Keep(samples, ms))
  <2>1. ASSUME NEW x \in ms PROVE TrueSample(x, samples[x])
    <3>1. CASE x = "memory"
      <4>1. samples[x] = Fresh(m[2], m[3]) /\ m[2] \in began..instant /\ m[3] \in m[2]..instant
        BY <1>1, <1>2, <3>1
      <4>2. QED BY <3>1, <4>1, SeenIsTrue
    <3>2. CASE x = "rate"
      <4>0. /\ m[1] \in Nat /\ m[3] \in Nat /\ began <= m[1] /\ m[1] <= m[3] /\ m[3] <= instant
            /\ m[1] <= m[1] /\ m[1] - m[1] = 0
        <5>1. /\ m[1] \in Nat /\ m[2] \in Nat /\ m[3] \in Nat
              /\ m[1] \in began..instant /\ m[3] \in began..instant
          BY <1>2
        <5>2. QED BY <1>2, <5>1
      <4>1. PICK t \in Nat, d \in Nat, p \in {[at |-> pdh.at, read |-> pdh.at]} :
              /\ t = m[1] /\ d = m[3] /\ p = [at |-> pdh.at, read |-> pdh.at]
              /\ began <= t /\ t <= t /\ t <= d /\ d <= instant /\ t - t = 0
        BY <4>0, Zenon
      <4>2. pdh.at # 0 /\ pdh.at \in 1..began
        BY <1>0, <1>1, <1>2, <3>2 DEF SensorInv, ReadingsAreTrue, PdhPrimed
      <4>3. Earlier(p) /\ p.at # 0 /\ p.read = pdh.at /\ p.at = pdh.at
        BY <1>2, <4>1, <4>2 DEF Earlier
      <4>4. samples[x] = Fresh(Rate(used[t] - used[p.read], t - p.at, p, t, t - t), d)
        BY <1>1, <3>2, <4>1, <4>2, <4>3 DEF RateOf
      <4>5. QED BY <1>0, <3>2, <4>1, <4>3, <4>4, RateIsTrue
    <3>3. QED BY <1>1, <3>1, <3>2
  <2>2. RingsAreTrue'
    BY <1>0, <1>5, <2>1, KeptSamples, PushKeepsRings
  <2>3. QED BY <1>0, <1>3, <2>2, RoundKeepsWork
<1>6. QED BY <1>1, <1>4, <1>5

\* Counters, rates and stamps stay true of the instants they name.
THEOREM SensorInvariance == SensorSpec => []SensorInv
<1>1. SensorInv /\ [SensorNext]_sensorVars => SensorInv'
  <2> SUFFICES ASSUME SensorInv, [SensorNext]_sensorVars PROVE SensorInv'
    OBVIOUS
  <2>1. CASE Elapse
    BY <2>1, ElapseKeepsSensors
  <2>2. CASE RoundEnds
    <3>1. PICK outage \in Outages :
            CpuRound(outage) \/ GpuRound(outage) \/ PdhRound(outage)
            \/ PowerRound(outage) \/ PpmRound(outage) \/ FanRound(outage)
      BY <2>2 DEF RoundEnds
    <3>2. EndsRound
      BY <2>2 DEF RoundEnds, EndsRound
    <3>3. QED
      BY <3>1, <3>2, CpuRoundKeepsSensors, GpuRoundKeepsSensors, PdhRoundKeepsSensors,
         OneReadKeepsSensors, FanRoundKeepsSensors
  <2>3. CASE OtherFanRead \/ RoundBegins \/ UNCHANGED sensorVars
    <3>1. used' = used /\ instant' = instant /\ msr' = msr /\ pdh' = pdh /\ rings' = rings
      BY <2>3 DEF OtherFanRead, RoundBegins, sensorVars
    <3>2. began' \in 0..instant /\ RoundStart' = RoundStart
      <4>1. CASE began' = began
        BY <3>1, <4>1 DEF RoundStart, SensorInv, ReadingsAreTrue
      <4>2. CASE RoundBegins
        BY <3>1, <4>2 DEF RoundBegins, RoundStart, SensorInv
      <4>3. QED BY <2>3, <4>1, <4>2 DEF OtherFanRead, sensorVars
    <3>3. fanCache'.sample.at <= fanCache'.sample.value
      BY <2>3 DEF OtherFanRead, RoundBegins, sensorVars, SensorInv, ReadingsAreTrue, FanAttempt,
                  NoFanSample
    <3>4. ReadingsAreTrue'
      BY <3>1, <3>2, <3>3 DEF SensorInv, ReadingsAreTrue, Earlier
    <3>5. RingsAreTrue'
      BY <3>1 DEF SensorInv, RingsAreTrue, TrueSample, CoversItsTime
    <3>6. QED BY <3>1, <3>4, <3>5, RoundKeepsWork
  <2>4. QED BY <2>1, <2>2, <2>3 DEF SensorNext
<1>2. QED BY <1>1, SensorStart, PTL DEF SensorSpec

\* The samples of every collector and the calls behind them: whatever the width of the
\* counter, the times at which the calls of a round read and return, and the reads that
\* fail, a sample was read in the round that dates it, a counter's rate is the work between
\* two readings over their distance up to what the calls waited, and the fans' levels are
\* never older than their date.
THEOREM SamplesAreAlwaysTrue == SensorSpec => []SamplesAreTrue
<1>1. SensorInv => SamplesAreTrue
  BY DEF SensorInv, RingsAreTrue, TrueSample, SamplesAreTrue
<1>2. QED BY <1>1, SensorInvariance, PTL

-----------------------------------------------------------------------------
(* The name of the active profile *)

\* Each knob of the profile has its value, or was moved by somebody else.
InForce(n) ==
  n # NoName =>
    /\ n \in DOMAIN Registry
    /\ \A k \in DOMAIN Registry[n] : machine[k] = Registry[n][k] \/ k \in astray

\* The steps from `first` to `last` set what the definition says, each of its knobs once at
\* least.
StepsOf(definition, first, last) ==
  /\ \A j \in first..last : /\ plan.steps[j].knob \in DOMAIN definition
                            /\ plan.steps[j].value = definition[plan.steps[j].knob]
  /\ \A k \in DOMAIN definition : \E j \in first..last : plan.steps[j].knob = k

Done(first, k) == \E j \in first..plan.index : plan.steps[j].knob = k

StampShape ==
  /\ machine = [k \in ProfileKnobs |-> machine[k]]
  /\ plan = [steps |-> plan.steps, index |-> plan.index, name |-> plan.name,
             restores |-> plan.restores, tried |-> plan.tried]
  /\ plan.steps \in Seq(ToSet(plan.steps))
  /\ plan.index \in Nat /\ plan.restores \in Nat
  /\ scope.open \in BOOLEAN

\* What a session found is what it gives back, and the rest stays where it was.
ScopeKnows ==
  scope.open =>
    /\ DOMAIN scope.baseline \subseteq ProfileKnobs /\ DOMAIN scope.baseline # {}
    /\ scope.previous # NoName =>
         /\ scope.previous \in DOMAIN Registry
         /\ \A k \in DOMAIN Registry[scope.previous] :
              IF k \in DOMAIN scope.baseline
              THEN scope.baseline[k] = Registry[scope.previous][k] \/ k \in scope.astray
              ELSE machine[k] = Registry[scope.previous][k] \/ k \in astray

\* A plan begins with what it puts back while the session is open; only then does it set
\* what its own profile says.
PlanFits ==
  ~Idle_ =>
    /\ plan.index < Len(plan.steps) /\ plan.restores <= Len(plan.steps)
    /\ plan.index < plan.restores => scope.open
    /\ scope.open =>
         /\ plan.restores > 0 => /\ plan.index < plan.restores
                                 /\ StepsOf(scope.baseline, 1, plan.restores)
         /\ plan.restores = 0 =>
              \A j \in 1..Len(plan.steps) : plan.steps[j].knob \in DOMAIN scope.baseline
    /\ plan.name # NoName =>
         /\ plan.name \in DOMAIN Registry
         /\ plan.restores < Len(plan.steps)
         /\ StepsOf(Registry[plan.name], plan.restores + 1, Len(plan.steps))

\* What the steps done so far left behind.
PlanProgress ==
  ~Idle_ =>
    /\ plan.index < plan.restores =>
         \A k \in DOMAIN scope.baseline : Done(1, k) =>
           /\ machine[k] = scope.baseline[k] \/ k \in astray
           /\ k \in scope.astray => k \in astray
    /\ plan.name # NoName =>
         \A k \in DOMAIN Registry[plan.name] : Done(plan.restores + 1, k) =>
           machine[k] = Registry[plan.name][k] \/ k \in astray

StampInv ==
  StampShape /\ InForce(desired) /\ InForce(activeName) /\ ScopeKnows /\ PlanFits /\ PlanProgress

\* One plan after another.
LEMMA JoinedSteps ==
  ASSUME NEW s, s \in Seq(ToSet(s)), NEW t, t \in Seq(ToSet(t))
  PROVE  /\ s \o t \in Seq(ToSet(s \o t))
         /\ Len(s) \in Nat /\ Len(t) \in Nat /\ Len(s \o t) = Len(s) + Len(t)
         /\ \A j \in 1..Len(s) : (s \o t)[j] = s[j]
         /\ \A j \in 1..Len(t) : (s \o t)[Len(s) + j] = t[j]
<1> DEFINE U == ToSet(s) \cup ToSet(t)
<1>1. s \in Seq(U) /\ t \in Seq(U)
  <2>1. \A i \in 1..Len(s) : s[i] \in U
    OBVIOUS
  <2>2. \A i \in 1..Len(t) : t[i] \in U
    OBVIOUS
  <2>3. QED BY <2>1, <2>2
<1> HIDE DEF U
<1>2. s \o t \in Seq(U)
  BY <1>1
<1>3. s \o t \in Seq(ToSet(s \o t))
  BY <1>2, OwnElements
<1>4. QED BY <1>1, <1>3

\* The steps set what the definition says of the knobs K, and all of it.
SetsAllOf(steps, definition, K) ==
  /\ steps \in Seq(ToSet(steps))
  /\ \A j \in 1..Len(steps) : /\ steps[j].knob \in K \cap DOMAIN definition
                              /\ steps[j].value = definition[steps[j].knob]
  /\ \A k \in K \cap DOMAIN definition : \E j \in 1..Len(steps) : steps[j].knob = k

LEMMA OneStep ==
  ASSUME NEW k, NEW definition PROVE SetsAllOf(StepFor(k, definition), definition, {k})
<1>1. CASE k \in DOMAIN definition
  <2> DEFINE step == [knob |-> k, value |-> definition[k]]
  <2>1. StepFor(k, definition) = <<step>> /\ step.knob = k /\ step.value = definition[k]
    BY <1>1 DEF StepFor
  <2> HIDE DEF step
  <2>2. <<step>> \in Seq({step})
    OBVIOUS
  <2>3. <<step>> \in Seq(ToSet(<<step>>)) /\ Len(<<step>>) = 1 /\ <<step>>[1] = step
    BY <2>2, OwnElements
  <2>4. QED BY <2>1, <2>3, <1>1 DEF SetsAllOf
<1>2. CASE k \notin DOMAIN definition
  <2>1. StepFor(k, definition) = <<>>
    BY <1>2 DEF StepFor
  <2>2. <<>> \in Seq(ToSet(<<>>)) /\ Len(<<>>) = 0
    OBVIOUS
  <2>3. QED BY <2>1, <2>2, <1>2 DEF SetsAllOf
<1>3. QED BY <1>1, <1>2

LEMMA MoreSteps ==
  ASSUME NEW definition, NEW s, NEW t, NEW K, NEW L,
         SetsAllOf(s, definition, K), SetsAllOf(t, definition, L)
  PROVE  SetsAllOf(s \o t, definition, K \cup L)
<1>1. s \in Seq(ToSet(s)) /\ t \in Seq(ToSet(t))
  BY DEF SetsAllOf
<1>2. /\ s \o t \in Seq(ToSet(s \o t))
      /\ Len(s) \in Nat /\ Len(t) \in Nat /\ Len(s \o t) = Len(s) + Len(t)
      /\ \A j \in 1..Len(s) : (s \o t)[j] = s[j]
      /\ \A j \in 1..Len(t) : (s \o t)[Len(s) + j] = t[j]
  BY <1>1, JoinedSteps
<1> DEFINE u == s \o t
<1> HIDE DEF u
<1>3. ASSUME NEW j \in 1..Len(u)
      PROVE  /\ u[j].knob \in (K \cup L) \cap DOMAIN definition
             /\ u[j].value = definition[u[j].knob]
  <2>1. CASE j <= Len(s)
    <3>1. j \in 1..Len(s) /\ u[j] = s[j]
      BY <1>2, <2>1 DEF u
    <3>2. QED BY <3>1 DEF SetsAllOf
  <2>2. CASE j > Len(s)
    <3>1. PICK i \in 1..Len(t) : j = Len(s) + i
      <4>1. j - Len(s) \in 1..Len(t) /\ j = Len(s) + (j - Len(s))
        BY <1>2, <2>2 DEF u
      <4>2. QED BY <4>1
    <3>2. u[j] = t[i]
      BY <1>2, <3>1 DEF u
    <3>3. QED BY <3>2 DEF SetsAllOf
  <2>3. QED BY <2>1, <2>2, <1>2 DEF u
<1>4. ASSUME NEW k \in (K \cup L) \cap DOMAIN definition
      PROVE  \E j \in 1..Len(u) : u[j].knob = k
  <2>1. CASE k \in K
    <3>1. PICK j \in 1..Len(s) : s[j].knob = k
      BY <2>1 DEF SetsAllOf
    <3>2. j \in 1..Len(u) /\ u[j] = s[j]
      BY <1>2 DEF u
    <3>3. QED BY <3>1, <3>2
  <2>2. CASE k \in L
    <3>1. PICK j \in 1..Len(t) : t[j].knob = k
      BY <2>2 DEF SetsAllOf
    <3>2. Len(s) + j \in 1..Len(u) /\ u[Len(s) + j] = t[j]
      BY <1>2 DEF u
    <3>3. QED BY <3>1, <3>2
  <2>3. QED BY <2>1, <2>2
<1>5. QED BY <1>2, <1>3, <1>4 DEF SetsAllOf, u

LEMMA ExpandedSteps ==
  ASSUME NEW definition, DOMAIN definition \subseteq ProfileKnobs
  PROVE  SetsAllOf(Expanded(definition), definition, ProfileKnobs)
<1> DEFINE S(k) == StepFor(k, definition)
<1>1. \A k : SetsAllOf(S(k), definition, {k})
  BY OneStep
<1> HIDE DEF S
<1>2. SetsAllOf(S("cpu") \o S("limits"), definition, {"cpu"} \cup {"limits"})
  BY <1>1, MoreSteps
<1>3. SetsAllOf(S("cpu") \o S("limits") \o S("gpu"), definition,
                {"cpu"} \cup {"limits"} \cup {"gpu"})
  BY <1>1, <1>2, MoreSteps
<1>4. SetsAllOf(S("cpu") \o S("limits") \o S("gpu") \o S("thermal"), definition,
                {"cpu"} \cup {"limits"} \cup {"gpu"} \cup {"thermal"})
  BY <1>1, <1>3, MoreSteps
<1>5. SetsAllOf(S("cpu") \o S("limits") \o S("gpu") \o S("thermal") \o S("fan"), definition,
                {"cpu"} \cup {"limits"} \cup {"gpu"} \cup {"thermal"} \cup {"fan"})
  BY <1>1, <1>4, MoreSteps
<1>6. ProfileKnobs = {"cpu"} \cup {"limits"} \cup {"gpu"} \cup {"thermal"} \cup {"fan"}
  BY DEF ProfileKnobs
<1>7. QED BY <1>5, <1>6 DEF Expanded, S

LEMMA RegistryKnobs == \A n \in DOMAIN Registry : DOMAIN Registry[n] \subseteq ProfileKnobs
BY StampAssumption DEF Registry

\* The next step to run, and what is in the plan beside it.
LEMMA StepsBounds ==
  ASSUME StampInv
  PROVE  /\ Len(plan.steps) \in Nat /\ plan.index \in Nat /\ plan.restores \in Nat
         /\ Idle_ <=> Len(plan.steps) = 0
  BY DEF StampInv, StampShape, Idle_

LEMMA StampStart == StampInit => StampInv
<1> SUFFICES ASSUME StampInit PROVE StampInv
  OBVIOUS
<1>1. <<>> \in Seq(ToSet(<<>>))
  OBVIOUS
<1>2. StampShape
  BY <1>1 DEF StampInit, StampShape, NoPlan_, NoScope_
<1>3. Idle_ /\ ~scope.open
  BY DEF StampInit, Idle_, NoPlan_, NoScope_
<1>4. InForce(desired) /\ InForce(activeName)
  BY DEF StampInit, InForce
<1>5. QED BY <1>2, <1>3, <1>4 DEF StampInv, ScopeKnows, PlanFits, PlanProgress

\* A plan that starts has done nothing.
LEMMA StartedPlan ==
  ASSUME NEW steps, steps \in Seq(ToSet(steps)), NEW name, NEW restores \in Nat,
         Starts(steps, name, restores)
  PROVE  /\ plan'.steps = steps /\ plan'.index = 0 /\ plan'.name = name /\ plan'.restores = restores
         /\ plan' = [steps |-> plan'.steps, index |-> plan'.index, name |-> plan'.name,
                     restores |-> plan'.restores, tried |-> plan'.tried]
         /\ PlanProgress'
<1>1. /\ plan'.steps = steps /\ plan'.index = 0 /\ plan'.name = name /\ plan'.restores = restores
      /\ plan' = [steps |-> plan'.steps, index |-> plan'.index, name |-> plan'.name,
                  restores |-> plan'.restores, tried |-> plan'.tried]
  BY DEF Starts
<1>2. \A k : ~Done(1, k)' /\ ~Done(plan.restores + 1, k)'
  BY <1>1 DEF Done
<1>3. QED BY <1>1, <1>2 DEF PlanProgress

\* A command from outside a session: what the session changed is put back first.
LEMMA TakingOverKeepsStamp ==
  ASSUME StampInv, Idle_, NEW steps, steps \in Seq(ToSet(steps)), NEW name, steps # <<>>,
         TakesOver(steps, name), UNCHANGED <<machine, astray, desired, activeName, scope>>,
         name # NoName =>
           name \in DOMAIN Registry /\ SetsAllOf(steps, Registry[name], ProfileKnobs)
  PROVE  StampInv'
<1>1. Len(steps) \in Nat /\ Len(steps) > 0
  OBVIOUS
<1>2. InForce(desired)' /\ InForce(activeName)' /\ ScopeKnows'
  BY DEF StampInv, InForce, ScopeKnows
<1>3. CASE ~scope.open
  <2>1. /\ plan'.steps = steps /\ plan'.index = 0 /\ plan'.name = name /\ plan'.restores = 0
        /\ plan' = [steps |-> plan'.steps, index |-> plan'.index, name |-> plan'.name,
                    restores |-> plan'.restores, tried |-> plan'.tried]
        /\ PlanProgress'
    BY <1>3, StartedPlan DEF TakesOver
  <2>2. StampShape'
    BY <2>1 DEF StampInv, StampShape
  <2>3. ASSUME name # NoName PROVE StepsOf(Registry[name], 1, Len(steps))'
    BY <2>1, <2>3, RegistryKnobs DEF StepsOf, SetsAllOf
  <2>4. PlanFits'
    BY <2>1, <2>3, <1>1, <1>3 DEF PlanFits
  <2>5. QED BY <1>2, <2>1, <2>2, <2>4 DEF StampInv
<1>4. CASE scope.open
  <2>1. SetsAllOf(Restore, scope.baseline, ProfileKnobs) /\ DOMAIN scope.baseline # {}
        /\ DOMAIN scope.baseline \subseteq ProfileKnobs
    BY <1>4, ExpandedSteps DEF StampInv, ScopeKnows, Restore
  <2>2. PICK all, r :
          /\ all \in Seq(ToSet(all)) /\ r \in Nat /\ Len(all) = r + Len(steps)
          /\ \A j \in 1..r : all[j] = Restore[j]
          /\ \A j \in 1..Len(steps) : all[r + j] = steps[j]
          /\ all = Restore \o steps /\ r = Len(Restore)
    BY <2>1, JoinedSteps DEF SetsAllOf
  <2>3. r > 0
    BY <2>1, <2>2 DEF SetsAllOf
  <2>4. Starts(all, name, r)
    BY <1>4, <2>2 DEF TakesOver
  <2>5. /\ plan'.steps = all /\ plan'.index = 0 /\ plan'.name = name /\ plan'.restores = r
        /\ plan' = [steps |-> plan'.steps, index |-> plan'.index, name |-> plan'.name,
                    restores |-> plan'.restores, tried |-> plan'.tried]
        /\ PlanProgress'
    BY <2>2, <2>4, StartedPlan
  <2>6. StampShape'
    BY <2>2, <2>5 DEF StampInv, StampShape
  <2>7. StepsOf(scope.baseline, 1, r)'
    <3>1. /\ \A j \in 1..r : /\ all[j].knob \in DOMAIN scope.baseline
                             /\ all[j].value = scope.baseline[all[j].knob]
          /\ \A k \in DOMAIN scope.baseline : \E j \in 1..r : all[j].knob = k
      <4>1. /\ \A j \in 1..r : all[j] = Restore[j]
            /\ r = Len(Restore)
        BY <2>2
      <4>2. /\ \A j \in 1..Len(Restore) : /\ Restore[j].knob \in DOMAIN scope.baseline
                                           /\ Restore[j].value = scope.baseline[Restore[j].knob]
            /\ \A k \in DOMAIN scope.baseline : k \in ProfileKnobs =>
                 \E j \in 1..Len(Restore) : Restore[j].knob = k
        BY <2>1 DEF SetsAllOf
      <4>3. \A k \in DOMAIN scope.baseline : k \in ProfileKnobs
        BY <2>1
      <4>4. QED BY <4>1, <4>2, <4>3
    <3>2. scope' = scope
      OBVIOUS
    <3>3. QED BY <2>5, <3>1, <3>2 DEF StepsOf
  <2>8. ASSUME name # NoName PROVE StepsOf(Registry[name], r + 1, Len(all))'
    <3>1. /\ \A j \in 1..Len(steps) : /\ steps[j].knob \in DOMAIN Registry[name]
                                      /\ steps[j].value = Registry[name][steps[j].knob]
          /\ \A k \in DOMAIN Registry[name] : \E j \in 1..Len(steps) : steps[j].knob = k
      BY <2>8, RegistryKnobs DEF SetsAllOf
    <3>2. ASSUME NEW j \in (r + 1)..Len(all)
          PROVE  /\ all[j].knob \in DOMAIN Registry[name]
                 /\ all[j].value = Registry[name][all[j].knob]
      <4>1. j - r \in 1..Len(steps) /\ j = r + (j - r)
        BY <2>2, <1>1
      <4>2. all[j] = steps[j - r]
        BY <2>2, <4>1
      <4>3. QED BY <3>1, <4>1, <4>2
    <3>3. ASSUME NEW k \in DOMAIN Registry[name]
          PROVE  \E j \in (r + 1)..Len(all) : all[j].knob = k
      <4>1. PICK j \in 1..Len(steps) : steps[j].knob = k
        BY <3>1
      <4>2. r + j \in (r + 1)..Len(all) /\ all[r + j].knob = k
        BY <2>2, <4>1, <1>1
      <4>3. QED BY <4>2
    <3>4. QED BY <2>5, <3>2, <3>3 DEF StepsOf
  <2>9. PlanFits'
    BY <2>2, <2>3, <2>5, <2>7, <2>8, <1>1, <1>4 DEF PlanFits
  <2>10. QED BY <1>2, <2>5, <2>6, <2>9 DEF StampInv
<1>5. QED BY <1>3, <1>4

LEMMA ApplyingKeepsStamp ==
  ASSUME StampInv, NEW n \in DOMAIN Registry, ApplyProfile(n) PROVE StampInv'
<1>1. SetsAllOf(Expanded(Registry[n]), Registry[n], ProfileKnobs)
  BY RegistryKnobs, ExpandedSteps
<1>2. QED BY <1>1, TakingOverKeepsStamp DEF ApplyProfile, SetsAllOf

LEMMA SettingKeepsStamp ==
  ASSUME StampInv, NEW step, SetKnob(step) PROVE StampInv'
<1>1. <<step>> \in Seq({step}) /\ <<step>> # <<>>
  OBVIOUS
<1>2. <<step>> \in Seq(ToSet(<<step>>))
  BY <1>1, OwnElements
<1>3. QED BY <1>1, <1>2, TakingOverKeepsStamp DEF SetKnob

\* A session begins: what it will give back is what it finds, and the name desired before it.
LEMMA SessionKeepsStamp ==
  ASSUME StampInv, NEW n \in DOMAIN Registry, ApplyScopedProfile(n) PROVE StampInv'
<1>1. /\ SetsAllOf(Expanded(Registry[n]), Registry[n], ProfileKnobs)
      /\ DOMAIN Registry[n] \subseteq ProfileKnobs
  BY RegistryKnobs, ExpandedSteps
<1>2. PICK steps : steps = Expanded(Registry[n])
  OBVIOUS
<1>3. /\ steps \in Seq(ToSet(steps)) /\ Len(steps) \in Nat /\ Len(steps) > 0
      /\ \A j \in 1..Len(steps) : /\ steps[j].knob \in DOMAIN Registry[n]
                                  /\ steps[j].value = Registry[n][steps[j].knob]
      /\ \A k \in DOMAIN Registry[n] : \E j \in 1..Len(steps) : steps[j].knob = k
  <2>1. steps # <<>> /\ steps \in Seq(ToSet(steps))
    BY <1>1, <1>2 DEF ApplyScopedProfile, SetsAllOf
  <2>2. QED BY <2>1, <1>1, <1>2 DEF SetsAllOf
<1>4. Starts(steps, n, 0)
  BY <1>2 DEF ApplyScopedProfile
<1>5. /\ plan'.steps = steps /\ plan'.index = 0 /\ plan'.name = n /\ plan'.restores = 0
      /\ plan' = [steps |-> plan'.steps, index |-> plan'.index, name |-> plan'.name,
                  restores |-> plan'.restores, tried |-> plan'.tried]
      /\ PlanProgress'
  BY <1>3, <1>4, StartedPlan
<1>6. PICK base : base = ScopeBaseline(Registry[n])
  OBVIOUS
<1>7. /\ scope'.open = TRUE /\ scope'.baseline = base /\ scope'.previous = desired
      /\ scope'.astray = {k \in DOMAIN Registry[n] : k \in astray \/ base[k] # machine[k]}
      /\ DOMAIN base = DOMAIN Registry[n]
      /\ machine' = machine /\ astray' = astray /\ desired' = desired /\ activeName' = activeName
  BY <1>6 DEF ApplyScopedProfile, ScopeBaseline
<1>8. DOMAIN base # {}
  BY <1>3, <1>7
<1>9. StampShape'
  <2>1. machine' = [k \in ProfileKnobs |-> machine'[k]]
    BY <1>7 DEF StampInv, StampShape
  <2>2. scope'.open \in BOOLEAN
    BY <1>7 DEF StampInv, StampShape
  <2>3. /\ plan'.steps \in Seq(ToSet(plan'.steps))
        /\ plan'.index \in Nat /\ plan'.restores \in Nat
    BY <1>3, <1>5, <1>7
  <2>4. QED BY <2>1, <2>2, <2>3, <1>5 DEF StampShape
<1>10. InForce(desired)' /\ InForce(activeName)'
  BY <1>7 DEF StampInv, InForce
<1>11. ScopeKnows'
  <2>1. ASSUME desired # NoName
        PROVE  /\ desired \in DOMAIN Registry
               /\ \A k \in DOMAIN Registry[desired] :
                    machine[k] = Registry[desired][k] \/ k \in astray
    BY <2>1 DEF StampInv, InForce
  <2>2. ASSUME desired # NoName, NEW k \in DOMAIN Registry[desired]
        PROVE  IF k \in DOMAIN base
               THEN base[k] = Registry[desired][k] \/ k \in scope'.astray
               ELSE machine[k] = Registry[desired][k] \/ k \in astray
    BY <2>1, <2>2, <1>7
  <2>3. QED BY <2>1, <2>2, <1>1, <1>7, <1>8 DEF ScopeKnows
<1>12. StepsOf(Registry[n], 1, Len(steps))'
  BY <1>3, <1>5 DEF StepsOf
<1>13. PlanFits'
  BY <1>3, <1>5, <1>7, <1>12 DEF PlanFits
<1>14. QED BY <1>5, <1>9, <1>10, <1>11, <1>13 DEF StampInv

LEMMA GivingBackKeepsStamp ==
  ASSUME StampInv, RestoreScopedProfile PROVE StampInv'
<1>1. /\ SetsAllOf(Restore, scope.baseline, ProfileKnobs)
      /\ DOMAIN scope.baseline \subseteq ProfileKnobs /\ DOMAIN scope.baseline # {}
  BY ExpandedSteps DEF StampInv, ScopeKnows, Restore, RestoreScopedProfile
<1>2. PICK steps : steps = Restore
  OBVIOUS
<1>3. /\ steps \in Seq(ToSet(steps)) /\ Len(steps) \in Nat
      /\ \A j \in 1..Len(steps) : /\ steps[j].knob \in DOMAIN scope.baseline
                                  /\ steps[j].value = scope.baseline[steps[j].knob]
      /\ \A k \in DOMAIN scope.baseline : k \in ProfileKnobs =>
           \E j \in 1..Len(steps) : steps[j].knob = k
  BY <1>1, <1>2 DEF SetsAllOf
<1>4. Len(steps) > 0
  BY <1>1, <1>3
<1>5. Starts(steps, NoName, Len(steps))
  BY <1>2 DEF RestoreScopedProfile
<1>6. PICK r \in Nat : r = Len(steps)
  BY <1>3
<1>7. /\ plan'.steps = steps /\ plan'.index = 0 /\ plan'.name = NoName /\ plan'.restores = r
      /\ plan' = [steps |-> plan'.steps, index |-> plan'.index, name |-> plan'.name,
                  restores |-> plan'.restores, tried |-> plan'.tried]
      /\ PlanProgress'
  BY <1>3, <1>5, <1>6, StartedPlan
<1>8. /\ machine' = machine /\ astray' = astray /\ desired' = desired
      /\ activeName' = activeName /\ scope' = scope /\ scope.open
  BY DEF RestoreScopedProfile
<1>9. StampShape'
  <2>1. machine' = [k \in ProfileKnobs |-> machine'[k]]
    BY <1>8 DEF StampInv, StampShape
  <2>2. scope'.open \in BOOLEAN
    BY <1>8 DEF StampInv, StampShape
  <2>3. /\ plan'.steps \in Seq(ToSet(plan'.steps))
        /\ plan'.index \in Nat /\ plan'.restores \in Nat
    BY <1>3, <1>7, <1>8, <1>6
  <2>4. QED BY <2>1, <2>2, <2>3, <1>7 DEF StampShape
<1>10. InForce(desired)' /\ InForce(activeName)' /\ ScopeKnows'
  BY <1>8 DEF StampInv, InForce, ScopeKnows
<1>11. StepsOf(scope.baseline, 1, r)'
  BY <1>1, <1>3, <1>6, <1>7, <1>8 DEF StepsOf
<1>12. PlanFits'
  BY <1>3, <1>4, <1>6, <1>7, <1>8, <1>11 DEF PlanFits
<1>13. QED BY <1>7, <1>9, <1>10, <1>12 DEF StampInv

-----------------------------------------------------------------------------
\* The plan is over, and nothing the name stands on went but by somebody else's hand.
LEMMA EndedPlanKeepsStamp ==
  ASSUME StampInv, plan' = NoPlan_, scope' = scope,
         machine' = [k \in ProfileKnobs |-> machine'[k]],
         InForce(desired)', InForce(activeName)', ScopeKnows'
  PROVE  StampInv'
<1>1. <<>> \in Seq(ToSet(<<>>))
  OBVIOUS
<1>2. plan'.steps = <<>> /\ Idle_'
  BY DEF NoPlan_, Idle_
<1>3. StampShape'
  BY <1>1 DEF StampInv, StampShape, NoPlan_
<1>4. QED BY <1>2, <1>3 DEF StampInv, PlanFits, PlanProgress

LEMMA RefusalKeepsStamp ==
  ASSUME StampInv, StepRefused PROVE StampInv'
<1>1. /\ machine' = machine /\ astray' = astray /\ desired' = desired /\ scope' = scope
      /\ plan' = NoPlan_ /\ activeName' \in {activeName, NoName}
  BY DEF StepRefused, GivenUp
<1>2. machine' = [k \in ProfileKnobs |-> machine'[k]]
  BY <1>1 DEF StampInv, StampShape
<1>3. InForce(desired)' /\ InForce(activeName)' /\ ScopeKnows'
  BY <1>1 DEF StampInv, InForce, ScopeKnows
<1>4. QED BY <1>1, <1>2, <1>3, EndedPlanKeepsStamp

\* The step that runs while a session is open is on one of the session's knobs.
LEMMA StepOfSession ==
  ASSUME StampInv, ~Idle_, scope.open PROVE Step.knob \in DOMAIN scope.baseline
<1>1. plan.index + 1 \in 1..Len(plan.steps)
  BY StepsBounds DEF StampInv, PlanFits
<1>2. CASE plan.restores = 0
  BY <1>1, <1>2 DEF StampInv, PlanFits, Step
<1>3. CASE plan.restores > 0
  <2>1. plan.index + 1 \in 1..plan.restores
    BY <1>3, StepsBounds DEF StampInv, PlanFits
  <2>2. QED BY <1>3, <2>1 DEF StampInv, PlanFits, StepsOf, Step
<1>4. QED BY <1>2, <1>3, StepsBounds

LEMMA FailureKeepsStamp ==
  ASSUME StampInv, StepFails PROVE StampInv'
<1>1. PICK v : machine' = [machine EXCEPT ![Step.knob] = v]
  BY DEF StepFails, Sets
<1>2. /\ astray' = astray /\ desired' = NoName /\ scope' = scope
      /\ plan' = NoPlan_ /\ activeName' = NoName /\ ~Idle_
  BY DEF StepFails, GivenUp, Forgets
<1>3. /\ machine' = [k \in ProfileKnobs |-> machine'[k]]
      /\ \A k \in ProfileKnobs : k # Step.knob => machine'[k] = machine[k]
  BY <1>1 DEF StampInv, StampShape
<1>4. InForce(desired)' /\ InForce(activeName)'
  BY <1>2 DEF InForce
<1>5. ScopeKnows'
  <2>1. CASE scope.open
    <3>1. Step.knob \in DOMAIN scope.baseline
      BY <1>2, <2>1, StepOfSession
    <3>2. QED BY <3>1, <1>2, <1>3, <2>1, RegistryKnobs DEF StampInv, ScopeKnows
  <2>2. CASE ~scope.open
    BY <1>2, <2>2 DEF ScopeKnows
  <2>3. QED BY <2>1, <2>2
<1>6. QED BY <1>2, <1>3, <1>4, <1>5, EndedPlanKeepsStamp

\* A knob that somebody moved counts as moved.
LEMMA MovedClaims ==
  ASSUME StampInv, NEW K,
         machine' = [k \in ProfileKnobs |-> machine'[k]],
         \A k \in ProfileKnobs : k \notin K => machine'[k] = machine[k],
         astray' = astray \cup K, scope' = scope, desired' = desired,
         activeName' \in {activeName, NoName}
  PROVE  InForce(desired)' /\ InForce(activeName)' /\ ScopeKnows'
<1>1. ASSUME NEW n \in DOMAIN Registry, NEW k \in DOMAIN Registry[n],
             machine[k] = Registry[n][k] \/ k \in astray
      PROVE  machine'[k] = Registry[n][k] \/ k \in astray'
  BY <1>1, RegistryKnobs
<1>2. InForce(desired)' /\ InForce(activeName)'
  BY <1>1 DEF StampInv, InForce
<1>3. ScopeKnows'
  BY <1>1 DEF StampInv, ScopeKnows
<1>4. QED BY <1>2, <1>3

LEMMA RejectionKeepsStamp ==
  ASSUME StampInv, StepRejected PROVE StampInv'
<1>1. /\ desired' = desired /\ scope' = scope /\ plan' = NoPlan_ /\ activeName' = NoName
  BY DEF StepRejected, GivenUp
<1>2. CASE UNCHANGED <<machine, astray>>
  <2>1. machine' = [k \in ProfileKnobs |-> machine'[k]]
    BY <1>2 DEF StampInv, StampShape
  <2>2. QED BY <1>1, <1>2, <2>1, MovedClaims, EndedPlanKeepsStamp
<1>3. CASE Sets("cpu", Step.value) /\ astray' = astray \cup {"cpu"}
  <2>1. PICK v : machine' = [machine EXCEPT !["cpu"] = v]
    BY <1>3 DEF Sets
  <2>2. /\ machine' = [k \in ProfileKnobs |-> machine'[k]]
        /\ \A k \in ProfileKnobs : k \notin {"cpu"} => machine'[k] = machine[k]
    BY <2>1 DEF StampInv, StampShape
  <2>3. InForce(desired)' /\ InForce(activeName)' /\ ScopeKnows'
    BY <1>1, <1>3, <2>2, MovedClaims
  <2>4. QED BY <1>1, <2>2, <2>3, EndedPlanKeepsStamp
<1>4. QED BY <1>2, <1>3 DEF StepRejected

\* Somebody else moves knobs while a plan may run.
LEMMA MovedKeepsStamp ==
  ASSUME StampInv, NEW K,
         machine' = [k \in ProfileKnobs |-> machine'[k]],
         \A k \in ProfileKnobs : k \notin K => machine'[k] = machine[k],
         astray' = astray \cup K, UNCHANGED <<scope, desired, plan>>,
         activeName' \in {activeName, NoName}
  PROVE  StampInv'
<1>1. InForce(desired)' /\ InForce(activeName)' /\ ScopeKnows'
  BY MovedClaims
<1>2. StampShape'
  BY DEF StampInv, StampShape
<1>3. PlanFits'
  BY DEF StampInv, PlanFits, Idle_, StepsOf
<1>4. PlanProgress'
  <2>1. scope' = scope /\ plan' = plan /\ (Idle_' <=> Idle_) /\ \A f, k : Done(f, k)' <=> Done(f, k)
    BY DEF Idle_, Done
  <2>2. ASSUME ~Idle_, plan.index < plan.restores, NEW k \in DOMAIN scope.baseline, Done(1, k)
        PROVE  /\ machine'[k] = scope.baseline[k] \/ k \in astray'
               /\ k \in scope.astray => k \in astray'
    <3>1. k \in ProfileKnobs
      BY <2>2 DEF StampInv, PlanFits, ScopeKnows
    <3>2. QED BY <2>2, <3>1 DEF StampInv, PlanProgress
  <2>3. ASSUME ~Idle_, plan.name # NoName, NEW k \in DOMAIN Registry[plan.name],
               Done(plan.restores + 1, k)
        PROVE  machine'[k] = Registry[plan.name][k] \/ k \in astray'
    <3>1. k \in ProfileKnobs
      BY <2>3, RegistryKnobs DEF StampInv, PlanFits
    <3>2. QED BY <2>3, <3>1 DEF StampInv, PlanProgress
  <2>4. QED BY <2>1, <2>2, <2>3 DEF PlanProgress
<1>5. QED BY <1>1, <1>2, <1>3, <1>4 DEF StampInv

LEMMA HandBackKeepsStamp ==
  ASSUME StampInv, HandBack PROVE StampInv'
<1>1. PICK K \in SUBSET ProfileKnobs :
        /\ K = {k \in ProfileKnobs : k # "cpu" \/ (scope.open /\ k \in DOMAIN scope.baseline)}
        /\ astray' = astray \cup K
  BY DEF HandBack
<1>2. /\ machine' = [k \in ProfileKnobs |-> Returned(k)] /\ activeName' = NoName
      /\ scope' = NoScope_ /\ plan' = NoPlan_ /\ desired' = desired
  BY DEF HandBack
<1>3. ASSUME NEW k \in ProfileKnobs, k \notin K PROVE machine'[k] = machine[k]
  <2>1. k = "cpu" /\ ~(scope.open /\ k \in DOMAIN scope.baseline)
    BY <1>1, <1>3
  <2>2. Returned(k) = machine[k]
    BY <2>1 DEF Returned
  <2>3. QED BY <1>2, <2>2
<1>4. InForce(desired)' /\ InForce(activeName)'
  BY <1>1, <1>2, <1>3, RegistryKnobs DEF StampInv, InForce
<1>5. <<>> \in Seq(ToSet(<<>>))
  OBVIOUS
<1>6. StampShape'
  <2>1. machine' = [k \in ProfileKnobs |-> machine'[k]]
    BY <1>2
  <2>2. QED BY <2>1, <1>2, <1>5 DEF StampShape, NoPlan_, NoScope_
<1>7. ScopeKnows' /\ PlanFits' /\ PlanProgress'
  BY <1>2 DEF ScopeKnows, PlanFits, PlanProgress, Idle_, NoPlan_, NoScope_
<1>8. QED BY <1>4, <1>6, <1>7 DEF StampInv

-----------------------------------------------------------------------------
(* A step that is applied *)

\* What one applied step does to the knobs.
LEMMA AppliedStep ==
  ASSUME StampInv, StepApplied
  PROVE  /\ ~Idle_
         /\ machine' = [k \in ProfileKnobs |-> machine'[k]]
         /\ \A k \in ProfileKnobs : machine'[k] = IF k = Step.knob THEN Step.value ELSE machine[k]
         /\ \A k : k # Step.knob => (k \in astray' <=> k \in astray)
         /\ Restoring_ /\ Step.knob \in scope.astray => Step.knob \in astray'
         /\ plan.index + 1 \in 1..Len(plan.steps) /\ Step = plan.steps[plan.index + 1]
<1>1. PICK kn, v : kn = Step.knob /\ v = Step.value
  OBVIOUS
<1>2. machine' = [machine EXCEPT ![kn] = v]
  BY <1>1 DEF StepApplied, Applied_, Sets
<1>3. /\ machine' = [k \in ProfileKnobs |-> machine'[k]]
      /\ \A k \in ProfileKnobs : machine'[k] = IF k = kn THEN v ELSE machine[k]
  BY <1>2 DEF StampInv, StampShape
<1>4. astray' = IF Restoring_ /\ kn \in scope.astray THEN astray \cup {kn} ELSE astray \ {kn}
  BY <1>1 DEF StepApplied, Applied_
<1>5. ~Idle_ /\ plan.index + 1 \in 1..Len(plan.steps)
  BY StepsBounds DEF StepApplied, StampInv, PlanFits
<1>6. QED BY <1>1, <1>3, <1>4, <1>5 DEF Step

\* The knobs of the plan's own profile that are done after this step.
LEMMA OwnKnobsDone ==
  ASSUME StampInv, StepApplied, plan.name # NoName, NEW k \in DOMAIN Registry[plan.name],
         NEW j \in (plan.restores + 1)..(plan.index + 1), plan.steps[j].knob = k
  PROVE  machine'[k] = Registry[plan.name][k] \/ k \in astray'
<1>1. /\ plan.index \in Nat /\ plan.restores \in Nat /\ plan.index + 1 \in 1..Len(plan.steps)
      /\ Len(plan.steps) \in Nat /\ ~Idle_
  BY AppliedStep, StepsBounds
<1>2. plan.name \in DOMAIN Registry /\ k \in ProfileKnobs
  BY <1>1, RegistryKnobs DEF StampInv, PlanFits
<1>3. CASE k = Step.knob
  <2>1. plan.index + 1 \in (plan.restores + 1)..Len(plan.steps)
    BY <1>1
  <2>2. Step.value = Registry[plan.name][k]
    BY <1>1, <1>3, <2>1 DEF StampInv, PlanFits, StepsOf, Step
  <2>3. QED BY <1>2, <1>3, <2>2, AppliedStep
<1>4. CASE k # Step.knob
  <2>1. j # plan.index + 1
    BY <1>4 DEF Step
  <2>2. j \in (plan.restores + 1)..plan.index
    BY <1>1, <2>1
  <2>3. machine[k] = Registry[plan.name][k] \/ k \in astray
    BY <1>1, <2>2 DEF StampInv, PlanProgress, Done
  <2>4. QED BY <1>2, <1>4, <2>3, AppliedStep
<1>5. QED BY <1>3, <1>4

\* The knobs of the session that are put back after this step.
LEMMA PutBackDone ==
  ASSUME StampInv, StepApplied, plan.index < plan.restores, NEW k \in DOMAIN scope.baseline,
         NEW j \in 1..(plan.index + 1), plan.steps[j].knob = k
  PROVE  /\ machine'[k] = scope.baseline[k] \/ k \in astray'
         /\ k \in scope.astray => k \in astray'
<1>1. /\ plan.index \in Nat /\ plan.restores \in Nat /\ plan.index + 1 \in 1..Len(plan.steps)
      /\ Len(plan.steps) \in Nat /\ ~Idle_ /\ scope.open /\ Restoring_
  BY AppliedStep, StepsBounds DEF StampInv, PlanFits, Restoring_
<1>2. k \in ProfileKnobs
  BY <1>1 DEF StampInv, ScopeKnows
<1>3. CASE k = Step.knob
  <2>1. plan.index + 1 \in 1..plan.restores
    BY <1>1
  <2>2. Step.value = scope.baseline[k]
    <3>1. StepsOf(scope.baseline, 1, plan.restores)
      BY <1>1 DEF StampInv, PlanFits
    <3>2. QED BY <1>3, <2>1, <3>1 DEF StepsOf, Step
  <2>3. QED BY <1>1, <1>2, <1>3, <2>2, AppliedStep
<1>4. CASE k # Step.knob
  <2>1. j # plan.index + 1
    BY <1>4 DEF Step
  <2>2. j \in 1..plan.index
    BY <1>1, <2>1
  <2>3. /\ machine[k] = scope.baseline[k] \/ k \in astray
        /\ k \in scope.astray => k \in astray
    BY <1>1, <2>2 DEF StampInv, PlanProgress, Done
  <2>4. QED BY <1>2, <1>4, <2>3, AppliedStep
<1>5. QED BY <1>3, <1>4

LEMMA StampAfterInForce ==
  ASSUME StampInv, StepApplied
  PROVE  InForce(desired)' /\ InForce(activeName)'
<1>1. /\ plan.index \in Nat /\ plan.restores \in Nat /\ plan.index + 1 \in 1..Len(plan.steps)
      /\ Len(plan.steps) \in Nat /\ ~Idle_
  BY AppliedStep, StepsBounds
<1>2. CASE LastStep /\ plan.name # NoName
  <2>1. /\ plan.name \in DOMAIN Registry /\ plan.restores < Len(plan.steps)
        /\ StepsOf(Registry[plan.name], plan.restores + 1, Len(plan.steps))
    BY <1>1, <1>2 DEF StampInv, PlanFits
  <2>2. ASSUME NEW k \in DOMAIN Registry[plan.name]
        PROVE  machine'[k] = Registry[plan.name][k] \/ k \in astray'
    <3>1. PICK j \in (plan.restores + 1)..(plan.index + 1) : plan.steps[j].knob = k
      BY <1>2, <2>1 DEF StepsOf, LastStep
    <3>2. QED BY <1>2, <3>1, OwnKnobsDone
  <2>3. desired' = plan.name /\ activeName' = plan.name
    BY <1>2 DEF StepApplied, StampAfter
  <2>4. QED BY <2>1, <2>2, <2>3 DEF InForce
<1>3. CASE ~(LastStep /\ plan.name # NoName) /\ plan.index + 1 = plan.restores
  <2>1. /\ scope.open /\ plan.index < plan.restores /\ Restoring_
        /\ StepsOf(scope.baseline, 1, plan.restores)
    BY <1>1, <1>3 DEF StampInv, PlanFits, Restoring_
  <2>2. desired' = scope.previous /\ activeName' = scope.previous
    BY <1>3 DEF StepApplied, StampAfter
  <2>3. ASSUME scope.previous # NoName, NEW k \in DOMAIN Registry[scope.previous]
        PROVE  machine'[k] = Registry[scope.previous][k] \/ k \in astray'
    <3>1. /\ scope.previous \in DOMAIN Registry /\ k \in ProfileKnobs
          /\ IF k \in DOMAIN scope.baseline
             THEN scope.baseline[k] = Registry[scope.previous][k] \/ k \in scope.astray
             ELSE machine[k] = Registry[scope.previous][k] \/ k \in astray
      BY <2>1, <2>3, RegistryKnobs DEF StampInv, ScopeKnows
    <3>2. CASE k \in DOMAIN scope.baseline
      <4>1. PICK j \in 1..(plan.index + 1) : plan.steps[j].knob = k
        BY <1>3, <2>1, <3>2 DEF StepsOf
      <4>2. /\ machine'[k] = scope.baseline[k] \/ k \in astray'
            /\ k \in scope.astray => k \in astray'
        BY <2>1, <3>2, <4>1, PutBackDone
      <4>3. QED BY <3>1, <3>2, <4>2
    <3>3. CASE k \notin DOMAIN scope.baseline
      <4>1. k # Step.knob
        BY <1>1, <2>1, <3>3, StepOfSession
      <4>2. QED BY <3>1, <3>3, <4>1, AppliedStep
    <3>4. QED BY <3>2, <3>3
  <2>4. scope.previous # NoName => scope.previous \in DOMAIN Registry
    BY <2>1 DEF StampInv, ScopeKnows
  <2>5. QED BY <2>2, <2>3, <2>4 DEF InForce
<1>4. CASE ~(LastStep /\ plan.name # NoName) /\ plan.index + 1 # plan.restores
  <2>1. desired' = NoName /\ activeName' = NoName
    BY <1>4 DEF StepApplied, StampAfter
  <2>2. QED BY <2>1 DEF InForce
<1>5. QED BY <1>2, <1>3, <1>4

LEMMA StepKeepsStamp ==
  ASSUME StampInv, StepApplied PROVE StampInv'
<1>1. /\ plan.index \in Nat /\ plan.restores \in Nat /\ plan.index + 1 \in 1..Len(plan.steps)
      /\ Len(plan.steps) \in Nat /\ ~Idle_
      /\ machine' = [k \in ProfileKnobs |-> machine'[k]]
  BY AppliedStep, StepsBounds
<1>2. InForce(desired)' /\ InForce(activeName)'
  BY StampAfterInForce
<1>3. /\ scope' = IF plan.index + 1 = plan.restores THEN NoScope_ ELSE scope
      /\ plan' = IF LastStep THEN NoPlan_ ELSE [plan EXCEPT !.index = plan.index + 1, !.tried = TRUE]
  BY DEF StepApplied
<1>4. scope'.open => scope' = scope /\ scope.open /\ plan.index + 1 # plan.restores
  BY <1>3 DEF NoScope_
<1>5. scope'.open \in BOOLEAN
  BY <1>3 DEF NoScope_, StampInv, StampShape
<1>6. ScopeKnows'
  <2>1. ASSUME scope'.open, scope.previous # NoName, NEW k \in DOMAIN Registry[scope.previous],
               k \notin DOMAIN scope.baseline
        PROVE  machine'[k] = Registry[scope.previous][k] \/ k \in astray'
    <3>1. /\ machine[k] = Registry[scope.previous][k] \/ k \in astray
          /\ k \in ProfileKnobs
      BY <1>4, <2>1, RegistryKnobs DEF StampInv, ScopeKnows
    <3>2. k # Step.knob
      BY <1>1, <1>4, <2>1, StepOfSession
    <3>3. QED BY <3>1, <3>2, AppliedStep
  <2>2. QED BY <1>4, <2>1 DEF StampInv, ScopeKnows
<1>7. CASE LastStep
  <2>1. plan'.steps = <<>> /\ Idle_' /\ plan' = NoPlan_
    BY <1>3, <1>7 DEF NoPlan_, Idle_
  <2>2. <<>> \in Seq(ToSet(<<>>))
    OBVIOUS
  <2>3. StampShape'
    BY <1>1, <1>5, <2>1, <2>2 DEF StampShape, NoPlan_
  <2>4. QED BY <1>2, <1>6, <2>1, <2>3 DEF StampInv, PlanFits, PlanProgress
<1>8. CASE ~LastStep
  <2>1. /\ plan'.steps = plan.steps /\ plan'.index = plan.index + 1 /\ plan'.name = plan.name
        /\ plan'.restores = plan.restores
        /\ plan' = [steps |-> plan'.steps, index |-> plan'.index, name |-> plan'.name,
                    restores |-> plan'.restores, tried |-> plan'.tried]
    <3>1. plan = [steps |-> plan.steps, index |-> plan.index, name |-> plan.name,
                  restores |-> plan.restores, tried |-> plan.tried]
      BY DEF StampInv, StampShape
    <3>2. QED BY <1>3, <1>8, <3>1
  <2>2. StampShape'
    BY <1>1, <1>5, <2>1 DEF StampInv, StampShape
  <2>3. plan.index + 1 < Len(plan.steps)
    BY <1>1, <1>8 DEF LastStep
  <2>4. \A d, f, l : StepsOf(d, f, l) <=>
          /\ \A j \in f..l : /\ plan'.steps[j].knob \in DOMAIN d
                             /\ plan'.steps[j].value = d[plan'.steps[j].knob]
          /\ \A k \in DOMAIN d : \E j \in f..l : plan'.steps[j].knob = k
    BY <2>1 DEF StepsOf
  <2>5. ASSUME scope'.open
        PROVE  /\ plan.restores > 0 => /\ plan.index + 1 < plan.restores
                                       /\ StepsOf(scope.baseline, 1, plan.restores)'
               /\ plan.restores = 0 => \A j \in 1..Len(plan.steps) :
                    plan.steps[j].knob \in DOMAIN scope'.baseline
    <3>1. /\ plan.restores > 0 => /\ plan.index < plan.restores
                                  /\ StepsOf(scope.baseline, 1, plan.restores)
          /\ plan.restores = 0 => \A j \in 1..Len(plan.steps) :
               plan.steps[j].knob \in DOMAIN scope.baseline
      BY <1>1, <1>4, <2>5 DEF StampInv, PlanFits
    <3>2. StepsOf(scope.baseline, 1, plan.restores) => StepsOf(scope.baseline, 1, plan.restores)'
      BY <1>4, <2>1, <2>5 DEF StepsOf
    <3>3. QED BY <1>1, <1>4, <2>5, <3>1, <3>2
  <2>6. ASSUME plan.name # NoName
        PROVE  /\ plan.name \in DOMAIN Registry /\ plan.restores < Len(plan.steps)
               /\ StepsOf(Registry[plan.name], plan.restores + 1, Len(plan.steps))'
    <3>1. /\ plan.name \in DOMAIN Registry /\ plan.restores < Len(plan.steps)
          /\ StepsOf(Registry[plan.name], plan.restores + 1, Len(plan.steps))
      BY <1>1, <2>6 DEF StampInv, PlanFits
    <3>2. QED BY <2>1, <3>1 DEF StepsOf
  <2>7. plan.index + 1 < plan.restores => scope'.open
    <3>1. plan.index + 1 < plan.restores => scope.open /\ plan.index + 1 # plan.restores
      BY <1>1 DEF StampInv, PlanFits
    <3>2. QED BY <1>3, <3>1
  <2>8. plan.restores <= Len(plan.steps)
    BY <1>1 DEF StampInv, PlanFits
  <2>9. PlanFits'
    BY <2>1, <2>3, <2>5, <2>6, <2>7, <2>8 DEF PlanFits
  <2>10. PlanProgress'
    <3>1. ASSUME plan.index + 1 < plan.restores, NEW k \in DOMAIN scope.baseline, Done(1, k)'
          PROVE  /\ machine'[k] = scope.baseline[k] \/ k \in astray'
                 /\ k \in scope.astray => k \in astray'
      <4>1. PICK j \in 1..(plan.index + 1) : plan.steps[j].knob = k
        BY <2>1, <3>1 DEF Done
      <4>2. QED BY <1>1, <3>1, <4>1, PutBackDone
    <3>2. ASSUME plan.name # NoName, NEW k \in DOMAIN Registry[plan.name],
                 Done(plan.restores + 1, k)'
          PROVE  machine'[k] = Registry[plan.name][k] \/ k \in astray'
      <4>1. PICK j \in (plan.restores + 1)..(plan.index + 1) : plan.steps[j].knob = k
        BY <2>1, <3>2 DEF Done
      <4>2. QED BY <3>2, <4>1, OwnKnobsDone
    <3>3. plan.index + 1 < plan.restores => scope' = scope
      BY <1>4, <2>7
    <3>4. QED BY <2>1, <3>1, <3>2, <3>3 DEF PlanProgress
  <2>11. QED BY <1>2, <1>6, <2>2, <2>9, <2>10 DEF StampInv
<1>9. QED BY <1>7, <1>8

\* A profile that is shown or remembered as desired stays in force through plans, sessions
\* and hand-backs, for every set of profiles and whoever else moves the machine.
THEOREM StampInvariance == StampSpec => []StampInv
<1>1. StampInv /\ [StampNext]_stampVars => StampInv'
  <2> SUFFICES ASSUME StampInv, [StampNext]_stampVars PROVE StampInv'
    OBVIOUS
  <2>1. CASE \E n \in DOMAIN Registry : ApplyProfile(n) \/ ApplyScopedProfile(n)
    BY <2>1, ApplyingKeepsStamp, SessionKeepsStamp
  <2>2. CASE \E step \in Manual : SetKnob(step)
    BY <2>2, SettingKeepsStamp
  <2>3. CASE RestoreScopedProfile
    BY <2>3, GivingBackKeepsStamp
  <2>4. CASE StepApplied
    BY <2>4, StepKeepsStamp
  <2>5. CASE StepRefused
    BY <2>5, RefusalKeepsStamp
  <2>6. CASE StepFails
    BY <2>6, FailureKeepsStamp
  <2>7. CASE StepRejected
    BY <2>7, RejectionKeepsStamp
  <2>8. CASE Reconcile
    <3>1. /\ machine' = machine /\ astray' = astray \cup {} /\ UNCHANGED <<scope, desired, plan>>
          /\ activeName' \in {activeName, NoName}
      BY <2>8 DEF Reconcile
    <3>2. machine' = [k \in ProfileKnobs |-> machine'[k]]
      BY <3>1 DEF StampInv, StampShape
    <3>3. QED BY <3>1, <3>2, MovedKeepsStamp
  <2>9. CASE ForceMaxFan
    <3>1. PICK v : /\ machine' = [machine EXCEPT !["fan"] = v] /\ astray' = astray \cup {"fan"}
                   /\ UNCHANGED <<scope, desired, plan>> /\ activeName' \in {activeName, NoName}
      BY <2>9 DEF ForceMaxFan, Sets
    <3>2. /\ machine' = [k \in ProfileKnobs |-> machine'[k]]
          /\ \A k \in ProfileKnobs : k \notin {"fan"} => machine'[k] = machine[k]
      BY <3>1 DEF StampInv, StampShape
    <3>3. QED BY <3>1, <3>2, MovedKeepsStamp
  <2>10. CASE HandBack
    BY <2>10, HandBackKeepsStamp
  <2>11. ASSUME NEW k \in ProfileKnobs, NEW v \in Outside, Moved(k, v) PROVE StampInv'
    <3>1. /\ machine' = [machine EXCEPT ![k] = v] /\ astray' = astray \cup {k}
          /\ UNCHANGED <<scope, desired, plan>> /\ activeName' \in {activeName, NoName}
      BY <2>11 DEF Moved, Sets
    <3>2. /\ machine' = [l \in ProfileKnobs |-> machine'[l]]
          /\ \A l \in ProfileKnobs : l \notin {k} => machine'[l] = machine[l]
      BY <3>1 DEF StampInv, StampShape
    <3>3. QED BY <3>1, <3>2, MovedKeepsStamp
  <2>12. CASE UNCHANGED stampVars
    <3>1. /\ machine' = machine /\ astray' = astray \cup {} /\ UNCHANGED <<scope, desired, plan>>
          /\ activeName' \in {activeName, NoName}
      BY <2>12 DEF stampVars
    <3>2. machine' = [k \in ProfileKnobs |-> machine'[k]]
      BY <3>1 DEF StampInv, StampShape
    <3>3. QED BY <3>1, <3>2, MovedKeepsStamp
  <2>13. QED
    BY <2>1, <2>2, <2>3, <2>4, <2>5, <2>6, <2>7, <2>8, <2>9, <2>10, <2>11, <2>12 DEF StampNext
<1>2. QED BY <1>1, StampStart, PTL DEF StampSpec

\* The profile that is shown as active is in force: each of its knobs has its value unless
\* somebody else moved that knob (advance_plan, finish_plan and what clears the stamp).
THEOREM StampIsAlwaysTrue == StampSpec => []StampIsTrue
<1>1. StampInv => StampIsTrue
  BY DEF StampInv, InForce, StampIsTrue
<1>2. QED BY <1>1, StampInvariance, PTL

-----------------------------------------------------------------------------
(* The values that are given back.  The feed says what the firmware holds as long as *)
(* nothing was captured, and from the first sample after a write; a baseline is the *)
(* captured value in whole watts, or 255 for all above, and then no byte that goes to the *)
(* firmware sets the register near 255 W: what a sample shows within a watt of the *)
(* baseline is then the captured value itself. *)

PolicyValues == [ctgp : BOOLEAN, ppab : BOOLEAN, dstate : Int, slowdown : Int]
Payloads == [1..4 -> Int]

ArmLists == {<<>>, <<"gpu">>, <<"limits">>, <<"gpu", "limits">>}

Firmwares == [limits : Registers, factory : Registers, gpu : Payloads]
LimitCalls ==
  [to : {"none", "gpu", "limits"}, bytes : {<<>>} \cup Payloads, left : Int,
   end : {"none", "accepted", "rejected", "unknown"}, landed : BOOLEAN]
Feeds == [pl1 : Int, pl2 : Int, pl4 : Int, after : BOOLEAN, after4 : BOOLEAN]
Baselines == [pl1 : 0..255, pl2 : 0..255, pl4 : 0..255]
Obligations ==
  [dirty : SUBSET {"gpu", "limits"}, startup : {NoValue} \cup PolicyValues,
   baseline : {NoValue} \cup Baselines]
Doings ==
  [what : {"nothing", "exec", "arm", "writes", "verifies"}, domain : {"gpu", "limits"},
   was : BOOLEAN, polls : Int, ok : SUBSET {"gpu", "limits"}, arms : ArmLists]
Held == [gpu : {NoValue} \cup PolicyValues, limits : {NoValue} \cup Registers]

LimitTypeOK ==
  /\ firmware \in Firmwares
  /\ hpCall \in LimitCalls
  /\ hpCall.to # "none" => hpCall.bytes \in Payloads
  /\ feed \in Feeds
  /\ owed \in Obligations
  /\ doing \in Doings
  /\ before \in Held
  /\ doubted \subseteq {"gpu", "limits"}

\* Which write is under way, and for whom: an exec, or the first arm that is left.
CallBelongs ==
  /\ hpCall.to # "none" => doing.what \in {"exec", "writes"}
  /\ doing.what = "exec" => hpCall.to = doing.domain /\ doing.domain \in owed.dirty
  /\ doing.what = "writes" => hpCall.to = Arm
  /\ doing.what \in {"writes", "verifies"} => doing.arms # <<>>
  /\ doing.what \in {"nothing", "exec"} => doing.ok = {} /\ doing.arms = <<>>

\* What was captured belongs to what is owed.
OwedIsCaptured ==
  /\ \A d \in ToSet(doing.arms) : d \in owed.dirty
  /\ "gpu" \in owed.dirty => owed.startup \in PolicyValues
  /\ "limits" \in owed.dirty => owed.baseline # NoValue
  /\ owed.startup = before.gpu
  /\ owed.baseline # NoValue => before.limits \in Registers

LimitsSeen == feed.pl1 = firmware.limits.pl1 /\ feed.pl2 = firmware.limits.pl2
Pl4Seen == feed.pl4 = firmware.limits.pl4
FeedIsTrue ==
  /\ owed.baseline = NoValue => (HasLimits => LimitsSeen) /\ (HasPl4 => Pl4Seen)
  /\ doing.what = "exec" /\ doing.domain = "limits" => ~feed.after /\ ~feed.after4
  /\ ~(doing.what = "writes" /\ Arm = "limits") =>
       (feed.after => LimitsSeen) /\ (feed.after4 => Pl4Seen)

\* The largest watts a request may ask for.
MostWatts == 200
Captured(w, value) == w = RoundedWatts(value)
NeverNear255(w, now, value) == w = 255 => now = value \/ now <= PerWatt * MostWatts
SafeByte(byte, w) == byte = NoChange \/ byte \in 1..MostWatts \/ byte = w

BaselineIsRounded ==
  owed.baseline # NoValue =>
    /\ Captured(owed.baseline.pl1, before.limits.pl1)
    /\ Captured(owed.baseline.pl2, before.limits.pl2)
    /\ owed.baseline.pl4 # 0 => Captured(owed.baseline.pl4, before.limits.pl4)
    /\ NeverNear255(owed.baseline.pl1, firmware.limits.pl1, before.limits.pl1)
    /\ NeverNear255(owed.baseline.pl2, firmware.limits.pl2, before.limits.pl2)
    /\ NeverNear255(owed.baseline.pl4, firmware.limits.pl4, before.limits.pl4)
    /\ hpCall.to = "limits" =>
         /\ SafeByte(hpCall.bytes[2], owed.baseline.pl1)
         /\ SafeByte(hpCall.bytes[1], owed.baseline.pl2)
         /\ SafeByte(hpCall.bytes[3], owed.baseline.pl4)

\* Whatever is not owed was given back, up to calls that were rejected and landed.
LimitsRest ==
  "limits" \notin owed.dirty /\ owed.baseline # NoValue => "limits" \in doubted \/ GivenBack("limits")
ExecIsUndone ==
  doing.what = "exec" /\ ~doing.was /\ ~hpCall.landed =>
    doing.domain \in doubted \/ GivenBack(doing.domain)
ConfirmedIsBack == \A d \in doing.ok : d \notin ToSet(doing.arms) /\ GivenBack(d)

LimitInv ==
  /\ LimitTypeOK /\ CallBelongs /\ OwedIsCaptured /\ FeedIsTrue /\ BaselineIsRounded
  /\ LimitsRest /\ ExecIsUndone /\ ConfirmedIsBack

-----------------------------------------------------------------------------
USE DEF Firmwares, LimitCalls, Feeds, Baselines, Obligations, Doings, Held

LEMMA ListsOfArms ==
  /\ <<>> \in ArmLists /\ ToSet(<<>>) = {}
  /\ \A a \in ArmLists :
       /\ ToSet(a) \subseteq {"gpu", "limits"}
       /\ a # <<>> => /\ Head(a) \in ToSet(a) /\ Tail(a) \in ArmLists
                      /\ ToSet(Tail(a)) \subseteq ToSet(a) /\ Head(a) \notin ToSet(Tail(a))
<1>1. <<>> \in ArmLists /\ ToSet(<<>>) = {}
  BY DEF ArmLists, ToSet
<1>2. ASSUME NEW x, NEW a, a = <<x>> PROVE ToSet(a) = {x} /\ Head(a) = x /\ Tail(a) = <<>> /\ a # <<>>
  BY <1>2 DEF ToSet
<1>3. ASSUME NEW x, NEW y, NEW a, a = <<x, y>>
      PROVE  ToSet(a) = {x, y} /\ Head(a) = x /\ Tail(a) = <<y>> /\ ToSet(Tail(a)) = {y} /\ a # <<>>
  <2>1. /\ Len(a) = 2 /\ a[1] = x /\ a[2] = y /\ DOMAIN a = 1..2
    BY <1>3
  <2>2. ToSet(a) = {x, y}
    BY <2>1 DEF ToSet
  <2>3. Head(a) = x /\ Tail(a) = <<y>> /\ a # <<>>
    BY <1>3
  <2> QED BY <2>2, <2>3, <1>2
<1>4. \A a \in ArmLists : \/ a = <<>> \/ a = <<"gpu">> \/ a = <<"limits">> \/ a = <<"gpu", "limits">>
  BY DEF ArmLists
<1> SUFFICES ASSUME NEW a \in ArmLists
             PROVE  /\ ToSet(a) \subseteq {"gpu", "limits"}
                    /\ a # <<>> => /\ Head(a) \in ToSet(a) /\ Tail(a) \in ArmLists
                                   /\ ToSet(Tail(a)) \subseteq ToSet(a)
                                   /\ Head(a) \notin ToSet(Tail(a))
  BY <1>1
<1>5. CASE a = <<>>
  BY <1>1, <1>5
<1>6. ASSUME NEW x \in {"gpu", "limits"}, a = <<x>>
      PROVE  /\ ToSet(a) \subseteq {"gpu", "limits"} /\ Head(a) \in ToSet(a) /\ Tail(a) \in ArmLists
             /\ ToSet(Tail(a)) \subseteq ToSet(a) /\ Head(a) \notin ToSet(Tail(a))
  BY <1>1, <1>2, <1>6
<1>7. CASE a = <<"gpu", "limits">>
  <2>1. ToSet(a) = {"gpu", "limits"} /\ Head(a) = "gpu" /\ Tail(a) = <<"limits">>
        /\ ToSet(Tail(a)) = {"limits"}
    BY <1>3, <1>7
  <2> QED BY <2>1 DEF ArmLists
<1> QED BY <1>4, <1>5, <1>6, <1>7

LEMMA ArmsAreOwed ==
  ASSUME LimitTypeOK
  PROVE  Arms \in ArmLists /\ \A d \in ToSet(Arms) : d \in owed.dirty
<1> DEFINE D == {"gpu", "limits"}
<1>0. <<>> \in Seq(D) /\ <<"gpu">> \in Seq(D) /\ <<"limits">> \in Seq(D) /\ <<"gpu", "limits">> \in Seq(D)
  OBVIOUS
<1>1. <<>> \o <<>> = <<>> /\ <<"gpu">> \o <<>> = <<"gpu">> /\ <<>> \o <<"limits">> = <<"limits">>
      /\ <<"gpu">> \o <<"limits">> = <<"gpu", "limits">>
  <2>1. <<>> \o <<>> = <<>> /\ <<"gpu">> \o <<>> = <<"gpu">> /\ <<>> \o <<"limits">> = <<"limits">>
    BY <1>0, ConcatEmptySeq
  <2> DEFINE g == <<"gpu">>
             l == <<"limits">>
             both == <<"gpu", "limits">>
  <2>2. Len(g) = 1 /\ Len(l) = 1 /\ Len(both) = 2 /\ g[1] = "gpu" /\ l[1] = "limits"
        /\ both[1] = "gpu" /\ both[2] = "limits" /\ g \in Seq(D) /\ l \in Seq(D) /\ both \in Seq(D)
    BY <1>0
  <2> HIDE DEF g, l, both, D
  <2>3. /\ g \o l \in Seq(D) /\ Len(g \o l) = 2
        /\ \A i \in 1..2 : (g \o l)[i] = IF i <= 1 THEN g[i] ELSE l[i - 1]
    BY <2>2, ConcatProperties
  <2>4. \A i \in 1..2 : (g \o l)[i] = both[i]
    BY <2>2, <2>3
  <2>5. g \o l = both
    BY <2>2, <2>3, <2>4, SeqEqual
  <2> QED BY <2>1, <2>5 DEF g, l, both
<1>2. /\ ~("gpu" \in owed.dirty) /\ ~("limits" \in owed.dirty) => Arms = <<>>
      /\ "gpu" \in owed.dirty /\ ~("limits" \in owed.dirty) => Arms = <<"gpu">>
      /\ ~("gpu" \in owed.dirty) /\ "limits" \in owed.dirty => Arms = <<"limits">>
      /\ "gpu" \in owed.dirty /\ "limits" \in owed.dirty => Arms = <<"gpu", "limits">>
  BY <1>1 DEF Arms, ArmOf
<1>3. Arms \in ArmLists
  BY <1>2 DEF ArmLists
<1>4. /\ ToSet(<<>>) = {} /\ ToSet(<<"gpu">>) = {"gpu"} /\ ToSet(<<"limits">>) = {"limits"}
      /\ ToSet(<<"gpu", "limits">>) \subseteq {"gpu", "limits"}
  BY ListsOfArms DEF ToSet, ArmLists
<1> QED BY <1>2, <1>3, <1>4

\* A captured value is rounded to the next whole watt below 255 W.
LEMMA Rounding ==
  ASSUME NEW raw \in Nat
  PROVE  /\ RoundedWatts(raw) \in 0..255
         /\ RoundedWatts(raw) # 255 => 2 * (raw - PerWatt * RoundedWatts(raw)) \in (-PerWatt)..PerWatt
<1> DEFINE w == (2 * raw + 8) \div 16
<1>1. w \in Int /\ 16 * w <= 2 * raw + 8 /\ 2 * raw + 8 < 16 * w + 16
  OBVIOUS
<1>2. RoundedWatts(raw) = IF w > 255 THEN 255 ELSE w
  BY DEF RoundedWatts, PerWatt
<1> HIDE DEF w
<1>3. w \in Nat
  BY <1>1
<1> QED BY <1>1, <1>2, <1>3 DEF PerWatt

LEMMA GateIsTyped ==
  ASSUME NEW patch, GpuAllowed(patch), firmware.gpu \in Payloads
  PROVE  DecodeGpu(firmware.gpu) \in PolicyValues /\ EncodeGpu(Patched(patch)) \in Payloads
<1> DEFINE now == DecodeGpu(firmware.gpu)
           p == Patched(patch)
<1>1. /\ now \in PolicyValues /\ DOMAIN now = {"ctgp", "ppab", "dstate", "slowdown"}
      /\ now["dstate"] \in Int /\ now["slowdown"] \in Int
  BY DEF DecodeGpu, PolicyValues, Payloads
<1>2. p = [f \in DOMAIN now |-> IF f \in DOMAIN patch THEN patch[f] ELSE now[f]]
  BY DEF Patched
<1> HIDE DEF p, now
<1>3. /\ "dstate" \in DOMAIN patch => patch["dstate"] \in 1..4
      /\ "slowdown" \in DOMAIN patch => patch["slowdown"] \in Int
  BY DEF GpuAllowed, FieldAllowed
<1>4. p["dstate"] \in Int /\ p["slowdown"] \in Int
  BY <1>1, <1>2, <1>3
<1>5. EncodeGpu(p) = <<Flag(p.ctgp), Flag(p.ppab), p.dstate, p.slowdown>>
  BY DEF EncodeGpu
<1>6. Flag(p.ctgp) \in Int /\ Flag(p.ppab) \in Int
  BY DEF Flag
<1>7. EncodeGpu(p) \in Payloads
  BY <1>4, <1>5, <1>6 DEF Payloads
<1> QED BY <1>1, <1>7 DEF p, now

LEMMA EncodedPolicy ==
  ASSUME NEW p \in PolicyValues PROVE EncodeGpu(p) \in Payloads
<1>1. Flag(p.ctgp) \in Int /\ Flag(p.ppab) \in Int /\ p.dstate \in Int /\ p.slowdown \in Int
  BY DEF Flag, PolicyValues
<1> QED BY <1>1 DEF EncodeGpu, Payloads

LEMMA EncodedWatts ==
  ASSUME NEW l, NEW a \in 0..255, NEW b \in 0..255, NEW c \in 0..255,
         l.pl1 = a, l.pl2 = b, l.pl4 = c
  PROVE  /\ EncodeLimits(l) \in Payloads
         /\ SafeByte(EncodeLimits(l)[2], a) /\ SafeByte(EncodeLimits(l)[1], b)
         /\ SafeByte(EncodeLimits(l)[3], c)
         /\ a \in 1..MostWatts => EncodeLimits(l)[2] \in 1..MostWatts
         /\ b \in 1..MostWatts => EncodeLimits(l)[1] \in 1..MostWatts
         /\ c \in {0} \cup 1..MostWatts => EncodeLimits(l)[3] \in {NoChange} \cup 1..MostWatts
<1>1. EncodeLimits(l) = <<b, a, IF c = 0 THEN NoChange ELSE c, NoChange>>
  BY DEF EncodeLimits
<1> QED BY <1>1 DEF Payloads, SafeByte, NoChange, MostWatts

\* What one register becomes: the value of the byte, the factory value or what it was.
LEMMA RegisterStays ==
  ASSUME NEW old \in Nat, NEW factory \in Nat, NEW byte \in Int, NEW w \in 0..255, NEW value \in Nat,
         NeverNear255(w, old, value), SafeByte(byte, w)
  PROVE  Register(old, factory, byte) \in Nat /\ NeverNear255(w, Register(old, factory, byte), value)
<1>1. CASE byte = NoChange
  BY <1>1 DEF Register, NeverNear255
<1>2. CASE byte # NoChange /\ byte = Factory
  <2>1. w # 255
    BY <1>2 DEF SafeByte, NoChange, Factory, MostWatts
  <2> QED BY <1>2, <2>1 DEF Register, NeverNear255
<1>3. CASE byte # NoChange /\ byte # Factory
  <2>1. Register(old, factory, byte) = 8 * byte
    BY <1>3 DEF Register, PerWatt
  <2>2. byte \in 1..MostWatts \/ byte = w
    BY <1>3 DEF SafeByte
  <2>3. byte >= 0
    BY <2>2 DEF MostWatts
  <2>4. w = 255 => byte \in 1..200
    BY <2>2, <1>3 DEF NoChange, MostWatts
  <2> QED BY <2>1, <2>3, <2>4 DEF NeverNear255, PerWatt, MostWatts
<1> QED BY <1>1, <1>2, <1>3

\* A sample within a watt of a baseline is within a watt and a half of what was captured.
LEMMA WithinIsBack ==
  ASSUME NEW now \in Nat, NEW value \in Nat, NEW w \in 0..255,
         Captured(w, value), NeverNear255(w, now, value), Within(now, w, PerWatt)
  PROVE  2 * (now - value) \in (-3 * PerWatt)..(3 * PerWatt)
<1>1. now - 8 * w \in (-8)..8
  BY DEF Within, PerWatt
<1>2. CASE w = 255
  BY <1>1, <1>2 DEF NeverNear255, PerWatt, MostWatts
<1>3. CASE w # 255
  <2>1. 2 * (value - 8 * w) \in (-8)..8
    BY <1>3, Rounding DEF Captured, PerWatt
  <2> QED BY <1>1, <2>1 DEF PerWatt
<1> QED BY <1>2, <1>3

LEMMA SomeBaseline ==
  /\ \A b \in Baselines : b # NoValue
  /\ \A p \in PolicyValues : p # NoValue
  /\ \A r \in Registers : r # NoValue
<1>1. DOMAIN NoValue = {"none"}
  BY DEF NoValue
<1>2. \A b \in Baselines : DOMAIN b = {"pl1", "pl2", "pl4"}
  OBVIOUS
<1>3. \A p \in PolicyValues : DOMAIN p = {"ctgp", "ppab", "dstate", "slowdown"}
  BY DEF PolicyValues
<1>4. \A r \in Registers : DOMAIN r = {"pl1", "pl2", "pl4"}
  BY DEF Registers
<1> QED BY <1>1, <1>2, <1>3, <1>4

LEMMA SameAsItself ==
  ASSUME NEW x \in Registers
  PROVE  \A fields \in SUBSET {"pl1", "pl2", "pl4"} : SameLimits(x, x, fields)
BY DEF SameLimits, Registers, PerWatt

-----------------------------------------------------------------------------
LEMMA LimitsStart == LimitInit => LimitInv
<1> SUFFICES ASSUME LimitInit PROVE LimitInv
  OBVIOUS
<1>1. PICK original \in Originals : firmware = original /\ hpCall = NoCall
  BY DEF LimitInit, TransportInit
<1>2. firmware \in Firmwares
  <2>1. firmware \in [limits : Registers, factory : Registers, gpu : [1..4 -> 0..255]]
    BY <1>1, LimitAssumption
  <2>2. \A b \in [1..4 -> 0..255] : b \in Payloads
    BY DEF Payloads
  <2> QED BY <2>1, <2>2
<1>3. LimitTypeOK
  BY <1>1, <1>2, ListsOfArms DEF LimitInit, LimitTypeOK, NoCall, NothingSampled, Resting
<1>4. CallBelongs /\ OwedIsCaptured /\ FeedIsTrue /\ BaselineIsRounded
  BY <1>1, <1>2, ListsOfArms DEF LimitInit, CallBelongs, OwedIsCaptured, FeedIsTrue, BaselineIsRounded,
       NoCall, NothingSampled, Resting, HasLimits, HasPl4, LimitsSeen, Pl4Seen, Arm
<1>5. LimitsRest /\ ExecIsUndone /\ ConfirmedIsBack
  BY <1>1 DEF LimitInit, LimitsRest, ExecIsUndone, ConfirmedIsBack, Resting
<1> QED BY <1>3, <1>4, <1>5 DEF LimitInv

LEMMA WhoWrites ==
  ASSUME LimitInv
  PROVE  /\ doing.what = "exec" => hpCall.to \in {"gpu", "limits"}
         /\ doing.arms # <<>> => Arm \in {"gpu", "limits"} /\ Arm \in ToSet(doing.arms)
         /\ doing.what = "writes" => hpCall.to \in {"gpu", "limits"}
<1>1. doing.arms \in ArmLists /\ doing.domain \in {"gpu", "limits"}
  BY DEF LimitInv, LimitTypeOK
<1>2. doing.arms # <<>> => Arm \in {"gpu", "limits"} /\ Arm \in ToSet(doing.arms)
  BY <1>1, ListsOfArms DEF Arm
<1> QED BY <1>1, <1>2 DEF LimitInv, CallBelongs

LEMMA SamplesKeepLimits ==
  ASSUME LimitInv, SamplesLimits \/ SamplesPl4
  PROVE  LimitInv'
<1>1. /\ UNCHANGED <<firmware, hpCall, owed, doing, before, doubted>> /\ hpCall = NoCall
      /\ \/ feed' = [feed EXCEPT !.pl1 = firmware.limits.pl1, !.pl2 = firmware.limits.pl2,
                                 !.after = TRUE]
         \/ feed' = [feed EXCEPT !.pl4 = firmware.limits.pl4, !.after4 = TRUE]
  BY DEF SamplesLimits, SamplesPl4, hpVars
<1>2. feed \in Feeds
      /\ firmware.limits \in Registers
  BY DEF LimitInv, LimitTypeOK
<1>3. feed' \in Feeds
  <2>1. firmware.limits.pl1 \in Int /\ firmware.limits.pl2 \in Int /\ firmware.limits.pl4 \in Int
    BY <1>2 DEF Registers
  <2>2. CASE feed' = [feed EXCEPT !.pl1 = firmware.limits.pl1, !.pl2 = firmware.limits.pl2,
                                  !.after = TRUE]
    BY <1>2, <2>1, <2>2
  <2>3. CASE feed' = [feed EXCEPT !.pl4 = firmware.limits.pl4, !.after4 = TRUE]
    BY <1>2, <2>1, <2>3
  <2> QED BY <1>1, <2>2, <2>3
<1>4. LimitTypeOK'
  BY <1>1, <1>3 DEF LimitInv, LimitTypeOK
<1>5. doing.what # "exec" /\ doing.what # "writes"
  BY <1>1, WhoWrites DEF LimitInv, NoCall
<1>6. FeedIsTrue'
  BY <1>1, <1>2, <1>5 DEF LimitInv, FeedIsTrue, LimitsSeen, Pl4Seen, HasLimits, HasPl4
<1>7. CallBelongs' /\ OwedIsCaptured' /\ BaselineIsRounded' /\ LimitsRest' /\ ExecIsUndone'
      /\ ConfirmedIsBack'
  BY ZenonT(60), <1>1
     DEF LimitInv, CallBelongs, OwedIsCaptured, BaselineIsRounded, LimitsRest, ExecIsUndone,
       ConfirmedIsBack, GivenBack, Arm
<1> QED BY <1>4, <1>6, <1>7 DEF LimitInv

\* What one attempt of a write does to the firmware, and what it leaves alone.
LEMMA AttemptHits ==
  ASSUME LimitInv, Attempt
  PROVE  /\ hpCall'.to = hpCall.to /\ hpCall'.bytes = hpCall.bytes /\ hpCall.to \in {"gpu", "limits"}
         /\ hpCall' \in LimitCalls
         /\ \/ firmware' = firmware /\ (hpCall.landed => hpCall'.landed)
            \/ firmware' = Effect(hpCall.to, hpCall.bytes) /\ hpCall'.landed
<1>1. hpCall \in LimitCalls
  BY DEF LimitInv, LimitTypeOK
<1>2. InCall
  BY DEF Attempt, AttemptAccepted, AttemptIgnored, AttemptOfWrongShape, AttemptRejected, AttemptFails
<1>3. hpCall.to \in {"gpu", "limits"}
  BY <1>1, <1>2 DEF InCall
<1>4. ASSUME NEW n \in Int, NEW e \in {"accepted", "rejected", "unknown"}, NEW b \in BOOLEAN,
             hpCall' = [hpCall EXCEPT !.left = n, !.end = e, !.landed = @ \/ b]
      PROVE  /\ hpCall'.to = hpCall.to /\ hpCall'.bytes = hpCall.bytes
             /\ hpCall' \in LimitCalls
             /\ hpCall'.landed = (hpCall.landed \/ b)
  BY <1>1, <1>4
<1>5. hpCall.left - 1 \in Int
  BY <1>1
<1>6. CASE AttemptAccepted
  <2>1. hpCall' = [hpCall EXCEPT !.left = 0, !.end = "accepted", !.landed = @ \/ TRUE]
    BY <1>6 DEF AttemptAccepted, Ends
  <2>2. 0 \in Int /\ TRUE \in BOOLEAN /\ "accepted" \in {"accepted", "rejected", "unknown"}
    BY <1>5
  <2>3. firmware' = Effect(hpCall.to, hpCall.bytes)
    BY <1>6 DEF AttemptAccepted
  <2> QED BY <1>3, <1>4, <2>1, <2>2, <2>3, Zenon
<1>7. CASE AttemptIgnored
  <2>1. hpCall' = [hpCall EXCEPT !.left = 0, !.end = "accepted", !.landed = @ \/ FALSE]
    BY <1>7 DEF AttemptIgnored, Ends
  <2>2. 0 \in Int /\ FALSE \in BOOLEAN /\ "accepted" \in {"accepted", "rejected", "unknown"}
    BY <1>5
  <2>3. firmware' = firmware
    BY <1>7 DEF AttemptIgnored
  <2> QED BY <1>3, <1>4, <2>1, <2>2, <2>3, Zenon
<1>8. CASE AttemptOfWrongShape
  <2>1. hpCall' = [hpCall EXCEPT !.left = hpCall.left - 1, !.end = "rejected", !.landed = @ \/ FALSE]
    BY <1>8 DEF AttemptOfWrongShape, TriesNext
  <2>2. hpCall.left - 1 \in Int /\ FALSE \in BOOLEAN /\ "rejected" \in {"accepted", "rejected", "unknown"}
    BY <1>5
  <2>3. firmware' = firmware
    BY <1>8 DEF AttemptOfWrongShape
  <2> QED BY <1>3, <1>4, <2>1, <2>2, <2>3, Zenon
<1>9. CASE AttemptRejected
  <2>1. hpCall' = [hpCall EXCEPT !.left = 0, !.end = "rejected", !.landed = @ \/ FALSE]
    BY <1>9 DEF AttemptRejected, Ends
  <2>2. 0 \in Int /\ FALSE \in BOOLEAN /\ "rejected" \in {"accepted", "rejected", "unknown"}
    BY <1>5
  <2>3. firmware' = firmware
    BY <1>9 DEF AttemptRejected
  <2> QED BY <1>3, <1>4, <2>1, <2>2, <2>3, Zenon
<1>10. ASSUME NEW landed \in BOOLEAN, AttemptFails(landed)
       PROVE  /\ hpCall'.to = hpCall.to /\ hpCall'.bytes = hpCall.bytes
              /\ hpCall' \in LimitCalls
              /\ \/ firmware' = firmware /\ (hpCall.landed => hpCall'.landed)
                 \/ firmware' = Effect(hpCall.to, hpCall.bytes) /\ hpCall'.landed
  <2>1. hpCall' = [hpCall EXCEPT !.left = hpCall.left - 1, !.end = "unknown", !.landed = @ \/ landed]
    BY <1>10 DEF AttemptFails, TriesNext
  <2>2. CASE landed
    BY <1>4, <1>5, <1>10, <2>1, <2>2 DEF AttemptFails
  <2>3. CASE ~landed
    BY <1>4, <1>5, <1>10, <2>1, <2>3 DEF AttemptFails
  <2> QED BY <2>2, <2>3
<1> QED BY <1>3, <1>6, <1>7, <1>8, <1>9, <1>10 DEF Attempt

LEMMA AttemptKeepsLimits ==
  ASSUME LimitInv, Attempt, UNCHANGED <<feed, owed, doing, before, doubted>>
  PROVE  LimitInv'
<1>1. /\ hpCall'.to = hpCall.to /\ hpCall'.bytes = hpCall.bytes /\ hpCall.to \in {"gpu", "limits"}
      /\ hpCall' \in LimitCalls
  BY AttemptHits
<1>2. /\ firmware \in Firmwares
      /\ hpCall.bytes \in Payloads
      /\ owed.baseline \in {NoValue} \cup Baselines
  BY <1>1 DEF LimitInv, LimitTypeOK
<1>3. hpCall.to = "limits" => owed.baseline # NoValue /\ before.limits \in Registers /\ "limits" \in owed.dirty
  <2>1. hpCall.to = "limits" => "limits" \in owed.dirty
    BY WhoWrites DEF LimitInv, CallBelongs, OwedIsCaptured
  <2> QED BY <2>1 DEF LimitInv, OwedIsCaptured
<1>4. /\ firmware' \in Firmwares
      /\ hpCall.to = "gpu" => firmware'.limits = firmware.limits
      /\ hpCall.to = "limits" => firmware'.gpu = firmware.gpu
      /\ owed.baseline # NoValue =>
           /\ NeverNear255(owed.baseline.pl1, firmware'.limits.pl1, before.limits.pl1)
           /\ NeverNear255(owed.baseline.pl2, firmware'.limits.pl2, before.limits.pl2)
           /\ NeverNear255(owed.baseline.pl4, firmware'.limits.pl4, before.limits.pl4)
  <2>0. owed.baseline # NoValue =>
          /\ NeverNear255(owed.baseline.pl1, firmware.limits.pl1, before.limits.pl1)
          /\ NeverNear255(owed.baseline.pl2, firmware.limits.pl2, before.limits.pl2)
          /\ NeverNear255(owed.baseline.pl4, firmware.limits.pl4, before.limits.pl4)
    BY DEF LimitInv, BaselineIsRounded
  <2>1. CASE firmware' = firmware
    BY <1>2, <2>0, <2>1
  <2>2. CASE firmware' = Effect(hpCall.to, hpCall.bytes) /\ hpCall.to = "gpu"
    <3>1. firmware' = [firmware EXCEPT !.gpu = hpCall.bytes]
      BY <2>2 DEF Effect
    <3> QED BY <1>2, <2>0, <2>2, <3>1
  <2>3. CASE firmware' = Effect(hpCall.to, hpCall.bytes) /\ hpCall.to = "limits"
    <3> DEFINE one == Register(firmware.limits.pl1, firmware.factory.pl1, hpCall.bytes[2])
               two == Register(firmware.limits.pl2, firmware.factory.pl2, hpCall.bytes[1])
               four == Register(firmware.limits.pl4, firmware.factory.pl4, hpCall.bytes[3])
    <3>1. firmware' = [firmware EXCEPT !.limits = [pl1 |-> one, pl2 |-> two, pl4 |-> four]]
      BY <2>3 DEF Effect
    <3>2. /\ firmware.limits.pl1 \in Nat /\ firmware.limits.pl2 \in Nat /\ firmware.limits.pl4 \in Nat
          /\ firmware.factory.pl1 \in Nat /\ firmware.factory.pl2 \in Nat /\ firmware.factory.pl4 \in Nat
          /\ before.limits.pl1 \in Nat /\ before.limits.pl2 \in Nat /\ before.limits.pl4 \in Nat
          /\ owed.baseline.pl1 \in 0..255 /\ owed.baseline.pl2 \in 0..255 /\ owed.baseline.pl4 \in 0..255
          /\ hpCall.bytes[1] \in Int /\ hpCall.bytes[2] \in Int /\ hpCall.bytes[3] \in Int
      BY <1>2, <1>3, <2>3 DEF Registers, Payloads
    <3>3. /\ SafeByte(hpCall.bytes[2], owed.baseline.pl1) /\ SafeByte(hpCall.bytes[1], owed.baseline.pl2)
          /\ SafeByte(hpCall.bytes[3], owed.baseline.pl4)
      BY <1>3, <2>3 DEF LimitInv, BaselineIsRounded
    <3>4. /\ one \in Nat /\ NeverNear255(owed.baseline.pl1, one, before.limits.pl1)
          /\ two \in Nat /\ NeverNear255(owed.baseline.pl2, two, before.limits.pl2)
          /\ four \in Nat /\ NeverNear255(owed.baseline.pl4, four, before.limits.pl4)
      <4>1. owed.baseline # NoValue
        BY <1>3, <2>3
      <4>2. one \in Nat /\ NeverNear255(owed.baseline.pl1, one, before.limits.pl1)
        BY <2>0, <3>2, <3>3, <4>1, RegisterStays
      <4>3. two \in Nat /\ NeverNear255(owed.baseline.pl2, two, before.limits.pl2)
        BY <2>0, <3>2, <3>3, <4>1, RegisterStays
      <4>4. four \in Nat /\ NeverNear255(owed.baseline.pl4, four, before.limits.pl4)
        BY <2>0, <3>2, <3>3, <4>1, RegisterStays
      <4> QED BY <4>2, <4>3, <4>4
    <3> HIDE DEF one, two, four
    <3>5. firmware'.limits = [pl1 |-> one, pl2 |-> two, pl4 |-> four] /\ firmware'.gpu = firmware.gpu
          /\ firmware' \in Firmwares
      BY <1>2, <3>1, <3>4 DEF Registers
    <3> QED BY <2>3, <3>4, <3>5
  <2> QED BY <1>1, <2>1, <2>2, <2>3, AttemptHits
<1>5. LimitTypeOK'
  BY <1>1, <1>2, <1>4 DEF LimitInv, LimitTypeOK
<1>6. CallBelongs' /\ OwedIsCaptured'
  BY <1>1 DEF LimitInv, CallBelongs, OwedIsCaptured, Arm
<1>7. FeedIsTrue'
  <2>1. CASE hpCall.to = "gpu"
    BY <1>4, <2>1 DEF LimitInv, FeedIsTrue, LimitsSeen, Pl4Seen, HasLimits, HasPl4, Arm
  <2>2. CASE hpCall.to = "limits"
    <3>1. \/ doing.what = "exec" /\ doing.domain = "limits"
          \/ doing.what = "writes" /\ Arm = "limits"
      BY <2>2 DEF LimitInv, CallBelongs
    <3> QED BY <1>3, <2>2, <3>1 DEF LimitInv, FeedIsTrue, Arm
  <2> QED BY <1>1, <2>1, <2>2
<1>8. BaselineIsRounded'
  BY <1>1, <1>4 DEF LimitInv, BaselineIsRounded
<1>9. LimitsRest'
  BY <1>1, <1>3, <1>4 DEF LimitInv, LimitsRest, GivenBack
<1>10. ExecIsUndone'
  <2>1. ~hpCall'.landed => firmware' = firmware /\ ~hpCall.landed
    BY AttemptHits DEF LimitInv, LimitTypeOK
  <2> QED BY <2>1 DEF LimitInv, ExecIsUndone, GivenBack
<1>11. ConfirmedIsBack'
  <2>1. \A d \in doing.ok : d \in {"gpu", "limits"} /\ d # hpCall.to
    BY <1>1, WhoWrites DEF LimitInv, LimitTypeOK, CallBelongs, ConfirmedIsBack
  <2>2. \A d \in doing.ok : GivenBack(d)'
    BY <1>1, <1>4, <2>1 DEF LimitInv, ConfirmedIsBack, GivenBack
  <2> QED BY <2>2 DEF LimitInv, ConfirmedIsBack
<1> QED BY <1>5, <1>6, <1>7, <1>8, <1>9, <1>10, <1>11 DEF LimitInv

LEMMA DriftKeepsLimits ==
  ASSUME LimitInv, DstateDrifts
  PROVE  LimitInv'
<1>1. /\ firmware \in Firmwares
      /\ firmware' = [firmware EXCEPT !.gpu[3] = 3 - @]
      /\ UNCHANGED <<hpCall, misses, feed, owed, doing, before, doubted>>
  BY DEF DstateDrifts, LimitInv, LimitTypeOK
<1> DEFINE drifted == [firmware.gpu EXCEPT ![3] = 3 - @]
<1>2. drifted \in Payloads /\ drifted[1] = firmware.gpu[1] /\ drifted[2] = firmware.gpu[2]
      /\ drifted[4] = firmware.gpu[4]
  BY <1>1 DEF Payloads
<1>3. firmware' = [firmware EXCEPT !.gpu = drifted]
  BY <1>1
<1> HIDE DEF drifted
<1>4. /\ firmware' \in Firmwares
      /\ firmware'.limits = firmware.limits /\ firmware'.gpu = drifted
  BY <1>1, <1>2, <1>3
<1>5. \A p : SamePolicy(DecodeGpu(drifted), p) <=> SamePolicy(DecodeGpu(firmware.gpu), p)
  <2> DEFINE x == DecodeGpu(drifted)
             y == DecodeGpu(firmware.gpu)
  <2>1. x = [ctgp |-> firmware.gpu[1] # 0, ppab |-> firmware.gpu[2] # 0,
             dstate |-> drifted[3], slowdown |-> firmware.gpu[4]]
    BY <1>2 DEF DecodeGpu
  <2>2. y = [ctgp |-> firmware.gpu[1] # 0, ppab |-> firmware.gpu[2] # 0,
             dstate |-> firmware.gpu[3], slowdown |-> firmware.gpu[4]]
    BY DEF DecodeGpu
  <2>3. [x EXCEPT !.dstate = 0] = [y EXCEPT !.dstate = 0]
    BY <2>1, <2>2
  <2> QED BY <2>3 DEF SamePolicy
<1>6. \A d \in {"gpu", "limits"} : GivenBack(d)' <=> GivenBack(d)
  BY <1>1, <1>4, <1>5 DEF GivenBack
<1>7. LimitTypeOK'
  BY <1>1, <1>4 DEF LimitInv, LimitTypeOK
<1>8. CallBelongs' /\ OwedIsCaptured' /\ FeedIsTrue' /\ BaselineIsRounded'
  BY <1>1, <1>4 DEF LimitInv, CallBelongs, OwedIsCaptured, FeedIsTrue, BaselineIsRounded, LimitsSeen,
       Pl4Seen, HasLimits, HasPl4, Arm
<1>9. LimitsRest' /\ ExecIsUndone' /\ ConfirmedIsBack'
  <2>1. doing.domain \in {"gpu", "limits"} /\ \A d \in doing.ok : d \in {"gpu", "limits"}
    BY DEF LimitInv, LimitTypeOK
  <2> QED BY <1>1, <1>6, <2>1 DEF LimitInv, LimitsRest, ExecIsUndone, ConfirmedIsBack
<1> QED BY <1>7, <1>8, <1>9 DEF LimitInv

LEMMA CapturedLimits ==
  ASSUME LimitInv, NEW l, LimitsAllowed(l)
  PROVE  /\ Baseline \in Baselines
         /\ owed.baseline # NoValue => Baseline = owed.baseline
         /\ owed.baseline = NoValue =>
              /\ firmware.limits \in Registers
              /\ Captured(Baseline.pl1, firmware.limits.pl1)
              /\ Captured(Baseline.pl2, firmware.limits.pl2)
              /\ Baseline.pl4 # 0 => Captured(Baseline.pl4, firmware.limits.pl4)
<1>1. /\ firmware.limits \in Registers
      /\ owed.baseline \in {NoValue} \cup Baselines
  BY DEF LimitInv, LimitTypeOK
<1>2. CASE owed.baseline # NoValue
  BY <1>1, <1>2 DEF Baseline
<1>3. CASE owed.baseline = NoValue
  <2>1. feed.pl1 = firmware.limits.pl1 /\ feed.pl2 = firmware.limits.pl2
        /\ (HasPl4 => feed.pl4 = firmware.limits.pl4)
    BY <1>3 DEF LimitInv, FeedIsTrue, LimitsAllowed, LimitsSeen, Pl4Seen
  <2>2. Baseline = [pl1 |-> RoundedWatts(feed.pl1), pl2 |-> RoundedWatts(feed.pl2),
                    pl4 |-> IF HasPl4 THEN RoundedWatts(feed.pl4) ELSE 0]
    BY <1>3 DEF Baseline
  <2>3. /\ RoundedWatts(feed.pl1) \in 0..255 /\ RoundedWatts(feed.pl2) \in 0..255
        /\ HasPl4 => RoundedWatts(feed.pl4) \in 0..255
    BY <1>1, <2>1, Rounding DEF Registers
  <2> QED BY <1>1, <1>3, <2>1, <2>2, <2>3 DEF Captured
<1> QED BY <1>2, <1>3

\* Both captures of the limits: the write that follows, or the save that fails.
LEMMA CaptureKeepsLimits ==
  ASSUME LimitInv, NEW l, LimitsAllowed(l), Rests, CapturesLimits, owed'.baseline = Baseline,
         owed'.startup = owed.startup, UNCHANGED <<firmware, doubted>>
  PROVE  /\ before' \in Held
         /\ before'.limits \in Registers /\ owed'.startup = before'.gpu
         /\ owed'.baseline \in Baselines /\ owed'.baseline # NoValue
         /\ Captured(owed'.baseline.pl1, before'.limits.pl1)
         /\ Captured(owed'.baseline.pl2, before'.limits.pl2)
         /\ owed'.baseline.pl4 # 0 => Captured(owed'.baseline.pl4, before'.limits.pl4)
         /\ NeverNear255(owed'.baseline.pl1, firmware.limits.pl1, before'.limits.pl1)
         /\ NeverNear255(owed'.baseline.pl2, firmware.limits.pl2, before'.limits.pl2)
         /\ NeverNear255(owed'.baseline.pl4, firmware.limits.pl4, before'.limits.pl4)
         /\ "limits" \notin owed.dirty => "limits" \in doubted \/ GivenBack("limits")'
         /\ owed.baseline # NoValue => owed'.baseline = owed.baseline /\ before' = before
<1>1. /\ before \in Held
      /\ firmware.limits \in Registers /\ owed.startup = before.gpu
  BY DEF LimitInv, LimitTypeOK, OwedIsCaptured
<1>2. /\ owed'.baseline \in Baselines /\ owed'.baseline # NoValue
      /\ owed.baseline # NoValue => owed'.baseline = owed.baseline
  BY CapturedLimits, SomeBaseline
<1>3. CASE owed.baseline # NoValue
  <2>1. before' = before
    BY <1>1, <1>3 DEF CapturesLimits
  <2>2. before'.limits \in Registers
    BY <1>3, <2>1 DEF LimitInv, OwedIsCaptured
  <2>3. "limits" \notin owed.dirty => "limits" \in doubted \/ GivenBack("limits")'
    BY <1>2, <1>3, <2>1 DEF LimitInv, LimitsRest, GivenBack
  <2> QED BY <1>1, <1>2, <1>3, <2>1, <2>2, <2>3 DEF LimitInv, BaselineIsRounded
<1>4. CASE owed.baseline = NoValue
  <2>1. before' = [before EXCEPT !.limits = firmware.limits]
    BY <1>4 DEF CapturesLimits
  <2>2. before'.limits = firmware.limits /\ before'.gpu = before.gpu
        /\ before' \in Held
    BY <1>1, <2>1
  <2>3. GivenBack("limits")'
    <3> DEFINE F == {"pl1", "pl2"} \cup IF owed'.baseline.pl4 # 0 THEN {"pl4"} ELSE {}
    <3>1. F \in SUBSET {"pl1", "pl2", "pl4"}
      OBVIOUS
    <3>2. SameLimits(firmware.limits, before'.limits, F)
      BY <1>1, <2>2, <3>1, SameAsItself
    <3> QED BY <3>2 DEF GivenBack
  <2>4. /\ Captured(owed'.baseline.pl1, firmware.limits.pl1)
        /\ Captured(owed'.baseline.pl2, firmware.limits.pl2)
        /\ owed'.baseline.pl4 # 0 => Captured(owed'.baseline.pl4, firmware.limits.pl4)
    BY <1>4, CapturedLimits
  <2> QED BY <1>1, <1>2, <1>4, <2>2, <2>3, <2>4 DEF NeverNear255
<1> QED BY <1>3, <1>4

LEMMA ExecIsTyped ==
  ASSUME NEW d \in {"gpu", "limits"}, Executes(d)
  PROVE  /\ doing'.what = "exec" /\ doing'.domain = d /\ (doing'.was <=> d \in owed.dirty)
         /\ doing'.ok = {} /\ doing'.arms = <<>>
         /\ doing' \in Doings
<1> DEFINE b == d \in owed.dirty
<1>1. doing' = [what |-> "exec", domain |-> d, was |-> b, polls |-> 0, ok |-> {}, arms |-> <<>>]
  BY DEF Executes, Resting
<1>2. b \in BOOLEAN
  OBVIOUS
<1> HIDE DEF b
<1>3. doing' \in Doings
  BY <1>1, <1>2, ListsOfArms
<1>4. doing'.was <=> b
  BY <1>1, <1>2
<1> QED BY <1>1, <1>3, <1>4 DEF b

LEMMA SetLimitsKeepsLimits ==
  ASSUME LimitInv, NEW l, SetPowerLimits(l)
  PROVE  LimitInv'
<1>1. /\ Rests /\ LimitsAllowed(l) /\ CapturesLimits /\ UNCHANGED <<firmware, doubted>>
      /\ owed' = [owed EXCEPT !.baseline = Baseline, !.dirty = @ \cup {"limits"}]
      /\ Executes("limits")
      /\ hpCall' = [to |-> "limits", bytes |-> EncodeLimits(l), left |-> Shapes, end |-> "none",
                    landed |-> FALSE]
      /\ feed' = [feed EXCEPT !.after = FALSE, !.after4 = FALSE]
  BY DEF SetPowerLimits, StartsCall, SamplesAreOld
<1>2. /\ l.pl1 \in 1..MostWatts /\ l.pl2 \in 1..MostWatts /\ l.pl4 \in {0} \cup 1..MostWatts
      /\ l.pl1 \in 0..255 /\ l.pl2 \in 0..255 /\ l.pl4 \in 0..255
  BY SMTT(60), <1>1 DEF LimitsAllowed, MostWatts
<1>3. /\ EncodeLimits(l) \in Payloads
      /\ EncodeLimits(l)[2] \in 1..MostWatts /\ EncodeLimits(l)[1] \in 1..MostWatts
      /\ EncodeLimits(l)[3] \in {NoChange} \cup 1..MostWatts
  BY ZenonT(60), <1>2, EncodedWatts
<1>4. /\ owed \in Obligations
      /\ feed \in Feeds
      /\ doing.ok = {} /\ doing.arms = <<>>
  BY <1>1 DEF LimitInv, LimitTypeOK, CallBelongs, Rests
<1>5. owed'.startup = owed.startup /\ owed'.dirty = owed.dirty \cup {"limits"} /\ owed'.baseline = Baseline
  BY <1>1, <1>4
<1>6. /\ before' \in Held
      /\ before'.limits \in Registers /\ owed'.startup = before'.gpu
      /\ owed'.baseline \in Baselines /\ owed'.baseline # NoValue
      /\ Captured(owed'.baseline.pl1, before'.limits.pl1)
      /\ Captured(owed'.baseline.pl2, before'.limits.pl2)
      /\ owed'.baseline.pl4 # 0 => Captured(owed'.baseline.pl4, before'.limits.pl4)
      /\ NeverNear255(owed'.baseline.pl1, firmware.limits.pl1, before'.limits.pl1)
      /\ NeverNear255(owed'.baseline.pl2, firmware.limits.pl2, before'.limits.pl2)
      /\ NeverNear255(owed'.baseline.pl4, firmware.limits.pl4, before'.limits.pl4)
      /\ "limits" \notin owed.dirty => "limits" \in doubted \/ GivenBack("limits")'
  BY <1>1, <1>5, CaptureKeepsLimits
<1>7. /\ doing'.what = "exec" /\ doing'.domain = "limits" /\ (doing'.was <=> "limits" \in owed.dirty)
      /\ doing'.ok = {} /\ doing'.arms = <<>>
      /\ doing' \in Doings
  BY <1>1, ExecIsTyped
<1>8. /\ hpCall'.to = "limits" /\ hpCall'.bytes = EncodeLimits(l) /\ ~hpCall'.landed
      /\ hpCall' \in LimitCalls
  BY <1>1, <1>3 DEF Shapes
<1>9. /\ feed' \in Feeds
      /\ ~feed'.after /\ ~feed'.after4
  BY <1>1, <1>4
<1>10. owed' \in Obligations
  BY ZenonT(60), <1>1, <1>4, <1>5, <1>6
<1>11. LimitTypeOK'
  BY SMTT(120), <1>1, <1>3, <1>6, <1>7, <1>8, <1>9, <1>10 DEF LimitInv, LimitTypeOK
<1>12. CallBelongs'
  BY <1>5, <1>7, <1>8 DEF CallBelongs
<1>13. OwedIsCaptured'
  BY <1>5, <1>6, <1>7, ListsOfArms DEF LimitInv, OwedIsCaptured
<1>14. FeedIsTrue'
  BY <1>6, <1>7, <1>9 DEF FeedIsTrue
<1>15. BaselineIsRounded'
  BY <1>1, <1>3, <1>6, <1>8 DEF BaselineIsRounded, SafeByte
<1>16. LimitsRest' /\ ExecIsUndone' /\ ConfirmedIsBack'
  BY <1>1, <1>5, <1>6, <1>7 DEF LimitsRest, ExecIsUndone, ConfirmedIsBack
<1> QED BY <1>11, <1>12, <1>13, <1>14, <1>15, <1>16 DEF LimitInv

LEMMA UnsavedKeepsLimits ==
  ASSUME LimitInv, NEW l, LimitsUnsaved(l)
  PROVE  LimitInv'
<1>1. /\ Rests /\ LimitsAllowed(l) /\ CapturesLimits
      /\ UNCHANGED <<firmware, hpCall, feed, doing, doubted>>
      /\ owed' = [owed EXCEPT !.baseline = Baseline]
  BY DEF LimitsUnsaved, hpVars
<1>2. /\ owed \in Obligations
      /\ doing.ok = {} /\ doing.what = "nothing"
      /\ hpCall.to = "none"
  BY <1>1 DEF LimitInv, LimitTypeOK, CallBelongs, Rests
<1>3. owed'.startup = owed.startup /\ owed'.dirty = owed.dirty /\ owed'.baseline = Baseline
  BY <1>1, <1>2
<1>4. /\ before' \in Held
      /\ before'.limits \in Registers /\ owed'.startup = before'.gpu
      /\ owed'.baseline \in Baselines /\ owed'.baseline # NoValue
      /\ Captured(owed'.baseline.pl1, before'.limits.pl1)
      /\ Captured(owed'.baseline.pl2, before'.limits.pl2)
      /\ owed'.baseline.pl4 # 0 => Captured(owed'.baseline.pl4, before'.limits.pl4)
      /\ NeverNear255(owed'.baseline.pl1, firmware.limits.pl1, before'.limits.pl1)
      /\ NeverNear255(owed'.baseline.pl2, firmware.limits.pl2, before'.limits.pl2)
      /\ NeverNear255(owed'.baseline.pl4, firmware.limits.pl4, before'.limits.pl4)
      /\ "limits" \notin owed.dirty => "limits" \in doubted \/ GivenBack("limits")'
  BY <1>1, <1>3, CaptureKeepsLimits
<1>5. owed' \in Obligations
  BY SMTT(60), <1>1, <1>2, <1>3, <1>4
<1>6. LimitTypeOK'
  <2>1. UNCHANGED firmware /\ UNCHANGED hpCall /\ UNCHANGED feed /\ UNCHANGED doing /\ UNCHANGED doubted
    BY <1>1
  <2> QED BY <1>4, <1>5, <2>1 DEF LimitInv, LimitTypeOK
<1>7. CallBelongs'
  BY <1>1, <1>2, <1>3 DEF LimitInv, CallBelongs, Arm
<1>8. OwedIsCaptured'
  BY <1>1, <1>3, <1>4 DEF LimitInv, OwedIsCaptured
<1>9. FeedIsTrue'
  BY <1>1, <1>4 DEF LimitInv, FeedIsTrue, LimitsSeen, Pl4Seen, Arm
<1>10. BaselineIsRounded'
  BY <1>1, <1>2, <1>4 DEF BaselineIsRounded
<1>11. LimitsRest' /\ ExecIsUndone' /\ ConfirmedIsBack'
  BY <1>1, <1>2, <1>3, <1>4 DEF LimitsRest, ExecIsUndone, ConfirmedIsBack
<1> QED BY <1>6, <1>7, <1>8, <1>9, <1>10, <1>11 DEF LimitInv

\* What a whole policy or a patch leaves to be restored.
LEMMA CapturedPolicy ==
  ASSUME LimitInv, NEW patch, GpuAllowed(patch), CapturesGpu
  PROVE  /\ Startup \in PolicyValues /\ before'.gpu = Startup /\ before'.limits = before.limits
         /\ before' \in Held
         /\ "gpu" \notin owed.dirty => SamePolicy(DecodeGpu(firmware.gpu), before'.gpu)
<1>1. /\ before \in Held
      /\ firmware.gpu \in Payloads
  BY DEF LimitInv, LimitTypeOK
<1>2. DecodeGpu(firmware.gpu) \in PolicyValues
  BY <1>1, GateIsTyped
<1>3. CASE "gpu" \in owed.dirty
  BY <1>1, <1>3 DEF LimitInv, OwedIsCaptured, CapturesGpu, Startup
<1>4. CASE "gpu" \notin owed.dirty
  BY <1>1, <1>2, <1>4 DEF CapturesGpu, Startup, SamePolicy
<1> QED BY <1>3, <1>4

LEMMA SetPolicyKeepsLimits ==
  ASSUME LimitInv, NEW patch, SetGpuPolicy(patch)
  PROVE  LimitInv'
<1>1. /\ Rests /\ GpuAllowed(patch) /\ CapturesGpu /\ UNCHANGED <<firmware, feed, doubted>>
      /\ owed' = [owed EXCEPT !.startup = Startup, !.dirty = @ \cup {"gpu"}]
      /\ Executes("gpu")
      /\ hpCall' = [to |-> "gpu", bytes |-> EncodeGpu(Patched(patch)), left |-> Shapes, end |-> "none",
                    landed |-> FALSE]
  BY DEF SetGpuPolicy, StartsCall
<1>2. /\ owed \in Obligations
      /\ doing.ok = {} /\ doing.arms = <<>> /\ doing.what = "nothing" /\ firmware.gpu \in Payloads
  BY <1>1 DEF LimitInv, LimitTypeOK, CallBelongs, Rests
<1>3. /\ Startup \in PolicyValues /\ before'.gpu = Startup /\ before'.limits = before.limits
      /\ before' \in Held
      /\ "gpu" \notin owed.dirty => SamePolicy(DecodeGpu(firmware.gpu), before'.gpu)
  BY <1>1, CapturedPolicy
<1>4. EncodeGpu(Patched(patch)) \in Payloads
  BY <1>1, <1>2, GateIsTyped
<1>5. owed'.startup = Startup /\ owed'.dirty = owed.dirty \cup {"gpu"} /\ owed'.baseline = owed.baseline
      /\ owed' \in Obligations
  <2>1. owed'.startup = Startup /\ owed'.dirty = owed.dirty \cup {"gpu"}
        /\ owed'.baseline = owed.baseline
    BY <1>1, <1>2
  <2>2. owed.dirty \cup {"gpu"} \in SUBSET {"gpu", "limits"} /\ Startup \in {NoValue} \cup PolicyValues
    BY <1>2, <1>3
  <2>3. owed' = [dirty |-> owed.dirty \cup {"gpu"}, startup |-> Startup, baseline |-> owed.baseline]
    BY <1>1, <1>2
  <2> QED BY <1>2, <2>1, <2>2, <2>3
<1>6. /\ doing'.what = "exec" /\ doing'.domain = "gpu" /\ (doing'.was <=> "gpu" \in owed.dirty)
      /\ doing'.ok = {} /\ doing'.arms = <<>>
      /\ doing' \in Doings
  BY <1>1, ExecIsTyped
<1>7. /\ hpCall'.to = "gpu" /\ ~hpCall'.landed /\ hpCall'.bytes \in Payloads
      /\ hpCall' \in LimitCalls
  BY <1>1, <1>4 DEF Shapes
<1>8. LimitTypeOK'
  <2>1. UNCHANGED firmware /\ UNCHANGED feed /\ UNCHANGED doubted
    BY <1>1
  <2> QED BY <1>3, <1>5, <1>6, <1>7, <2>1 DEF LimitInv, LimitTypeOK
<1>9. CallBelongs'
  BY <1>5, <1>6, <1>7 DEF CallBelongs
<1>10. OwedIsCaptured'
  BY <1>3, <1>5, <1>6, ListsOfArms DEF LimitInv, OwedIsCaptured
<1>11. FeedIsTrue'
  <2>1. ~(doing.what = "writes" /\ Arm = "limits")
    BY <1>2
  <2> QED BY <1>1, <1>5, <1>6, <2>1 DEF LimitInv, FeedIsTrue, LimitsSeen, Pl4Seen, HasLimits, HasPl4
<1>12. BaselineIsRounded'
  BY <1>1, <1>3, <1>5, <1>7 DEF LimitInv, BaselineIsRounded
<1>13. LimitsRest' /\ ConfirmedIsBack'
  BY <1>1, <1>3, <1>5, <1>6 DEF LimitInv, LimitsRest, ConfirmedIsBack, GivenBack
<1>14. ExecIsUndone'
  BY <1>1, <1>3, <1>6 DEF ExecIsUndone, GivenBack
<1> QED BY <1>8, <1>9, <1>10, <1>11, <1>12, <1>13, <1>14 DEF LimitInv

LEMMA UnsavedPolicyKeepsLimits ==
  ASSUME LimitInv, NEW patch, GpuUnsaved(patch)
  PROVE  LimitInv'
<1>1. /\ Rests /\ GpuAllowed(patch) /\ CapturesGpu
      /\ UNCHANGED <<firmware, hpCall, feed, doing, doubted>>
      /\ owed' = [owed EXCEPT !.startup = Startup]
  BY DEF GpuUnsaved, hpVars
<1>2. /\ owed \in Obligations
      /\ doing.ok = {} /\ doing.what = "nothing"
  BY <1>1 DEF LimitInv, LimitTypeOK, CallBelongs, Rests
<1>3. /\ Startup \in PolicyValues /\ before'.gpu = Startup /\ before'.limits = before.limits
      /\ before' \in Held
  BY <1>1, CapturedPolicy
<1>4. owed'.startup = Startup /\ owed'.dirty = owed.dirty /\ owed'.baseline = owed.baseline
      /\ owed' \in Obligations
  BY <1>1, <1>2, <1>3
<1>5. LimitTypeOK'
  <2>1. UNCHANGED firmware /\ UNCHANGED hpCall /\ UNCHANGED feed /\ UNCHANGED doing /\ UNCHANGED doubted
    BY <1>1
  <2> QED BY <1>3, <1>4, <2>1 DEF LimitInv, LimitTypeOK
<1>6. CallBelongs' /\ FeedIsTrue'
  BY <1>1, <1>2, <1>4 DEF LimitInv, CallBelongs, FeedIsTrue, LimitsSeen, Pl4Seen, HasLimits, HasPl4, Arm
<1>7. OwedIsCaptured'
  BY <1>1, <1>3, <1>4 DEF LimitInv, OwedIsCaptured
<1>8. BaselineIsRounded'
  BY <1>1, <1>3, <1>4 DEF LimitInv, BaselineIsRounded
<1>9. LimitsRest' /\ ExecIsUndone' /\ ConfirmedIsBack'
  BY <1>1, <1>2, <1>3, <1>4 DEF LimitInv, LimitsRest, ExecIsUndone, ConfirmedIsBack, GivenBack
<1> QED BY <1>5, <1>6, <1>7, <1>8, <1>9 DEF LimitInv

\* The end of a write: the obligation stays, or what it was taken on for never happened.
LEMMA ExecEndsKeepsLimits ==
  ASSUME LimitInv, ExecEnds
  PROVE  /\ LimitInv'
         /\ \A d \in owed.dirty \ owed'.dirty : d \in doubted' \/ GivenBack(d)
<1>1. /\ doing.what = "exec" /\ hpCall.to = doing.domain /\ doing.domain \in {"gpu", "limits"}
      /\ owed' = [owed EXCEPT !.dirty = Revokes(doing.domain)]
      /\ doubted' = IF RejectedInPart THEN doubted \cup {doing.domain} ELSE doubted
      /\ doing' = Resting /\ hpCall' = NoCall /\ UNCHANGED <<firmware, misses, feed, before>>
  BY DEF ExecEnds, LimitInv, LimitTypeOK, CallBelongs
<1>2. /\ owed \in Obligations
      /\ doubted \subseteq {"gpu", "limits"} /\ doing.was \in BOOLEAN /\ hpCall.landed \in BOOLEAN
  BY DEF LimitInv, LimitTypeOK
<1>3. /\ owed'.startup = owed.startup /\ owed'.baseline = owed.baseline
      /\ owed'.dirty = Revokes(doing.domain) /\ owed'.dirty \subseteq owed.dirty
      /\ owed' \in Obligations
  BY <1>1, <1>2 DEF Revokes
<1>4. \A d \in owed.dirty \ owed'.dirty : d = doing.domain /\ Rejected /\ ~doing.was
  BY <1>3 DEF Revokes
<1>5. doubted \subseteq doubted' /\ doubted' \subseteq {"gpu", "limits"}
  BY <1>1, <1>2
<1>6. \A d \in owed.dirty \ owed'.dirty : d \in doubted' \/ GivenBack(d)
  BY <1>1, <1>2, <1>4, <1>5 DEF LimitInv, ExecIsUndone, RejectedInPart
<1>7. /\ doing'.what = "nothing" /\ doing'.ok = {} /\ doing'.arms = <<>> /\ hpCall'.to = "none"
      /\ doing' \in Doings
      /\ hpCall' \in LimitCalls
  BY <1>1, ListsOfArms DEF Resting, NoCall
<1>8. LimitTypeOK'
  <2>1. UNCHANGED firmware /\ UNCHANGED feed /\ UNCHANGED before
    BY <1>1
  <2> QED BY <1>3, <1>5, <1>7, <2>1 DEF LimitInv, LimitTypeOK
<1>9. CallBelongs' /\ OwedIsCaptured'
  BY <1>1, <1>3, <1>7, ListsOfArms DEF LimitInv, CallBelongs, OwedIsCaptured
<1>10. FeedIsTrue'
  BY <1>1, <1>3, <1>7 DEF LimitInv, FeedIsTrue, LimitsSeen, Pl4Seen, HasLimits, HasPl4
<1>11. BaselineIsRounded'
  BY <1>1, <1>3, <1>7 DEF LimitInv, BaselineIsRounded
<1>12. LimitsRest'
  <2>1. CASE "limits" \in owed.dirty
    BY <1>1, <1>3, <1>6, <2>1 DEF LimitsRest, GivenBack
  <2>2. CASE "limits" \notin owed.dirty
    BY <1>1, <1>3, <1>5, <2>2 DEF LimitInv, LimitsRest, GivenBack
  <2> QED BY <2>1, <2>2
<1>13. ExecIsUndone' /\ ConfirmedIsBack'
  BY <1>7 DEF ExecIsUndone, ConfirmedIsBack
<1> QED BY <1>6, <1>8, <1>9, <1>10, <1>11, <1>12, <1>13 DEF LimitInv

LEMMA RestoreStartsKeepsLimits ==
  ASSUME LimitInv, RestoreStarts
  PROVE  LimitInv'
<1>1. /\ doing' = [Resting EXCEPT !.what = "arm", !.arms = Arms] /\ doing.what = "nothing"
      /\ UNCHANGED <<firmware, hpCall, feed, owed, before, doubted>>
  BY DEF RestoreStarts, Rests, hpVars
<1>2. LimitTypeOK
  BY DEF LimitInv
<1>3. /\ doing' \in Doings
      /\ doing'.what = "arm" /\ doing'.ok = {} /\ doing'.arms = Arms
  <2>1. doing' = [what |-> "arm", domain |-> "gpu", was |-> FALSE, polls |-> 0, ok |-> {}, arms |-> Arms]
    BY <1>1 DEF Resting
  <2>2. Arms \in ArmLists
    BY <1>2, ArmsAreOwed
  <2> QED BY <2>1, <2>2
<1>4. \A d \in ToSet(Arms) : d \in owed.dirty
  BY <1>2, ArmsAreOwed
<1>5. LimitTypeOK'
  <2>1. UNCHANGED firmware /\ UNCHANGED hpCall /\ UNCHANGED feed /\ UNCHANGED owed /\ UNCHANGED before
        /\ UNCHANGED doubted
    BY <1>1
  <2> QED BY <1>3, <2>1 DEF LimitInv, LimitTypeOK
<1>6. CallBelongs' /\ OwedIsCaptured'
  BY <1>1, <1>3, <1>4 DEF LimitInv, CallBelongs, OwedIsCaptured
<1>7. FeedIsTrue'
  <2>1. doing.what # "writes" /\ doing'.what # "exec"
    BY <1>1, <1>3
  <2> QED BY <1>1, <2>1 DEF LimitInv, FeedIsTrue, LimitsSeen, Pl4Seen, HasLimits, HasPl4
<1>8. BaselineIsRounded' /\ LimitsRest' /\ ExecIsUndone' /\ ConfirmedIsBack'
  BY <1>1, <1>3 DEF LimitInv, BaselineIsRounded, LimitsRest, ExecIsUndone, ConfirmedIsBack, GivenBack
<1> QED BY <1>5, <1>6, <1>7, <1>8 DEF LimitInv

LEMMA RestoreWritesKeepsLimits ==
  ASSUME LimitInv, RestoreWrites
  PROVE  LimitInv'
<1> DEFINE payload == IF Arm = "gpu" THEN EncodeGpu(owed.startup) ELSE EncodeLimits(owed.baseline)
<1>1. /\ doing.what = "arm" /\ doing.arms # <<>> /\ doing' = [doing EXCEPT !.what = "writes"]
      /\ hpCall' = [to |-> Arm, bytes |-> payload, left |-> Shapes, end |-> "none", landed |-> FALSE]
      /\ UNCHANGED <<firmware, feed, owed, before, doubted>>
  BY DEF RestoreWrites, StartsCall
<1>2. /\ doing \in Doings
      /\ owed.baseline \in {NoValue} \cup Baselines
  BY DEF LimitInv, LimitTypeOK
<1>3. /\ Arm \in {"gpu", "limits"} /\ Arm \in owed.dirty
      /\ Arm = "gpu" => owed.startup \in PolicyValues
      /\ Arm = "limits" => owed.baseline # NoValue
  BY <1>1, WhoWrites DEF LimitInv, OwedIsCaptured
<1>4. /\ Arm = "gpu" => payload \in Payloads
      /\ Arm = "limits" => /\ payload \in Payloads
                           /\ SafeByte(payload[2], owed.baseline.pl1)
                           /\ SafeByte(payload[1], owed.baseline.pl2)
                           /\ SafeByte(payload[3], owed.baseline.pl4)
  <2>1. CASE Arm = "gpu"
    BY SMTT(60), <1>3, <2>1, EncodedPolicy
  <2>2. CASE Arm = "limits"
    <3>1. owed.baseline.pl1 \in 0..255 /\ owed.baseline.pl2 \in 0..255 /\ owed.baseline.pl4 \in 0..255
      BY <1>2, <1>3, <2>2
    <3> QED BY ZenonT(60), <2>2, <3>1, EncodedWatts
  <2> QED BY <1>3, <2>1, <2>2
<1> HIDE DEF payload
<1>5. /\ doing' \in Doings
      /\ doing'.what = "writes" /\ doing'.arms = doing.arms /\ doing'.ok = doing.ok
  BY <1>1, <1>2
<1>6. /\ hpCall'.to = Arm /\ hpCall'.bytes = payload /\ payload \in Payloads
      /\ hpCall' \in LimitCalls
  BY <1>1, <1>3, <1>4 DEF Shapes
<1>7. LimitTypeOK'
  <2>1. UNCHANGED firmware /\ UNCHANGED feed /\ UNCHANGED owed /\ UNCHANGED before /\ UNCHANGED doubted
    BY <1>1
  <2> QED BY <1>5, <1>6, <2>1 DEF LimitInv, LimitTypeOK
<1>8. CallBelongs' /\ OwedIsCaptured'
  BY <1>1, <1>3, <1>5, <1>6 DEF LimitInv, CallBelongs, OwedIsCaptured, Arm
<1>9. FeedIsTrue'
  BY <1>1, <1>5 DEF LimitInv, FeedIsTrue, LimitsSeen, Pl4Seen, HasLimits, HasPl4, Arm
<1>10. BaselineIsRounded'
  BY <1>1, <1>4, <1>6 DEF LimitInv, BaselineIsRounded
<1>11. LimitsRest' /\ ExecIsUndone' /\ ConfirmedIsBack'
  BY <1>1, <1>5 DEF LimitInv, LimitsRest, ExecIsUndone, ConfirmedIsBack, GivenBack
<1> QED BY <1>7, <1>8, <1>9, <1>10, <1>11 DEF LimitInv

LEMMA WriteEndsKeepsLimits ==
  ASSUME LimitInv, WriteEnds
  PROVE  LimitInv'
<1>1. /\ doing.what = "writes" /\ hpCall' = NoCall /\ UNCHANGED <<firmware, misses, owed, before, doubted>>
      /\ feed' = [feed EXCEPT !.after = FALSE, !.after4 = FALSE]
      /\ \/ doing' = [doing EXCEPT !.what = "verifies", !.polls = Polls]
         \/ doing' = [doing EXCEPT !.what = "arm", !.arms = Tail(@)]
  BY DEF WriteEnds, SamplesAreOld
<1>2. /\ doing \in Doings
      /\ doing.arms # <<>>
      /\ feed \in Feeds
  BY <1>1 DEF LimitInv, LimitTypeOK, CallBelongs
<1>3. /\ doing' \in Doings
      /\ doing'.what \in {"verifies", "arm"} /\ doing'.ok = doing.ok
      /\ doing'.what = "verifies" => doing'.arms # <<>>
      /\ ToSet(doing'.arms) \subseteq ToSet(doing.arms)
  <2>1. Tail(doing.arms) \in ArmLists /\ ToSet(Tail(doing.arms)) \subseteq ToSet(doing.arms)
    BY <1>2, ListsOfArms
  <2>2. CASE doing' = [doing EXCEPT !.what = "verifies", !.polls = Polls]
    <3>1. Polls \in Int
      BY LimitAssumption
    <3>2. doing'.what = "verifies" /\ doing'.arms = doing.arms /\ doing'.ok = doing.ok
      BY <1>2, <2>2
    <3> QED BY <1>2, <2>2, <3>1, <3>2
  <2>3. CASE doing' = [doing EXCEPT !.what = "arm", !.arms = Tail(@)]
    BY <1>2, <2>1, <2>3
  <2> QED BY <1>1, <2>2, <2>3
<1>4. /\ feed' \in Feeds
      /\ ~feed'.after /\ ~feed'.after4
      /\ feed'.pl1 = feed.pl1 /\ feed'.pl2 = feed.pl2 /\ feed'.pl4 = feed.pl4
  BY <1>1, <1>2
<1>5. /\ hpCall'.to = "none"
      /\ hpCall' \in LimitCalls
  BY <1>1 DEF NoCall
<1>6. LimitTypeOK'
  <2>1. UNCHANGED firmware /\ UNCHANGED owed /\ UNCHANGED before /\ UNCHANGED doubted
    BY <1>1
  <2> QED BY <1>3, <1>4, <1>5, <2>1 DEF LimitInv, LimitTypeOK
<1>7. CallBelongs' /\ OwedIsCaptured'
  BY <1>1, <1>3, <1>5 DEF LimitInv, CallBelongs, OwedIsCaptured
<1>8. FeedIsTrue'
  BY <1>1, <1>3, <1>4 DEF LimitInv, FeedIsTrue, LimitsSeen, Pl4Seen, HasLimits, HasPl4
<1>9. BaselineIsRounded'
  BY <1>1, <1>5 DEF LimitInv, BaselineIsRounded
<1>10. LimitsRest' /\ ExecIsUndone' /\ ConfirmedIsBack'
  BY <1>1, <1>3 DEF LimitInv, LimitsRest, ExecIsUndone, ConfirmedIsBack, GivenBack
<1> QED BY <1>6, <1>7, <1>8, <1>9, <1>10 DEF LimitInv

\* What a poll confirms is what was captured.
LEMMA ShownIsBack ==
  ASSUME LimitInv, doing.what = "verifies", ShowsRestored(Arm)
  PROVE  GivenBack(Arm)
<1>1. Arm \in {"gpu", "limits"} /\ Arm \in owed.dirty
  BY WhoWrites DEF LimitInv, CallBelongs, OwedIsCaptured
<1>2. CASE Arm = "gpu"
  BY <1>2 DEF ShowsRestored, GivenBack, SamePolicy, LimitInv, OwedIsCaptured
<1>3. CASE Arm = "limits"
  <2>1. /\ owed.baseline \in Baselines /\ owed.baseline # NoValue
        /\ before.limits \in Registers /\ firmware.limits \in Registers
    BY <1>1, <1>3 DEF LimitInv, LimitTypeOK, OwedIsCaptured
  <2>2. /\ feed.after /\ LimitsSeen
        /\ Within(feed.pl1, owed.baseline.pl1, PerWatt) /\ Within(feed.pl2, owed.baseline.pl2, PerWatt)
        /\ owed.baseline.pl4 # 0 => Pl4Seen /\ Within(feed.pl4, owed.baseline.pl4, PerWatt)
    BY <1>3 DEF ShowsRestored, LimitInv, FeedIsTrue
  <2> DEFINE now == firmware.limits
             was == before.limits
             w == owed.baseline
  <2>3. /\ now.pl1 \in Nat /\ now.pl2 \in Nat /\ now.pl4 \in Nat
        /\ was.pl1 \in Nat /\ was.pl2 \in Nat /\ was.pl4 \in Nat
        /\ w.pl1 \in 0..255 /\ w.pl2 \in 0..255 /\ w.pl4 \in 0..255
    BY <2>1 DEF Registers
  <2>4. /\ Within(now.pl1, w.pl1, PerWatt) /\ Within(now.pl2, w.pl2, PerWatt)
        /\ w.pl4 # 0 => Within(now.pl4, w.pl4, PerWatt)
    BY <2>2 DEF LimitsSeen, Pl4Seen
  <2>5. /\ Captured(w.pl1, was.pl1) /\ Captured(w.pl2, was.pl2) /\ (w.pl4 # 0 => Captured(w.pl4, was.pl4))
        /\ NeverNear255(w.pl1, now.pl1, was.pl1) /\ NeverNear255(w.pl2, now.pl2, was.pl2)
        /\ NeverNear255(w.pl4, now.pl4, was.pl4)
    BY SMTT(60), <2>1 DEF LimitInv, BaselineIsRounded
  <2>6. 2 * (now.pl1 - was.pl1) \in (-3 * PerWatt)..(3 * PerWatt)
    BY <2>3, <2>4, <2>5, WithinIsBack
  <2>7. 2 * (now.pl2 - was.pl2) \in (-3 * PerWatt)..(3 * PerWatt)
    BY <2>3, <2>4, <2>5, WithinIsBack
  <2>8. w.pl4 # 0 => 2 * (now.pl4 - was.pl4) \in (-3 * PerWatt)..(3 * PerWatt)
    BY <2>3, <2>4, <2>5, WithinIsBack
  <2> HIDE DEF now, was, w
  <2>9. SameLimits(now, was, {"pl1", "pl2"} \cup IF w.pl4 # 0 THEN {"pl4"} ELSE {})
    BY <2>6, <2>7, <2>8 DEF SameLimits
  <2> QED BY <1>3, <2>9 DEF GivenBack, now, was, w
<1> QED BY <1>1, <1>2, <1>3

LEMMA PollsKeepLimits ==
  ASSUME LimitInv, PollConfirms \/ PollAgain \/ PollFails
  PROVE  LimitInv'
<1>1. /\ doing.what = "verifies" /\ UNCHANGED <<firmware, hpCall, feed, owed, before, doubted>>
      /\ \/ doing' = [doing EXCEPT !.what = "arm", !.arms = Tail(@), !.ok = @ \cup {Arm}]
            /\ ShowsRestored(Arm)
         \/ doing' = [doing EXCEPT !.what = "arm", !.arms = Tail(@), !.ok = @]
         \/ doing' = [doing EXCEPT !.polls = @ - 1]
  BY DEF PollConfirms, PollAgain, PollFails, ArmEnds, hpVars
<1>2. /\ doing \in Doings
      /\ doing.arms # <<>>
  BY <1>1 DEF LimitInv, LimitTypeOK, CallBelongs
<1>3. /\ Tail(doing.arms) \in ArmLists /\ ToSet(Tail(doing.arms)) \subseteq ToSet(doing.arms)
      /\ Arm \notin ToSet(Tail(doing.arms)) /\ Arm \in {"gpu", "limits"}
  BY <1>2, ListsOfArms, WhoWrites DEF Arm
<1>4. /\ doing' \in Doings
      /\ doing'.what \in {"verifies", "arm"}
      /\ doing'.what = "verifies" => doing'.arms # <<>>
      /\ ToSet(doing'.arms) \subseteq ToSet(doing.arms)
      /\ \A d \in doing'.ok : d \in doing.ok \/ (d = Arm /\ ShowsRestored(Arm) /\ d \notin ToSet(doing'.arms))
  <2>1. CASE doing' = [doing EXCEPT !.what = "arm", !.arms = Tail(@), !.ok = @ \cup {Arm}]
             /\ ShowsRestored(Arm)
    <3>1. doing.ok \cup {Arm} \in SUBSET {"gpu", "limits"}
      BY <1>2, <1>3
    <3>2. doing'.ok = doing.ok \cup {Arm} /\ doing'.arms = Tail(doing.arms) /\ doing'.what = "arm"
      BY <1>2, <2>1
    <3> QED BY <1>2, <1>3, <2>1, <3>1, <3>2
  <2>2. CASE doing' = [doing EXCEPT !.what = "arm", !.arms = Tail(@), !.ok = @]
    BY <1>2, <1>3, <2>2
  <2>3. CASE doing' = [doing EXCEPT !.polls = @ - 1]
    BY <1>1, <1>2, <2>3
  <2> QED BY <1>1, <2>1, <2>2, <2>3
<1>5. LimitTypeOK'
  <2>1. UNCHANGED firmware /\ UNCHANGED hpCall /\ UNCHANGED feed /\ UNCHANGED owed /\ UNCHANGED before
        /\ UNCHANGED doubted
    BY <1>1
  <2> QED BY <1>4, <2>1 DEF LimitInv, LimitTypeOK
<1>6. CallBelongs' /\ OwedIsCaptured'
  BY <1>1, <1>4 DEF LimitInv, CallBelongs, OwedIsCaptured
<1>7. FeedIsTrue'
  <2>1. doing.what # "writes" /\ doing'.what # "exec" /\ doing'.what # "writes"
    BY <1>1, <1>4
  <2> QED BY <1>1, <2>1 DEF LimitInv, FeedIsTrue, LimitsSeen, Pl4Seen, HasLimits, HasPl4
<1>8. BaselineIsRounded' /\ LimitsRest' /\ ExecIsUndone'
  BY <1>1, <1>4 DEF LimitInv, BaselineIsRounded, LimitsRest, ExecIsUndone, GivenBack
<1>9. ConfirmedIsBack'
  <2>1. \A d \in doing'.ok : d \notin ToSet(doing'.arms) /\ GivenBack(d)
    BY <1>1, <1>4, ShownIsBack DEF LimitInv, ConfirmedIsBack
  <2> QED BY <1>1, <2>1 DEF ConfirmedIsBack, GivenBack
<1> QED BY <1>5, <1>6, <1>7, <1>8, <1>9 DEF LimitInv

LEMMA RestoreEndsKeepsLimits ==
  ASSUME LimitInv, RestoreEnds
  PROVE  /\ LimitInv'
         /\ \A d \in owed.dirty \ owed'.dirty : GivenBack(d)
<1>1. /\ doing.what = "arm" /\ doing' = Resting /\ owed' = [owed EXCEPT !.dirty = @ \ doing.ok]
      /\ UNCHANGED <<firmware, hpCall, feed, before, doubted>>
  BY DEF RestoreEnds, hpVars
<1>2. owed \in Obligations
  BY DEF LimitInv, LimitTypeOK
<1>3. /\ owed'.startup = owed.startup /\ owed'.baseline = owed.baseline
      /\ owed'.dirty = owed.dirty \ doing.ok
      /\ owed' \in Obligations
  <2>1. owed'.startup = owed.startup /\ owed'.baseline = owed.baseline
        /\ owed'.dirty = owed.dirty \ doing.ok
    BY <1>1, <1>2
  <2>2. owed' = [dirty |-> owed.dirty \ doing.ok, startup |-> owed.startup, baseline |-> owed.baseline]
    BY <1>1, <1>2
  <2>3. owed.dirty \ doing.ok \in SUBSET {"gpu", "limits"}
    BY <1>2
  <2> QED BY <1>2, <2>1, <2>2, <2>3
<1>4. \A d \in owed.dirty \ owed'.dirty : GivenBack(d)
  BY <1>3 DEF LimitInv, ConfirmedIsBack
<1>5. /\ doing'.what = "nothing" /\ doing'.ok = {} /\ doing'.arms = <<>>
      /\ doing' \in Doings
  BY <1>1, ListsOfArms DEF Resting
<1>6. LimitTypeOK'
  <2>1. UNCHANGED firmware /\ UNCHANGED hpCall /\ UNCHANGED feed /\ UNCHANGED before /\ UNCHANGED doubted
    BY <1>1
  <2> QED BY <1>3, <1>5, <2>1 DEF LimitInv, LimitTypeOK
<1>7. CallBelongs' /\ OwedIsCaptured'
  BY <1>1, <1>3, <1>5, ListsOfArms DEF LimitInv, CallBelongs, OwedIsCaptured
<1>8. FeedIsTrue'
  <2>1. doing.what # "writes" /\ doing'.what # "exec"
    BY <1>1, <1>5
  <2> QED BY <1>1, <1>3, <2>1 DEF LimitInv, FeedIsTrue, LimitsSeen, Pl4Seen, HasLimits, HasPl4
<1>9. BaselineIsRounded'
  BY <1>1, <1>3 DEF LimitInv, BaselineIsRounded
<1>10. LimitsRest'
  <2>1. CASE "limits" \in owed.dirty
    BY <1>1, <1>3, <1>4, <2>1 DEF LimitsRest, GivenBack
  <2>2. CASE "limits" \notin owed.dirty
    BY <1>1, <1>3, <2>2 DEF LimitInv, LimitsRest, GivenBack
  <2> QED BY <2>1, <2>2
<1>11. ExecIsUndone' /\ ConfirmedIsBack'
  BY <1>5 DEF ExecIsUndone, ConfirmedIsBack
<1> QED BY <1>4, <1>6, <1>7, <1>8, <1>9, <1>10, <1>11 DEF LimitInv

-----------------------------------------------------------------------------
\* One step: only the end of an exec or of a restore drops an obligation.
LEMMA LimitStep ==
  ASSUME LimitInv, [LimitNext]_limitVars
  PROVE  LimitInv' /\ \A d \in owed.dirty \ owed'.dirty : d \in doubted' \/ GivenBack(d)
<1>1. CASE UNCHANGED limitVars
  <2>1. UNCHANGED <<firmware, hpCall, feed, owed, doing, before, doubted>>
    BY <1>1 DEF limitVars, hpVars
  <2>2. UNCHANGED firmware /\ UNCHANGED hpCall /\ UNCHANGED feed /\ UNCHANGED owed /\ UNCHANGED doing
        /\ UNCHANGED before /\ UNCHANGED doubted
    BY <2>1
  <2>3. LimitTypeOK'
    BY <2>2 DEF LimitInv, LimitTypeOK
  <2>4. CallBelongs' /\ OwedIsCaptured' /\ FeedIsTrue' /\ BaselineIsRounded'
    BY <2>1 DEF LimitInv, CallBelongs, OwedIsCaptured, FeedIsTrue, BaselineIsRounded, LimitsSeen,
         Pl4Seen, HasLimits, HasPl4, Arm
  <2>5. LimitsRest' /\ ExecIsUndone' /\ ConfirmedIsBack'
    BY <2>1 DEF LimitInv, LimitsRest, ExecIsUndone, ConfirmedIsBack, GivenBack
  <2> QED BY <2>1, <2>3, <2>4, <2>5 DEF LimitInv
<1>2. CASE SamplesLimits \/ SamplesPl4
  BY <1>2, SamplesKeepLimits DEF SamplesLimits, SamplesPl4
<1>3. CASE DstateDrifts
  BY <1>3, DriftKeepsLimits DEF DstateDrifts
<1>4. CASE Attempt /\ UNCHANGED <<feed, owed, doing, before, doubted>>
  BY <1>4, AttemptKeepsLimits
<1>5. ASSUME NEW l \in LimitRequests, SetPowerLimits(l) \/ LimitsUnsaved(l)
      PROVE  LimitInv' /\ owed.dirty \subseteq owed'.dirty
  <2>1. LimitInv'
    BY <1>5, SetLimitsKeepsLimits, UnsavedKeepsLimits
  <2>2. owed.dirty \subseteq owed'.dirty
    <3>1. owed \in Obligations
      BY DEF LimitInv, LimitTypeOK
    <3>2. CASE SetPowerLimits(l)
      <4>1. owed'.dirty = owed.dirty \cup {"limits"}
        BY <3>1, <3>2 DEF SetPowerLimits
      <4> QED BY <4>1
    <3>3. CASE LimitsUnsaved(l)
      <4>1. owed'.dirty = owed.dirty
        BY <3>1, <3>3 DEF LimitsUnsaved
      <4> QED BY <4>1
    <3> QED BY <1>5, <3>2, <3>3
  <2> QED BY <2>1, <2>2
<1>6. ASSUME NEW p \in GpuRequests \cup Patches, SetGpuPolicy(p) \/ GpuUnsaved(p)
      PROVE  LimitInv' /\ owed.dirty \subseteq owed'.dirty
  <2>1. LimitInv'
    BY <1>6, SetPolicyKeepsLimits, UnsavedPolicyKeepsLimits
  <2>2. owed.dirty \subseteq owed'.dirty
    <3>1. owed \in Obligations
      BY DEF LimitInv, LimitTypeOK
    <3>2. CASE SetGpuPolicy(p)
      <4>1. owed'.dirty = owed.dirty \cup {"gpu"}
        BY <3>1, <3>2 DEF SetGpuPolicy
      <4> QED BY <4>1
    <3>3. CASE GpuUnsaved(p)
      <4>1. owed'.dirty = owed.dirty
        BY <3>1, <3>3 DEF GpuUnsaved
      <4> QED BY <4>1
    <3> QED BY <1>6, <3>2, <3>3
  <2> QED BY <2>1, <2>2
<1>7. CASE ExecEnds
  BY <1>7, ExecEndsKeepsLimits
<1>8. CASE RestoreStarts
  BY <1>8, RestoreStartsKeepsLimits DEF RestoreStarts
<1>9. CASE RestoreWrites
  BY <1>9, RestoreWritesKeepsLimits DEF RestoreWrites
<1>10. CASE WriteEnds
  BY <1>10, WriteEndsKeepsLimits DEF WriteEnds
<1>11. CASE PollConfirms \/ PollAgain \/ PollFails
  BY <1>11, PollsKeepLimits DEF PollConfirms, PollAgain, PollFails, ArmEnds
<1>12. CASE RestoreEnds
  BY <1>12, RestoreEndsKeepsLimits
<1> QED BY <1>1, <1>2, <1>3, <1>4, <1>5, <1>6, <1>7, <1>8, <1>9, <1>10, <1>11, <1>12 DEF LimitNext

\* Whatever was captured, written, sampled and confirmed, in any order and with any failing
\* attempts: what the restore writes is the captured value in whole watts, what it takes for
\* confirmed is younger than the write, and what is not owed was given back.
THEOREM LimitInvariance == LimitSpec => []LimitInv
<1>1. LimitInv /\ [LimitNext]_limitVars => LimitInv'
  BY LimitStep
<1> QED BY <1>1, LimitsStart, PTL DEF LimitSpec

\* An obligation for the GPU policy or the power limits is dropped only when the firmware
\* holds what it held before the first write, to within a watt and a half, for all register
\* values, requests, factory values and numbers of polls (restore_hp_domain and
\* verify_restoration, the rejection in exec_gpu_policy and exec_power_limits).
THEOREM DroppedIsAlwaysGivenBack == LimitSpec => DroppedIsGivenBack
<1>1. LimitInv /\ [LimitNext]_limitVars =>
        [\A d \in owed.dirty \ owed'.dirty : d \in doubted' \/ GivenBack(d)]_limitVars
  BY LimitStep
<1> QED BY <1>1, LimitInvariance, PTL DEF LimitSpec, DroppedIsGivenBack

HIDE DEF Firmwares, LimitCalls, Feeds, Baselines, Obligations, Doings, Held
-----------------------------------------------------------------------------
(* The fan curve, for every accepted curve and every temperature: interpolation stays    *)
(* between two levels of the curve, so every level that is driven, remembered or sent     *)
(* again is one of the board's, and neither fan is ever stopped; max fan lies over them    *)
(* only where the coordinator shows it, or where a call that failed has put it. *)

\* What a curve may ask of the two fans: levels of the board, and never a stopped fan.
Driven == {FirmwareAuto} \cup ((Clamp \ {0}) \X (Clamp \ {0}))

FansInv ==
  /\ CurveTypeOK
  /\ fanMode = "curve" <=> curve # NoCurve
  /\ fans \in Driven /\ ctl.last \in Driven
  /\ MaxFanIsShown

\* The firmware decides for itself, or both fans turn at levels that the board allows.
DrivesAllowedLevels == fans = FirmwareAuto \/ \E l, r \in Clamp \ {0} : fans = <<l, r>>

-----------------------------------------------------------------------------
LEMMA Scaled ==
  ASSUME NEW a \in Int, NEW b \in Int, NEW k \in Nat, a <= b
  PROVE  a * k \in Int /\ b * k \in Int /\ a * k <= b * k
OBVIOUS

\* A quotient lies between two numbers when the dividend lies between their products.
LEMMA Quotient ==
  ASSUME NEW x \in Int, NEW d \in Nat \ {0}, NEW low \in Int, NEW high \in Int,
         low * d <= x, x < high * d + d
  PROVE  x \div d \in low..high
<1> DEFINE q == x \div d
<1>1. q \in Int /\ q * d <= x /\ x < q * d + d
  OBVIOUS
<1> HIDE DEF q
<1>2. low <= q
  <2>1. SUFFICES ASSUME q + 1 <= low PROVE FALSE
    BY <1>1
  <2>2. (q + 1) * d <= low * d
    BY <1>1, <2>1, Scaled
  <2>3. (q + 1) * d = q * d + d
    BY <1>1
  <2> QED BY <1>1, <2>2, <2>3
<1>3. q <= high
  <2>1. SUFFICES ASSUME high + 1 <= q PROVE FALSE
    BY <1>1
  <2>2. (high + 1) * d <= q * d
    BY <1>1, <2>1, Scaled
  <2>3. (high + 1) * d = high * d + d
    OBVIOUS
  <2> QED BY <1>1, <2>2, <2>3
<1> QED BY <1>1, <1>2, <1>3 DEF q

\* Interpolation stays between its two ends, rounding included.
LEMMA InterpolatedBetween ==
  ASSUME NEW low \in Nat, NEW high \in Nat, NEW part \in Nat, NEW span \in Nat \ {0}, part <= span
  PROVE  Interpolated(low, high, part, span) \in (low..high) \cup (high..low)
<1> DEFINE rise == (high - low) * part
           whole == (high - low) * span
           d == 2 * span
           x == 2 * (low * span + rise) + span
<1>1. /\ rise \in Int /\ whole \in Int /\ low * span \in Int /\ high * span \in Int
      /\ d \in Nat \ {0} /\ x \in Int
  OBVIOUS
<1>2. high * span = low * span + whole
  OBVIOUS
<1>3. low * d = 2 * (low * span) /\ high * d = 2 * (high * span)
  OBVIOUS
<1>4. Interpolated(low, high, part, span) = x \div d
  BY DEF Interpolated
<1>5. CASE low <= high
  <2>1. 0 <= rise /\ rise <= whole
    <3>1. high - low \in Nat
      BY <1>5
    <3>2. part * (high - low) <= span * (high - low) /\ 0 * (high - low) <= part * (high - low)
      BY <3>1, Scaled
    <3> QED BY <3>1, <3>2
  <2>2. low * d <= x /\ x < high * d + d
    <3> HIDE DEF rise, whole
    <3> QED BY <1>1, <1>2, <1>3, <2>1
  <2> HIDE DEF x, d
  <2>3. x \div d \in low..high
    BY <1>1, <2>2, Quotient
  <2> QED BY <1>4, <2>3
<1>6. CASE high < low
  <2>1. whole <= rise /\ rise <= 0
    <3>1. low - high \in Nat
      BY <1>6
    <3>2. part * (low - high) <= span * (low - high) /\ 0 * (low - high) <= part * (low - high)
      BY <3>1, Scaled
    <3>3. rise = -(part * (low - high)) /\ whole = -(span * (low - high))
      OBVIOUS
    <3> QED BY <3>1, <3>2, <3>3
  <2>2. high * d <= x /\ x < low * d + d
    <3> HIDE DEF rise, whole
    <3> QED BY <1>1, <1>2, <1>3, <2>1
  <2> HIDE DEF x, d
  <2>3. x \div d \in high..low
    BY <1>1, <2>2, Quotient
  <2> QED BY <1>4, <2>3
<1> QED BY <1>5, <1>6

-----------------------------------------------------------------------------
LEMMA PointTypes ==
  ASSUME NEW c \in Curves
  PROVE  /\ Len(c) \in Nat /\ Len(c) > 0
         /\ \A k \in 1..Len(c) : /\ c[k].temp \in Nat /\ c[k].left \in Nat /\ c[k].right \in Nat
                               /\ c[k].temp \in Int
<1>1. c \in Seq([temp : Nat, left : Nat, right : Nat]) /\ Len(c) > 0
  BY FanCurveAssumption
<1>2. ASSUME NEW k \in 1..Len(c) PROVE c[k] \in [temp : Nat, left : Nat, right : Nat]
  BY <1>1, ElementOfSeq
<1>3. ASSUME NEW k \in 1..Len(c)
      PROVE  c[k].temp \in Nat /\ c[k].left \in Nat /\ c[k].right \in Nat
  BY <1>2
<1>4. Len(c) \in Nat
  BY <1>1
<1> QED BY <1>1, <1>3, <1>4

LEMMA UpperPoint ==
  ASSUME NEW c \in Curves, NEW t \in Int, t <= c[Len(c)].temp
  PROVE  /\ Upper(c, t) \in 1..Len(c) /\ t <= c[Upper(c, t)].temp
         /\ \A j \in 1..Upper(c, t) - 1 : c[j].temp < t
<1> DEFINE n == Len(c)
           T == {i \in 1..n : t <= c[i].temp}
           Fits(i) == t <= c[i].temp /\ \A j \in 1..i - 1 : c[j].temp < t
<1>1. n \in Nat /\ n > 0 /\ \A k \in 1..n : c[k].temp \in Nat /\ c[k].temp \in Int
  BY PointTypes
<1>2. T \in SUBSET (0..n) /\ n \in T
  BY <1>1
<1>3. PICK i \in T : \A v \in T : i <= v
  BY <1>1, <1>2, LeastNumber
<1>4. i \in 1..n /\ Fits(i)
  <2>1. i \in 1..n /\ t <= c[i].temp
    BY <1>3
  <2>2. ASSUME NEW j \in 1..i - 1 PROVE c[j].temp < t
    <3>1. j \in 1..n /\ ~(i <= j)
      BY <1>1, <2>1
    <3>2. j \notin T
      BY <1>3, <3>1
    <3>3. c[j].temp \in Int
      BY <1>1, <3>1
    <3> QED BY <3>1, <3>2, <3>3
  <2> QED BY <2>1, <2>2
<1>5. Upper(c, t) = CHOOSE k \in 1..n : Fits(k)
  <2>1. c[n].temp \in Int
    BY <1>1
  <2>2. ~(t > c[n].temp)
    BY <2>1
  <2> QED BY <2>2 DEF Upper
<1> HIDE DEF Fits, n
<1>6. Upper(c, t) \in 1..n /\ Fits(Upper(c, t))
  BY <1>4, <1>5
<1> QED BY <1>6 DEF Fits, n

\* Whatever the temperature, the target of an accepted curve is a pair of the board's
\* levels, and neither fan stops.
LEMMA TargetIsAllowed ==
  ASSUME NEW c \in Curves, ValidCurve(c), NEW t \in Int
  PROVE  \E l, r \in Clamp \ {0} : TargetAt(c, t) = <<l, r>>
<1> DEFINE n == Len(c)
           i == Upper(c, t)
<1>1. n \in Nat /\ n > 0
  BY PointTypes
<1>2. \A k \in 1..n : /\ c[k].temp \in Nat /\ c[k].left \in Clamp \ {0} /\ c[k].right \in Clamp \ {0}
                      /\ c[k].left \in Nat /\ c[k].right \in Nat
  BY PointTypes DEF ValidCurve
<1>3. CASE t > c[n].temp
  <2>1. i = n
    BY <1>3 DEF Upper
  <2>2. TargetAt(c, t) = <<c[n].left, c[n].right>>
    BY <1>3, <2>1 DEF TargetAt, Levels_
  <2> QED BY <1>1, <1>2, <2>2
<1>4. CASE ~(t > c[n].temp)
  <2>1. i \in 1..n /\ t <= c[i].temp /\ \A j \in 1..i - 1 : c[j].temp < t
    BY <1>1, <1>2, <1>4, UpperPoint
  <2>2. CASE i = 1
    <3>1. TargetAt(c, t) = <<c[1].left, c[1].right>>
      BY <2>2 DEF TargetAt, Levels_
    <3> QED BY <1>1, <1>2, <3>1
  <2>3. CASE i # 1
    <3> DEFINE p == i - 1
               part == t - c[p].temp
               span == c[i].temp - c[p].temp
    <3>1. p \in 1..n /\ p \in 1..i - 1 /\ i \in 1..n /\ p \in 1..n - 1 /\ p + 1 = i
      <4> HIDE DEF i, n
      <4> QED BY <1>1, <2>1, <2>3
    <3>2. c[p].temp < t /\ t <= c[i].temp /\ c[p].temp \in Nat /\ c[i].temp \in Nat
      <4> HIDE DEF i, p
      <4> QED BY <1>2, <2>1, <3>1
    <3>3. part \in Nat /\ span \in Nat \ {0} /\ part <= span
      BY <3>2
    <3>4. /\ Interpolated(c[p].left, c[i].left, part, span) \in Clamp \ {0}
          /\ Interpolated(c[p].right, c[i].right, part, span) \in Clamp \ {0}
      <4>1. ASSUME NEW low \in Clamp \ {0}, NEW high \in Clamp \ {0}
            PROVE  Interpolated(low, high, part, span) \in Clamp \ {0}
        <5>1. low \in Nat /\ high \in Nat /\ low..high \subseteq Clamp /\ high..low \subseteq Clamp
          BY FanCurveAssumption
        <5> HIDE DEF part, span
        <5>2. Interpolated(low, high, part, span) \in (low..high) \cup (high..low)
          BY <3>3, <5>1, InterpolatedBetween
        <5> QED BY <5>1, <5>2
      <4> HIDE DEF part, span
      <4> QED BY <1>2, <3>1, <4>1
    <3>5. TargetAt(c, t) = <<Interpolated(c[p].left, c[i].left, part, span),
                             Interpolated(c[p].right, c[i].right, part, span)>>
      <4>1. ~(i = 1 \/ t > c[i].temp)
        BY <2>3, <3>2
      <4> QED BY <4>1 DEF TargetAt
    <3> HIDE DEF part, span
    <3> QED BY <3>4, <3>5
  <2> QED BY <2>2, <2>3
<1> QED BY <1>3, <1>4

\* The two levels of a point of an accepted curve may be driven.
LEMMA PointIsDriven ==
  ASSUME NEW c \in Curves, ValidCurve(c), NEW k \in 1..Len(c)
  PROVE  Levels_(c[k]) \in Driven
<1>1. c[k].left \in Clamp \ {0} /\ c[k].right \in Clamp \ {0}
  BY DEF ValidCurve
<1> QED BY <1>1 DEF Levels_, Driven

LEMMA TargetIsDriven ==
  ASSUME NEW c \in Curves, ValidCurve(c), NEW t \in Int
  PROVE  TargetAt(c, t) \in Driven
<1>1. PICK l, r \in Clamp \ {0} : TargetAt(c, t) = <<l, r>>
  BY TargetIsAllowed
<1> QED BY <1>1 DEF Driven

LEMMA DrivenIsTyped == Driven \subseteq FanLevels /\ FirmwareAuto \in Driven
BY DEF Driven, FanLevels

LEMMA NoCurveAmongCurves == NoCurve \notin Curves
BY FanCurveAssumption DEF NoCurve

\* The temperature that counts, and the smoothed one.
LEMMA TemperatureTypes ==
  ASSUME CurveTypeOK
  PROVE  /\ Effective \in Int
         /\ Smoothed(ctl.smoothed, Effective) \in Int
<1>1. temps.cpu \in Int /\ temps.gpu \in Int /\ ctl.smoothed \in Int
  <2>1. temps.cpu \in CpuTemps \cup {NoTemp} /\ temps.gpu \in GpuTemps \cup {NoTemp}
    BY DEF CurveTypeOK
  <2>2. ctl.smoothed \in Int
    BY DEF CurveTypeOK
  <2>3. NoTemp \in Int
    BY DEF NoTemp
  <2>4. \A t \in CpuTemps \cup GpuTemps : t \in Int
    BY FanCurveAssumption
  <2> QED BY <2>1, <2>2, <2>3, <2>4
<1>2. Effective \in Int
  BY <1>1 DEF Effective, NoTemp
<1>3. \A p, t \in Int : Smoothed(p, t) \in Int
  BY DEF Smoothed, NoTemp
<1> QED BY <1>1, <1>2, <1>3

\* The target of a safety tick while a curve is in force.
LEMMA TickTarget ==
  ASSUME FansInv, fanMode = "curve"
  PROVE  /\ curve \in Curves /\ ValidCurve(curve)
         /\ Smoothed(ctl.smoothed, Effective) \in Int
         /\ TargetAt(curve, Smoothed(ctl.smoothed, Effective)) \in Driven
<1>1. curve \in Curves /\ ValidCurve(curve)
  BY DEF FansInv, CurveTypeOK
<1>2. Smoothed(ctl.smoothed, Effective) \in Int
  BY TemperatureTypes DEF FansInv
<1> QED BY <1>1, <1>2, TargetIsDriven

-----------------------------------------------------------------------------
\* What every step owes to the invariant.
LEMMA FansStep ==
  ASSUME FansInv,
         fans' \in Driven, ctl'.last \in Driven,
         maxFan' \in MaxFans, MaxFanIsShown', fanDirty' \in BOOLEAN,
         ctl' \in [last : FanLevels, smoothed : Int, recent : BOOLEAN],
         \/ fanMode' = fanMode /\ curve' = curve
         \/ fanMode' \in {"auto", "other"} /\ curve' = NoCurve
         \/ fanMode' = "curve" /\ curve' \in Curves /\ ValidCurve(curve'),
         temps' \in [cpu : CpuTemps \cup {NoTemp}, gpu : GpuTemps \cup {NoTemp}],
         faults' \in 0..MaxFaults
  PROVE  FansInv'
<1>1. fans' \in FanLevels
  BY DrivenIsTyped
<1>2. CASE fanMode' = fanMode /\ curve' = curve
  BY <1>1, <1>2 DEF FansInv, CurveTypeOK, ValidCurve, Driven
<1>3. CASE fanMode' \in {"auto", "other"} /\ curve' = NoCurve
  BY <1>1, <1>3 DEF FansInv, CurveTypeOK, Driven
<1>4. CASE fanMode' = "curve" /\ curve' \in Curves /\ ValidCurve(curve')
  <2>1. curve' # NoCurve
    BY <1>4, NoCurveAmongCurves
  <2>2. ValidCurve(curve)'
    BY <1>4 DEF ValidCurve
  <2> QED BY <1>1, <1>4, <2>1, <2>2 DEF FansInv, CurveTypeOK, Driven
<1> QED BY <1>2, <1>3, <1>4

LEMMA FaultyIsTyped ==
  ASSUME FansInv PROVE (Faulty => faults' \in 0..MaxFaults) /\ faults \in 0..MaxFaults
BY FanCurveAssumption DEF Faulty, FansInv, CurveTypeOK

LEMMA ControllerTypes ==
  ASSUME FansInv
  PROVE  /\ Cleared \in [last : FanLevels, smoothed : Int, recent : BOOLEAN]
         /\ Cleared.last \in Driven /\ fans \in Driven /\ ctl.last \in Driven
         /\ ctl \in [last : FanLevels, smoothed : Int, recent : BOOLEAN]
         /\ \A s \in Int : [ctl EXCEPT !.smoothed = s]
                              \in [last : FanLevels, smoothed : Int, recent : BOOLEAN]
         /\ \A b \in BOOLEAN : [ctl EXCEPT !.recent = b]
                              \in [last : FanLevels, smoothed : Int, recent : BOOLEAN]
         /\ temps \in [cpu : CpuTemps \cup {NoTemp}, gpu : GpuTemps \cup {NoTemp}]
         /\ maxFan \in MaxFans /\ MaxFanIsShown /\ fanDirty \in BOOLEAN
BY DrivenIsTyped DEF FansInv, CurveTypeOK, Cleared, NoTemp

\* Max fan in a state in which it may be: on only where it is shown to be.
Shown(m) == m \in MaxFans /\ (m.is = "on" => m.seen = "on")

LEMMA ShownIsEnough ==
  ASSUME Shown(maxFan') PROVE maxFan' \in MaxFans /\ MaxFanIsShown'
BY DEF Shown, MaxFanIsShown

\* Every call for max fan, answered or not, leaves it so.
LEMMA CallsAreShown ==
  /\ Shown(MaxOn) /\ Shown(MaxOff)
  /\ \A m \in MaxFans : Shown(m) =>
       /\ \A n \in TriedOn(m) \cup TriedOff(m) : Shown(n)
       /\ Shown(MaxReleased(m)) /\ Shown([MaxReleased(m) EXCEPT !.seen = "off"])
       /\ Shown([m EXCEPT !.is = "off"])
<1>1. Shown(MaxOn) /\ Shown(MaxOff)
  BY DEF Shown, MaxOn, MaxOff, MaxFans
<1>2. ASSUME NEW m \in MaxFans, Shown(m)
      PROVE  /\ \A n \in TriedOn(m) \cup TriedOff(m) : Shown(n)
             /\ Shown([m EXCEPT !.is = "off"])
  BY <1>2 DEF Shown, TriedOn, TriedOff, MaxFans
<1>3. ASSUME NEW m \in MaxFans, Shown(m)
      PROVE  Shown(MaxReleased(m)) /\ Shown([MaxReleased(m) EXCEPT !.seen = "off"])
  <2>1. CASE m.seen = "on"
    BY <1>1, <2>1 DEF MaxReleased, Shown, MaxOff, MaxFans
  <2>2. CASE m.seen # "on"
    BY <1>3, <2>2 DEF MaxReleased, Shown, MaxFans
  <2> QED BY <2>1, <2>2
<1> QED BY <1>1, <1>2, <1>3

LEMMA IsShown == ASSUME FansInv PROVE Shown(maxFan) /\ maxFan \in MaxFans
BY ControllerTypes DEF Shown, MaxFanIsShown

LEMMA RearmedIsShown ==
  ASSUME NEW m, Shown(m), Rearmed(m) PROVE Shown(maxFan')
<1>1. m \in MaxFans
  BY DEF Shown
<1> QED BY <1>1, CallsAreShown DEF Rearmed

\* The fans go back to the firmware.
LEMMA RestoredStep ==
  ASSUME FansInv, NEW m, Shown(m), FansRestored(m), faults' \in 0..MaxFaults, UNCHANGED temps
  PROVE  FansInv'
<1>1. /\ ctl' = Cleared /\ fans' = FirmwareAuto /\ fanMode' = "auto" /\ curve' = NoCurve
      /\ fanDirty' \in BOOLEAN
  BY DEF FansRestored
<1>2. Shown(maxFan')
  BY CallsAreShown DEF FansRestored
<1> QED BY <1>1, <1>2, FansStep, ShownIsEnough, ControllerTypes, DrivenIsTyped

\* They do not, and what drives them is what did, or what was asked for last.
LEMMA NotRestoredStep ==
  ASSUME FansInv, NEW mine, NEW possible \in SUBSET Driven,
         mine \in [last : FanLevels, smoothed : Int, recent : BOOLEAN], mine.last \in Driven,
         NEW m, Shown(m),
         FansNotRestored(mine, possible, m), faults' \in 0..MaxFaults, UNCHANGED temps
  PROVE  FansInv'
<1>1. /\ fans' \in Driven /\ ctl' = mine /\ fanMode' = fanMode /\ curve' = curve
      /\ fanDirty' \in BOOLEAN
  BY DrivenIsTyped DEF FansNotRestored
<1>2. \/ \E tried \in TriedOff(m) : Rearmed(tried)
      \/ Rearmed(IF m.seen = "off" THEN m ELSE MaxOff)
  BY DEF FansNotRestored
<1>3. m \in MaxFans /\ (\A n \in TriedOff(m) : Shown(n)) /\ Shown(MaxOff)
  BY CallsAreShown DEF Shown
<1>4. Shown(maxFan')
  BY <1>2, <1>3, RearmedIsShown
<1> QED BY <1>1, <1>4, FansStep, ShownIsEnough, ControllerTypes

\* The release before a change of the mode fails.
LEMMA ReleaseFailsStep ==
  ASSUME FansInv, ReleaseFails, UNCHANGED temps PROVE FansInv'
<1>1. UNCHANGED <<fans, fanMode, curve, ctl>> /\ fanDirty' \in BOOLEAN /\ faults' \in 0..MaxFaults
  BY FaultyIsTyped DEF ReleaseFails
<1>2. Shown(maxFan')
  BY IsShown, CallsAreShown DEF ReleaseFails
<1> QED BY <1>1, <1>2, FansStep, ShownIsEnough, ControllerTypes

-----------------------------------------------------------------------------
LEMMA ActivatesCurveStep ==
  ASSUME FansInv, NEW c \in Curves, ActivatesCurve(c) PROVE FansInv'
<1> DEFINE target == TargetAt(c, Effective)
<1>1. ValidCurve(c) /\ Effective \in Int /\ target \in Driven
  BY TemperatureTypes, TargetIsDriven DEF ActivatesCurve, FansInv
<1>2. UNCHANGED temps /\ Shown(MaxReleased(maxFan)) /\ Shown([MaxReleased(maxFan) EXCEPT !.seen = "off"])
  BY IsShown, CallsAreShown DEF ActivatesCurve
<1>3. CASE /\ fans' = target /\ fanMode' = "curve" /\ curve' = c
           /\ maxFan' = [MaxReleased(maxFan) EXCEPT !.seen = "off"]
           /\ ctl' = [last |-> target, smoothed |-> Effective, recent |-> TRUE]
           /\ fanDirty' = TRUE /\ UNCHANGED faults
  <2> HIDE DEF target
  <2>1. /\ ctl' \in [last : FanLevels, smoothed : Int, recent : BOOLEAN]
        /\ ctl'.last \in Driven /\ fans' \in Driven
    BY <1>1, <1>3, DrivenIsTyped
  <2>2. maxFan' \in MaxFans /\ MaxFanIsShown' /\ fanDirty' \in BOOLEAN
    BY <1>2, <1>3, ShownIsEnough
  <2> QED BY <1>1, <1>2, <1>3, <2>1, <2>2, FansStep, ControllerTypes, FaultyIsTyped
<1>4. CASE WriteFails(target, MaxReleased(maxFan))
  <2>1. faults' \in 0..MaxFaults
    BY <1>4, FaultyIsTyped DEF WriteFails
  <2>2. CASE FansRestored(MaxReleased(maxFan))
    BY <1>2, <2>1, <2>2, RestoredStep
  <2>3. CASE FansNotRestored(RecordFailure(ctl), {fans, target}, MaxReleased(maxFan))
    <3> HIDE DEF target
    <3>1. /\ RecordFailure(ctl) \in [last : FanLevels, smoothed : Int, recent : BOOLEAN]
          /\ RecordFailure(ctl).last \in Driven /\ {fans, target} \in SUBSET Driven
      BY <1>1, ControllerTypes DEF RecordFailure
    <3> QED BY <1>2, <2>1, <2>3, <3>1, NotRestoredStep
  <2> QED BY <1>4, <2>2, <2>3 DEF WriteFails
<1>5. CASE ReleaseFails
  BY <1>2, <1>5, ReleaseFailsStep
<1> QED BY <1>3, <1>4, <1>5 DEF ActivatesCurve

LEMMA ActivatesManualStep ==
  ASSUME FansInv, NEW target \in Driven, ActivatesManual(target) PROVE FansInv'
<1>1. UNCHANGED temps /\ Shown([MaxReleased(maxFan) EXCEPT !.seen = "off"]) /\ Shown(MaxOff)
  BY IsShown, CallsAreShown DEF ActivatesManual
<1>2. CASE /\ fans' = target /\ fanMode' = "other" /\ curve' = NoCurve
           /\ maxFan' = [MaxReleased(maxFan) EXCEPT !.seen = "off"]
           /\ ctl' = Cleared /\ fanDirty' = TRUE /\ UNCHANGED faults
  BY <1>1, <1>2, FansStep, ShownIsEnough, ControllerTypes, FaultyIsTyped
<1>3. CASE ReleaseFails
  BY <1>1, <1>3, ReleaseFailsStep
<1>4. CASE Faulty /\ (FansRestored(MaxOff) \/ FansNotRestored(ctl, {fans, target}, MaxOff))
  <2>1. faults' \in 0..MaxFaults /\ {fans, target} \in SUBSET Driven
    BY <1>4, FaultyIsTyped, ControllerTypes
  <2> QED BY <1>1, <1>4, <2>1, RestoredStep, NotRestoredStep, ControllerTypes
<1>5. CASE /\ Faulty /\ fans' \in {fans, target} /\ fanDirty' = TRUE
           /\ UNCHANGED <<maxFan, fanMode, curve, ctl>>
  <2>1. fans' \in Driven /\ maxFan' \in MaxFans /\ MaxFanIsShown'
    BY <1>5, ControllerTypes DEF MaxFanIsShown
  <2> QED BY <1>1, <1>5, <2>1, FansStep, ControllerTypes, FaultyIsTyped
<1> QED BY <1>2, <1>3, <1>4, <1>5 DEF ActivatesManual

LEMMA ActivatesMaxStep ==
  ASSUME FansInv, ActivatesMax PROVE FansInv'
<1>1. UNCHANGED <<fans, temps>> /\ fanDirty' \in BOOLEAN
  BY DEF ActivatesMax
<1>2. CASE /\ maxFan' = MaxOn /\ fanMode' = "other" /\ curve' = NoCurve
           /\ ctl' = Cleared /\ UNCHANGED faults
  BY <1>1, <1>2, CallsAreShown, FansStep, ShownIsEnough, ControllerTypes, FaultyIsTyped
<1>3. CASE Faulty /\ maxFan' \in TriedOn(maxFan) /\ UNCHANGED <<fanMode, curve, ctl>>
  <2>1. Shown(maxFan')
    BY <1>3, IsShown, CallsAreShown
  <2> QED BY <1>1, <1>3, <2>1, FansStep, ShownIsEnough, ControllerTypes, FaultyIsTyped
<1> QED BY <1>2, <1>3 DEF ActivatesMax

LEMMA ActivatesAutoStep ==
  ASSUME FansInv, ActivatesAuto PROVE FansInv'
<1> DEFINE m == IF maxFan.seen = "off" THEN maxFan ELSE MaxOff
<1>1. UNCHANGED temps /\ Shown(m)
  BY IsShown, CallsAreShown DEF ActivatesAuto
<1>2. \/ /\ fans' = (IF fanMode = "auto" THEN fans ELSE FirmwareAuto)
         /\ maxFan' = m /\ fanMode' = "auto" /\ curve' = NoCurve
         /\ ctl' = Cleared /\ fanDirty' = FALSE /\ UNCHANGED faults
      \/ ReleaseFails
      \/ /\ Faulty
         /\ fans' \in {fans, FirmwareAuto} /\ maxFan' = m /\ fanDirty' = TRUE
         /\ UNCHANGED <<fanMode, curve, ctl>>
  BY DEF ActivatesAuto
<1> HIDE DEF m
<1>3. CASE /\ fans' = (IF fanMode = "auto" THEN fans ELSE FirmwareAuto)
           /\ maxFan' = m /\ fanMode' = "auto" /\ curve' = NoCurve
           /\ ctl' = Cleared /\ fanDirty' = FALSE /\ UNCHANGED faults
  <2>1. fans' \in Driven
    BY <1>3, ControllerTypes, DrivenIsTyped
  <2> QED BY <1>1, <1>3, <2>1, FansStep, ShownIsEnough, ControllerTypes, FaultyIsTyped
<1>4. CASE ReleaseFails
  BY <1>1, <1>4, ReleaseFailsStep
<1>5. CASE /\ Faulty
           /\ fans' \in {fans, FirmwareAuto} /\ maxFan' = m /\ fanDirty' = TRUE
           /\ UNCHANGED <<fanMode, curve, ctl>>
  <2>1. fans' \in Driven
    BY <1>5, ControllerTypes, DrivenIsTyped
  <2> QED BY <1>1, <1>5, <2>1, FansStep, ShownIsEnough, ControllerTypes, FaultyIsTyped
<1> QED BY <1>2, <1>3, <1>4, <1>5

LEMMA CurveTickStep ==
  ASSUME FansInv, CurveTick PROVE FansInv'
<1> DEFINE smoothed == Smoothed(ctl.smoothed, Effective)
           target == TargetAt(curve, smoothed)
<1>1. fanMode = "curve" /\ UNCHANGED <<maxFan, fanMode, fanDirty, curve, temps, faults>>
  BY DEF CurveTick
<1>2. smoothed \in Int /\ target \in Driven
  BY <1>1, TickTarget
<1>3. \/ ctl' = [ctl EXCEPT !.smoothed = smoothed] /\ UNCHANGED fans
      \/ /\ fans' = target
         /\ ctl' = [last |-> target, smoothed |-> smoothed, recent |-> TRUE]
  BY DEF CurveTick
<1> HIDE DEF smoothed, target
<1>4. /\ ctl' \in [last : FanLevels, smoothed : Int, recent : BOOLEAN]
      /\ ctl'.last \in Driven /\ fans' \in Driven
  <2>1. CASE ctl' = [ctl EXCEPT !.smoothed = smoothed] /\ UNCHANGED fans
    <3>1. [ctl EXCEPT !.smoothed = smoothed].last = ctl.last
      BY ControllerTypes
    <3> QED BY <1>2, <2>1, <3>1, ControllerTypes
  <2>2. CASE /\ fans' = target
             /\ ctl' = [last |-> target, smoothed |-> smoothed, recent |-> TRUE]
    BY <1>2, <2>2, DrivenIsTyped
  <2> QED BY <1>3, <2>1, <2>2
<1>5. maxFan' \in MaxFans /\ MaxFanIsShown' /\ fanDirty' \in BOOLEAN
  BY <1>1, ControllerTypes DEF MaxFanIsShown
<1> QED BY <1>1, <1>4, <1>5, FansStep, ControllerTypes, FaultyIsTyped

LEMMA CurveTickFailsStep ==
  ASSUME FansInv, CurveTickFails PROVE FansInv'
<1> DEFINE smoothed == Smoothed(ctl.smoothed, Effective)
           target == TargetAt(curve, smoothed)
           mine == RecordFailure([ctl EXCEPT !.smoothed = smoothed])
<1>1. fanMode = "curve" /\ UNCHANGED temps /\ faults' \in 0..MaxFaults
  BY FaultyIsTyped DEF CurveTickFails
<1>2. smoothed \in Int /\ target \in Driven
  BY <1>1, TickTarget
<1>3. FansRestored(maxFan) \/ FansNotRestored(mine, {fans, target}, maxFan)
  BY DEF CurveTickFails
<1>4. /\ mine \in [last : FanLevels, smoothed : Int, recent : BOOLEAN]
      /\ mine.last \in Driven /\ {fans, target} \in SUBSET Driven
  <2> HIDE DEF smoothed, target
  <2> QED BY <1>2, ControllerTypes DEF RecordFailure
<1> HIDE DEF mine, target
<1> QED BY <1>1, <1>3, <1>4, IsShown, RestoredStep, NotRestoredStep

LEMMA SecondPassesStep ==
  ASSUME FansInv, SecondPasses PROVE FansInv'
<1>1. /\ ctl' \in [last : FanLevels, smoothed : Int, recent : BOOLEAN]
      /\ ctl'.last \in Driven
  BY ControllerTypes DEF SecondPasses
<1>2. UNCHANGED <<fans, maxFan, fanMode, fanDirty, curve, temps, faults>>
  BY DEF SecondPasses
<1>3. maxFan' \in MaxFans /\ MaxFanIsShown' /\ fanDirty' \in BOOLEAN
  BY <1>2, ControllerTypes DEF MaxFanIsShown
<1> QED BY <1>1, <1>2, <1>3, FansStep, ControllerTypes, FaultyIsTyped

LEMMA HeartbeatStep ==
  ASSUME FansInv, Heartbeat PROVE FansInv'
<1>1. fans' \in Driven /\ UNCHANGED <<fanMode, fanDirty, curve, ctl, temps, faults>>
  BY ControllerTypes DEF Heartbeat, Reasserted
<1>2. Shown(maxFan')
  BY IsShown, CallsAreShown DEF Heartbeat
<1> QED BY <1>1, <1>2, FansStep, ShownIsEnough, ControllerTypes, FaultyIsTyped

LEMMA HeartbeatFailsStep ==
  ASSUME FansInv, HeartbeatFails PROVE FansInv'
<1>1. /\ fans' \in Driven /\ UNCHANGED <<fanMode, fanDirty, curve, ctl, temps>>
      /\ faults' \in 0..MaxFaults
  BY ControllerTypes, FaultyIsTyped DEF HeartbeatFails, Reasserted
<1>2. Shown(maxFan')
  BY IsShown, CallsAreShown DEF HeartbeatFails
<1> QED BY <1>1, <1>2, FansStep, ShownIsEnough, ControllerTypes

LEMMA HandsBackStep ==
  ASSUME FansInv, HandsBack PROVE FansInv'
<1>1. UNCHANGED temps /\ faults' \in 0..MaxFaults
  BY FaultyIsTyped DEF HandsBack
<1>2. FansRestored(maxFan) \/ FansNotRestored(ctl, {fans}, maxFan)
  BY DEF HandsBack
<1>3. {fans} \in SUBSET Driven
  BY ControllerTypes
<1> QED BY <1>1, <1>2, <1>3, IsShown, RestoredStep, NotRestoredStep, ControllerTypes

LEMMA ClawedBackStep ==
  ASSUME FansInv, FansClawedBack PROVE FansInv'
<1>1. /\ fans' = FirmwareAuto /\ UNCHANGED <<fanMode, fanDirty, curve, ctl, temps>>
      /\ faults' \in 0..MaxFaults
  BY FaultyIsTyped DEF FansClawedBack
<1>2. Shown(maxFan')
  BY IsShown, CallsAreShown DEF FansClawedBack
<1> QED BY <1>1, <1>2, FansStep, ShownIsEnough, ControllerTypes, DrivenIsTyped

LEMMA SamplesArriveStep ==
  ASSUME FansInv, SamplesArrive PROVE FansInv'
<1>1. /\ temps' \in [cpu : CpuTemps \cup {NoTemp}, gpu : GpuTemps \cup {NoTemp}]
      /\ UNCHANGED <<fans, maxFan, fanMode, fanDirty, curve, ctl, faults>>
  BY DEF SamplesArrive
<1>2. maxFan' \in MaxFans /\ MaxFanIsShown' /\ fanDirty' \in BOOLEAN
  BY <1>1, ControllerTypes DEF MaxFanIsShown
<1> QED BY <1>1, <1>2, FansStep, ControllerTypes, FaultyIsTyped

\* The inductive invariant of the fan curve: the types, a curve exactly while one is in
\* force, only levels that may be driven in the firmware and in the controller, and max fan
\* on only where it is shown or a failed call has put it.
THEOREM CurveInvariance == CurveSpec => []FansInv
<1>1. CurveInit => FansInv
  <2>1. SUFFICES ASSUME CurveInit PROVE FansInv
    OBVIOUS
  <2>2. FirmwareAuto \in Driven /\ FirmwareAuto \in FanLevels
    BY DrivenIsTyped
  <2>3. Cleared \in [last : FanLevels, smoothed : Int, recent : BOOLEAN] /\ Cleared.last = FirmwareAuto
    BY <2>2 DEF Cleared, NoTemp
  <2>4. 0 \in 0..MaxFaults
    BY FanCurveAssumption
  <2>5. maxFan \in MaxFans /\ MaxFanIsShown
    BY <2>1 DEF CurveInit, MaxFans, MaxFanIsShown
  <2> QED BY <2>1, <2>2, <2>3, <2>4, <2>5 DEF CurveInit, FansInv, CurveTypeOK
<1>2. FansInv /\ [CurveNext]_fanVars => FansInv'
  <2> SUFFICES ASSUME FansInv, [CurveNext]_fanVars PROVE FansInv'
    OBVIOUS
  <2>1. CASE UNCHANGED fanVars
    <3>1. UNCHANGED <<fans, maxFan, fanMode, fanDirty, curve, ctl, temps, faults>>
      BY <2>1 DEF fanVars
    <3>2. maxFan' \in MaxFans /\ MaxFanIsShown' /\ fanDirty' \in BOOLEAN
      BY <3>1, ControllerTypes DEF MaxFanIsShown
    <3> QED BY <3>1, <3>2, FansStep, ControllerTypes, FaultyIsTyped
  <2>2. CASE CurveNext
    <3>1. CASE \E c \in Curves : ActivatesCurve(c)
      BY <3>1, ActivatesCurveStep
    <3>2. CASE \E c \in Curves : ValidCurve(c) /\ ActivatesManual(Levels_(c[1]))
      <4>1. PICK c \in Curves : ValidCurve(c) /\ ActivatesManual(Levels_(c[1]))
        BY <3>2
      <4>2. 1 \in 1..Len(c)
        BY PointTypes
      <4> QED BY <4>1, <4>2, PointIsDriven, ActivatesManualStep
    <3>3. CASE CurveTick
      BY <3>3, CurveTickStep
    <3>4. CASE CurveTickFails
      BY <3>4, CurveTickFailsStep
    <3>5. CASE SecondPasses
      BY <3>5, SecondPassesStep
    <3>6. CASE Heartbeat
      BY <3>6, HeartbeatStep
    <3>7. CASE HandsBack
      BY <3>7, HandsBackStep
    <3>8. CASE FansClawedBack
      BY <3>8, ClawedBackStep
    <3>9. CASE SamplesArrive
      BY <3>9, SamplesArriveStep
    <3>10. CASE ActivatesMax
      BY <3>10, ActivatesMaxStep
    <3>11. CASE ActivatesAuto
      BY <3>11, ActivatesAutoStep
    <3>12. CASE HeartbeatFails
      BY <3>12, HeartbeatFailsStep
    <3> QED
      BY <2>2, <3>1, <3>2, <3>3, <3>4, <3>5, <3>6, <3>7, <3>8, <3>9, <3>10, <3>11, <3>12
      DEF CurveNext
  <2> QED BY <2>1, <2>2
<1> QED BY <1>1, <1>2, PTL DEF CurveSpec

\* FanCurve::target_at, validate_fan_levels and the places that write: for every accepted
\* curve, every temperature, and through failed writes, failed handbacks and their fallback,
\* the levels are left to the firmware or are levels that the board allows, neither fan ever
\* stops, and max fan lies over them only where the coordinator shows it or where a call
\* that failed has put it.
THEOREM FansAlwaysAllowed == CurveSpec => [](DrivesAllowedLevels /\ MaxFanIsShown)
<1>1. FansInv => DrivesAllowedLevels /\ MaxFanIsShown
  BY DEF FansInv, Driven, DrivesAllowedLevels
<1> QED BY <1>1, CurveInvariance, PTL


=============================================================================
