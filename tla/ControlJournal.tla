--------------------------- MODULE ControlJournal ---------------------------
(***************************************************************************)
(* The control journal (control/journal.rs): every outcome is appended to   *)
(* the active file and synced; a file that has grown to the limit becomes   *)
(* the backup, and a new one is started.  Any file operation may fail and   *)
(* the process may end between any two of them.                             *)
(*                                                                          *)
(* A file is the sequence of what its writes left: an entry, or 0 where none *)
(* can be read back, because it was cut short by a crash or a failed call   *)
(* or shares its line with one that was.  Sizes are counted in writes.      *)
(***************************************************************************)
EXTENDS Naturals, Sequences, SequencesExt

CONSTANTS
  JournalLimit,   \* MAX_JOURNAL_BYTES, in entries
  MaxEntries,     \* bound: entries written in a run
  MaxTorn         \* bound: entries cut short

ASSUME JournalAssumption ==
  /\ JournalLimit \in Nat /\ MaxEntries \in Nat /\ MaxTorn \in Nat
  /\ MaxTorn < JournalLimit

NoFile == [there |-> FALSE, lines |-> <<>>, open |-> FALSE]

VARIABLES
  active,    \* control-journal.jsonl
  backup,    \* control-journal.1.jsonl
  handle,    \* the file the open handle writes to: "active", "backup", or "none"
  written,   \* history: entries acknowledged so far, numbered in order
  torn,      \* history: entries cut short so far
  cuts       \* history: how many entries had been acknowledged at each cut

journalVars == <<active, backup, handle, written, torn, cuts>>

\* The last line of an open file has no newline yet.
Files == [there : BOOLEAN, lines : Seq(0..MaxEntries), open : BOOLEAN]

JournalTypeOK ==
  /\ active \in Files /\ backup \in Files
  /\ handle \in {"active", "backup", "none"}
  /\ written \in 0..MaxEntries /\ torn \in 0..MaxTorn /\ cuts \subseteq 0..MaxEntries

JournalInit ==
  /\ active = NoFile /\ backup = NoFile
  /\ handle = "none"
  /\ written = 0 /\ torn = 0 /\ cuts = {}

File(which) == IF which = "active" THEN active ELSE backup

IsFull_always(file) == file.there
IsFull(file) == file.there /\ Len(file.lines) >= JournalLimit

\* rotate_to_backup: the rename, which needs a file to rename, then the new file.
Renamed ==
  /\ active.there
  /\ backup' = active

Opened_(file) == [file EXCEPT !.there = TRUE]

-----------------------------------------------------------------------------
\* ControlJournal::open; a rotation that fails leaves the file as it is, and a file that
\* cannot be opened leaves the engine without control.
JournalOpen ==
  /\ handle = "none"
  /\ \/ /\ active' = Opened_(active)
        /\ UNCHANGED backup
     \/ /\ IsFull(active) /\ Renamed
        /\ active' = Opened_(NoFile)
  /\ handle' = "active"
  /\ UNCHANGED <<written, torn, cuts>>

\* write_all, newline, flush, sync_data.  What follows an unfinished line joins it, and
\* neither can be read.
Puts(file, entry) ==
  [file EXCEPT !.lines = Append(@, IF file.open THEN 0 ELSE entry), !.open = FALSE]

\* A part of the entry, its newline included or not.
PutsPart(file, ended) == [file EXCEPT !.lines = Append(@, 0), !.open = ~ended]

Append_ ==
  /\ handle # "none" /\ ~IsFull(File(handle)) /\ written < MaxEntries
  /\ written' = written + 1
  /\ IF handle = "active"
     THEN active' = Puts(active, written') /\ UNCHANGED backup
     ELSE backup' = Puts(backup, written') /\ UNCHANGED active
  /\ UNCHANGED <<handle, torn, cuts>>

\* The write fails half-way, or the process dies in it.
AppendIsCut ==
  /\ handle # "none" /\ ~IsFull(File(handle)) /\ torn < MaxTorn
  /\ torn' = torn + 1 /\ cuts' = cuts \cup {written}
  /\ \E ended \in BOOLEAN :
       IF handle = "active"
       THEN active' = PutsPart(active, ended) /\ UNCHANGED backup
       ELSE backup' = PutsPart(backup, ended) /\ UNCHANGED active
  /\ handle' \in {handle, "none"}
  /\ UNCHANGED written

\* A full file: rotate, then the entry goes to the new one.
AppendRotates ==
  /\ handle # "none" /\ IsFull(File(handle)) /\ written < MaxEntries
  /\ Renamed
  /\ written' = written + 1
  /\ active' = Puts(Opened_(NoFile), written')
  /\ handle' = "active"
  /\ UNCHANGED <<torn, cuts>>

\* The rename succeeded and the new file could not be opened: the entry is not written,
\* and the handle is on what has become the backup.  (Or the process died in between.)
AppendLosesHandle ==
  /\ handle # "none" /\ IsFull(File(handle))
  /\ Renamed
  /\ active' = NoFile
  /\ handle' \in {"backup", "none"}
  /\ UNCHANGED <<written, torn, cuts>>

JournalEnds ==
  /\ handle # "none"
  /\ handle' = "none"
  /\ UNCHANGED <<active, backup, written, torn, cuts>>

JournalNext ==
  JournalOpen \/ Append_ \/ AppendIsCut \/ AppendRotates \/ AppendLosesHandle \/ JournalEnds

JournalSpec == JournalInit /\ [][JournalNext]_journalVars

-----------------------------------------------------------------------------
(* Properties *)

Kept == ToSet(active.lines) \cup ToSet(backup.lines)

\* The entry acknowledged next after one that was cut short may share its line.
AfterCut == {e \in 1..MaxEntries : e - 1 \in cuts}

\* Rotation, failed rotation and crashes never take the evidence of the latest writes: the
\* last entries that were acknowledged, up to the limit, can be read back from one of the
\* two files, except the one acknowledged right after an entry that was cut short, which
\* may have been written into the unfinished line (README, section 6).
LatestEntriesKept ==
  \A e \in (1..written) \ AfterCut : e + JournalLimit > written + torn => e \in Kept

=============================================================================
