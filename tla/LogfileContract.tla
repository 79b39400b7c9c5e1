--------------------------- MODULE LogfileContract ---------------------------
(***************************************************************************)
(* What ntfs_logfile_check promises the mount code, as one atomic step.   *)
(* A call either fails, handing out nothing; or reports an empty log,     *)
(* which it may do only when every block of the log its scan covers is    *)
(* empty, and then sets NVolLogFileEmpty; or hands out a copy of one      *)
(* restart page that lies in the scanned range and that the loader        *)
(* accepts, with the LSN the page records.  Between calls the caller may  *)
(* do anything that keeps NVolLogFileEmpty truthful, but it never obtains *)
(* a restart page except from a check.                                    *)
(*                                                                         *)
(* The module is parameterised by what it abstracts: which block the      *)
(* loader accepts at an offset, how far the scan reaches for a data size, *)
(* and which LSN a restart page records.                                  *)
(***************************************************************************)
EXTENDS Naturals

CONSTANTS
  Positions,      \* the offsets of the log a scan can read
  NoHeld,         \* `no restart page'
  Accepted(_, _), \* Accepted(b, p): the loader accepts block b read at p
  ScanLimit(_),   \* ScanLimit(ds): the scan reads the offsets below it
  Lsn(_)          \* the current LSN a restart page records

VARIABLES
  disk,      \* the block at each offset of the log
  dataSize,  \* the size of the log
  logEmpty,  \* NVolLogFileEmpty
  callerPc,  \* "checking" while a call of ntfs_logfile_check is in progress
  held       \* the restart page the caller was handed, or NoHeld

contractVars == <<disk, dataSize, logEmpty, callerPc, held>>

\* Every block the scan covers is empty.
LogBlank(d, ds) == \A p \in Positions : p < ScanLimit(ds) => d[p].magic = "EMPTY"

Checking == callerPc = "checking"

Init ==
  /\ logEmpty = FALSE
  /\ callerPc = "mounted"
  /\ held = NoHeld

\* The caller enters ntfs_logfile_check holding no restart page.
Call ==
  /\ ~Checking /\ held = NoHeld
  /\ callerPc' = "checking"
  /\ UNCHANGED <<disk, dataSize, logEmpty, held>>

ReturnFailed ==
  /\ Checking
  /\ callerPc' = "failed"
  /\ UNCHANGED <<disk, dataSize, logEmpty, held>>

ReturnEmpty ==
  /\ Checking /\ LogBlank(disk, dataSize)
  /\ callerPc' = "checked" /\ logEmpty' = TRUE
  /\ UNCHANGED <<disk, dataSize, held>>

ReturnPage ==
  /\ Checking
  /\ \E p \in Positions :
       /\ p < ScanLimit(dataSize) /\ Accepted(disk[p], p)
       /\ held' = [pos |-> p, lsn |-> Lsn(disk[p]), page |-> disk[p]]
  /\ callerPc' = "checked"
  /\ UNCHANGED <<disk, dataSize, logEmpty>>

Return == ReturnFailed \/ ReturnEmpty \/ ReturnPage

\* Anything the caller or the rest of the world does between calls.
Environment ==
  /\ ~Checking /\ callerPc' # "checking"
  /\ held' \in {held, NoHeld}
  /\ logEmpty' => LogBlank(disk', dataSize')

Next == Call \/ Return \/ Environment

SafetySpec == Init /\ [][Next]_contractVars

\* A call in progress returns.
Spec == SafetySpec /\ WF_contractVars(Return)
=============================================================================
