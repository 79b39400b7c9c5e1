------------------------ MODULE RestartPageContract ------------------------
(***************************************************************************)
(* What one call of ntfs_restart_page_load promises its caller, as one    *)
(* atomic step.  Each call ends in one of three ways:                     *)
(*   - Load: the page passes every check.  The call returns a new buffer  *)
(*     with the page and the LSN the page records.                        *)
(*   - Reject: the call returns EINVAL, and only for a page that fails a  *)
(*     check.  The scan of ntfs_logfile_check goes on to the next offset  *)
(*     after EINVAL, so a valid page rejected here would be skipped.      *)
(*   - Fail: the call returns ENOMEM or EIO, whatever the page.           *)
(* A call that does not return a page leaves no buffer allocated.         *)
(*                                                                         *)
(* heap counts the allocated restart-page buffers per offset; stage is    *)
(* "busy" until the call returns.                                         *)
(***************************************************************************)
EXTENDS Naturals

CONSTANTS
  Positions,      \* the offsets a restart page can be read at
  Accepted(_, _), \* Accepted(b, p): every check passes for page b at p
  Lsn(_)          \* the LSN a restart page records

VARIABLES stage, page, pos, err, lsn, heap

contractVars == <<stage, page, pos, err, lsn, heap>>

Init ==
  /\ stage = "busy" /\ err = "none" /\ lsn = 0
  /\ heap = [p \in Positions |-> 0]

Load ==
  /\ stage = "busy" /\ Accepted(page, pos)
  /\ stage' = "done" /\ lsn' = Lsn(page)
  /\ heap' = [heap EXCEPT ![pos] = @ + 1]
  /\ UNCHANGED <<page, pos, err>>

Reject ==
  /\ stage = "busy" /\ ~Accepted(page, pos)
  /\ stage' = "failed" /\ err' = "EINVAL"
  /\ UNCHANGED <<page, pos, lsn, heap>>

Fail ==
  /\ stage = "busy"
  /\ stage' = "failed" /\ err' \in {"ENOMEM", "EIO"}
  /\ UNCHANGED <<page, pos, lsn, heap>>

Next == Load \/ Reject \/ Fail

Spec == Init /\ [][Next]_contractVars
=============================================================================
