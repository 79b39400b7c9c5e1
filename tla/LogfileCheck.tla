---------------------------- MODULE LogfileCheck ----------------------------
(***************************************************************************)
(* One mounted volume's $LogFile and the three entry points of            *)
(* src/kext/ntfs_logfile.c that the mount code calls on it:               *)
(*   ntfs_logfile_check    (lines 515-727)  scan for the restart pages,   *)
(*                                          loading each one with         *)
(*                                          ntfs_restart_page_load        *)
(*                                          (module RestartPageLoad)      *)
(*   ntfs_logfile_is_clean (lines 749-784)  classify the shutdown         *)
(*   ntfs_logfile_empty    (lines 798-829)  fill the log with 0xff        *)
(* and the caller's side of their contract (spec, section 5): it checks,  *)
(* asks whether the volume is clean, may empty a clean log, frees the     *)
(* restart page it was handed, and unmounts; while unmounted another      *)
(* system may write the volume.                                           *)
(*                                                                         *)
(* The log is a function from the candidate offsets of the scan (0, 512,  *)
(* 1024, 2048, ...) to the block found there: a restart page of           *)
(* NtfsLogfileLayout, or a block with magic EMPTY, RCRD or OTHER.          *)
(***************************************************************************)
EXTENDS RestartPageLoad

CONSTANTS
  NtfsDefaultLogPageSize,  \* ntfs_logfile.h
  NtfsMaxLogFileSize,      \* the largest $LogFile size the scan considers
  NtfsMinLogRecordPages,   \* log record pages required after the restart pages
  DataSizes,               \* the values ni->data_size can have
  Disks                    \* the contents the log can have

ASSUME LogPageSizeAssumption == NtfsDefaultLogPageSize \in Nat \ {0}
ASSUME MaxLogFileSizeAssumption == NtfsMaxLogFileSize \in Nat
ASSUME MinLogRecordPagesAssumption == NtfsMinLogRecordPages \in Nat
ASSUME DataSizesAssumption == DataSizes \subseteq Nat
ASSUME DisksAssumption ==
  Disks \subseteq [Positions -> RestartPageType(ClientSlots) \cup
                                [magic : {"EMPTY", "RCRD", "OTHER"}]]

VARIABLES
  disk,      \* the block at each candidate offset of the log
  dataSize,  \* ni->data_size
  logEmpty,  \* NVolLogFileEmpty(vol)
  pc,        \* where ntfs_logfile_check is: idle, begin, scan, load, exit
  size,      \* its local size: the clamped and truncated data size
  pos,       \* its loop variable pos
  upl,       \* ppos of the page it has mapped, or -1 when upl is unmapped
  isEmpty,   \* logfile_is_empty
  rstr1,     \* rstr1_ph and rstr1_lsn, or NoRstr
  rstr2,     \* rstr2_ph and rstr2_lsn, or NoRstr
  vnodeRefs, \* references it holds from vnode_get
  locks,     \* shared holds it has of ni->lock
  chkRes,    \* the errno ntfs_logfile_check returned
  callerPc,  \* where the mount code is
  held,      \* the restart page *@rp the caller was handed, or NoRstr
  verdict    \* what ntfs_logfile_is_clean returned

checkVars == <<pc, size, pos, upl, isEmpty, rstr1, rstr2, vnodeRefs, locks,
               chkRes>>
volVars == <<disk, dataSize, logEmpty>>
callerVars == <<callerPc, held, verdict>>
vars == <<loadVars, checkVars, volVars, callerVars>>

Blocks == RestartPageType(ClientSlots) \cup [magic : {"EMPTY", "RCRD", "OTHER"}]
Rstr == [pos : Positions, lsn : Int, page : RestartPageType(ClientSlots)]
NoRstr == [pos |-> -1, lsn |-> 0, page |-> NoPage]
NoUpl == -1
CheckPcs == {"idle", "begin", "scan", "load", "exit"}
CallerPcs == {"mounted", "checking", "checked", "failed", "judged", "emptied",
              "unmounted"}
CheckErrnos == {"none", "EINVAL", "ENOMEM", "EIO", "ENOENT"}

LogfileTypeOK ==
  /\ LoadTypeOK
  /\ disk \in [Positions -> Blocks]
  /\ dataSize \in DataSizes
  /\ logEmpty \in BOOLEAN
  /\ pc \in CheckPcs
  /\ size \in Nat
  /\ pos \in Nat
  /\ upl \in Positions \cup {NoUpl}
  /\ isEmpty \in BOOLEAN
  /\ rstr1 \in Rstr \cup {NoRstr}
  /\ rstr2 \in Rstr \cup {NoRstr}
  /\ vnodeRefs \in Nat
  /\ locks \in Nat
  /\ chkRes \in CheckErrnos
  /\ callerPc \in CallerPcs
  /\ held \in Rstr \cup {NoRstr}
  /\ verdict \in BOOLEAN

\* Lines 562-566: the log page size the size is truncated to.
LogPageSize ==
  IF PAGE_SIZE >= NtfsDefaultLogPageSize /\ PAGE_SIZE <= NtfsDefaultLogPageSize * 2
    THEN NtfsDefaultLogPageSize ELSE PAGE_SIZE

\* Lines 550-568: size clamped to NtfsMaxLogFileSize, then rounded down.
ScanSize(ds) ==
  LET s == IF ds > NtfsMaxLogFileSize THEN NtfsMaxLogFileSize ELSE ds
  IN s - (s % LogPageSize)

\* Lines 573-574; `>> log_page_bits' divides by the log page size.
LogTooSmall(s) ==
  \/ s < LogPageSize * 2
  \/ (s - LogPageSize * 2) \div LogPageSize < NtfsMinLogRecordPages

\* Variant of NextPos without the special case for offset 0.
NextPosUnfixed(p) == p * 2

\* `if (!pos) pos = NTFS_BLOCK_SIZE / 2;' and then the loop's `pos <<= 1'.
NextPos(p) == (IF p = 0 THEN NTFS_BLOCK_SIZE \div 2 ELSE p) * 2

\* The candidate offsets hold every offset the scan reaches below
\* NtfsMaxLogFileSize.
ASSUME ScanPositionsAssumption ==
  /\ 0 \in Positions
  /\ \A p \in Positions : NextPos(p) < NtfsMaxLogFileSize => NextPos(p) \in Positions

\* No candidate offset lies strictly between an offset and the next one the
\* scan reads: every offset below pos has been read when the scan is at pos.
ASSUME ScanPositionsExactAssumption ==
  \A p, q \in Positions : ~(q < p /\ p < NextPos(q))

\* The number of live restart-page buffers at offset p that b accounts for.
Owns(b, p) == IF b.pos = p THEN 1 ELSE 0
-----------------------------------------------------------------------------
(* ntfs_logfile_check                                                      *)

\* Return from ntfs_logfile_check to the caller with errno err; the
\* function's locals size, pos and logfile_is_empty go out of scope.
CheckReturn(err) ==
  /\ pc' = "idle" /\ chkRes' = err
  /\ callerPc' = IF err = "none" THEN "checked" ELSE "failed"
  /\ size' = 0 /\ pos' = 0 /\ isEmpty' = TRUE

\* Variant of CheckBegin that starts the scan without vnode_get.
CheckBeginNoVnodeGet ==
  /\ pc = "begin"
  /\ held' = NoRstr
  /\ UNCHANGED <<loadVars, volVars, verdict, rstr1, rstr2>>
  /\ \/ /\ logEmpty
        /\ CheckReturn("none")
        /\ UNCHANGED <<upl, vnodeRefs, locks>>
     \/ /\ ~logEmpty /\ LogTooSmall(ScanSize(dataSize))
        /\ CheckReturn("EINVAL")
        /\ UNCHANGED <<upl, vnodeRefs, locks>>
     \/ /\ ~logEmpty /\ ~LogTooSmall(ScanSize(dataSize))
        /\ pc' = "scan"
        /\ size' = ScanSize(dataSize)
        /\ pos' = 0 /\ upl' = NoUpl /\ isEmpty' = TRUE
        /\ locks' = locks + 1
        /\ UNCHANGED <<vnodeRefs, chkRes, callerPc>>

\* Lines 536-590: *rp = NULL, the empty-log shortcut, vnode_get, the size
\* computation and the too-small test; then the loop starts at pos 0.
CheckBegin ==
  /\ pc = "begin"
  /\ held' = NoRstr
  /\ UNCHANGED <<loadVars, volVars, verdict, rstr1, rstr2>>
  /\ \/ /\ logEmpty
        /\ CheckReturn("none")
        /\ UNCHANGED <<upl, vnodeRefs, locks>>
     \/ /\ ~logEmpty /\ "vnode" \in Faults
        /\ \E err \in {"EINVAL", "ENOENT"} :
             CheckReturn(IF err = "EINVAL" THEN "EIO" ELSE err)
        /\ UNCHANGED <<upl, vnodeRefs, locks>>
     \/ /\ ~logEmpty /\ LogTooSmall(ScanSize(dataSize))
        /\ CheckReturn("EINVAL")
        /\ UNCHANGED <<upl, vnodeRefs, locks>>
     \/ /\ ~logEmpty /\ ~LogTooSmall(ScanSize(dataSize))
        /\ pc' = "scan"
        /\ size' = ScanSize(dataSize)
        /\ pos' = 0 /\ upl' = NoUpl /\ isEmpty' = TRUE
        /\ vnodeRefs' = vnodeRefs + 1 /\ locks' = locks + 1
        /\ UNCHANGED <<chkRes, callerPc>>

\* Label err (lines 721-726): unlock, vnode_put, free rstr1_ph, return err.
CheckErr(err) ==
  /\ CheckReturn(err)
  /\ vnodeRefs' = vnodeRefs - 1 /\ locks' = locks - 1
  /\ heap' = IF rstr1 = NoRstr THEN heap
             ELSE [heap EXCEPT ![rstr1.pos] = @ - 1]
  /\ rstr1' = NoRstr

\* The page the block at pos lies in is mapped at ppos = pos (lines 591-602).
MapsPage(p) == upl = NoUpl \/ p - (p % PAGE_SIZE) # upl

\* One iteration of the loop of lines 590-677 up to the load or the next
\* iteration: map the page if needed, then classify the block at pos.
ScanStep ==
  /\ pc = "scan" /\ pos < size
  /\ UNCHANGED <<volVars, held, verdict, rstr2>>
  /\ \/ /\ MapsPage(pos) /\ "map" \in Faults
        /\ \E err \in {"EIO", "ENOMEM", "EINVAL"} :
             CheckErr(IF err \in {"EIO", "ENOMEM"} THEN err ELSE "EIO")
        /\ upl' = NoUpl
        /\ UNCHANGED <<ldStage, ldPage, ldPos, ldErr, ldLsn>>
     \/ LET b == disk[pos] IN
        /\ upl' = IF MapsPage(pos) THEN pos ELSE upl
        /\ UNCHANGED <<size, vnodeRefs, locks, chkRes, callerPc, rstr1>>
        /\ \/ /\ b.magic = "EMPTY" /\ isEmpty
              /\ pos' = NextPos(pos)
              /\ UNCHANGED <<loadVars, pc, isEmpty>>
           \/ /\ b.magic = "EMPTY" /\ ~isEmpty
              /\ pc' = "exit"
              /\ UNCHANGED <<loadVars, pos, isEmpty>>
           \/ /\ b.magic = "RCRD"
              /\ pc' = "exit" /\ isEmpty' = FALSE
              /\ UNCHANGED <<loadVars, pos>>
           \/ /\ b.magic = "OTHER"
              /\ pos' = NextPos(pos) /\ isEmpty' = FALSE
              /\ UNCHANGED <<loadVars, pc>>
           \/ /\ IsRestartMagic(b.magic)
              /\ pc' = "load" /\ isEmpty' = FALSE
              /\ StartLoad(b, pos)
              /\ UNCHANGED <<heap, pos>>

\* Variant of ScanAfterLoad that leaves the page mapped on a load error.
ScanAfterLoadNoUnmap ==
  /\ pc = "load" /\ ldStage \in {"done", "failed"}
  /\ ldStage' = "idle" /\ ldPage' = NoPage /\ ldPos' = 0 /\ ldErr' = "none"
  /\ ldLsn' = 0
  /\ UNCHANGED <<volVars, held, verdict>>
  /\ \/ /\ ldStage = "done"
        /\ LET r == [pos |-> pos, lsn |-> ldLsn, page |-> ldPage] IN
           IF rstr1 = NoRstr THEN rstr1' = r /\ rstr2' = rstr2
                             ELSE rstr2' = r /\ rstr1' = rstr1
        /\ IF pos = 0 THEN pc' = "scan" /\ pos' = NextPos(pos)
                      ELSE pc' = "exit" /\ pos' = pos
        /\ UNCHANGED <<heap, size, isEmpty, upl, vnodeRefs, locks, chkRes,
                       callerPc>>
     \/ /\ ldStage = "failed" /\ ldErr = "EINVAL"
        /\ pc' = "scan" /\ pos' = NextPos(pos)
        /\ UNCHANGED <<heap, size, isEmpty, upl, rstr1, rstr2, vnodeRefs, locks,
                       chkRes, callerPc>>
     \/ /\ ldStage = "failed" /\ ldErr # "EINVAL"
        /\ CheckErr(ldErr)
        /\ UNCHANGED <<rstr2, upl>>

\* Lines 646-677: the result of ntfs_restart_page_load.  A loaded page
\* becomes rstr1, or rstr2 once rstr1 is set; EINVAL continues the scan;
\* any other error unmaps the page and leaves through label err.
ScanAfterLoad ==
  /\ pc = "load" /\ ldStage \in {"done", "failed"}
  /\ ldStage' = "idle" /\ ldPage' = NoPage /\ ldPos' = 0 /\ ldErr' = "none"
  /\ ldLsn' = 0
  /\ UNCHANGED <<volVars, held, verdict>>
  /\ \/ /\ ldStage = "done"
        /\ LET r == [pos |-> pos, lsn |-> ldLsn, page |-> ldPage] IN
           IF rstr1 = NoRstr THEN rstr1' = r /\ rstr2' = rstr2
                             ELSE rstr2' = r /\ rstr1' = rstr1
        /\ IF pos = 0 THEN pc' = "scan" /\ pos' = NextPos(pos)
                      ELSE pc' = "exit" /\ pos' = pos
        /\ UNCHANGED <<heap, size, isEmpty, upl, vnodeRefs, locks, chkRes,
                       callerPc>>
     \/ /\ ldStage = "failed" /\ ldErr = "EINVAL"
        /\ pc' = "scan" /\ pos' = NextPos(pos)
        /\ UNCHANGED <<heap, size, isEmpty, upl, rstr1, rstr2, vnodeRefs, locks,
                       chkRes, callerPc>>
     \/ /\ ldStage = "failed" /\ ldErr # "EINVAL"
        /\ upl' = NoUpl
        /\ CheckErr(ldErr)
        /\ UNCHANGED rstr2

\* Variant of Chosen that switches to the second page on equal LSNs.
ChosenOnEqual(r1, r2) == IF r2 # NoRstr /\ r2.lsn >= r1.lsn THEN r2 ELSE r1

\* The restart page ntfs_logfile_check hands out (lines 697-712): the
\* second one if its LSN is strictly greater, else the first.
Chosen(r1, r2) == IF r2 # NoRstr /\ r2.lsn > r1.lsn THEN r2 ELSE r1

\* Variant of CheckFinish that does not free the older restart page.
CheckFinishKeepsLoser ==
  /\ pc = "exit" \/ (pc = "scan" /\ pos >= size)
  /\ upl' = NoUpl /\ vnodeRefs' = vnodeRefs - 1 /\ locks' = locks - 1
  /\ rstr1' = NoRstr /\ rstr2' = NoRstr
  /\ UNCHANGED <<loadVars, disk, dataSize, verdict>>
  /\ \/ /\ isEmpty
        /\ logEmpty' = TRUE
        /\ CheckReturn("none")
        /\ UNCHANGED held
     \/ /\ ~isEmpty /\ rstr1 = NoRstr
        /\ CheckReturn("EINVAL")
        /\ UNCHANGED <<logEmpty, held>>
     \/ /\ ~isEmpty /\ rstr1 # NoRstr
        /\ held' = Chosen(rstr1, rstr2)
        /\ CheckReturn("none")
        /\ UNCHANGED logEmpty

\* Lines 678-720: leave the loop, unmap, unlock and vnode_put, then report
\* an empty log, fail without a restart page, or free the older page and
\* return the other.
CheckFinish ==
  /\ pc = "exit" \/ (pc = "scan" /\ pos >= size)
  /\ upl' = NoUpl /\ vnodeRefs' = vnodeRefs - 1 /\ locks' = locks - 1
  /\ rstr1' = NoRstr /\ rstr2' = NoRstr
  /\ UNCHANGED <<ldStage, ldPage, ldPos, ldErr, ldLsn, disk, dataSize, verdict>>
  /\ \/ /\ isEmpty
        /\ logEmpty' = TRUE
        /\ CheckReturn("none")
        /\ UNCHANGED <<heap, held>>
     \* Lines 688-694.  rstr2_ph is only set once rstr1_ph is, so the
     \* panic for rstr2_ph without rstr1_ph is left out.
     \/ /\ ~isEmpty /\ rstr1 = NoRstr
        /\ CheckReturn("EINVAL")
        /\ UNCHANGED <<heap, logEmpty, held>>
     \/ /\ ~isEmpty /\ rstr1 # NoRstr
        /\ LET best == Chosen(rstr1, rstr2)
               loser == IF best = rstr1 THEN rstr2 ELSE rstr1
           IN /\ held' = best
              /\ heap' = IF loser = NoRstr THEN heap
                         ELSE [heap EXCEPT ![loser.pos] = @ - 1]
        /\ CheckReturn("none")
        /\ UNCHANGED logEmpty
-----------------------------------------------------------------------------
(* ntfs_logfile_is_clean and ntfs_logfile_empty                           *)

\* The rule of lines 771-780: dirty when a client is in use and the
\* RESTART_VOLUME_IS_CLEAN flag is clear.
RestartAreaIsClean(page) ==
  ~(page.ra.client_in_use_list # LOGFILE_NO_CLIENT /\ ~page.ra.volume_is_clean)

\* Lines 749-784, called on the page ntfs_logfile_check returned.  The
\* mount code calls it only after a successful check, so the panic for a
\* NULL rp (line 761, a page-less success without NVolLogFileEmpty) is not
\* reachable and is left out.
ntfs_logfile_is_clean ==
  /\ callerPc = "checked"
  /\ callerPc' = "judged"
  /\ verdict' = \/ logEmpty
                \/ IsRestartMagic(held.page.magic) /\ RestartAreaIsClean(held.page)
  /\ UNCHANGED <<loadVars, checkVars, volVars, held>>

\* ntfs_attr_set(ni, 0, data_size, 0xff) is not in src/: following the
\* spec it fills the blocks below data_size with 0xff, in order, and a
\* failure may leave any prefix of them filled.
FillPrefix(d, limit) == [p \in DOMAIN d |-> IF p < limit THEN [magic |-> "EMPTY"]
                                                ELSE d[p]]

\* Variant of ntfs_logfile_empty that sets the flag although the fill failed.
EmptySetsFlagOnError ==
  /\ callerPc = "judged" /\ verdict
  /\ UNCHANGED <<loadVars, checkVars, dataSize, held, verdict>>
  /\ \/ /\ logEmpty
        /\ callerPc' = "emptied"
        /\ UNCHANGED <<disk, logEmpty>>
     \/ /\ ~logEmpty
        /\ disk' = FillPrefix(disk, dataSize)
        /\ logEmpty' = TRUE
        /\ callerPc' = "emptied"
     \/ /\ ~logEmpty /\ "write" \in Faults
        /\ \E cut \in Positions : disk' = FillPrefix(disk, cut)
        /\ logEmpty' = TRUE
        /\ UNCHANGED callerPc

\* Lines 798-829; the mount code calls it only on a log it judged clean.
ntfs_logfile_empty ==
  /\ callerPc = "judged" /\ verdict
  /\ UNCHANGED <<loadVars, checkVars, dataSize, held, verdict>>
  /\ \/ /\ logEmpty
        /\ callerPc' = "emptied"
        /\ UNCHANGED <<disk, logEmpty>>
     \/ /\ ~logEmpty /\ "vnode" \in Faults
        /\ UNCHANGED <<callerPc, disk, logEmpty>>
     \/ /\ ~logEmpty
        /\ disk' = FillPrefix(disk, dataSize)
        /\ logEmpty' = TRUE
        /\ callerPc' = "emptied"
     \/ /\ ~logEmpty /\ "write" \in Faults
        /\ \E cut \in Positions : disk' = FillPrefix(disk, cut)
        /\ UNCHANGED <<callerPc, logEmpty>>
-----------------------------------------------------------------------------
(* The mount code (not in src/; modelled from the spec, section 5)        *)

\* It calls ntfs_logfile_check with a place for the restart page, again
\* after emptying the log, or after a failure.
CallCheck ==
  /\ callerPc \in {"mounted", "failed", "emptied"} /\ held = NoRstr
  /\ pc' = "begin" /\ callerPc' = "checking" /\ verdict' = FALSE
  /\ UNCHANGED <<loadVars, size, pos, upl, isEmpty, rstr1, rstr2, vnodeRefs,
                 locks, chkRes, volVars, held>>

\* IOFreeData(*rp, system_page_size) once it is done with the page.
ReleasePage ==
  /\ callerPc \in {"judged", "emptied"} /\ held # NoRstr
  /\ held' = NoRstr
  /\ heap' = [heap EXCEPT ![held.pos] = @ - 1]
  /\ UNCHANGED <<ldStage, ldPage, ldPos, ldErr, ldLsn, checkVars, volVars,
                 callerPc, verdict>>

\* Unmounting frees the ntfs_volume and with it NVolLogFileEmpty.
Unmount ==
  /\ callerPc \in {"judged", "emptied", "failed"} /\ held = NoRstr
  /\ callerPc' = "unmounted" /\ logEmpty' = FALSE
  /\ UNCHANGED <<loadVars, checkVars, disk, dataSize, held, verdict>>

\* While the volume is not mounted another system may write the log and
\* resize it.
ForeignWrite ==
  /\ callerPc = "unmounted"
  /\ \E d \in Disks, ds \in DataSizes : disk' = d /\ dataSize' = ds
  /\ UNCHANGED <<loadVars, checkVars, logEmpty, callerVars>>

\* A new mount starts with a fresh volume structure.
Mount ==
  /\ callerPc = "unmounted"
  /\ callerPc' = "mounted"
  /\ UNCHANGED <<loadVars, checkVars, volVars, held, verdict>>
-----------------------------------------------------------------------------
Init ==
  /\ disk \in Disks
  /\ dataSize \in DataSizes
  /\ logEmpty = FALSE
  /\ ldStage = "idle" /\ ldPage = NoPage /\ ldPos = 0 /\ ldErr = "none"
  /\ ldLsn = 0 /\ heap = [p \in Positions |-> 0]
  /\ pc = "idle" /\ size = 0 /\ pos = 0 /\ upl = NoUpl /\ isEmpty = TRUE
  /\ rstr1 = NoRstr /\ rstr2 = NoRstr /\ vnodeRefs = 0 /\ locks = 0
  /\ chkRes = "none"
  /\ callerPc = "mounted" /\ held = NoRstr /\ verdict = FALSE

\* The steps of ntfs_logfile_check, ntfs_restart_page_load among them.
CheckStep == CheckBegin \/ ScanStep \/ ScanAfterLoad \/ CheckFinish
               \/ (LoadStep /\ UNCHANGED <<checkVars, volVars, callerVars>>)

CallerStep == CallCheck \/ ntfs_logfile_is_clean \/ ntfs_logfile_empty
                \/ ReleasePage \/ Unmount \/ ForeignWrite \/ Mount

Next == CheckStep \/ CallerStep

\* ntfs_logfile_check runs to completion on the caller's thread: the
\* collaborators it calls return.
Spec == Init /\ [][Next]_vars /\ WF_vars(CheckStep)
-----------------------------------------------------------------------------
(* Properties                                                              *)

\* Whether ntfs_restart_page_load would accept the block b read at p.
Loadable(b, p) == IsRestartMagic(b.magic) /\ LoadAccepts(b, p)

\* The scan's range of the log, and the restart pages it holds.
InScan(p) == p < ScanSize(dataSize)
LoadableSlots(d) == {p \in Positions : InScan(p) /\ Loadable(d[p], p)}

\* The restart page that governs the log: the one with the greatest LSN,
\* the first one among equals (spec 4.5).
Authoritative(d) ==
  CHOOSE p \in LoadableSlots(d) :
    \A q \in LoadableSlots(d) :
      \/ RestartPageLsn(d[q]) < RestartPageLsn(d[p])
      \/ RestartPageLsn(d[q]) = RestartPageLsn(d[p]) /\ p <= q

\* The log is clean: every block the scan reads is empty, or the
\* governing restart page records a clean shutdown.
LogIsClean(d) ==
  \/ \A p \in Positions : InScan(p) => d[p].magic = "EMPTY"
  \/ LoadableSlots(d) # {} /\ RestartAreaIsClean(d[Authoritative(d)])

\* Every restart-page buffer that is allocated belongs to exactly one
\* owner: the load in progress, rstr1_ph, rstr2_ph or the caller's *rp.
\* A leak or a double IOFree on any error path, or of the page that loses
\* the LSN comparison, breaks the count.
BuffersOwned ==
  \A p \in Positions :
    heap[p] = Owns(held, p) + Owns(rstr1, p) + Owns(rstr2, p)
                + (IF ldStage \in {"read", "fixup", "clients", "done"} /\ ldPos = p
                     THEN 1 ELSE 0)

\* Whenever ntfs_logfile_check has returned, on any path, it has unmapped
\* the page, dropped the shared lock and put the vnode.
CheckReleasesResources ==
  pc = "idle" => upl = NoUpl /\ vnodeRefs = 0 /\ locks = 0

\* NVolLogFileEmpty is set only while every block of the log the scan
\* would read is empty: it is what lets a later check and is_clean skip
\* the log (lines 539-540, 756-759).
EmptyFlagSound ==
  logEmpty => \A p \in Positions : InScan(p) => disk[p].magic = "EMPTY"

\* ntfs_logfile_is_clean never reports a volume clean whose log holds a
\* governing restart page of a dirty shutdown: the scan, the LSN choice,
\* the empty flag and the clean rule together decide the verdict.
NoDirtyVolumeReportedClean ==
  [][ntfs_logfile_is_clean /\ verdict' => LogIsClean(disk)]_vars

\* The restart page ntfs_logfile_check hands the caller is one of the two
\* it loaded, and no loaded page has a greater LSN; among equal LSNs it is
\* the page read first (lines 695-712, spec 4.5).
NewestPageHandedOut ==
  [][held' # held /\ held' # NoRstr =>
       /\ held' \in {rstr1, rstr2}
       /\ \A r \in {rstr1, rstr2} \ {NoRstr} :
            \/ r.lsn < held'.lsn
            \/ r.lsn = held'.lsn /\ held'.pos <= r.pos]_vars

\* Every call of ntfs_logfile_check returns: the scan ends.
CheckTerminates == pc # "idle" ~> pc = "idle"

-----------------------------------------------------------------------------
(* Refinement: ntfs_logfile_check implements the contract of              *)
(* LogfileContract.  The caller-visible state maps to itself; the steps   *)
(* inside a call are stutters of the contract, and the step that returns  *)
(* is its one atomic Return.                                              *)

Contract == INSTANCE LogfileContract
              WITH NoHeld <- NoRstr, Accepted <- Loadable,
                   ScanLimit <- ScanSize, Lsn <- RestartPageLsn

\* Every call of ntfs_logfile_check, seen from the mount code, fails with
\* nothing handed out, reports an empty log only when every block its scan
\* covers is empty, or hands out an accepted restart page from the scanned
\* range with that page's LSN.  Between calls the empty flag stays truthful
\* across ntfs_logfile_empty, unmount and foreign writes.  (That every call
\* returns is CheckTerminates.)
ContractSpec == Contract!SafetySpec
=============================================================================
