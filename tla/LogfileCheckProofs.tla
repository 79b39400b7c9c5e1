------------------------- MODULE LogfileCheckProofs -------------------------
(***************************************************************************)
(* Proofs, for every value of the constants, that the composed model of   *)
(* ntfs_logfile_check, ntfs_restart_page_load, ntfs_logfile_is_clean,     *)
(* ntfs_logfile_empty and their caller keeps its variables well typed,    *)
(* accounts for every restart-page buffer, and releases the page mapping, *)
(* the lock and the vnode reference whenever ntfs_logfile_check returns.  *)
(***************************************************************************)
EXTENDS LogfileCheck, RestartPageLoadProofs, TLAPS

\* Where ntfs_logfile_check holds the vnode, the lock and the mapping.
Scanning == {"scan", "load", "exit"}

(***************************************************************************)
(* The inductive invariant.  Beyond the type and the buffer count it      *)
(* records the shape of the scan that the error paths rely on: a reference *)
(* and a lock are held exactly while scanning; the load runs only inside   *)
(* the check, at the scan's offset; the caller holds no page during a      *)
(* check; rstr2 is set only on the way out of the loop, and rstr1 only at  *)
(* an offset the loop has already left behind, and only once a block that *)
(* is not empty has been seen.                                            *)
(***************************************************************************)
ScanShape ==
  /\ (pc = "idle") = (callerPc # "checking")
  /\ pc \in {"idle", "begin"} =>
       /\ upl = NoUpl /\ vnodeRefs = 0 /\ locks = 0
       /\ rstr1 = NoRstr /\ rstr2 = NoRstr
  /\ pc \in Scanning => vnodeRefs = 1 /\ locks = 1
  /\ pc # "load" => ldStage = "idle"
  /\ pc = "load" => /\ ldStage # "idle" /\ ldPos = pos /\ pos \in Positions
                   /\ ldPage \in RestartPageType(ClientSlots)
  /\ pc = "scan" /\ pos < size => pos \in Positions
  /\ size <= NtfsMaxLogFileSize
  /\ pc # "idle" => held = NoRstr
  /\ rstr2 # NoRstr => pc = "exit" /\ rstr1 # NoRstr
  /\ pc \in {"scan", "load"} /\ rstr1 # NoRstr => pos # 0
  /\ pc = "load" \/ rstr1 # NoRstr => ~isEmpty

IInv == LogfileTypeOK /\ BuffersOwned /\ ScanShape

-----------------------------------------------------------------------------
(* Lemmas about the operators the model is built from.                    *)

\* A block of the log with a restart magic is a restart page.
LEMMA BlockIsPage ==
  ASSUME NEW b \in Blocks, IsRestartMagic(b.magic)
  PROVE  b \in RestartPageType(ClientSlots)
BY DEF Blocks, IsRestartMagic

\* The absent buffer owns nothing, since offsets are natural numbers.
LEMMA NoRstrOwnsNothing ==
  ASSUME NEW p \in Positions
  PROVE  Owns(NoRstr, p) = 0
BY PositionsAssumption DEF Owns, NoRstr

\* A buffer variable owns no buffer or one at an offset.
LEMMA OwnsRange ==
  ASSUME NEW b, NEW p
  PROVE  Owns(b, p) \in {0, 1}
BY DEF Owns

\* The clamped and truncated size is a natural number no larger than the
\* clamp.
LEMMA ScanSizeBound ==
  ASSUME NEW ds \in DataSizes
  PROVE  ScanSize(ds) \in Nat /\ ScanSize(ds) <= NtfsMaxLogFileSize
<1>1. LogPageSize \in Nat \ {0}
  BY PageSizeAssumption, LogPageSizeAssumption DEF LogPageSize
<1>2. PICK s \in 0..NtfsMaxLogFileSize : ScanSize(ds) = s - (s % LogPageSize)
  BY DataSizesAssumption, MaxLogFileSizeAssumption DEF ScanSize
<1>3. s % LogPageSize \in 0..s
  BY <1>1
<1>4. PICK r \in 0..s : ScanSize(ds) = s - r
  BY <1>2, <1>3
<1>. QED
  BY <1>4, MaxLogFileSizeAssumption

\* The scan's next offset is a positive natural number.
LEMMA NextPosType ==
  ASSUME NEW p \in Nat
  PROVE  NextPos(p) \in Nat /\ NextPos(p) # 0
BY DEF NextPos, NTFS_BLOCK_SIZE
\* The type invariant is a conjunct of the inductive invariant.
LEMMA IInvTypeOK == IInv => LogfileTypeOK
BY DEF IInv
-----------------------------------------------------------------------------
(* The inductive invariant holds initially and is kept by every step.     *)

USE DEF Scanning, CheckPcs, CallerPcs, CheckErrnos, Stages, Errnos, NoUpl

LEMMA InitIInv == Init => IInv
<1> SUFFICES ASSUME Init PROVE IInv
  OBVIOUS
<1>1. disk \in [Positions -> Blocks]
  BY DisksAssumption DEF Init, Blocks
<1>2. LoadTypeOK
  BY ScanPositionsAssumption DEF Init, LoadTypeOK
<1>3. LogfileTypeOK
  BY <1>1, <1>2 DEF Init, NoRstr, LogfileTypeOK
<1>4. BuffersOwned
  BY PositionsAssumption DEF Init, BuffersOwned, Owns, NoRstr
<1>5. ScanShape
  BY MaxLogFileSizeAssumption DEF Init, ScanShape
<1>. QED
  BY <1>3, <1>4, <1>5 DEF IInv


(***************************************************************************)
(* The caller's steps.  Each proof names what the step leaves unchanged,  *)
(* then shows the type, the buffer count and the scan's shape.            *)
(***************************************************************************)
LEMMA CallCheckIInv == IInv /\ CallCheck => IInv'
<1> SUFFICES ASSUME IInv, CallCheck PROVE IInv'
  OBVIOUS
<1>1. /\ UNCHANGED <<ldStage, ldPage, ldPos, ldErr, ldLsn, heap>>
      /\ UNCHANGED <<size, pos, upl, isEmpty, rstr1, rstr2, vnodeRefs, locks>>
      /\ UNCHANGED <<chkRes, disk, dataSize, logEmpty, held>>
      /\ pc' = "begin" /\ callerPc' = "checking" /\ verdict' = FALSE
  BY DEF CallCheck, loadVars, volVars
<1>2. pc = "idle"
  BY DEF CallCheck, IInv, ScanShape
<1>3. LoadTypeOK'
  BY <1>1 DEF IInv, LogfileTypeOK, LoadTypeOK
<1>4. LogfileTypeOK'
  BY <1>1, <1>3 DEF IInv, LogfileTypeOK
<1>5. BuffersOwned'
  BY <1>1 DEF IInv, BuffersOwned
<1>6. ScanShape'
  BY <1>1, <1>2 DEF CallCheck, IInv, ScanShape
<1>. QED
  BY <1>4, <1>5, <1>6 DEF IInv

LEMMA IsCleanIInv == IInv /\ ntfs_logfile_is_clean => IInv'
<1> SUFFICES ASSUME IInv, ntfs_logfile_is_clean PROVE IInv'
  OBVIOUS
<1>1. /\ UNCHANGED <<ldStage, ldPage, ldPos, ldErr, ldLsn, heap>>
      /\ UNCHANGED <<pc, size, pos, upl, isEmpty, rstr1, rstr2, vnodeRefs, locks>>
      /\ UNCHANGED <<chkRes, disk, dataSize, logEmpty, held>>
      /\ callerPc' = "judged" /\ verdict' \in BOOLEAN
  BY DEF ntfs_logfile_is_clean, loadVars, checkVars, volVars
<1>2. LoadTypeOK'
  BY <1>1 DEF IInv, LogfileTypeOK, LoadTypeOK
<1>3. LogfileTypeOK'
  BY <1>1, <1>2 DEF IInv, LogfileTypeOK
<1>4. BuffersOwned'
  BY <1>1 DEF IInv, BuffersOwned
<1>5. ScanShape'
  BY <1>1 DEF ntfs_logfile_is_clean, IInv, ScanShape
<1>. QED
  BY <1>3, <1>4, <1>5 DEF IInv

\* Filling a prefix of the log with 0xff leaves it a log.
LEMMA FillPrefixType ==
  ASSUME NEW d \in [Positions -> Blocks], NEW limit \in Int
  PROVE  FillPrefix(d, limit) \in [Positions -> Blocks]
BY DEF FillPrefix, Blocks

LEMMA EmptyIInv == IInv /\ ntfs_logfile_empty => IInv'
<1> SUFFICES ASSUME IInv, ntfs_logfile_empty PROVE IInv'
  OBVIOUS
<1>1. /\ UNCHANGED <<ldStage, ldPage, ldPos, ldErr, ldLsn, heap>>
      /\ UNCHANGED <<pc, size, pos, upl, isEmpty, rstr1, rstr2, vnodeRefs, locks>>
      /\ UNCHANGED <<chkRes, dataSize, held, verdict>>
      /\ callerPc' \in {"judged", "emptied"} /\ logEmpty' \in BOOLEAN
      /\ callerPc = "judged"
  BY DEF ntfs_logfile_empty, loadVars, checkVars, IInv, LogfileTypeOK
<1>2. disk' \in [Positions -> Blocks]
  BY FillPrefixType, PositionsAssumption, DataSizesAssumption
  DEF ntfs_logfile_empty, IInv, LogfileTypeOK
<1>0. LoadTypeOK'
  BY <1>1 DEF IInv, LogfileTypeOK, LoadTypeOK
<1>3. LogfileTypeOK'
  BY <1>0, <1>1, <1>2 DEF IInv, LogfileTypeOK
<1>4. BuffersOwned'
  BY <1>1 DEF IInv, BuffersOwned
<1>5. ScanShape'
  BY <1>1 DEF IInv, ScanShape
<1>. QED
  BY <1>3, <1>4, <1>5 DEF IInv

LEMMA ReleasePageIInv == IInv /\ ReleasePage => IInv'
<1> SUFFICES ASSUME IInv, ReleasePage PROVE IInv'
  OBVIOUS
<1>1. /\ UNCHANGED <<ldStage, ldPage, ldPos, ldErr, ldLsn>>
      /\ UNCHANGED <<pc, size, pos, upl, isEmpty, rstr1, rstr2, vnodeRefs, locks>>
      /\ UNCHANGED <<chkRes, disk, dataSize, logEmpty, callerPc, verdict>>
      /\ held' = NoRstr /\ heap' = [heap EXCEPT ![held.pos] = @ - 1]
  BY DEF ReleasePage, checkVars, volVars
<1>2. held \in Rstr /\ held.pos \in Positions
  BY DEF ReleasePage, IInv, LogfileTypeOK, Rstr
<1>3. heap \in [Positions -> Nat]
  BY DEF IInv, LogfileTypeOK, LoadTypeOK
<1>9. heap[held.pos] >= 1
  BY <1>2, <1>3 DEF IInv, BuffersOwned, Owns
<1>4. heap' \in [Positions -> Nat]
  BY <1>1, <1>2, <1>3, <1>9
<1>5. LogfileTypeOK'
  BY <1>1, <1>4 DEF IInv, LogfileTypeOK, LoadTypeOK
<1>6. BuffersOwned'
  BY <1>1, <1>2, <1>3, NoRstrOwnsNothing DEF IInv, BuffersOwned, Owns
<1>7. pc = "idle"
  BY DEF ReleasePage, IInv, ScanShape
<1>8. ScanShape'
  BY <1>1, <1>7 DEF IInv, ScanShape
<1>. QED
  BY <1>5, <1>6, <1>8 DEF IInv

LEMMA UnmountIInv == IInv /\ Unmount => IInv'
<1> SUFFICES ASSUME IInv, Unmount PROVE IInv'
  OBVIOUS
<1>1. /\ UNCHANGED <<ldStage, ldPage, ldPos, ldErr, ldLsn, heap>>
      /\ UNCHANGED <<pc, size, pos, upl, isEmpty, rstr1, rstr2, vnodeRefs, locks>>
      /\ UNCHANGED <<chkRes, disk, dataSize, held, verdict>>
      /\ callerPc' = "unmounted" /\ logEmpty' = FALSE /\ callerPc # "checking"
  BY DEF Unmount, loadVars, checkVars
<1>0. LoadTypeOK'
  BY <1>1 DEF IInv, LogfileTypeOK, LoadTypeOK
<1>2. LogfileTypeOK'
  BY <1>0, <1>1, IInvTypeOK, Zenon DEF LogfileTypeOK
<1>3. BuffersOwned'
  BY <1>1 DEF IInv, BuffersOwned
<1>4. ScanShape'
  BY <1>1 DEF IInv, ScanShape
<1>. QED
  BY <1>2, <1>3, <1>4 DEF IInv

LEMMA ForeignWriteIInv == IInv /\ ForeignWrite => IInv'
<1> SUFFICES ASSUME IInv, ForeignWrite PROVE IInv'
  OBVIOUS
<1>1. /\ UNCHANGED <<ldStage, ldPage, ldPos, ldErr, ldLsn, heap>>
      /\ UNCHANGED <<pc, size, pos, upl, isEmpty, rstr1, rstr2, vnodeRefs, locks>>
      /\ UNCHANGED <<chkRes, logEmpty, callerPc, held, verdict>>
      /\ disk' \in Disks /\ dataSize' \in DataSizes
  BY DEF ForeignWrite, loadVars, checkVars, callerVars
<1>2. disk' \in [Positions -> Blocks]
  BY <1>1, DisksAssumption DEF Blocks
<1>0. LoadTypeOK'
  BY <1>1 DEF IInv, LogfileTypeOK, LoadTypeOK
<1>3. LogfileTypeOK'
  BY <1>0, <1>1, <1>2 DEF IInv, LogfileTypeOK
<1>4. BuffersOwned'
  BY <1>1 DEF IInv, BuffersOwned
<1>5. ScanShape'
  BY <1>1 DEF IInv, ScanShape
<1>. QED
  BY <1>3, <1>4, <1>5 DEF IInv

LEMMA MountIInv == IInv /\ Mount => IInv'
<1> SUFFICES ASSUME IInv, Mount PROVE IInv'
  OBVIOUS
<1>1. /\ UNCHANGED <<ldStage, ldPage, ldPos, ldErr, ldLsn, heap>>
      /\ UNCHANGED <<pc, size, pos, upl, isEmpty, rstr1, rstr2, vnodeRefs, locks>>
      /\ UNCHANGED <<chkRes, disk, dataSize, logEmpty, held, verdict>>
      /\ callerPc' = "mounted" /\ callerPc = "unmounted"
  BY DEF Mount, loadVars, checkVars, volVars
<1>0. LoadTypeOK'
  BY <1>1 DEF IInv, LogfileTypeOK, LoadTypeOK
<1>2. LogfileTypeOK'
  BY <1>0, <1>1 DEF IInv, LogfileTypeOK
<1>3. BuffersOwned'
  BY <1>1 DEF IInv, BuffersOwned
<1>4. ScanShape'
  BY <1>1 DEF IInv, ScanShape
<1>. QED
  BY <1>2, <1>3, <1>4 DEF IInv

LEMMA LoadHeaderIInv == IInv /\ LoadHeader /\ UNCHANGED <<checkVars, volVars, callerVars>> => IInv'
<1> SUFFICES ASSUME IInv, LoadHeader, UNCHANGED <<checkVars, volVars, callerVars>>
             PROVE  IInv'
  OBVIOUS
<1>1. /\ UNCHANGED <<pc, size, pos, upl, isEmpty, rstr1, rstr2, vnodeRefs, locks>>
      /\ UNCHANGED <<chkRes, disk, dataSize, logEmpty, callerPc, held, verdict>>
      /\ UNCHANGED <<ldPage, ldPos, ldLsn, heap>>
      /\ ldStage = "header" /\ ldStage' \in {"area", "failed"}
      /\ ldErr' \in {ldErr, "EINVAL"}
  BY DEF LoadHeader, Advance, LoadReturn, checkVars, volVars, callerVars
<1>2. LoadTypeOK'
  BY <1>1 DEF IInv, LogfileTypeOK, LoadTypeOK
<1>3. LogfileTypeOK'
  BY <1>1, <1>2 DEF IInv, LogfileTypeOK
<1>4. BuffersOwned'
  BY <1>1 DEF IInv, BuffersOwned
<1>5. ScanShape'
  BY <1>1 DEF IInv, ScanShape
<1>. QED
  BY <1>3, <1>4, <1>5 DEF IInv

LEMMA LoadAreaIInv == IInv /\ LoadArea /\ UNCHANGED <<checkVars, volVars, callerVars>> => IInv'
<1> SUFFICES ASSUME IInv, LoadArea, UNCHANGED <<checkVars, volVars, callerVars>>
             PROVE  IInv'
  OBVIOUS
<1>1. /\ UNCHANGED <<pc, size, pos, upl, isEmpty, rstr1, rstr2, vnodeRefs, locks>>
      /\ UNCHANGED <<chkRes, disk, dataSize, logEmpty, callerPc, held, verdict>>
      /\ UNCHANGED <<ldPage, ldPos, ldLsn, heap>>
      /\ ldStage = "area" /\ ldStage' \in {"alloc", "failed"}
      /\ ldErr' \in {ldErr, "EINVAL"}
  BY DEF LoadArea, Advance, LoadReturn, checkVars, volVars, callerVars
<1>2. LoadTypeOK'
  BY <1>1 DEF IInv, LogfileTypeOK, LoadTypeOK
<1>3. LogfileTypeOK'
  BY <1>1, <1>2 DEF IInv, LogfileTypeOK
<1>4. BuffersOwned'
  BY <1>1 DEF IInv, BuffersOwned
<1>5. ScanShape'
  BY <1>1 DEF IInv, ScanShape
<1>. QED
  BY <1>3, <1>4, <1>5 DEF IInv

\* While a buffer is being loaded it is the load's, and heap counts it.
LEMMA LoadBufferCounted ==
  ASSUME IInv, ldStage \in {"read", "fixup", "clients", "done"}
  PROVE  /\ ldPos \in Positions /\ heap \in [Positions -> Nat]
         /\ heap[ldPos] >= 1
<1>1. ldPos \in Positions /\ heap \in [Positions -> Nat]
  BY DEF IInv, LogfileTypeOK, LoadTypeOK
<1>. QED
  BY <1>1 DEF IInv, BuffersOwned, Owns

\* `goto err' inside ntfs_restart_page_load frees the load's buffer.
LEMMA LoadFreeIInv ==
  ASSUME IInv, ldStage \in {"read", "fixup", "clients"},
         LoadFreeAndReturn("EINVAL") \/ LoadFreeAndReturn("EIO")
           \/ LoadFreeAndReturn("ENOMEM"),
         UNCHANGED <<checkVars, volVars, callerVars>>
  PROVE  IInv'
<1>1. /\ UNCHANGED <<pc, size, pos, upl, isEmpty, rstr1, rstr2, vnodeRefs, locks>>
      /\ UNCHANGED <<chkRes, disk, dataSize, logEmpty, callerPc, held, verdict>>
      /\ UNCHANGED <<ldPage, ldPos, ldLsn>>
      /\ ldStage' = "failed" /\ ldErr' \in {"EINVAL", "EIO", "ENOMEM"}
      /\ heap' = [heap EXCEPT ![ldPos] = @ - 1]
  BY DEF LoadFreeAndReturn, checkVars, volVars, callerVars
<1>2. ldPos \in Positions /\ heap \in [Positions -> Nat] /\ heap[ldPos] >= 1
  BY LoadBufferCounted
<1>3. LoadTypeOK'
  BY <1>1, <1>2 DEF IInv, LogfileTypeOK, LoadTypeOK
<1>4. LogfileTypeOK'
  BY <1>1, <1>3 DEF IInv, LogfileTypeOK
<1>5. BuffersOwned'
  <2> SUFFICES ASSUME NEW p \in Positions
               PROVE  heap'[p] = Owns(held', p) + Owns(rstr1', p) + Owns(rstr2', p)
                        + (IF ldStage' \in {"read", "fixup", "clients", "done"}
                              /\ ldPos' = p THEN 1 ELSE 0)
    BY DEF BuffersOwned
  <2>1. heap[p] = Owns(held, p) + Owns(rstr1, p) + Owns(rstr2, p)
                    + (IF ldPos = p THEN 1 ELSE 0)
    BY DEF IInv, BuffersOwned
  <2>. QED
    BY <1>1, <1>2, <2>1 DEF Owns
<1>6. ScanShape'
  BY <1>1 DEF IInv, ScanShape
<1>. QED
  BY <1>4, <1>5, <1>6 DEF IInv

LEMMA LoadAllocIInv == IInv /\ LoadAlloc /\ UNCHANGED <<checkVars, volVars, callerVars>> => IInv'
<1> SUFFICES ASSUME IInv, LoadAlloc, UNCHANGED <<checkVars, volVars, callerVars>>
             PROVE  IInv'
  OBVIOUS
<1>1. /\ UNCHANGED <<pc, size, pos, upl, isEmpty, rstr1, rstr2, vnodeRefs, locks>>
      /\ UNCHANGED <<chkRes, disk, dataSize, logEmpty, callerPc, held, verdict>>
      /\ UNCHANGED <<ldPage, ldPos, ldLsn>>
      /\ ldStage = "alloc"
  BY DEF LoadAlloc, Advance, LoadReturn, checkVars, volVars, callerVars
<1>0. pc = "load"
  BY <1>1 DEF IInv, ScanShape
<1>2. ldPos \in Positions /\ heap \in [Positions -> Nat]
  BY DEF IInv, LogfileTypeOK, LoadTypeOK
<1>3. CASE ldStage' = "read" /\ heap' = [heap EXCEPT ![ldPos] = @ + 1]
           /\ ldErr' = ldErr
  <2>1. LoadTypeOK'
    BY <1>1, <1>2, <1>3 DEF IInv, LogfileTypeOK, LoadTypeOK
  <2>2. LogfileTypeOK'
    BY <1>1, <2>1 DEF IInv, LogfileTypeOK
  <2>3. BuffersOwned'
    <3> SUFFICES ASSUME NEW p \in Positions
                 PROVE  heap'[p] = Owns(held', p) + Owns(rstr1', p) + Owns(rstr2', p)
                          + (IF ldStage' \in {"read", "fixup", "clients", "done"}
                                /\ ldPos' = p THEN 1 ELSE 0)
      BY DEF BuffersOwned
    <3>1. heap[p] = Owns(held, p) + Owns(rstr1, p) + Owns(rstr2, p)
      <4>1. ldStage \notin {"read", "fixup", "clients", "done"}
        BY <1>1
      <4>2. BuffersOwned
        BY DEF IInv
      <4>. QED
        BY <4>1, <4>2 DEF BuffersOwned, Owns
    <3>. QED
      BY <1>1, <1>2, <1>3, <3>1 DEF Owns
  <2>4. ScanShape'
    BY <1>1, <1>3 DEF IInv, ScanShape
  <2>. QED
    BY <2>2, <2>3, <2>4 DEF IInv
<1>4. CASE LoadReturn("ENOMEM")
  <2>1. UNCHANGED heap /\ ldStage' = "failed" /\ ldErr' = "ENOMEM"
    BY <1>4 DEF LoadReturn
  <2>2. LoadTypeOK'
    BY <1>1, <2>1 DEF IInv, LogfileTypeOK, LoadTypeOK
  <2>3. LogfileTypeOK'
    BY <1>1, <2>2 DEF IInv, LogfileTypeOK
  <2>4. BuffersOwned'
    BY <1>1, <2>1 DEF IInv, BuffersOwned
  <2>5. ScanShape'
    BY <1>1, <2>1 DEF IInv, ScanShape
  <2>. QED
    BY <2>3, <2>4, <2>5 DEF IInv
<1>. QED
  BY <1>3, <1>4 DEF LoadAlloc
\* A load stage that keeps its buffer and moves to the next stage.
LEMMA LoadAdvanceIInv ==
  ASSUME IInv, ldStage \in {"read", "fixup"},
         NEW stage \in {"fixup", "clients"}, Advance(stage),
         UNCHANGED <<checkVars, volVars, callerVars>>
  PROVE  IInv'
<1>1. /\ UNCHANGED <<pc, size, pos, upl, isEmpty, rstr1, rstr2, vnodeRefs, locks>>
      /\ UNCHANGED <<chkRes, disk, dataSize, logEmpty, callerPc, held, verdict>>
      /\ UNCHANGED <<ldPage, ldPos, ldErr, ldLsn, heap>>
      /\ ldStage' = stage
  BY DEF Advance, checkVars, volVars, callerVars
<1>2. LoadTypeOK'
  BY <1>1 DEF IInv, LogfileTypeOK, LoadTypeOK
<1>3. LogfileTypeOK'
  BY <1>1, <1>2 DEF IInv, LogfileTypeOK
<1>4. BuffersOwned'
  BY <1>1 DEF IInv, BuffersOwned
<1>5. ScanShape'
  BY <1>1 DEF IInv, ScanShape
<1>. QED
  BY <1>3, <1>4, <1>5 DEF IInv

LEMMA LoadReadIInv == IInv /\ LoadRead /\ UNCHANGED <<checkVars, volVars, callerVars>> => IInv'
<1> SUFFICES ASSUME IInv, LoadRead, UNCHANGED <<checkVars, volVars, callerVars>>
             PROVE  IInv'
  OBVIOUS
<1>1. ldStage = "read"
  BY DEF LoadRead
<1>2. CASE Advance("fixup")
  BY <1>1, <1>2, LoadAdvanceIInv
<1>3. CASE \E err \in {"EIO", "ENOMEM"} : LoadFreeAndReturn(err)
  BY <1>1, <1>3, LoadFreeIInv
<1>. QED
  BY <1>2, <1>3 DEF LoadRead

LEMMA LoadFixupIInv == IInv /\ LoadFixup /\ UNCHANGED <<checkVars, volVars, callerVars>> => IInv'
<1> SUFFICES ASSUME IInv, LoadFixup, UNCHANGED <<checkVars, volVars, callerVars>>
             PROVE  IInv'
  OBVIOUS
<1>1. ldStage = "fixup"
  BY DEF LoadFixup
<1>2. CASE Advance("clients")
  BY <1>1, <1>2, LoadAdvanceIInv
<1>3. CASE LoadFreeAndReturn("EINVAL")
  BY <1>1, <1>3, LoadFreeIInv
<1>. QED
  BY <1>2, <1>3 DEF LoadFixup

LEMMA LoadClientsIInv == IInv /\ LoadClients /\ UNCHANGED <<checkVars, volVars, callerVars>> => IInv'
<1> SUFFICES ASSUME IInv, LoadClients, UNCHANGED <<checkVars, volVars, callerVars>>
             PROVE  IInv'
  OBVIOUS
<1>1. ldStage = "clients"
  BY DEF LoadClients
<1>2. CASE LoadFreeAndReturn("EINVAL")
  BY <1>1, <1>2, LoadFreeIInv
<1>3. CASE /\ ldStage' = "done"
           /\ ldLsn' = RestartPageLsn(ldPage)
           /\ UNCHANGED <<ldPage, ldPos, ldErr, heap>>
  <2>1. /\ UNCHANGED <<pc, size, pos, upl, isEmpty, rstr1, rstr2, vnodeRefs, locks>>
        /\ UNCHANGED <<chkRes, disk, dataSize, logEmpty, callerPc, held, verdict>>
    BY DEF checkVars, volVars, callerVars
  <2>2. pc = "load" /\ ldPage \in RestartPageType(ClientSlots)
    BY <1>1 DEF IInv, ScanShape
  <2>3. ldLsn' \in Int
    BY <1>3, <2>2, PageLsnType
  <2>4. LoadTypeOK'
    BY <1>3, <2>3 DEF IInv, LogfileTypeOK, LoadTypeOK
  <2>5. LogfileTypeOK'
    BY <2>1, <2>4 DEF IInv, LogfileTypeOK
  <2>6. BuffersOwned'
    BY <1>1, <1>3, <2>1 DEF IInv, BuffersOwned
  <2>7. ScanShape'
    BY <1>3, <2>1, <2>2 DEF IInv, ScanShape
  <2>. QED
    BY <2>5, <2>6, <2>7 DEF IInv
<1>. QED
  BY <1>2, <1>3 DEF LoadClients

\* Every step of ntfs_restart_page_load keeps the invariant.
LEMMA LoadStepIInv == IInv /\ LoadStep /\ UNCHANGED <<checkVars, volVars, callerVars>> => IInv'
BY LoadHeaderIInv, LoadAreaIInv, LoadAllocIInv, LoadReadIInv, LoadFixupIInv,
   LoadClientsIInv DEF LoadStep
-----------------------------------------------------------------------------
(* The steps of ntfs_logfile_check.                                        *)

\* Returning from the check before the scan starts.
LEMMA BeginReturnIInv ==
  ASSUME IInv, pc = "begin", NEW err \in CheckErrnos, CheckReturn(err),
         held' = NoRstr, UNCHANGED <<loadVars, volVars, verdict, rstr1, rstr2>>,
         UNCHANGED <<upl, vnodeRefs, locks>>
  PROVE  IInv'
<1>1. /\ pc' = "idle" /\ chkRes' = err /\ callerPc' \in {"checked", "failed"}
      /\ size' = 0 /\ pos' = 0 /\ isEmpty' = TRUE
  BY DEF CheckReturn
<1>2. /\ upl = NoUpl /\ vnodeRefs = 0 /\ locks = 0 /\ held = NoRstr
      /\ rstr1 = NoRstr /\ rstr2 = NoRstr /\ ldStage = "idle"
  BY DEF IInv, ScanShape
<1>3. LoadTypeOK'
  BY DEF IInv, LogfileTypeOK, LoadTypeOK, loadVars
<1>4. LogfileTypeOK'
  BY <1>1, <1>2, <1>3 DEF IInv, LogfileTypeOK, volVars, NoRstr
<1>5. BuffersOwned'
  BY <1>2 DEF IInv, BuffersOwned, loadVars
<1>6. ScanShape'
  BY <1>1, <1>2, MaxLogFileSizeAssumption DEF ScanShape, loadVars
<1>. QED
  BY <1>4, <1>5, <1>6 DEF IInv

LEMMA CheckBeginIInv == IInv /\ CheckBegin => IInv'
<1> SUFFICES ASSUME IInv, CheckBegin PROVE IInv'
  OBVIOUS
<1>1. /\ pc = "begin" /\ held' = NoRstr
      /\ UNCHANGED <<loadVars, volVars, verdict, rstr1, rstr2>>
  BY DEF CheckBegin
<1>2. CASE /\ \E err \in CheckErrnos : CheckReturn(err)
           /\ UNCHANGED <<upl, vnodeRefs, locks>>
  BY <1>1, <1>2, BeginReturnIInv
<1>3. CASE /\ ~logEmpty /\ ~LogTooSmall(ScanSize(dataSize))
           /\ pc' = "scan"
           /\ size' = ScanSize(dataSize)
           /\ pos' = 0 /\ upl' = NoUpl /\ isEmpty' = TRUE
           /\ vnodeRefs' = vnodeRefs + 1 /\ locks' = locks + 1
           /\ UNCHANGED <<chkRes, callerPc>>
  <2>1. /\ upl = NoUpl /\ vnodeRefs = 0 /\ locks = 0 /\ held = NoRstr
        /\ rstr1 = NoRstr /\ rstr2 = NoRstr /\ ldStage = "idle"
        /\ callerPc = "checking"
    BY <1>1 DEF IInv, ScanShape
  <2>2. size' \in Nat /\ size' <= NtfsMaxLogFileSize
    BY <1>3, ScanSizeBound DEF IInv, LogfileTypeOK
  <2>3. LoadTypeOK'
    BY <1>1 DEF IInv, LogfileTypeOK, LoadTypeOK, loadVars
  <2>4. LogfileTypeOK'
    BY <1>1, <1>3, <2>1, <2>2, <2>3 DEF IInv, LogfileTypeOK, volVars
  <2>5. BuffersOwned'
    BY <1>1, <2>1 DEF IInv, BuffersOwned, loadVars
  <2>6. ScanShape'
    BY <1>1, <1>3, <2>1, <2>2, ScanPositionsAssumption DEF ScanShape, loadVars
  <2>. QED
    BY <2>4, <2>5, <2>6 DEF IInv
<1>. QED
  BY <1>2, <1>3 DEF CheckBegin

\* Label err: the check returns from inside the loop and frees rstr1_ph.
LEMMA CheckErrIInv ==
  ASSUME IInv, pc \in {"scan", "load"}, ldStage \notin {"read", "fixup", "clients", "done"},
         NEW err \in CheckErrnos, CheckErr(err), upl' = NoUpl, rstr2' = rstr2,
         UNCHANGED <<volVars, held, verdict>>,
         ldStage' = "idle", ldPage' \in RestartPageType(ClientSlots) \cup {NoPage},
         ldPos' \in Positions, ldErr' \in Errnos, ldLsn' \in Int
  PROVE  IInv'
<1>1. /\ pc' = "idle" /\ chkRes' = err /\ callerPc' \in {"checked", "failed"}
      /\ size' = 0 /\ pos' = 0 /\ isEmpty' = TRUE /\ rstr1' = NoRstr
      /\ vnodeRefs' = vnodeRefs - 1 /\ locks' = locks - 1
      /\ heap' = IF rstr1 = NoRstr THEN heap ELSE [heap EXCEPT ![rstr1.pos] = @ - 1]
  BY DEF CheckErr, CheckReturn
<1>2. /\ vnodeRefs = 1 /\ locks = 1 /\ held = NoRstr /\ rstr2 = NoRstr
  BY DEF IInv, ScanShape
<1>3. heap' \in [Positions -> Nat]
  <2>1. CASE rstr1 = NoRstr
    BY <1>1, <2>1 DEF IInv, LogfileTypeOK, LoadTypeOK
  <2>2. CASE rstr1 # NoRstr
    <3>1. rstr1 \in Rstr /\ heap \in [Positions -> Nat]
      BY <2>2 DEF IInv, LogfileTypeOK, LoadTypeOK
    <3>2. heap[rstr1.pos] >= 1
      BY <3>1, <1>2, NoRstrOwnsNothing DEF IInv, BuffersOwned, Owns, Rstr
    <3>. QED
      BY <1>1, <2>2, <3>1, <3>2 DEF Rstr
  <2>. QED
    BY <2>1, <2>2
<1>4. LoadTypeOK'
  BY <1>3 DEF LoadTypeOK, Stages
<1>5. LogfileTypeOK'
  BY <1>1, <1>2, <1>4 DEF IInv, LogfileTypeOK, volVars
<1>6. BuffersOwned'
  <2> SUFFICES ASSUME NEW p \in Positions
               PROVE  heap'[p] = Owns(held', p) + Owns(rstr1', p) + Owns(rstr2', p)
                        + (IF ldStage' \in {"read", "fixup", "clients", "done"}
                              /\ ldPos' = p THEN 1 ELSE 0)
    BY DEF BuffersOwned
  <2>1. heap[p] = Owns(rstr1, p)
    <3>1. Owns(held, p) = 0 /\ Owns(rstr2, p) = 0
      BY <1>2, NoRstrOwnsNothing
    <3>. QED
      BY <3>1, OwnsRange DEF IInv, BuffersOwned
  <2>2. Owns(held', p) = 0 /\ Owns(rstr1', p) = 0 /\ Owns(rstr2', p) = 0
    BY <1>1, <1>2, NoRstrOwnsNothing
  <2>3. heap \in [Positions -> Nat]
    BY DEF IInv, LogfileTypeOK, LoadTypeOK
  <2>4. CASE rstr1 = NoRstr
    BY <1>1, <2>1, <2>2, <2>4, NoRstrOwnsNothing
  <2>5. CASE rstr1 # NoRstr
    <3>1. rstr1.pos \in Positions
      BY <2>5 DEF IInv, LogfileTypeOK, Rstr
    <3>. QED
      BY <1>1, <2>1, <2>2, <2>3, <2>5, <3>1 DEF Owns
  <2>. QED
    BY <2>4, <2>5
<1>7. ScanShape'
  BY <1>1, <1>2, MaxLogFileSizeAssumption DEF ScanShape, IInv
<1>. QED
  BY <1>5, <1>6, <1>7 DEF IInv

\* An iteration that moves to the next offset or leaves the loop, without
\* a load.
LEMMA ScanMoveIInv ==
  ASSUME IInv, pc = "scan", pos < size,
         pc' \in {"scan", "exit"}, pc' = "scan" => pos' = NextPos(pos),
         pos' \in {pos, NextPos(pos)}, isEmpty' \in {isEmpty, FALSE},
         upl' \in Positions \cup {NoUpl},
         UNCHANGED <<loadVars, size, vnodeRefs, locks, chkRes, callerPc, rstr1>>,
         UNCHANGED <<volVars, held, verdict, rstr2>>
  PROVE  IInv'
<1>0. /\ UNCHANGED <<ldStage, ldPage, ldPos, ldErr, ldLsn, heap>>
      /\ UNCHANGED <<size, vnodeRefs, locks, chkRes, callerPc, rstr1>>
      /\ UNCHANGED <<disk, dataSize, logEmpty, held, verdict, rstr2>>
  BY DEF loadVars, volVars
<1>1. pos \in Positions /\ pos \in Nat
  BY PositionsAssumption DEF IInv, ScanShape
<1>2. NextPos(pos) \in Nat /\ NextPos(pos) # 0
  BY <1>1, NextPosType
<1>3. pc' = "scan" /\ pos' < size' => pos' \in Positions
  <2>1. NextPos(pos) < NtfsMaxLogFileSize => NextPos(pos) \in Positions
    BY <1>1, ScanPositionsAssumption
  <2>. QED
    BY <2>1, <1>2, MaxLogFileSizeAssumption DEF IInv, ScanShape, LogfileTypeOK
<1>4. LoadTypeOK'
  BY <1>0 DEF IInv, LogfileTypeOK, LoadTypeOK
<1>5. LogfileTypeOK'
  <2>1. pos' \in Nat
    BY <1>1, <1>2
  <2>2. pc' \in CheckPcs /\ isEmpty' \in BOOLEAN
    BY DEF IInv, LogfileTypeOK, CheckPcs
  <2>3. /\ disk' \in [Positions -> Blocks] /\ dataSize' \in DataSizes
        /\ logEmpty' \in BOOLEAN /\ size' \in Nat /\ rstr1' \in Rstr \cup {NoRstr}
        /\ rstr2' \in Rstr \cup {NoRstr} /\ vnodeRefs' \in Nat /\ locks' \in Nat
        /\ chkRes' \in CheckErrnos /\ callerPc' \in CallerPcs
        /\ held' \in Rstr \cup {NoRstr} /\ verdict' \in BOOLEAN
    BY <1>0 DEF IInv, LogfileTypeOK
  <2>. QED
    BY <1>4, <2>1, <2>2, <2>3 DEF LogfileTypeOK
<1>6. BuffersOwned'
  BY <1>0 DEF IInv, BuffersOwned
<1>7. ScanShape'
  <2>1. /\ rstr2 = NoRstr /\ callerPc = "checking" /\ vnodeRefs = 1 /\ locks = 1
        /\ held = NoRstr /\ ldStage = "idle" /\ size <= NtfsMaxLogFileSize
        /\ rstr1 # NoRstr => pos # 0 /\ ~isEmpty
    BY DEF IInv, ScanShape
  <2>2. (pc' = "idle") = (callerPc' # "checking")
    BY <1>0, <2>1
  <2>3. pc' \in Scanning => vnodeRefs' = 1 /\ locks' = 1
    BY <1>0, <2>1
  <2>4. pc' # "load" => ldStage' = "idle"
    BY <1>0, <2>1
  <2>5. size' <= NtfsMaxLogFileSize /\ (pc' # "idle" => held' = NoRstr)
    BY <1>0, <2>1
  <2>6. rstr2' # NoRstr => pc' = "exit" /\ rstr1' # NoRstr
    BY <1>0, <2>1
  <2>7. pc' \in {"scan", "load"} /\ rstr1' # NoRstr => pos' # 0
    BY <1>0, <1>2, <2>1
  <2>8. pc' = "load" \/ rstr1' # NoRstr => ~isEmpty'
    BY <1>0, <2>1
  <2>. QED
    BY <1>3, <2>2, <2>3, <2>4, <2>5, <2>6, <2>7, <2>8 DEF ScanShape
<1>. QED
  BY <1>5, <1>6, <1>7 DEF IInv

\* An iteration that finds a restart page and starts loading it.
LEMMA ScanLoadIInv ==
  ASSUME IInv, pc = "scan", pos < size, NEW b \in Blocks, IsRestartMagic(b.magic),
         pc' = "load", isEmpty' = FALSE, StartLoad(b, pos),
         upl' \in Positions \cup {NoUpl},
         UNCHANGED <<heap, pos, size, vnodeRefs, locks, chkRes, callerPc, rstr1>>,
         UNCHANGED <<volVars, held, verdict, rstr2>>
  PROVE  IInv'
<1>1. pos \in Positions
  BY DEF IInv, ScanShape
<1>2. b \in RestartPageType(ClientSlots)
  BY BlockIsPage
<1>3. /\ ldStage' = "header" /\ ldPage' = b /\ ldPos' = pos
      /\ ldErr' = "none" /\ ldLsn' = 0
  BY DEF StartLoad
<1>4. LoadTypeOK'
  BY <1>1, <1>2, <1>3 DEF IInv, LogfileTypeOK, LoadTypeOK
<1>5. LogfileTypeOK'
  BY <1>4, IInvTypeOK DEF LogfileTypeOK, volVars, CheckPcs
<1>6. BuffersOwned'
  <2>1. ldStage = "idle"
    BY DEF IInv, ScanShape
  <2>. QED
    BY <1>3, <2>1 DEF IInv, BuffersOwned
<1>7. ScanShape'
  BY <1>1, <1>2, <1>3 DEF IInv, ScanShape
<1>. QED
  BY <1>5, <1>6, <1>7 DEF IInv

LEMMA ScanStepIInv == IInv /\ ScanStep => IInv'
<1> SUFFICES ASSUME IInv, ScanStep PROVE IInv'
  OBVIOUS
<1>1. /\ pc = "scan" /\ pos < size /\ UNCHANGED <<volVars, held, verdict, rstr2>>
      /\ pos \in Positions /\ ldStage = "idle"
  BY DEF ScanStep, IInv, ScanShape
<1>2. CASE /\ MapsPage(pos) /\ "map" \in Faults
           /\ \E err \in {"EIO", "ENOMEM", "EINVAL"} :
                CheckErr(IF err \in {"EIO", "ENOMEM"} THEN err ELSE "EIO")
           /\ upl' = NoUpl
           /\ UNCHANGED <<ldStage, ldPage, ldPos, ldErr, ldLsn>>
  <2>1. PICK err \in CheckErrnos : CheckErr(err)
    BY <1>2
  <2>. QED
    BY <1>1, <1>2, <2>1, CheckErrIInv DEF IInv, LogfileTypeOK, LoadTypeOK
<1>3. CASE LET b == disk[pos] IN
           /\ upl' = IF MapsPage(pos) THEN pos ELSE upl
           /\ UNCHANGED <<size, vnodeRefs, locks, chkRes, callerPc, rstr1>>
           /\ \/ /\ b.magic = "EMPTY" /\ isEmpty
                 /\ pos' = NextPos(pos)
                 /\ UNCHANGED <<loadVars, pc, isEmpty>>
              \/ /\ b.magic = "EMPTY" /\ ~isEmpty
                 /\ pc' = "exit"
                 /\ UNCHANGED <<loadVars, pos, isEmpty>>
              \/ /\ b.magic = "RCRD"
                 /\ pc' = "exit" /\ isEmpty' = FALSE
                 /\ UNCHANGED <<loadVars, pos>>
              \/ /\ b.magic = "OTHER"
                 /\ pos' = NextPos(pos) /\ isEmpty' = FALSE
                 /\ UNCHANGED <<loadVars, pc>>
              \/ /\ IsRestartMagic(b.magic)
                 /\ pc' = "load" /\ isEmpty' = FALSE
                 /\ StartLoad(b, pos)
                 /\ UNCHANGED <<heap, pos>>
  <2>1. upl' \in Positions \cup {NoUpl}
    BY <1>1, <1>3 DEF IInv, LogfileTypeOK
  <2>2. disk[pos] \in Blocks
    BY <1>1 DEF IInv, LogfileTypeOK
  <2>3. CASE IsRestartMagic(disk[pos].magic)
    <3>1. pc' = "load" /\ isEmpty' = FALSE /\ StartLoad(disk[pos], pos)
          /\ UNCHANGED <<heap, pos>>
      BY <1>3, <2>3 DEF IsRestartMagic
    <3>. QED
      BY <1>1, <1>3, <2>1, <2>2, <3>1, ScanLoadIInv
  <2>4. CASE ~IsRestartMagic(disk[pos].magic)
    BY <1>1, <1>3, <2>1, <2>4, ScanMoveIInv DEF IsRestartMagic
  <2>. QED
    BY <2>3, <2>4
<1>. QED
  BY <1>2, <1>3 DEF ScanStep

\* A loaded restart page becomes rstr1_ph, or rstr2_ph once rstr1_ph is
\* set; its buffer passes from the load to that variable.
LEMMA ScanLoadedIInv ==
  ASSUME IInv, pc = "load", ldStage = "done",
         ldStage' = "idle", ldPage' = NoPage, ldPos' = 0, ldErr' = "none", ldLsn' = 0,
         UNCHANGED <<volVars, held, verdict>>,
         NEW r, r = [pos |-> pos, lsn |-> ldLsn, page |-> ldPage],
         IF rstr1 = NoRstr THEN rstr1' = r /\ rstr2' = rstr2
                           ELSE rstr2' = r /\ rstr1' = rstr1,
         IF pos = 0 THEN pc' = "scan" /\ pos' = NextPos(pos)
                    ELSE pc' = "exit" /\ pos' = pos,
         UNCHANGED <<heap, size, isEmpty, upl, vnodeRefs, locks, chkRes, callerPc>>
  PROVE  IInv'
<1>1. /\ ldPos = pos /\ pos \in Positions /\ pos \in Nat
      /\ ldPage \in RestartPageType(ClientSlots) /\ ldLsn \in Int
      /\ rstr2 = NoRstr /\ held = NoRstr /\ ~isEmpty
  BY PositionsAssumption DEF IInv, ScanShape, LogfileTypeOK, LoadTypeOK
<1>2. r \in Rstr /\ r # NoRstr
  <2>1. r \in Rstr
    BY <1>1, Zenon DEF Rstr
  <2>2. r.pos # NoRstr.pos
    BY <1>1 DEF NoRstr
  <2>. QED
    BY <2>1, <2>2
<1>3. 0 \in Positions
  BY ScanPositionsAssumption
<1>4. NextPos(pos) \in Nat /\ NextPos(pos) # 0
  BY <1>1, NextPosType
<1>5. pc' = "scan" /\ pos' < size' => pos' \in Positions
  <2>1. NextPos(pos) < NtfsMaxLogFileSize => NextPos(pos) \in Positions
    BY <1>1, ScanPositionsAssumption
  <2>. QED
    BY <2>1, <1>4, MaxLogFileSizeAssumption, SMTT(30) DEF IInv, ScanShape, LogfileTypeOK
<1>6. /\ rstr1' \in Rstr \cup {NoRstr} /\ rstr2' \in Rstr \cup {NoRstr}
      /\ \A p \in Positions : Owns(rstr1', p) + Owns(rstr2', p)
                                = Owns(rstr1, p) + Owns(rstr2, p) + Owns(r, p)
  <2>1. CASE rstr1 = NoRstr
    BY <1>1, <1>2, <2>1, NoRstrOwnsNothing, OwnsRange
  <2>2. CASE rstr1 # NoRstr
    BY <1>1, <1>2, <2>2, NoRstrOwnsNothing, OwnsRange, SMTT(30) DEF IInv, LogfileTypeOK
  <2>. QED
    BY <2>1, <2>2
<1>7. LoadTypeOK'
  BY <1>3, SMTT(30) DEF IInv, LogfileTypeOK, LoadTypeOK, Stages, Errnos
<1>8. LogfileTypeOK'
  BY <1>4, <1>6, <1>7, IInvTypeOK, SMTT(30) DEF LogfileTypeOK, volVars, CheckPcs
<1>9. BuffersOwned'
  <2> SUFFICES ASSUME NEW p \in Positions
               PROVE  heap'[p] = Owns(held', p) + Owns(rstr1', p) + Owns(rstr2', p)
                        + (IF ldStage' \in {"read", "fixup", "clients", "done"}
                              /\ ldPos' = p THEN 1 ELSE 0)
    BY DEF BuffersOwned
  <2>1. heap[p] = Owns(held, p) + Owns(rstr1, p) + Owns(rstr2, p)
                    + (IF ldPos = p THEN 1 ELSE 0)
    BY DEF IInv, BuffersOwned
  <2>2. Owns(r, p) = IF ldPos = p THEN 1 ELSE 0
    BY <1>1 DEF Owns
  <2>. QED
    BY <1>6, <2>1, <2>2, OwnsRange, SMTT(30)
<1>10. ScanShape'
  <2>1. rstr2' # NoRstr => pc' = "exit" /\ rstr1' # NoRstr
    BY <1>1, <1>2 DEF IInv, ScanShape
  <2>2. pc' \in {"scan", "load"} /\ rstr1' # NoRstr => pos' # 0
    BY <1>4
  <2>. QED
    BY <1>1, <1>2, <1>5, <2>1, <2>2 DEF IInv, ScanShape
<1>. QED
  BY <1>8, <1>9, <1>10 DEF IInv

LEMMA ScanAfterLoadIInv == IInv /\ ScanAfterLoad => IInv'
<1> SUFFICES ASSUME IInv, ScanAfterLoad PROVE IInv'
  OBVIOUS
<1>1. /\ pc = "load" /\ ldStage \in {"done", "failed"}
      /\ ldStage' = "idle" /\ ldPage' = NoPage /\ ldPos' = 0 /\ ldErr' = "none"
      /\ ldLsn' = 0 /\ UNCHANGED <<volVars, held, verdict>>
  BY DEF ScanAfterLoad
<1>2. 0 \in Positions
  BY ScanPositionsAssumption
<1>3. CASE ldStage = "done"
  <2> DEFINE r == [pos |-> pos, lsn |-> ldLsn, page |-> ldPage]
  <2>1. /\ IF rstr1 = NoRstr THEN rstr1' = r /\ rstr2' = rstr2
                             ELSE rstr2' = r /\ rstr1' = rstr1
        /\ IF pos = 0 THEN pc' = "scan" /\ pos' = NextPos(pos)
                      ELSE pc' = "exit" /\ pos' = pos
        /\ UNCHANGED <<heap, size, isEmpty, upl, vnodeRefs, locks, chkRes, callerPc>>
    BY <1>3 DEF ScanAfterLoad
  <2>. QED
    BY <1>1, <1>3, <2>1, ScanLoadedIInv
<1>4. CASE /\ ldStage = "failed" /\ ldErr = "EINVAL"
           /\ pc' = "scan" /\ pos' = NextPos(pos)
           /\ UNCHANGED <<heap, size, isEmpty, upl, rstr1, rstr2, vnodeRefs, locks,
                          chkRes, callerPc>>
  <2>1. /\ pos \in Positions /\ pos \in Nat /\ rstr2 = NoRstr
    BY <1>1, PositionsAssumption DEF IInv, ScanShape
  <2>2. NextPos(pos) \in Nat /\ NextPos(pos) # 0
    BY <2>1, NextPosType
  <2>3. pos' < size' => pos' \in Positions
    <3>1. NextPos(pos) < NtfsMaxLogFileSize => NextPos(pos) \in Positions
      BY <2>1, ScanPositionsAssumption
    <3>. QED
      BY <1>4, <2>2, <3>1, MaxLogFileSizeAssumption DEF IInv, ScanShape, LogfileTypeOK
  <2>4. LoadTypeOK'
    BY <1>1, <1>2, <1>4 DEF IInv, LogfileTypeOK, LoadTypeOK, Stages, Errnos
  <2>5. LogfileTypeOK'
    BY <1>1, <1>4, <2>2, <2>4, IInvTypeOK DEF LogfileTypeOK, volVars, CheckPcs
  <2>6. BuffersOwned'
    BY <1>1, <1>4 DEF IInv, BuffersOwned
  <2>7. ScanShape'
    BY <1>1, <1>4, <2>1, <2>2, <2>3 DEF IInv, ScanShape
  <2>. QED
    BY <2>5, <2>6, <2>7 DEF IInv
<1>5. CASE /\ ldStage = "failed" /\ ldErr # "EINVAL"
           /\ upl' = NoUpl
           /\ CheckErr(ldErr)
           /\ UNCHANGED rstr2
  <2>1. ldErr \in CheckErrnos
    BY DEF IInv, LogfileTypeOK, LoadTypeOK, Errnos
  <2>. QED
    BY <1>1, <1>2, <1>5, <2>1, CheckErrIInv DEF Stages, Errnos
<1>. QED
  BY <1>3, <1>4, <1>5 DEF ScanAfterLoad

\* The page handed out and the page freed are rstr1_ph and rstr2_ph in
\* some order.
LEMMA ChosenSplit ==
  ASSUME NEW r1 \in Rstr, NEW r2 \in Rstr \cup {NoRstr}, NEW p \in Positions
  PROVE  LET best == Chosen(r1, r2)
             loser == IF best = r1 THEN r2 ELSE r1
         IN  /\ best \in Rstr
             /\ loser \in Rstr \cup {NoRstr}
             /\ Owns(best, p) + Owns(loser, p) = Owns(r1, p) + Owns(r2, p)
<1>1. Owns(r1, p) \in {0, 1} /\ Owns(r2, p) \in {0, 1}
  BY OwnsRange
<1>2. CASE r2 # NoRstr /\ r2.lsn > r1.lsn
  BY <1>1, <1>2 DEF Chosen
<1>3. CASE ~(r2 # NoRstr /\ r2.lsn > r1.lsn)
  BY <1>1, <1>3 DEF Chosen
<1>. QED
  BY <1>2, <1>3

LEMMA CheckFinishIInv == IInv /\ CheckFinish => IInv'
<1> SUFFICES ASSUME IInv, CheckFinish PROVE IInv'
  OBVIOUS
<1>1. /\ pc \in {"scan", "exit"}
      /\ upl' = NoUpl /\ vnodeRefs' = vnodeRefs - 1 /\ locks' = locks - 1
      /\ rstr1' = NoRstr /\ rstr2' = NoRstr
      /\ UNCHANGED <<ldStage, ldPage, ldPos, ldErr, ldLsn, disk, dataSize, verdict>>
  BY DEF CheckFinish, Scanning
<1>2. /\ vnodeRefs = 1 /\ locks = 1 /\ held = NoRstr /\ ldStage = "idle"
  BY <1>1 DEF IInv, ScanShape
<1>3. ASSUME NEW err \in CheckErrnos, CheckReturn(err),
             logEmpty' \in BOOLEAN, held' \in Rstr \cup {NoRstr},
             heap' \in [Positions -> Nat],
             \A p \in Positions :
               heap'[p] = Owns(held', p) + (IF ldStage' \in {"read", "fixup", "clients", "done"}
                                               /\ ldPos' = p THEN 1 ELSE 0)
      PROVE  IInv'
  <2>1. /\ pc' = "idle" /\ chkRes' = err /\ callerPc' \in {"checked", "failed"}
        /\ size' = 0 /\ pos' = 0 /\ isEmpty' = TRUE
    BY <1>3 DEF CheckReturn
  <2>2. LoadTypeOK'
    BY <1>1, <1>3 DEF IInv, LogfileTypeOK, LoadTypeOK
  <2>3. LogfileTypeOK'
    BY <1>1, <1>2, <1>3, <2>1, <2>2, IInvTypeOK, SMTT(30) DEF LogfileTypeOK, NoRstr
  <2>4. BuffersOwned'
    <3> SUFFICES ASSUME NEW p \in Positions
                 PROVE  heap'[p] = Owns(held', p) + Owns(rstr1', p) + Owns(rstr2', p)
                          + (IF ldStage' \in {"read", "fixup", "clients", "done"}
                                /\ ldPos' = p THEN 1 ELSE 0)
      BY DEF BuffersOwned
    <3>1. Owns(rstr1', p) = 0 /\ Owns(rstr2', p) = 0 /\ Owns(held', p) \in {0, 1}
      BY <1>1, NoRstrOwnsNothing, OwnsRange
    <3>. QED
      BY <1>3, <3>1
  <2>5. ScanShape'
    <3>1. /\ upl' = NoUpl /\ vnodeRefs' = 0 /\ locks' = 0
          /\ rstr1' = NoRstr /\ rstr2' = NoRstr /\ ldStage' = "idle"
      BY <1>1, <1>2
    <3>2. size' <= NtfsMaxLogFileSize
      BY <2>1, MaxLogFileSizeAssumption
    <3>. QED
      BY <2>1, <3>1, <3>2 DEF ScanShape
  <2>. QED
    BY <2>3, <2>4, <2>5 DEF IInv
<1>4. heap \in [Positions -> Nat]
  BY DEF IInv, LogfileTypeOK, LoadTypeOK
<1>5. CASE isEmpty /\ logEmpty' = TRUE /\ CheckReturn("none") /\ UNCHANGED <<heap, held>>
  <2>1. rstr1 = NoRstr /\ rstr2 = NoRstr
    BY <1>5 DEF IInv, ScanShape
  <2>2. \A p \in Positions : heap[p] = 0
    BY <1>2, <2>1, NoRstrOwnsNothing DEF IInv, BuffersOwned
  <2>. QED
    BY <1>1, <1>2, <1>3, <1>4, <1>5, <2>2, NoRstrOwnsNothing
<1>6. CASE /\ ~isEmpty /\ rstr1 = NoRstr
           /\ CheckReturn("EINVAL")
           /\ UNCHANGED <<heap, logEmpty, held>>
  <2>1. rstr2 = NoRstr
    BY <1>6 DEF IInv, ScanShape
  <2>2. \A p \in Positions : heap[p] = 0
    BY <1>2, <1>6, <2>1, NoRstrOwnsNothing DEF IInv, BuffersOwned
  <2>. QED
    BY <1>1, <1>2, <1>3, <1>4, <1>6, <2>2, NoRstrOwnsNothing, IInvTypeOK DEF LogfileTypeOK
<1>7. CASE /\ ~isEmpty /\ rstr1 # NoRstr
           /\ LET best == Chosen(rstr1, rstr2)
                  loser == IF best = rstr1 THEN rstr2 ELSE rstr1
              IN /\ held' = best
                 /\ heap' = IF loser = NoRstr THEN heap
                            ELSE [heap EXCEPT ![loser.pos] = @ - 1]
           /\ CheckReturn("none")
           /\ UNCHANGED logEmpty
  <2> DEFINE best == Chosen(rstr1, rstr2)
             loser == IF best = rstr1 THEN rstr2 ELSE rstr1
  <2>1. rstr1 \in Rstr /\ rstr2 \in Rstr \cup {NoRstr}
    BY <1>7 DEF IInv, LogfileTypeOK
  <2>2. \A p \in Positions :
          /\ best \in Rstr /\ loser \in Rstr \cup {NoRstr}
          /\ Owns(best, p) + Owns(loser, p) = Owns(rstr1, p) + Owns(rstr2, p)
    BY <2>1, ChosenSplit
  <2>3. \A p \in Positions : heap[p] = Owns(rstr1, p) + Owns(rstr2, p)
    BY <1>2, NoRstrOwnsNothing, OwnsRange DEF IInv, BuffersOwned
  <2>4. held' = best
    BY <1>7
  <2>5. ScanPositionsAssumption!1
    BY ScanPositionsAssumption
  <2>6. /\ heap' \in [Positions -> Nat]
        /\ \A p \in Positions : heap'[p] = Owns(held', p)
    <3>1. CASE loser = NoRstr
      <4>1. heap' = heap
        BY <1>7, <3>1
      <4>. QED
        BY <1>4, <2>2, <2>3, <2>4, <3>1, <4>1, NoRstrOwnsNothing, OwnsRange
    <3>2. CASE loser # NoRstr
      <4>1. loser \in Rstr /\ loser.pos \in Positions
        BY <2>2, <2>5, <3>2 DEF Rstr
      <4>2. heap' = [heap EXCEPT ![loser.pos] = @ - 1]
        BY <1>7, <3>2
      <4>3. \A p \in Positions : Owns(loser, p) = IF loser.pos = p THEN 1 ELSE 0
        BY DEF Owns
      <4>. QED
        BY <1>4, <2>2, <2>3, <2>4, <4>1, <4>2, <4>3, SMTT(30) DEF Owns, Rstr
    <3>. QED
      BY <3>1, <3>2
  <2>7. \A p \in Positions :
          heap'[p] = Owns(held', p) + (IF ldStage' \in {"read", "fixup", "clients", "done"}
                                          /\ ldPos' = p THEN 1 ELSE 0)
    BY <1>1, <1>2, <2>6, OwnsRange
  <2>8. logEmpty' \in BOOLEAN /\ held' \in Rstr \cup {NoRstr}
    BY <1>7, <2>2, <2>4, <2>5 DEF IInv, LogfileTypeOK
  <2>. QED
    BY <1>3, <1>7, <2>6, <2>7, <2>8
<1>. QED
  BY <1>5, <1>6, <1>7 DEF CheckFinish
-----------------------------------------------------------------------------
(* The invariant is inductive, and the theorems it gives.                  *)

\* A step that changes no variable keeps the invariant.
LEMMA StutterIInv == IInv /\ UNCHANGED vars => IInv'
<1> SUFFICES ASSUME IInv, UNCHANGED vars PROVE IInv'
  OBVIOUS
<1>1. /\ UNCHANGED <<ldStage, ldPage, ldPos, ldErr, ldLsn, heap>>
      /\ UNCHANGED <<pc, size, pos, upl, isEmpty, rstr1, rstr2, vnodeRefs, locks>>
      /\ UNCHANGED <<chkRes, disk, dataSize, logEmpty, callerPc, held, verdict>>
  BY DEF vars, loadVars, checkVars, volVars, callerVars
<1>2. LoadTypeOK'
  BY <1>1 DEF IInv, LogfileTypeOK, LoadTypeOK
<1>3. LogfileTypeOK'
  BY <1>1, <1>2, IInvTypeOK DEF LogfileTypeOK
<1>4. BuffersOwned'
  BY <1>1 DEF IInv, BuffersOwned
<1>5. ScanShape'
  BY <1>1 DEF IInv, ScanShape
<1>. QED
  BY <1>3, <1>4, <1>5 DEF IInv

\* Every step of the model, of ntfs_logfile_check, ntfs_restart_page_load,
\* ntfs_logfile_is_clean, ntfs_logfile_empty or the mount code, keeps the
\* invariant.
THEOREM IInvInductive == IInv /\ [Next]_vars => IInv'
<1> SUFFICES ASSUME IInv, [Next]_vars PROVE IInv'
  OBVIOUS
<1>1. CASE CheckStep
  BY <1>1, CheckBeginIInv, ScanStepIInv, ScanAfterLoadIInv, CheckFinishIInv,
     LoadStepIInv DEF CheckStep
<1>2. CASE CallerStep
  BY <1>2, CallCheckIInv, IsCleanIInv, EmptyIInv, ReleasePageIInv, UnmountIInv,
     ForeignWriteIInv, MountIInv DEF CallerStep
<1>3. CASE UNCHANGED vars
  BY <1>3, StutterIInv
<1>. QED
  BY <1>1, <1>2, <1>3 DEF Next

\* Type correctness: every variable of the composed model of
\* ntfs_logfile_check and its callers keeps its type, whatever the sizes,
\* offsets, pages and faults.
THEOREM TypeCorrect == Spec => []LogfileTypeOK
<1>1. Init => IInv
  BY InitIInv
<1>2. IInv => LogfileTypeOK
  BY DEF IInv
<1>. QED
  BY <1>1, <1>2, IInvInductive, PTL DEF Spec

\* Every restart-page buffer that IOMalloc allocates in
\* ntfs_restart_page_load is owned by exactly one of the load, rstr1_ph,
\* rstr2_ph and the caller's *rp: no error path of ntfs_logfile_check or
\* ntfs_restart_page_load leaks or double-frees one.
THEOREM BuffersOwnedInvariant == Spec => []BuffersOwned
<1>1. Init => IInv
  BY InitIInv
<1>2. IInv => BuffersOwned
  BY DEF IInv
<1>. QED
  BY <1>1, <1>2, IInvInductive, PTL DEF Spec

\* Whenever ntfs_logfile_check has returned, on every path, it holds no
\* mapped page, no reference to the $LogFile vnode and no hold of its lock.
THEOREM CheckReleasesResourcesInvariant == Spec => []CheckReleasesResources
<1>1. Init => IInv
  BY InitIInv
<1>2. IInv => CheckReleasesResources
  BY DEF IInv, ScanShape, CheckReleasesResources
<1>. QED
  BY <1>1, <1>2, IInvInductive, PTL DEF Spec

=============================================================================
