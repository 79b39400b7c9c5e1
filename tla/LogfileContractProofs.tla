------------------------ MODULE LogfileContractProofs ------------------------
(***************************************************************************)
(* Proofs, for every value of the constants, that NVolLogFileEmpty is set *)
(* only on a log whose scanned blocks are all empty, and that the model   *)
(* of ntfs_logfile_check implements the safety part of its contract       *)
(* (module LogfileContract) under the identity mapping of the caller's    *)
(* state.  They rest on the invariant IInv of LogfileCheckProofs.         *)
(***************************************************************************)
EXTENDS LogfileCheckProofs

\* A restart page ntfs_logfile_check keeps is an accepted copy of the
\* block at its offset, inside the scanned range, with that block's LSN.
Faithful(r) ==
  /\ r.page = disk[r.pos]
  /\ r.pos < ScanSize(dataSize)
  /\ Loadable(r.page, r.pos)
  /\ r.lsn = RestartPageLsn(r.page)

\* What the stages of ntfs_restart_page_load have established about the
\* page being loaded: each check the load has passed holds of it.
LoadProgress ==
  pc = "load" =>
    /\ ldPage = disk[ldPos] /\ ldPos < size /\ IsRestartMagic(ldPage.magic)
    /\ ldStage \in {"area", "alloc", "read", "fixup", "clients", "done"}
         => ntfs_restart_page_header_is_valid(ldPage, ldPos)
    /\ ldStage \in {"alloc", "read", "fixup", "clients", "done"}
         => ntfs_restart_area_is_valid(ldPage)
    /\ ldStage \in {"clients", "done"} => ~FixupRejects(ldPage)
    /\ ldStage = "done" =>
         /\ NeedsClientCheck(ldPage) => ntfs_log_client_array_is_consistent(ldPage)
         /\ ldLsn = RestartPageLsn(ldPage)
    /\ ldStage = "failed" => ldErr # "none"

(***************************************************************************)
(* The invariant behind the contract.  While the check runs, its size is  *)
(* the data size clamped and truncated; while logfile_is_empty holds,     *)
(* every candidate offset below pos holds an empty block (this needs the  *)
(* candidate offsets to be exactly the ones the scan visits); the loop is *)
(* never left at `exit' with logfile_is_empty; every kept restart page is *)
(* faithful; and the empty flag is cleared whenever the volume is not     *)
(* mounted, so that a foreign write cannot make it lie.                   *)
(***************************************************************************)
SizeFixed == pc \in Scanning => size = ScanSize(dataSize)
ScannedEmpty ==
  pc \in Scanning /\ isEmpty =>
    \A p \in Positions : p < pos => disk[p].magic = "EMPTY"
ExitNotEmpty == pc = "exit" => ~isEmpty
KeptFaithful ==
  /\ rstr1 # NoRstr => Faithful(rstr1)
  /\ rstr2 # NoRstr => Faithful(rstr2)
UnmountedClears == callerPc = "unmounted" => ~logEmpty

CInv ==
  /\ SizeFixed /\ ScannedEmpty /\ ExitNotEmpty /\ KeptFaithful
  /\ LoadProgress /\ EmptyFlagSound /\ UnmountedClears
-----------------------------------------------------------------------------
(* Lemmas about the scan's size and offsets.                              *)

\* The scan never reads past the data size.
LEMMA ScanSizeLeq ==
  ASSUME NEW ds \in DataSizes
  PROVE  ScanSize(ds) <= ds
<1>1. LogPageSize \in Nat \ {0}
  BY PageSizeAssumption, LogPageSizeAssumption DEF LogPageSize
<1>2. PICK s \in 0..ds : ScanSize(ds) = s - (s % LogPageSize)
  BY DataSizesAssumption, MaxLogFileSizeAssumption DEF ScanSize
<1>3. s % LogPageSize \in 0..s
  BY <1>1
<1>. QED
  BY <1>2, <1>3, DataSizesAssumption

\* An offset below the scan's next offset is the current one or lies
\* below it.
LEMMA BelowNextPos ==
  ASSUME NEW q \in Positions, NEW p \in Positions, p < NextPos(q)
  PROVE  p < q \/ p = q
BY ScanPositionsExactAssumption, PositionsAssumption

\* The blocks ntfs_attr_set fills are empty, up to the data size.
LEMMA FillPrefixBlank ==
  ASSUME NEW d \in [Positions -> Blocks], NEW ds \in DataSizes
  PROVE  \A p \in Positions : p < ScanSize(ds) => FillPrefix(d, ds)[p].magic = "EMPTY"
<1> SUFFICES ASSUME NEW p \in Positions, p < ScanSize(ds)
             PROVE  FillPrefix(d, ds)[p].magic = "EMPTY"
  OBVIOUS
<1>1. p < ds
  BY ScanSizeLeq, ScanSizeBound, PositionsAssumption, DataSizesAssumption
<1>. QED
  BY <1>1 DEF FillPrefix
-----------------------------------------------------------------------------
(* The caller's steps: the check is idle and keeps no restart page, so    *)
(* only the empty flag and the volume need care.                          *)

LEMMA IdleCInv ==
  ASSUME IInv, CInv, pc = "idle", pc' \in {"idle", "begin"},
         UNCHANGED <<rstr1, rstr2>>, EmptyFlagSound', UnmountedClears'
  PROVE  CInv'
<1>1. rstr1 = NoRstr /\ rstr2 = NoRstr
  BY DEF IInv, ScanShape
<1>2. SizeFixed' /\ ScannedEmpty' /\ ExitNotEmpty' /\ LoadProgress'
  BY DEF SizeFixed, ScannedEmpty, ExitNotEmpty, LoadProgress, Scanning
<1>3. KeptFaithful'
  BY <1>1 DEF KeptFaithful
<1>. QED
  BY <1>2, <1>3 DEF CInv

LEMMA CallCheckCInv == IInv /\ CInv /\ CallCheck => CInv'
<1> SUFFICES ASSUME IInv, CInv, CallCheck PROVE CInv'
  OBVIOUS
<1>1. pc = "idle"
  BY DEF CallCheck, IInv, ScanShape
<1>. QED
  BY <1>1, IdleCInv DEF CallCheck, volVars, CInv, EmptyFlagSound, InScan, UnmountedClears

LEMMA IsCleanCInv == IInv /\ CInv /\ ntfs_logfile_is_clean => CInv'
<1> SUFFICES ASSUME IInv, CInv, ntfs_logfile_is_clean PROVE CInv'
  OBVIOUS
<1>1. pc = "idle"
  BY DEF ntfs_logfile_is_clean, IInv, ScanShape
<1>. QED
  BY <1>1, IdleCInv DEF ntfs_logfile_is_clean, checkVars, volVars, CInv,
                        EmptyFlagSound, InScan, UnmountedClears

LEMMA EmptyCInv == IInv /\ CInv /\ ntfs_logfile_empty => CInv'
<1> SUFFICES ASSUME IInv, CInv, ntfs_logfile_empty PROVE CInv'
  OBVIOUS
<1>1. /\ pc = "idle" /\ UNCHANGED <<pc, rstr1, rstr2, dataSize>>
      /\ callerPc' \in {"judged", "emptied"}
  BY DEF ntfs_logfile_empty, IInv, ScanShape, checkVars
<1>2. UnmountedClears'
  BY <1>1 DEF UnmountedClears
<1>3. EmptyFlagSound'
  <2>1. CASE logEmpty' = logEmpty /\ disk' = disk
    BY <1>1, <2>1 DEF CInv, EmptyFlagSound, InScan
  <2>2. CASE ~logEmpty /\ logEmpty' = logEmpty
    BY <2>2 DEF EmptyFlagSound
  <2>3. CASE disk' = FillPrefix(disk, dataSize)
    BY <1>1, <2>3, FillPrefixBlank DEF IInv, LogfileTypeOK, EmptyFlagSound, InScan
  <2>. QED
    BY <2>1, <2>2, <2>3 DEF ntfs_logfile_empty
<1>. QED
  BY <1>1, <1>2, <1>3, IdleCInv

LEMMA ReleasePageCInv == IInv /\ CInv /\ ReleasePage => CInv'
<1> SUFFICES ASSUME IInv, CInv, ReleasePage PROVE CInv'
  OBVIOUS
<1>1. pc = "idle"
  BY DEF ReleasePage, IInv, ScanShape
<1>. QED
  BY <1>1, IdleCInv DEF ReleasePage, checkVars, volVars, CInv, EmptyFlagSound,
                        InScan, UnmountedClears

LEMMA UnmountCInv == IInv /\ CInv /\ Unmount => CInv'
<1> SUFFICES ASSUME IInv, CInv, Unmount PROVE CInv'
  OBVIOUS
<1>1. pc = "idle"
  BY DEF Unmount, IInv, ScanShape
<1>. QED
  BY <1>1, IdleCInv DEF Unmount, checkVars, EmptyFlagSound, UnmountedClears

LEMMA ForeignWriteCInv == IInv /\ CInv /\ ForeignWrite => CInv'
<1> SUFFICES ASSUME IInv, CInv, ForeignWrite PROVE CInv'
  OBVIOUS
<1>1. pc = "idle" /\ ~logEmpty
  BY DEF ForeignWrite, IInv, ScanShape, CInv, UnmountedClears
<1>. QED
  BY <1>1, IdleCInv DEF ForeignWrite, checkVars, callerVars, EmptyFlagSound,
                        UnmountedClears

LEMMA MountCInv == IInv /\ CInv /\ Mount => CInv'
<1> SUFFICES ASSUME IInv, CInv, Mount PROVE CInv'
  OBVIOUS
<1>1. pc = "idle"
  BY DEF Mount, IInv, ScanShape
<1>. QED
  BY <1>1, IdleCInv DEF Mount, checkVars, volVars, CInv, EmptyFlagSound, InScan,
                        UnmountedClears

-----------------------------------------------------------------------------
(* The stages of ntfs_restart_page_load: each records the check it has    *)
(* passed, and the page and its offset stay fixed.                        *)

\* The facts LoadProgress states about a load that has reached the stage.
PassedChecks(stage) ==
  /\ stage \in {"area", "alloc", "read", "fixup", "clients", "done"}
       => ntfs_restart_page_header_is_valid(ldPage, ldPos)
  /\ stage \in {"alloc", "read", "fixup", "clients", "done"}
       => ntfs_restart_area_is_valid(ldPage)
  /\ stage \in {"clients", "done"} => ~FixupRejects(ldPage)
  /\ stage = "done" =>
       /\ NeedsClientCheck(ldPage) => ntfs_log_client_array_is_consistent(ldPage)
       /\ ldLsn = RestartPageLsn(ldPage)
  /\ stage = "failed" => ldErr # "none"

LEMMA LoadStepCInv ==
  IInv /\ CInv /\ LoadStep /\ UNCHANGED <<checkVars, volVars, callerVars>> => CInv'
<1> SUFFICES ASSUME IInv, CInv, LoadStep, UNCHANGED <<checkVars, volVars, callerVars>>
             PROVE  CInv'
  OBVIOUS
<1>0. /\ UNCHANGED <<pc, size, pos, isEmpty, rstr1, rstr2, disk, dataSize, logEmpty>>
      /\ UNCHANGED <<callerPc, ldPage, ldPos>>
  BY DEF checkVars, volVars, callerVars, LoadStep, LoadHeader, LoadArea, LoadAlloc,
         LoadRead, LoadFixup, LoadClients, Advance, LoadReturn, LoadFreeAndReturn
<1>1. SizeFixed' /\ ScannedEmpty' /\ ExitNotEmpty' /\ KeptFaithful'
      /\ EmptyFlagSound' /\ UnmountedClears'
  BY <1>0 DEF CInv, SizeFixed, ScannedEmpty, ExitNotEmpty, KeptFaithful, Faithful,
              EmptyFlagSound, InScan, UnmountedClears
<1>2. CASE pc # "load"
  BY <1>0, <1>1, <1>2 DEF CInv, LoadProgress
<1>3. CASE pc = "load"
  <2>1. PassedChecks(ldStage)
    BY <1>3 DEF CInv, LoadProgress, PassedChecks
  <2>2. PassedChecks(ldStage)'
    <3>1. CASE LoadHeader
      BY <1>0, <3>1 DEF LoadHeader, Advance, LoadReturn, PassedChecks
    <3>2. CASE LoadArea
      BY <1>0, <2>1, <3>2 DEF LoadArea, Advance, LoadReturn, PassedChecks
    <3>3. CASE LoadAlloc
      BY <1>0, <2>1, <3>3 DEF LoadAlloc, LoadReturn, PassedChecks
    <3>4. CASE LoadRead
      BY <1>0, <2>1, <3>4 DEF LoadRead, Advance, LoadFreeAndReturn, PassedChecks
    <3>5. CASE LoadFixup
      BY <1>0, <2>1, <3>5 DEF LoadFixup, Advance, LoadFreeAndReturn, PassedChecks
    <3>6. CASE LoadClients
      BY <1>0, <2>1, <3>6 DEF LoadClients, LoadFreeAndReturn, PassedChecks
    <3>. QED
      BY <3>1, <3>2, <3>3, <3>4, <3>5, <3>6 DEF LoadStep
  <2>3. LoadProgress'
    BY <1>0, <1>3, <2>2 DEF CInv, LoadProgress, PassedChecks
  <2>. QED
    BY <1>1, <2>3 DEF CInv
<1>. QED
  BY <1>2, <1>3

-----------------------------------------------------------------------------
(* The steps of ntfs_logfile_check.                                       *)

\* A step that returns from the check with no restart page kept and the
\* volume untouched, except for the empty flag, which it may only keep.
LEMMA ReturnCInv ==
  ASSUME IInv, CInv, pc' = "idle", rstr1' = NoRstr, rstr2' = NoRstr,
         UNCHANGED <<disk, dataSize, logEmpty>>, callerPc' \in {"checked", "failed"}
  PROVE  CInv'
BY DEF CInv, SizeFixed, ScannedEmpty, ExitNotEmpty, KeptFaithful, LoadProgress,
       EmptyFlagSound, InScan, UnmountedClears, Scanning

LEMMA CheckBeginCInv == IInv /\ CInv /\ CheckBegin => CInv'
<1> SUFFICES ASSUME IInv, CInv, CheckBegin PROVE CInv'
  OBVIOUS
<1>0. /\ pc = "begin" /\ rstr1 = NoRstr /\ rstr2 = NoRstr /\ callerPc = "checking"
      /\ UNCHANGED <<disk, dataSize, logEmpty, rstr1, rstr2>>
  BY DEF CheckBegin, IInv, ScanShape, volVars
<1>1. CASE pc' = "idle"
  <2>1. callerPc' \in {"checked", "failed"}
    BY <1>1 DEF CheckBegin, CheckReturn
  <2>. QED
    BY <1>0, <1>1, <2>1, ReturnCInv
<1>2. CASE pc' # "idle"
  <2>1. /\ pc' = "scan" /\ size' = ScanSize(dataSize) /\ pos' = 0
        /\ callerPc' = callerPc
    BY <1>2 DEF CheckBegin, CheckReturn
  <2>2. ScannedEmpty'
    BY <1>0, <2>1, PositionsAssumption DEF ScannedEmpty
  <2>. QED
    BY <1>0, <2>1, <2>2 DEF CInv, SizeFixed, ExitNotEmpty, KeptFaithful, LoadProgress,
                            EmptyFlagSound, InScan, UnmountedClears, Scanning
<1>. QED
  BY <1>1, <1>2

LEMMA ScanStepCInv == IInv /\ CInv /\ ScanStep => CInv'
<1> SUFFICES ASSUME IInv, CInv, ScanStep PROVE CInv'
  OBVIOUS
<1>0. /\ pc = "scan" /\ pos < size /\ pos \in Positions
      /\ rstr2 = NoRstr /\ callerPc = "checking"
      /\ UNCHANGED <<disk, dataSize, logEmpty, rstr2>>
  BY DEF ScanStep, IInv, ScanShape, volVars
<1>1. CASE pc' = "idle"
  <2>1. rstr1' = NoRstr /\ callerPc' = "failed"
    BY <1>1 DEF ScanStep, CheckErr, CheckReturn
  <2>. QED
    BY <1>0, <1>1, <2>1, ReturnCInv
<1>2. CASE pc' # "idle"
  <2>1. /\ UNCHANGED <<size, callerPc, rstr1>>
        /\ pc' \in {"scan", "exit", "load"}
    BY <1>2 DEF ScanStep, CheckErr, CheckReturn
  <2>2. pc' \in Scanning /\ isEmpty' =>
          /\ isEmpty /\ disk[pos].magic = "EMPTY" /\ pos' = NextPos(pos)
    BY <1>2 DEF ScanStep, CheckErr, CheckReturn
  <2>3. ScannedEmpty'
    <3> SUFFICES ASSUME pc' \in Scanning, isEmpty', NEW p \in Positions, p < pos'
                 PROVE  disk'[p].magic = "EMPTY"
      BY DEF ScannedEmpty
    <3>1. p < pos \/ p = pos
      BY <1>0, <2>2, BelowNextPos
    <3>. QED
      BY <1>0, <2>2, <3>1 DEF CInv, ScannedEmpty, Scanning
  <2>4. ExitNotEmpty'
    BY <1>2 DEF ScanStep, CheckErr, CheckReturn, ExitNotEmpty
  <2>5. pc' = "load" =>
          /\ ldPage' = disk[pos] /\ ldPos' = pos /\ ldStage' = "header"
          /\ IsRestartMagic(disk[pos].magic)
    BY <1>2 DEF ScanStep, CheckErr, CheckReturn, StartLoad
  <2>6. LoadProgress'
    BY <1>0, <2>1, <2>5 DEF LoadProgress
  <2>. QED
    BY <1>0, <2>1, <2>3, <2>4, <2>6
       DEF CInv, SizeFixed, KeptFaithful, Faithful, EmptyFlagSound, InScan,
           UnmountedClears, Scanning
<1>. QED
  BY <1>1, <1>2


\* A page the load returned is an accepted copy of the block it read.
LEMMA LoadedFaithful ==
  ASSUME IInv, CInv, pc = "load", ldStage = "done"
  PROVE  Faithful([pos |-> pos, lsn |-> ldLsn, page |-> ldPage])
<1>1. /\ ldPos = pos /\ ldPage = disk[pos] /\ pos < ScanSize(dataSize)
      /\ IsRestartMagic(ldPage.magic)
  BY DEF IInv, ScanShape, CInv, LoadProgress, SizeFixed, Scanning
<1>2. Loadable(ldPage, pos) /\ ldLsn = RestartPageLsn(ldPage)
  BY <1>1 DEF CInv, LoadProgress, Loadable, LoadAccepts
<1>. QED
  BY <1>1, <1>2 DEF Faithful

LEMMA ScanAfterLoadCInv == IInv /\ CInv /\ ScanAfterLoad => CInv'
<1> SUFFICES ASSUME IInv, CInv, ScanAfterLoad PROVE CInv'
  OBVIOUS
<1>0. /\ pc = "load" /\ ~isEmpty /\ rstr2 = NoRstr /\ callerPc = "checking"
      /\ UNCHANGED <<disk, dataSize, logEmpty>>
  BY DEF ScanAfterLoad, IInv, ScanShape, volVars
<1>1. CASE pc' = "idle"
  <2>0. ldStage = "failed" /\ ldErr # "EINVAL"
    BY <1>1 DEF ScanAfterLoad
  <2>1. rstr1' = NoRstr /\ rstr2' = rstr2 /\ callerPc' \in {"checked", "failed"}
    BY <2>0 DEF ScanAfterLoad, CheckErr, CheckReturn
  <2>. QED
    BY <1>0, <1>1, <2>1, ReturnCInv
<1>2. CASE pc' # "idle"
  <2>1. /\ UNCHANGED <<size, callerPc, isEmpty>>
        /\ pc' \in {"scan", "exit"}
    BY <1>2 DEF ScanAfterLoad, CheckErr, CheckReturn
  <2>2. KeptFaithful'
    <3>1. CASE ldStage = "done"
      <4>1. DEFINE r == [pos |-> pos, lsn |-> ldLsn, page |-> ldPage]
      <4>2. rstr1' \in {rstr1, r} /\ rstr2' \in {rstr2, r}
        BY <1>2, <3>1 DEF ScanAfterLoad, CheckErr, CheckReturn
      <4>3. Faithful(r)
        BY <1>0, <3>1, LoadedFaithful
      <4>. QED
        BY <1>0, <4>2, <4>3 DEF CInv, KeptFaithful, Faithful
    <3>2. CASE ldStage # "done"
      <4>1. UNCHANGED <<rstr1, rstr2>>
        BY <1>2, <3>2 DEF ScanAfterLoad, CheckErr, CheckReturn
      <4>. QED
        BY <1>0, <4>1 DEF CInv, KeptFaithful, Faithful
    <3>. QED
      BY <3>1, <3>2
  <2>. QED
    BY <1>0, <2>1, <2>2
       DEF CInv, SizeFixed, ScannedEmpty, ExitNotEmpty, LoadProgress, EmptyFlagSound,
           InScan, UnmountedClears, Scanning
<1>. QED
  BY <1>1, <1>2

LEMMA CheckFinishCInv == IInv /\ CInv /\ CheckFinish => CInv'
<1> SUFFICES ASSUME IInv, CInv, CheckFinish PROVE CInv'
  OBVIOUS
<1>0. /\ pc' = "idle" /\ rstr1' = NoRstr /\ rstr2' = NoRstr
      /\ callerPc' \in {"checked", "failed"}
      /\ UNCHANGED <<disk, dataSize>>
  BY DEF CheckFinish, CheckReturn
<1>1. CASE ~isEmpty
  <2>1. logEmpty' = logEmpty
    BY <1>1 DEF CheckFinish
  <2>. QED
    BY <1>0, <2>1, ReturnCInv
<1>2. CASE isEmpty
  <2>1. pc = "scan" /\ pos >= size /\ size = ScanSize(dataSize)
    BY <1>2 DEF CheckFinish, CInv, ExitNotEmpty, SizeFixed, Scanning
  <2>2. EmptyFlagSound'
    <3> SUFFICES ASSUME NEW p \in Positions, p < ScanSize(dataSize)
                 PROVE  disk[p].magic = "EMPTY"
      BY <1>0 DEF EmptyFlagSound, InScan
    <3>1. p < pos
      BY <2>1, PositionsAssumption DEF IInv, LogfileTypeOK
    <3>. QED
      BY <1>2, <2>1, <3>1 DEF CInv, ScannedEmpty, Scanning
  <2>. QED
    BY <1>0, <2>2
       DEF CInv, SizeFixed, ScannedEmpty, ExitNotEmpty, KeptFaithful, LoadProgress,
           UnmountedClears, Scanning
<1>. QED
  BY <1>1, <1>2

-----------------------------------------------------------------------------
(* The invariant holds initially and is kept by every step.               *)

LEMMA InitCInv == Init => CInv
BY DEF Init, CInv, SizeFixed, ScannedEmpty, ExitNotEmpty, KeptFaithful, LoadProgress,
       EmptyFlagSound, UnmountedClears, Scanning

LEMMA StutterCInv == CInv /\ UNCHANGED vars => CInv'
<1> SUFFICES ASSUME CInv, UNCHANGED vars PROVE CInv'
  OBVIOUS
<1>1. /\ UNCHANGED <<ldStage, ldPage, ldPos, ldErr, ldLsn>>
      /\ UNCHANGED <<pc, size, pos, isEmpty, rstr1, rstr2>>
      /\ UNCHANGED <<disk, dataSize, logEmpty, callerPc>>
  BY DEF vars, loadVars, checkVars, volVars, callerVars
<1>. QED
  BY <1>1 DEF CInv, SizeFixed, ScannedEmpty, ExitNotEmpty, KeptFaithful, Faithful,
              LoadProgress, EmptyFlagSound, InScan, UnmountedClears

\* Together with IInv, CInv is an inductive invariant of the composed model.
THEOREM CInvInductive == IInv /\ CInv /\ [Next]_vars => CInv'
<1> SUFFICES ASSUME IInv, CInv, [Next]_vars PROVE CInv'
  OBVIOUS
<1>1. CASE CheckBegin
  BY <1>1, CheckBeginCInv
<1>2. CASE ScanStep
  BY <1>2, ScanStepCInv
<1>3. CASE ScanAfterLoad
  BY <1>3, ScanAfterLoadCInv
<1>4. CASE CheckFinish
  BY <1>4, CheckFinishCInv
<1>5. CASE LoadStep /\ UNCHANGED <<checkVars, volVars, callerVars>>
  BY <1>5, LoadStepCInv
<1>6. CASE CallerStep
  BY <1>6, CallCheckCInv, IsCleanCInv, EmptyCInv, ReleasePageCInv, UnmountCInv,
     ForeignWriteCInv, MountCInv DEF CallerStep
<1>7. CASE UNCHANGED vars
  BY <1>7, StutterCInv
<1>. QED
  BY <1>1, <1>2, <1>3, <1>4, <1>5, <1>6, <1>7 DEF Next, CheckStep

\* Both invariants hold in every reachable state.
LEMMA Invariants == Spec => [](IInv /\ CInv)
<1>1. Init => IInv /\ CInv
  BY InitIInv, InitCInv
<1>2. IInv /\ CInv /\ [Next]_vars => (IInv /\ CInv)'
  BY IInvInductive, CInvInductive
<1>. QED
  BY <1>1, <1>2, PTL DEF Spec

\* NVolLogFileEmpty, which lets ntfs_logfile_check (line 539) and
\* ntfs_logfile_is_clean (line 756) skip the log, is set only while every
\* block the scan covers is empty: ntfs_logfile_check sets it only after
\* reading them all, ntfs_logfile_empty only after ntfs_attr_set filled
\* them, and unmounting clears it before another system can write the log.
THEOREM EmptyFlagSoundInvariant == Spec => []EmptyFlagSound
<1>1. IInv /\ CInv => EmptyFlagSound
  BY DEF CInv
<1>. QED
  BY <1>1, Invariants, PTL

-----------------------------------------------------------------------------
(* The refinement: every step of the model is a step of the contract or   *)
(* leaves the caller-visible state unchanged.                             *)

\* The caller's steps are steps of the contract's environment.
LEMMA EnvironmentStep ==
  ASSUME CInv', callerPc # "checking", callerPc' # "checking",
         held' \in {held, NoRstr}
  PROVE  Contract!Environment
BY DEF Contract!Environment, Contract!Checking, Contract!LogBlank, CInv,
       EmptyFlagSound, InScan

\* A restart page the check keeps is the contract's record of the block
\* at its offset.
LEMMA FaithfulRecord ==
  ASSUME IInv, NEW h \in Rstr, Faithful(h)
  PROVE  /\ h.pos \in Positions /\ h.pos < ScanSize(dataSize)
         /\ Loadable(disk[h.pos], h.pos)
         /\ h = [pos |-> h.pos, lsn |-> RestartPageLsn(disk[h.pos]),
                 page |-> disk[h.pos]]
BY DEF Rstr, Faithful

LEMMA CheckBeginRefines ==
  ASSUME IInv, CInv, CheckBegin
  PROVE  [Contract!Next]_Contract!contractVars
<1>0. /\ held = NoRstr /\ held' = NoRstr /\ callerPc = "checking"
      /\ UNCHANGED <<disk, dataSize, logEmpty>>
  BY DEF CheckBegin, IInv, ScanShape, volVars
<1>1. CASE pc' # "idle"
  BY <1>0, <1>1 DEF CheckBegin, CheckReturn, Contract!contractVars
<1>2. CASE pc' = "idle" /\ logEmpty
  <2>1. callerPc' = "checked"
    BY <1>2 DEF CheckBegin, CheckReturn
  <2>2. Contract!LogBlank(disk, dataSize)
    BY <1>2 DEF CInv, EmptyFlagSound, InScan, Contract!LogBlank
  <2>. QED
    BY <1>0, <1>2, <2>1, <2>2
       DEF Contract!Next, Contract!Return, Contract!ReturnEmpty, Contract!Checking
<1>3. CASE pc' = "idle" /\ ~logEmpty
  <2>1. callerPc' = "failed"
    BY <1>3 DEF CheckBegin, CheckReturn
  <2>. QED
    BY <1>0, <2>1 DEF Contract!Next, Contract!Return, Contract!ReturnFailed,
                      Contract!Checking
<1>. QED
  BY <1>1, <1>2, <1>3

LEMMA ScanStepRefines ==
  ASSUME IInv, CInv, ScanStep
  PROVE  [Contract!Next]_Contract!contractVars
<1>0. /\ callerPc = "checking"
      /\ UNCHANGED <<disk, dataSize, logEmpty, held>>
  BY DEF ScanStep, IInv, ScanShape, volVars
<1>1. CASE pc' # "idle"
  BY <1>0, <1>1 DEF ScanStep, CheckErr, CheckReturn, Contract!contractVars
<1>2. CASE pc' = "idle"
  <2>1. callerPc' = "failed"
    BY <1>2 DEF ScanStep, CheckErr, CheckReturn
  <2>. QED
    BY <1>0, <2>1 DEF Contract!Next, Contract!Return, Contract!ReturnFailed,
                      Contract!Checking
<1>. QED
  BY <1>1, <1>2

LEMMA ScanAfterLoadRefines ==
  ASSUME IInv, CInv, ScanAfterLoad
  PROVE  [Contract!Next]_Contract!contractVars
<1>0. /\ callerPc = "checking" /\ pc = "load"
      /\ UNCHANGED <<disk, dataSize, logEmpty, held>>
  BY DEF ScanAfterLoad, IInv, ScanShape, volVars
<1>1. CASE pc' # "idle"
  BY <1>0, <1>1 DEF ScanAfterLoad, CheckErr, CheckReturn, Contract!contractVars
<1>2. CASE pc' = "idle"
  <2>1. ldStage = "failed" /\ ldErr # "EINVAL"
    BY <1>2 DEF ScanAfterLoad
  <2>2. ldErr # "none"
    BY <1>0, <2>1 DEF CInv, LoadProgress
  <2>3. callerPc' = "failed"
    BY <2>1, <2>2 DEF ScanAfterLoad, CheckErr, CheckReturn
  <2>. QED
    BY <1>0, <2>3 DEF Contract!Next, Contract!Return, Contract!ReturnFailed,
                      Contract!Checking
<1>. QED
  BY <1>1, <1>2


LEMMA CheckFinishRefines ==
  ASSUME IInv, CInv, CInv', CheckFinish
  PROVE  [Contract!Next]_Contract!contractVars
<1>0. /\ callerPc = "checking" /\ held = NoRstr
      /\ UNCHANGED <<disk, dataSize>>
  BY DEF CheckFinish, IInv, ScanShape
<1>1. CASE isEmpty
  <2>1. /\ callerPc' = "checked" /\ logEmpty' = TRUE /\ held' = held
    BY <1>1 DEF CheckFinish, CheckReturn
  <2>2. Contract!LogBlank(disk, dataSize)
    BY <1>0, <2>1 DEF CInv, EmptyFlagSound, InScan, Contract!LogBlank
  <2>. QED
    BY <1>0, <2>1, <2>2
       DEF Contract!Next, Contract!Return, Contract!ReturnEmpty, Contract!Checking
<1>2. CASE ~isEmpty /\ rstr1 = NoRstr
  <2>1. callerPc' = "failed" /\ UNCHANGED <<logEmpty, held>>
    BY <1>2 DEF CheckFinish, CheckReturn
  <2>. QED
    BY <1>0, <2>1 DEF Contract!Next, Contract!Return, Contract!ReturnFailed,
                      Contract!Checking
<1>3. CASE ~isEmpty /\ rstr1 # NoRstr
  <2>1. /\ callerPc' = "checked" /\ UNCHANGED logEmpty
        /\ held' = Chosen(rstr1, rstr2)
    BY <1>3 DEF CheckFinish, CheckReturn
  <2>2. held' \in Rstr /\ Faithful(held')
    <3>1. rstr1 \in Rstr /\ (rstr2 # NoRstr => rstr2 \in Rstr)
      BY <1>3 DEF IInv, LogfileTypeOK
    <3>2. Faithful(rstr1) /\ (rstr2 # NoRstr => Faithful(rstr2))
      BY <1>3 DEF CInv, KeptFaithful
    <3>. QED
      BY <2>1, <3>1, <3>2 DEF Chosen
  <2>3. DEFINE h == held'
  <2>4. /\ h.pos \in Positions /\ h.pos < ScanSize(dataSize)
        /\ Loadable(disk[h.pos], h.pos)
        /\ h = [pos |-> h.pos, lsn |-> RestartPageLsn(disk[h.pos]), page |-> disk[h.pos]]
    BY <2>2, FaithfulRecord
  <2>5. Contract!ReturnPage
    BY <1>0, <2>1, <2>4 DEF Contract!ReturnPage, Contract!Checking
  <2>. QED
    BY <2>5 DEF Contract!Next, Contract!Return
<1>. QED
  BY <1>1, <1>2, <1>3

\* Every step of the composed model refines the contract.
LEMMA RefineStep ==
  IInv /\ CInv /\ CInv' /\ [Next]_vars => [Contract!Next]_Contract!contractVars
<1> SUFFICES ASSUME IInv, CInv, CInv', [Next]_vars
             PROVE  [Contract!Next]_Contract!contractVars
  OBVIOUS
<1>1. CASE CheckBegin
  BY <1>1, CheckBeginRefines
<1>2. CASE ScanStep
  BY <1>2, ScanStepRefines
<1>3. CASE ScanAfterLoad
  BY <1>3, ScanAfterLoadRefines
<1>4. CASE CheckFinish
  BY <1>4, CheckFinishRefines
<1>5. CASE LoadStep /\ UNCHANGED <<checkVars, volVars, callerVars>>
  BY <1>5 DEF volVars, callerVars, Contract!contractVars
<1>6. CASE CallCheck
  BY <1>6 DEF CallCheck, volVars, Contract!Next, Contract!Call, Contract!Checking
<1>7. CASE ntfs_logfile_is_clean
  BY <1>7, EnvironmentStep DEF ntfs_logfile_is_clean, Contract!Next
<1>8. CASE ntfs_logfile_empty
  BY <1>8, EnvironmentStep DEF ntfs_logfile_empty, Contract!Next
<1>9. CASE ReleasePage
  BY <1>9, EnvironmentStep DEF ReleasePage, Contract!Next
<1>10. CASE Unmount
  BY <1>10, EnvironmentStep DEF Unmount, Contract!Next
<1>11. CASE ForeignWrite
  BY <1>11, EnvironmentStep DEF ForeignWrite, callerVars, Contract!Next
<1>12. CASE Mount
  BY <1>12, EnvironmentStep DEF Mount, Contract!Next
<1>13. CASE UNCHANGED vars
  BY <1>13 DEF vars, volVars, callerVars, Contract!contractVars
<1>. QED
  BY <1>1, <1>2, <1>3, <1>4, <1>5, <1>6, <1>7, <1>8, <1>9, <1>10, <1>11, <1>12,
     <1>13 DEF Next, CheckStep, CallerStep

\* The model of ntfs_logfile_check, with its loader and its caller,
\* implements the safety part of the contract of LogfileContract: seen
\* from the mount code, every call fails handing out nothing, reports an
\* empty log only when every block its scan covers is empty, or hands
\* out an accepted restart page of the scanned range with its own LSN.
THEOREM ContractRefinement == Spec => ContractSpec
<1>1. Init => Contract!Init
  BY DEF Init, Contract!Init
<1>2. IInv /\ CInv /\ [Next]_vars => [Contract!Next]_Contract!contractVars
  BY RefineStep, IInvInductive, CInvInductive
<1>. QED
  BY <1>1, <1>2, Invariants, PTL DEF Spec, ContractSpec, Contract!SafetySpec

-----------------------------------------------------------------------------
(* The choice between the two restart pages.                              *)

(***************************************************************************)
(* The tie rule of lines 701-711 keeps rstr1 on equal LSNs, and that is   *)
(* the page read first only because rstr1 always lies at a lower offset   *)
(* than rstr2.  The scan keeps this: rstr1 is set at an offset the loop   *)
(* then leaves (pos = 0 moves on to 512), and rstr2 is set only later, at *)
(* the loop's current offset.                                             *)
(***************************************************************************)
RstrOrder ==
  /\ rstr2 # NoRstr => rstr1.pos < rstr2.pos
  /\ pc \in {"scan", "load"} /\ rstr1 # NoRstr => rstr1.pos < pos

\* The scan's next offset lies beyond the current one.
LEMMA NextPosGrows ==
  ASSUME NEW p \in Nat
  PROVE  p < NextPos(p)
BY DEF NextPos, NTFS_BLOCK_SIZE

LEMMA RstrOrderStep == IInv /\ RstrOrder /\ [Next]_vars => RstrOrder'
<1> SUFFICES ASSUME IInv, RstrOrder, [Next]_vars PROVE RstrOrder'
  OBVIOUS
<1>0. /\ pos \in Nat
      /\ rstr2 # NoRstr => pc = "exit"
      /\ pc \in {"idle", "begin"} => rstr1 = NoRstr /\ rstr2 = NoRstr
      /\ rstr1 # NoRstr => rstr1.pos \in Nat
  BY PositionsAssumption DEF IInv, LogfileTypeOK, ScanShape, Rstr
<1>1. CASE CheckBegin
  BY <1>0, <1>1 DEF CheckBegin, CheckReturn, RstrOrder
<1>2. CASE ScanStep
  <2>1. rstr2 = NoRstr /\ rstr2' = NoRstr
    BY <1>0, <1>2 DEF ScanStep
  <2>2. rstr1' = NoRstr \/ (rstr1' = rstr1 /\ pos' \in {pos, NextPos(pos)})
    BY <1>2 DEF ScanStep, CheckErr, CheckReturn
  <2>3. pos < NextPos(pos)
    BY <1>0, NextPosGrows
  <2>4. rstr1 # NoRstr => rstr1.pos < pos
    BY <1>2 DEF ScanStep, RstrOrder
  <2>5. rstr1' # NoRstr => rstr1'.pos < pos'
    BY <1>0, <2>2, <2>3, <2>4, NextPosType
  <2>. QED
    BY <2>1, <2>5 DEF RstrOrder
<1>3. CASE ScanAfterLoad
  <2>0. /\ rstr2 = NoRstr /\ pc = "load"
        /\ rstr1 # NoRstr => pos # 0
    BY <1>0, <1>3 DEF ScanAfterLoad, IInv, ScanShape
  <2>1. CASE ldStage = "done" /\ rstr1 = NoRstr
    <3>1. rstr1'.pos = pos /\ rstr2' = NoRstr
      BY <1>3, <2>0, <2>1 DEF ScanAfterLoad
    <3>2. /\ pc' \in {"scan", "exit"}
          /\ pc' = "scan" => pos = 0 /\ pos' = NextPos(pos)
      BY <1>3, <2>1 DEF ScanAfterLoad
    <3>. QED
      BY <1>0, <3>1, <3>2, NextPosGrows DEF RstrOrder
  <2>2. CASE ldStage = "done" /\ rstr1 # NoRstr
    <3>1. rstr2'.pos = pos /\ rstr1' = rstr1 /\ pc' = "exit"
      BY <1>3, <2>0, <2>2, SMTT(30) DEF ScanAfterLoad
    <3>. QED
      BY <2>0, <2>2, <3>1 DEF RstrOrder
  <2>3. CASE ldStage = "failed" /\ ldErr = "EINVAL"
    <3>1. UNCHANGED <<rstr1, rstr2>> /\ pos' = NextPos(pos) /\ pc' = "scan"
      BY <1>3, <2>3 DEF ScanAfterLoad
    <3>2. rstr1 # NoRstr => rstr1.pos < pos
      BY <2>0 DEF RstrOrder
    <3>3. pos < NextPos(pos)
      BY <1>0, NextPosGrows
    <3>4. rstr1' # NoRstr => rstr1'.pos < pos'
      BY <1>0, <3>1, <3>2, <3>3, NextPosType
    <3>. QED
      BY <2>0, <3>1, <3>4 DEF RstrOrder
  <2>4. CASE ldStage = "failed" /\ ldErr # "EINVAL"
    BY <1>3, <2>0, <2>4 DEF ScanAfterLoad, CheckErr, RstrOrder
  <2>. QED
    BY <1>3, <2>1, <2>2, <2>3, <2>4 DEF ScanAfterLoad
<1>4. CASE CheckFinish
  BY <1>4 DEF CheckFinish, RstrOrder
<1>5. CASE LoadStep /\ UNCHANGED <<checkVars, volVars, callerVars>>
  BY <1>5 DEF checkVars, RstrOrder
<1>6. CASE CallCheck
  BY <1>6 DEF CallCheck, RstrOrder
<1>7. CASE ntfs_logfile_is_clean \/ ntfs_logfile_empty \/ ReleasePage \/ Unmount
           \/ ForeignWrite \/ Mount
  BY <1>7 DEF ntfs_logfile_is_clean, ntfs_logfile_empty, ReleasePage, Unmount,
              ForeignWrite, Mount, checkVars, RstrOrder
<1>8. CASE UNCHANGED vars
  BY <1>8 DEF vars, checkVars, RstrOrder
<1>. QED
  BY <1>1, <1>2, <1>3, <1>4, <1>5, <1>6, <1>7, <1>8 DEF Next, CheckStep, CallerStep

\* The page handed out at the end of the check is the newer one, the first
\* among equals.
LEMMA ChosenNewest ==
  ASSUME IInv, RstrOrder, rstr1 # NoRstr
  PROVE  LET best == Chosen(rstr1, rstr2) IN
           /\ best \in {rstr1, rstr2}
           /\ \A r \in {rstr1, rstr2} \ {NoRstr} :
                \/ r.lsn < best.lsn
                \/ r.lsn = best.lsn /\ best.pos <= r.pos
<1>1. rstr1 \in Rstr /\ (rstr2 # NoRstr => rstr2 \in Rstr)
  BY DEF IInv, LogfileTypeOK
<1>2. \A r \in Rstr : r.lsn \in Int /\ r.pos \in Nat
  BY PositionsAssumption DEF Rstr
<1>. QED
  BY <1>1, <1>2 DEF Chosen, RstrOrder

\* Only the return of the check hands the caller a page.
LEMMA HandOffStep ==
  ASSUME IInv, RstrOrder, [Next]_vars, held' # held, held' # NoRstr
  PROVE  CheckFinish /\ ~isEmpty /\ rstr1 # NoRstr
         /\ held' = Chosen(rstr1, rstr2)
<1>1. ~(CheckBegin \/ ScanStep \/ ScanAfterLoad \/ CallCheck \/ ReleasePage
        \/ ntfs_logfile_is_clean \/ ntfs_logfile_empty \/ Unmount \/ ForeignWrite
        \/ Mount \/ (LoadStep /\ UNCHANGED <<checkVars, volVars, callerVars>>)
        \/ UNCHANGED vars)
  BY DEF CheckBegin, ScanStep, ScanAfterLoad, CallCheck, ReleasePage,
         ntfs_logfile_is_clean, ntfs_logfile_empty, Unmount, ForeignWrite, Mount,
         callerVars, vars
<1>2. CheckFinish
  BY <1>1 DEF Next, CheckStep, CallerStep
<1>. QED
  BY <1>2 DEF CheckFinish

\* The restart page ntfs_logfile_check hands the caller is one of the two
\* it loaded, with the greatest LSN, and the first one read among equals:
\* the comparison of lines 701-711 and the scan order together give it.
THEOREM NewestPageHandedOutThm == Spec => NewestPageHandedOut
<1>1. Init => RstrOrder
  BY DEF Init, RstrOrder
<1>2. IInv /\ RstrOrder /\ [Next]_vars =>
        [held' # held /\ held' # NoRstr =>
           /\ held' \in {rstr1, rstr2}
           /\ \A r \in {rstr1, rstr2} \ {NoRstr} :
                \/ r.lsn < held'.lsn
                \/ r.lsn = held'.lsn /\ held'.pos <= r.pos]_vars
  BY HandOffStep, ChosenNewest
<1>3. Spec => [](IInv /\ RstrOrder)
  BY <1>1, InitIInv, IInvInductive, RstrOrderStep, PTL DEF Spec
<1>. QED
  BY <1>2, <1>3, PTL DEF Spec, NewestPageHandedOut

=============================================================================
