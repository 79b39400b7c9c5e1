------------------------ MODULE RestartPageLoadProofs ------------------------
(***************************************************************************)
(* Proofs, for every value of the constants, about one call of            *)
(* ntfs_restart_page_load on its own (LoadSpec): its variables stay well  *)
(* typed, and it implements the contract of RestartPageContract.          *)
(***************************************************************************)
EXTENDS RestartPageLoad, TLAPS

\* The LSN ntfs_restart_page_load returns is an integer.
LEMMA PageLsnType ==
  ASSUME NEW page \in RestartPageType(ClientSlots)
  PROVE  RestartPageLsn(page) \in Int
BY DEF RestartPageType, RestartAreaType, RestartPageLsn

-----------------------------------------------------------------------------
(* Type correctness.                                                      *)

\* While the buffer is allocated, the heap holds it: every `goto err' of
\* ntfs_restart_page_load frees a buffer that IOMalloc returned.
LoadIInv ==
  /\ LoadTypeOK
  /\ ldPage \in Pages
  /\ ldStage \in {"read", "fixup", "clients"} => heap[ldPos] >= 1

LEMMA LoadInitIInv == LoadInit => LoadIInv
BY PagesAssumption DEF LoadInit, LoadIInv, LoadTypeOK, Stages, Errnos

\* `goto err' keeps the heap a function into Nat when the buffer is held.
LEMMA LoadFreeType ==
  ASSUME LoadIInv, NEW err \in Errnos, LoadFreeAndReturn(err),
         ldStage \in {"read", "fixup", "clients"}
  PROVE  LoadIInv'
<1>1. heap[ldPos] - 1 \in Nat
  BY DEF LoadIInv, LoadTypeOK
<1>2. heap' \in [Positions -> Nat]
  BY <1>1 DEF LoadFreeAndReturn, LoadIInv, LoadTypeOK
<1>. QED
  BY <1>2 DEF LoadFreeAndReturn, LoadIInv, LoadTypeOK, Stages

LEMMA LoadIInvInductive == LoadIInv /\ [LoadStep]_loadVars => LoadIInv'
<1> SUFFICES ASSUME LoadIInv, [LoadStep]_loadVars PROVE LoadIInv'
  OBVIOUS
<1>1. CASE LoadHeader \/ LoadArea
  BY <1>1 DEF LoadHeader, LoadArea, Advance, LoadReturn, LoadIInv, LoadTypeOK,
              Stages, Errnos
<1>2. CASE LoadAlloc
  BY <1>2 DEF LoadAlloc, LoadReturn, LoadIInv, LoadTypeOK, Stages, Errnos
<1>3. CASE LoadRead
  <2>1. CASE Advance("fixup")
    BY <1>3, <2>1 DEF LoadRead, Advance, LoadIInv, LoadTypeOK, Stages
  <2>2. CASE \E err \in {"EIO", "ENOMEM"} : LoadFreeAndReturn(err)
    BY <1>3, <2>2, LoadFreeType DEF LoadRead, Errnos
  <2>. QED
    BY <1>3, <2>1, <2>2 DEF LoadRead
<1>4. CASE LoadFixup
  <2>1. CASE FixupRejects(ldPage)
    BY <1>4, <2>1, LoadFreeType DEF LoadFixup, Errnos
  <2>2. CASE ~FixupRejects(ldPage)
    BY <1>4, <2>2 DEF LoadFixup, Advance, LoadIInv, LoadTypeOK, Stages
  <2>. QED
    BY <2>1, <2>2
<1>5. CASE LoadClients
  <2>1. CASE NeedsClientCheck(ldPage) /\ ~ntfs_log_client_array_is_consistent(ldPage)
    BY <1>5, <2>1, LoadFreeType DEF LoadClients, Errnos
  <2>2. CASE ~(NeedsClientCheck(ldPage) /\ ~ntfs_log_client_array_is_consistent(ldPage))
    <3>1. ldPage \in RestartPageType(ClientSlots)
      BY PagesAssumption DEF LoadIInv
    <3>2. RestartPageLsn(ldPage) \in Int
      BY <3>1, PageLsnType
    <3>. QED
      BY <1>5, <2>2, <3>2 DEF LoadClients, LoadIInv, LoadTypeOK, Stages
  <2>. QED
    BY <2>1, <2>2
<1>6. CASE UNCHANGED loadVars
  BY <1>6 DEF loadVars, LoadIInv, LoadTypeOK
<1>. QED
  BY <1>1, <1>2, <1>3, <1>4, <1>5, <1>6 DEF LoadStep

\* Every variable of a single call of ntfs_restart_page_load stays well
\* typed, and in particular no `goto err' frees a buffer that IOMalloc did
\* not return, for every page size, offset and set of collaborator faults.
THEOREM LoadTypeCorrect == LoadSpec => []LoadTypeOK
<1>1. LoadIInv => LoadTypeOK
  BY DEF LoadIInv
<1>. QED
  BY <1>1, LoadInitIInv, LoadIInvInductive, PTL DEF LoadSpec

-----------------------------------------------------------------------------
(* The refinement of RestartPageContract.                                 *)

(***************************************************************************)
(* LoadPassed records which checks a page has passed at each stage.  The  *)
(* final step to "done" must show every check passed, but LoadClients     *)
(* tests only the client array: the stage is the only record of the       *)
(* earlier checks.  Until the call returns, the errno and the LSN keep    *)
(* their initial values.                                                  *)
(***************************************************************************)
LoadPassed ==
  /\ PastHeader => ntfs_restart_page_header_is_valid(ldPage, ldPos)
  /\ PastArea => ntfs_restart_area_is_valid(ldPage)
  /\ ldStage \in {"clients", "done"} => ~FixupRejects(ldPage)
  /\ ldStage = "done" /\ NeedsClientCheck(ldPage) =>
       ntfs_log_client_array_is_consistent(ldPage)
  /\ ldStage \notin {"done", "failed"} => ldErr = "none" /\ ldLsn = 0

LRInv == LoadIInv /\ LoadPassed

LEMMA LoadInitLRInv == LoadInit => LRInv
BY LoadInitIInv DEF LoadInit, LRInv, LoadPassed, PastHeader, PastArea

LEMMA LoadPassedInductive == LRInv /\ [LoadStep]_loadVars => LoadPassed'
<1> SUFFICES ASSUME LRInv, [LoadStep]_loadVars PROVE LoadPassed'
  OBVIOUS
<1>1. CASE LoadHeader
  BY <1>1 DEF LoadHeader, Advance, LoadReturn, LRInv, LoadPassed, PastHeader,
              PastArea
<1>2. CASE LoadArea
  BY <1>2 DEF LoadArea, Advance, LoadReturn, LRInv, LoadPassed, PastHeader,
              PastArea
<1>3. CASE LoadAlloc
  BY <1>3 DEF LoadAlloc, LoadReturn, LRInv, LoadPassed, PastHeader, PastArea
<1>4. CASE LoadRead
  BY <1>4 DEF LoadRead, Advance, LoadFreeAndReturn, LRInv, LoadPassed,
              PastHeader, PastArea
<1>5. CASE LoadFixup
  BY <1>5 DEF LoadFixup, Advance, LoadFreeAndReturn, LRInv, LoadPassed,
              PastHeader, PastArea
<1>6. CASE LoadClients
  BY <1>6 DEF LoadClients, LoadFreeAndReturn, LRInv, LoadPassed, PastHeader,
              PastArea
<1>7. CASE UNCHANGED loadVars
  BY <1>7 DEF loadVars, LRInv, LoadPassed, PastHeader, PastArea
<1>. QED
  BY <1>1, <1>2, <1>3, <1>4, <1>5, <1>6, <1>7 DEF LoadStep

LEMMA LRInvInductive == LRInv /\ [LoadStep]_loadVars => LRInv'
BY LoadIInvInductive, LoadPassedInductive DEF LRInv

\* Counting a buffer at q and then not counting it, or the other way
\* round, gives back the count.
LEMMA HeapIncDec ==
  ASSUME NEW f \in [Positions -> Nat], NEW q \in Positions
  PROVE  [[f EXCEPT ![q] = @ + 1] EXCEPT ![q] = @ - 1] = f
<1> DEFINE g == [[f EXCEPT ![q] = @ + 1] EXCEPT ![q] = @ - 1]
<1>1. g \in [Positions -> Int]
  OBVIOUS
<1>2. \A x \in Positions : g[x] = f[x]
  OBVIOUS
<1>. QED
  BY <1>1, <1>2, Zenon

LEMMA HeapDecInc ==
  ASSUME NEW f \in [Positions -> Nat], NEW q \in Positions, f[q] >= 1
  PROVE  [[f EXCEPT ![q] = @ - 1] EXCEPT ![q] = @ + 1] = f
<1> DEFINE g == [[f EXCEPT ![q] = @ - 1] EXCEPT ![q] = @ + 1]
<1>1. g \in [Positions -> Int]
  OBVIOUS
<1>2. \A x \in Positions : g[x] = f[x]
  OBVIOUS
<1>. QED
  BY <1>1, <1>2, Zenon

\* A step that keeps the call busy and the uncounted heap is a stutter of
\* the contract.
LEMMA BusyStutter ==
  ASSUME LoadStageBar = "busy", LoadStageBar' = "busy", LoadHeapBar' = LoadHeapBar,
         UNCHANGED <<ldPage, ldPos, ldErr, ldLsn>>
  PROVE  [PageContract!Next]_PageContract!contractVars
BY DEF PageContract!contractVars

\* A `goto err' after IOMalloc leaves the uncounted heap as it was.
LEMMA FreeKeepsHeapBar ==
  ASSUME LRInv, NEW err, LoadFreeAndReturn(err),
         ldStage \in {"read", "fixup", "clients"}
  PROVE  /\ LoadStageBar' = "failed" /\ LoadStageBar = "busy"
         /\ LoadHeapBar' = LoadHeapBar
         /\ ldErr' = err /\ UNCHANGED <<ldPage, ldPos, ldLsn>>
BY DEF LoadFreeAndReturn, LoadStageBar, LoadHeapBar

\* A step of the stage machine refines one step of the contract.
LEMMA LoadRefineStep ==
  LRInv /\ [LoadStep]_loadVars => [PageContract!Next]_PageContract!contractVars
<1> SUFFICES ASSUME LRInv, [LoadStep]_loadVars
             PROVE  [PageContract!Next]_PageContract!contractVars
  OBVIOUS
<1>0. /\ heap \in [Positions -> Nat] /\ ldPos \in Positions
      /\ ldPage \in RestartPageType(ClientSlots)
  BY PagesAssumption DEF LRInv, LoadIInv, LoadTypeOK
<1>1. CASE LoadHeader
  <2>1. CASE ntfs_restart_page_header_is_valid(ldPage, ldPos)
    BY <1>1, <2>1, BusyStutter DEF LoadHeader, Advance, LoadStageBar, LoadHeapBar
  <2>2. CASE ~ntfs_restart_page_header_is_valid(ldPage, ldPos)
    BY <1>1, <2>2 DEF LoadHeader, LoadReturn, LoadStageBar, LoadHeapBar,
                      LoadAccepts, PageContract!Next, PageContract!Reject
  <2>. QED
    BY <2>1, <2>2
<1>2. CASE LoadArea
  <2>1. CASE ntfs_restart_area_is_valid(ldPage)
    BY <1>2, <2>1, BusyStutter DEF LoadArea, Advance, LoadStageBar, LoadHeapBar
  <2>2. CASE ~ntfs_restart_area_is_valid(ldPage)
    BY <1>2, <2>2 DEF LoadArea, LoadReturn, LoadStageBar, LoadHeapBar,
                      LoadAccepts, PageContract!Next, PageContract!Reject
  <2>. QED
    BY <2>1, <2>2
<1>3. CASE LoadAlloc
  <2>1. CASE ldStage' = "read" /\ heap' = [heap EXCEPT ![ldPos] = @ + 1]
             /\ UNCHANGED <<ldPage, ldPos, ldErr, ldLsn>>
    <3>1. LoadHeapBar' = LoadHeapBar
      BY <1>0, <1>3, <2>1, HeapIncDec DEF LoadAlloc, LoadHeapBar
    <3>. QED
      BY <1>3, <2>1, <3>1, BusyStutter DEF LoadAlloc, LoadStageBar
  <2>3. CASE LoadReturn("ENOMEM")
    BY <1>3, <2>3 DEF LoadAlloc, LoadReturn, LoadStageBar, LoadHeapBar,
                      PageContract!Next, PageContract!Fail
  <2>. QED
    BY <1>3, <2>1, <2>3 DEF LoadAlloc
<1>4. CASE LoadRead
  <2>1. CASE Advance("fixup")
    BY <1>4, <2>1, BusyStutter DEF LoadRead, Advance, LoadStageBar, LoadHeapBar
  <2>2. CASE \E err \in {"EIO", "ENOMEM"} : LoadFreeAndReturn(err)
    <3>1. PICK err \in {"EIO", "ENOMEM"} : LoadFreeAndReturn(err)
      BY <2>2
    <3>. QED
      BY <1>4, <3>1, FreeKeepsHeapBar DEF LoadRead, PageContract!Next,
                                           PageContract!Fail
  <2>. QED
    BY <1>4, <2>1, <2>2 DEF LoadRead
<1>5. CASE LoadFixup
  <2>1. CASE FixupRejects(ldPage)
    BY <1>5, <2>1, FreeKeepsHeapBar DEF LoadFixup, LoadAccepts,
                                        PageContract!Next, PageContract!Reject
  <2>2. CASE ~FixupRejects(ldPage)
    BY <1>5, <2>2, BusyStutter DEF LoadFixup, Advance, LoadStageBar, LoadHeapBar
  <2>. QED
    BY <2>1, <2>2
<1>6. CASE LoadClients
  <2>1. CASE NeedsClientCheck(ldPage) /\ ~ntfs_log_client_array_is_consistent(ldPage)
    BY <1>6, <2>1, FreeKeepsHeapBar DEF LoadClients, LoadAccepts,
                                        PageContract!Next, PageContract!Reject
  <2>2. CASE ~(NeedsClientCheck(ldPage) /\ ~ntfs_log_client_array_is_consistent(ldPage))
    <3>1. /\ ldStage' = "done" /\ ldLsn' = RestartPageLsn(ldPage)
          /\ UNCHANGED <<ldPage, ldPos, ldErr, heap>>
      BY <1>6, <2>2 DEF LoadClients
    <3>2. LoadAccepts(ldPage, ldPos)
      BY <1>6, <2>2 DEF LoadClients, LRInv, LoadPassed, PastHeader, PastArea,
                        LoadAccepts
    <3>3. heap = [LoadHeapBar EXCEPT ![ldPos] = @ + 1]
      <4>1. heap[ldPos] >= 1
        BY <1>6 DEF LoadClients, LRInv, LoadIInv
      <4>. QED
        BY <1>0, <1>6, <4>1, HeapDecInc DEF LoadClients, LoadHeapBar
    <3>4. LoadStageBar = "busy" /\ LoadStageBar' = "done" /\ LoadHeapBar' = heap
      BY <1>6, <3>1 DEF LoadClients, LoadStageBar, LoadHeapBar
    <3>. QED
      BY <3>1, <3>2, <3>3, <3>4 DEF PageContract!Next, PageContract!Load
  <2>. QED
    BY <2>1, <2>2
<1>7. CASE UNCHANGED loadVars
  BY <1>7 DEF loadVars, LoadStageBar, LoadHeapBar, PageContract!contractVars
<1>. QED
  BY <1>1, <1>2, <1>3, <1>4, <1>5, <1>6, <1>7 DEF LoadStep

\* One call of ntfs_restart_page_load implements its contract, for every
\* page, offset, page size and set of collaborator faults: it hands out a
\* buffer only with a page that passed every check and that page's LSN,
\* returns EINVAL only for a page that failed a check, and frees on every
\* error path the buffer it allocated.
THEOREM LoadRefinement == LoadSpec => LoadContractSpec
<1>1. LoadInit => PageContract!Init
  BY DEF LoadInit, PageContract!Init, LoadStageBar, LoadHeapBar
<1>. QED
  BY <1>1, LoadInitLRInv, LRInvInductive, LoadRefineStep, PTL
     DEF LoadSpec, LoadContractSpec, PageContract!Spec

=============================================================================
