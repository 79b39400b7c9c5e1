-------------------------- MODULE RestartPageLoad --------------------------
(***************************************************************************)
(* ntfs_restart_page_load (src/kext/ntfs_logfile.c, lines 374-493) as a   *)
(* sequence of steps, one per stage of the function: header check, area   *)
(* check, buffer allocation, reading the rest of the page, multi sector   *)
(* transfer deprotection, client array check, and the hand-off of the     *)
(* buffer with the page's LSN.  The heap records which restart-page       *)
(* buffers are allocated, so that the error paths' IOFree is visible.     *)
(***************************************************************************)
EXTENDS NtfsLogfileLayout

CONSTANTS
  PAGE_SIZE,   \* the host's page cache page size
  Positions,   \* the log offsets a restart page can be loaded from
  Pages,       \* the restart pages the log can hold
  ClientSlots, \* the indices for which a page stores log client records
  Faults       \* the collaborator calls that may fail: "alloc", "read", ...

ASSUME PageSizeAssumption == PAGE_SIZE \in Nat \ {0}
ASSUME PositionsAssumption == Positions \subseteq Nat
ASSUME PagesAssumption == Pages \subseteq RestartPageType(ClientSlots)

VARIABLES
  ldStage,  \* the stage ntfs_restart_page_load is at, or "idle"
  ldPage,   \* the restart page being loaded (@rp, and the copy *@wrp)
  ldPos,    \* the offset @pos it was read from
  ldErr,    \* the errno it returns
  ldLsn,    \* *@lsn
  heap      \* heap[p]: restart-page buffers holding the page read at p

loadVars == <<ldStage, ldPage, ldPos, ldErr, ldLsn, heap>>

Stages == {"idle", "header", "area", "alloc", "read", "fixup", "clients",
           "done", "failed"}
Errnos == {"none", "EINVAL", "ENOMEM", "EIO"}
NoPage == [magic |-> "OTHER"]

LoadTypeOK ==
  /\ ldStage \in Stages
  /\ ldPage \in RestartPageType(ClientSlots) \cup {NoPage}
  /\ ldPos \in Positions
  /\ ldErr \in Errnos
  /\ ldLsn \in Int
  /\ heap \in [Positions -> Nat]

\* Begin a call ntfs_restart_page_load(ni, page, pos, ...).
StartLoad(page, pos) ==
  /\ ldStage' = "header"
  /\ ldPage' = page
  /\ ldPos' = pos
  /\ ldErr' = "none"
  /\ ldLsn' = 0

\* `return err' before the buffer is allocated.
LoadReturn(err) ==
  /\ ldStage' = "failed" /\ ldErr' = err
  /\ UNCHANGED <<ldPage, ldPos, ldLsn, heap>>

\* Variant of LoadFreeAndReturn that returns without IOFree.
LoadFreeAndReturnLeaks(err) ==
  /\ ldStage' = "failed" /\ ldErr' = err
  /\ UNCHANGED <<ldPage, ldPos, ldLsn, heap>>

\* `goto err': IOFree(trp, ...) and return err (lines 489-492).
LoadFreeAndReturn(err) ==
  /\ ldStage' = "failed" /\ ldErr' = err
  /\ heap' = [heap EXCEPT ![ldPos] = @ - 1]
  /\ UNCHANGED <<ldPage, ldPos, ldLsn>>

Advance(stage) ==
  /\ ldStage' = stage
  /\ UNCHANGED <<ldPage, ldPos, ldErr, ldLsn, heap>>

\* Lines 383-387.
LoadHeader ==
  /\ ldStage = "header"
  /\ IF ntfs_restart_page_header_is_valid(ldPage, ldPos)
       THEN Advance("area") ELSE LoadReturn("EINVAL")

\* Lines 388-393.
LoadArea ==
  /\ ldStage = "area"
  /\ IF ntfs_restart_area_is_valid(ldPage)
       THEN Advance("alloc") ELSE LoadReturn("EINVAL")

\* Variant of LoadAlloc whose buffer is not accounted for.
LoadAllocUncounted ==
  /\ ldStage = "alloc"
  /\ \/ Advance("read")
     \/ /\ "alloc" \in Faults
        /\ LoadReturn("ENOMEM")

\* Lines 398-403: IOMalloc of system_page_size bytes.
LoadAlloc ==
  /\ ldStage = "alloc"
  /\ \/ /\ ldStage' = "read"
        /\ heap' = [heap EXCEPT ![ldPos] = @ + 1]
        /\ UNCHANGED <<ldPage, ldPos, ldErr, ldLsn>>
     \/ /\ "alloc" \in Faults
        /\ LoadReturn("ENOMEM")

\* Lines 409-444: the page fits in the mapped page cache page and is
\* copied, or the remaining pages are mapped one by one; a failed
\* ntfs_page_map is EIO or ENOMEM (any other errno becomes EIO).
NeedsPageReads == PAGE_SIZE - (ldPos % PAGE_SIZE) < ldPage.system_page_size

LoadRead ==
  /\ ldStage = "read"
  /\ \/ Advance("fixup")
     \/ /\ NeedsPageReads /\ "read" \in Faults
        /\ \E err \in {"EIO", "ENOMEM"} : LoadFreeAndReturn(err)

\* ntfs_mst_fixup_post_read is not in src/: following the spec, it fails
\* exactly when some sector's update sequence number does not match.
MstFixupFails(page) == ~page.usn_ok

\* Lines 442-465: a deprotection error is tolerated only when the restart
\* area ends within the first sector's protected range.
FixupRejects(page) ==
  /\ HasUsa(page)
  /\ MstFixupFails(page)
  /\ page.restart_area_offset + page.ra.restart_area_length > FirstUsnOffset

\* Variant of LoadFixup that ignores the result of the deprotection.
LoadFixupIgnoresMst ==
  /\ ldStage = "fixup"
  /\ Advance("clients")

LoadFixup ==
  /\ ldStage = "fixup"
  /\ IF FixupRejects(ldPage) THEN LoadFreeAndReturn("EINVAL")
                             ELSE Advance("clients")

\* Lines 471-478 test rp->magic and the in-use list head.
NeedsClientCheck(page) ==
  page.magic = "RSTR" /\ page.ra.client_in_use_list # LOGFILE_NO_CLIENT

\* Lines 471-492: check the client array, then return the LSN and hand
\* the buffer to the caller.
LoadClients ==
  /\ ldStage = "clients"
  /\ IF NeedsClientCheck(ldPage) /\ ~ntfs_log_client_array_is_consistent(ldPage)
       THEN LoadFreeAndReturn("EINVAL")
       ELSE /\ ldStage' = "done"
            /\ ldLsn' = RestartPageLsn(ldPage)
            /\ UNCHANGED <<ldPage, ldPos, ldErr, heap>>

LoadStep == LoadHeader \/ LoadArea \/ LoadAlloc \/ LoadRead \/ LoadFixup
              \/ LoadClients

\* A single call, used to check the function on its own.
LoadInit ==
  /\ ldPage \in Pages
  /\ ldPos \in Positions
  /\ ldStage = "header"
  /\ ldErr = "none"
  /\ ldLsn = 0
  /\ heap = [p \in Positions |-> 0]

LoadSpec == LoadInit /\ [][LoadStep]_loadVars

\* Every check of ntfs_restart_page_load passes for page at pos: the
\* header, the restart area, the deprotection and the client array.
LoadAccepts(page, pos) ==
  /\ ntfs_restart_page_header_is_valid(page, pos)
  /\ ntfs_restart_area_is_valid(page)
  /\ ~FixupRejects(page)
  /\ NeedsClientCheck(page) => ntfs_log_client_array_is_consistent(page)

-----------------------------------------------------------------------------
(* Properties of a single load.                                           *)

PastHeader == ldStage \in {"area", "alloc", "read", "fixup", "clients", "done"}
PastArea == ldStage \in {"alloc", "read", "fixup", "clients", "done"}

\* The header check accepts a page only when its update sequence array has
\* one entry per sector plus one, as the spec (4.1 d) requires; the code
\* compares the u16-truncated value 1 + system_page_size / 512 (line 124).
UsaCountMatchesPageSize ==
  PastHeader /\ HasUsa(ldPage) =>
    ldPage.usa_count = 1 + ldPage.system_page_size \div NTFS_BLOCK_SIZE

\* An accepted header's update sequence array lies inside the first
\* sector before its last word (spec 4.1 d); the code computes its end in
\* the u16 usa_end (line 132).
UsaArrayInFirstBlock ==
  PastHeader /\ HasUsa(ldPage) =>
    ldPage.usa_ofs + ldPage.usa_count * 2 <= FirstUsnOffset

\* The comment of lines 204-209 says that once the client array offset is
\* checked all restart area fields can be read safely before the fixup:
\* every field the checks read lies before the first protected word.
RestartAreaBeforeFirstUsn ==
  PastArea =>
    ldPage.restart_area_offset + OffsetofLogPageDataOffsetEnd <= FirstUsnOffset

\* Every log client record ntfs_log_client_array_is_consistent reads
\* (cr = ca + idx, line 326) lies inside the system_page_size-byte buffer.
ClientReadsInPage ==
  ldStage = "clients" /\ NeedsClientCheck(ldPage) =>
    \A idx \in ClientsRead(ldPage) :
      ldPage.restart_area_offset + ldPage.ra.client_array_offset
        + (idx + 1) * SizeofLogClientRecord <= ldPage.system_page_size

-----------------------------------------------------------------------------
(* Refinement: one call implements the contract of RestartPageContract.   *)
(* The stages before the call returns are all "busy".  The buffer that    *)
(* the call holds from IOMalloc to its return is not counted: it becomes  *)
(* the caller's at "done" and is freed on every other return.             *)

LoadStageBar == IF ldStage \in {"done", "failed"} THEN ldStage ELSE "busy"

LoadHeapBar ==
  IF ldStage \in {"read", "fixup", "clients"}
    THEN [heap EXCEPT ![ldPos] = @ - 1] ELSE heap

PageContract == INSTANCE RestartPageContract
                  WITH stage <- LoadStageBar, page <- ldPage, pos <- ldPos,
                       err <- ldErr, lsn <- ldLsn, heap <- LoadHeapBar,
                       Accepted <- LoadAccepts, Lsn <- RestartPageLsn

\* Every call of ntfs_restart_page_load returns a buffer with a page that
\* passes every check and that page's LSN; or returns EINVAL only for a
\* page that fails a check; or returns ENOMEM or EIO.  On every return
\* without a page, the buffer it allocated has been freed.
LoadContractSpec == PageContract!Spec
=============================================================================
