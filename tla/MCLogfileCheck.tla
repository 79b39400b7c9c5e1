--------------------------- MODULE MCLogfileCheck ---------------------------
(***************************************************************************)
(* A 16 KiB log on a host with 4 KiB pages, scaled so that one log record *)
(* page after the two restart pages is enough (NtfsMinLogRecordPages = 1) *)
(* and the scan's candidate offsets are 0, 512, 1024, 2048, 4096, 8192.   *)
(* The restart pages have one log client record.                          *)
(***************************************************************************)
EXTENDS LogfileCheck, MCRestartPageLoad

MCPositions == {0, 512, 1024, 2048, 4096, 8192}
InPage == {512, 1024, 2048}

Blk(m) == [magic |-> m]
WithLsn(page, lsn) == [page EXCEPT !.ra.current_lsn = lsn]

\* An RSTR page with no client in use, and one with a client in use and
\* the clean flag clear (an open log).
CleanArea == MkArea(1, 0, NO, 48, 48 + 160, [i \in ClientSlots |-> UnlinkedClient])
DirtyArea == MkArea(1, NO, 0, 48, 48 + 160, [i \in ClientSlots |-> UnlinkedClient])
PageClean(lsn) == WithLsn(MkPage("RSTR", 30, 9, 0, 4096, 48, CleanArea), lsn)
PageDirty(lsn) == WithLsn(MkPage("RSTR", 30, 9, 0, 4096, 48, DirtyArea), lsn)
\* A page chkdsk modified, its LSN in the header.
PageChkd(lsn) == MkPage("CHKD", 30, 9, lsn, 4096, 48, DirtyArea)
\* A newer page of version 2.0, which the header check rejects.
PageBadVersion == [PageClean(9) EXCEPT !.major_ver = 2]
\* Torn writes: a sector's USN does not match.  The first page's restart
\* area reaches past the first sector (rejected), the second's does not.
PageTornLong == [PageDirty(9) EXCEPT !.usn_ok = FALSE,
                                     !.ra.restart_area_length = 480]
PageTornShort == [PageDirty(9) EXCEPT !.usn_ok = FALSE]
\* An 8 KiB restart page, read through two page cache pages.
PageLarge == WithLsn(MkPage("RSTR", 30, 17, 0, 8192, 64, CleanArea), 3)

FirstSlotBlocks == {Blk("EMPTY"), Blk("OTHER"), PageClean(5), PageDirty(7),
                    PageTornLong, PageLarge}
InPageBlocks == {Blk("EMPTY"), Blk("OTHER")}
SecondSlotBlocks == {Blk("EMPTY"), Blk("RCRD"), Blk("OTHER"), PageClean(7),
                     PageDirty(8), PageChkd(6), PageBadVersion, PageTornShort}
LastBlocks == {Blk("EMPTY"), Blk("RCRD")}

MkDisk(b0, bin, b1, b2) ==
  [p \in MCPositions |-> IF p = 0 THEN b0 ELSE IF p \in InPage THEN bin
                         ELSE IF p = 4096 THEN b1 ELSE b2]

AnyDisks == {MkDisk(b0, bin, b1, b2) :
               b0 \in FirstSlotBlocks, bin \in InPageBlocks,
               b1 \in SecondSlotBlocks, b2 \in LastBlocks}

\* The bytes that follow a restart page's header inside its own page are
\* restart page data, never an empty or log record block.
WellFormedDisks == {d \in AnyDisks :
                      IsRestartMagic(d[0].magic) => d[512] = Blk("OTHER")}

ScanPages == {b \in FirstSlotBlocks \cup SecondSlotBlocks : IsRestartMagic(b.magic)}
=============================================================================
