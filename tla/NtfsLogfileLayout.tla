------------------------- MODULE NtfsLogfileLayout -------------------------
(***************************************************************************)
(* The on-disk layout of a $LogFile restart page and the three pure       *)
(* consistency checks of src/kext/ntfs_logfile.c that read it:            *)
(*   ntfs_restart_page_header_is_valid   (lines 74-166)                   *)
(*   ntfs_restart_area_is_valid          (lines 182-280)                  *)
(*   ntfs_log_client_array_is_consistent (lines 297-345)                  *)
(*                                                                         *)
(* A block read from the log is a record with a `magic' field.  A restart *)
(* page (magic "RSTR" or "CHKD") also carries the header fields, the      *)
(* restart area `ra' and the client records `ra.clients'.  Byte offsets   *)
(* and sizes are kept as numbers, and every u16 quantity the C code       *)
(* computes is reduced modulo 2^16 where the code stores it in a u16.     *)
(***************************************************************************)
EXTENDS Integers

\* Fixed sizes and offsets of the NTFS on-disk format (ntfs_layout.h).
NTFS_BLOCK_SIZE == 512
SizeofRestartPageHeader == 30      \* sizeof(RESTART_PAGE_HEADER) = 0x1e
OffsetofFileSize == 24             \* offsetof(RESTART_AREA, file_size)
OffsetofLogPageDataOffsetEnd == 40 \* end of RESTART_AREA.log_page_data_offset
SizeofLogClientRecord == 160       \* sizeof(LOG_CLIENT_RECORD) = 0xa0
LOGFILE_NO_CLIENT == 65535         \* 0xffff
FirstUsnOffset == NTFS_BLOCK_SIZE - 2  \* NTFS_BLOCK_SIZE - sizeof(u16)

\* The magic numbers the code distinguishes (ntfs_is_*_record).
Magics == {"RSTR", "CHKD", "RCRD", "EMPTY", "OTHER"}
IsRestartMagic(m) == m \in {"RSTR", "CHKD"}

\* The values of a u16 field or variable.
U16Range == 0..65535

(***************************************************************************)
(* The fields of a restart page the code reads.  A page stores log client *)
(* records for the indices `slots'; u32 and s64 fields are numbers.       *)
(***************************************************************************)
LogClientRecordType == [prev_client : U16Range, next_client : U16Range]

RestartAreaType(slots) ==
  [current_lsn : Int, log_clients : U16Range,
   client_free_list : U16Range, client_in_use_list : U16Range,
   volume_is_clean : BOOLEAN,            \* RESTART_VOLUME_IS_CLEAN in flags
   seq_number_bits : Nat, restart_area_length : U16Range,
   client_array_offset : U16Range, file_size : Int,
   log_record_header_length : U16Range, log_page_data_offset : U16Range,
   clients : [slots -> LogClientRecordType]]

RestartPageType(slots) ==
  [magic : Magics, usa_ofs : U16Range, usa_count : U16Range,
   chkdsk_lsn : Int, system_page_size : Nat, log_page_size : Nat,
   restart_area_offset : U16Range, minor_ver : Int, major_ver : Int,
   usn_ok : BOOLEAN,                     \* every sector's USN matches
   ra : RestartAreaType(slots)]

\* A value stored into a u16 variable.
U16(x) == x % 65536

\* x is a power of two, for the u32 range TLC can represent; this is what
\* `x & (x - 1)' tests for the non-zero x the code applies it to.
IsPowerOfTwo(x) == \E k \in 0..30 : x = 2^k

(***************************************************************************)
(* The loop of lines 254-258: fs_bits counts the right shifts until       *)
(* file_size is zero.  file_size is an sle64 cast to u64, so a negative   *)
(* value has its top bit set and a bit length of 64.                      *)
(***************************************************************************)
BitLen[n \in Nat] == IF n = 0 THEN 0 ELSE 1 + BitLen[n \div 2]
FileSizeBits(file_size) == IF file_size < 0 THEN 64 ELSE BitLen[file_size]

\* The update sequence array is absent only on a chkdsk page with a zero
\* count (lines 119-122).
HasUsa(rp) == ~(rp.magic = "CHKD" /\ rp.usa_count = 0)

\* The values of the u16 locals usa_count and usa_end (lines 124, 132).
UsaCountOf(rp) == U16(1 + rp.system_page_size \div NTFS_BLOCK_SIZE)
UsaEndOf(rp) == U16(rp.usa_ofs + UsaCountOf(rp) * 2)

(***************************************************************************)
(* ntfs_restart_page_header_is_valid(ni, rp, pos): each conjunct is one   *)
(* of the early `return FALSE' tests, in the order of the code.           *)
(***************************************************************************)
ntfs_restart_page_header_is_valid(rp, pos) ==
  LET sps == rp.system_page_size
      lps == rp.log_page_size
      ra_ofs == rp.restart_area_offset
  IN /\ sps >= NTFS_BLOCK_SIZE /\ lps >= NTFS_BLOCK_SIZE
     /\ IsPowerOfTwo(sps) /\ IsPowerOfTwo(lps)
     /\ pos = 0 \/ pos = sps
     /\ rp.major_ver = 1 /\ rp.minor_ver = 1
     /\ HasUsa(rp) => /\ UsaCountOf(rp) = rp.usa_count
                      /\ rp.usa_ofs >= SizeofRestartPageHeader
                      /\ UsaEndOf(rp) <= FirstUsnOffset
     /\ ra_ofs % 8 = 0
     /\ IF HasUsa(rp) THEN ra_ofs >= UsaEndOf(rp)
                      ELSE ra_ofs >= SizeofRestartPageHeader
     /\ ra_ofs <= sps
     /\ rp.magic # "CHKD" => rp.chkdsk_lsn = 0

\* ra_len of line 222: a u16, so the product can wrap.
ComputedRaLen(rp) ==
  U16(rp.ra.client_array_offset + rp.ra.log_clients * SizeofLogClientRecord)

(***************************************************************************)
(* ntfs_restart_area_is_valid(ni, rp), lines 182-280.                     *)
(***************************************************************************)
ntfs_restart_area_is_valid(rp) ==
  LET ra == rp.ra
      ra_ofs == rp.restart_area_offset
      ca_ofs == ra.client_array_offset
      sps == rp.system_page_size
  IN /\ ra_ofs + OffsetofFileSize <= FirstUsnOffset
     /\ ca_ofs % 8 = 0
     /\ ra_ofs + ca_ofs <= FirstUsnOffset
     /\ ra_ofs + ComputedRaLen(rp) <= sps
     /\ ra_ofs + ra.restart_area_length <= sps
     /\ ComputedRaLen(rp) <= ra.restart_area_length
     /\ ra.client_free_list = LOGFILE_NO_CLIENT
          \/ ra.client_free_list < ra.log_clients
     /\ ra.client_in_use_list = LOGFILE_NO_CLIENT
          \/ ra.client_in_use_list < ra.log_clients
     /\ ra.seq_number_bits = 67 - FileSizeBits(ra.file_size)
     /\ ra.log_record_header_length % 8 = 0
     /\ ra.log_page_data_offset % 8 = 0

\* The log client record at index idx, as the code reads it through
\* `cr = ca + idx'.  A page stores records for the indices in
\* DOMAIN ra.clients; any other index reads bytes no record was written
\* to, which the model fixes to a record linking nowhere.
ClientRecord(ra, idx) ==
  IF idx \in DOMAIN ra.clients THEN ra.clients[idx]
  ELSE [prev_client |-> LOGFILE_NO_CLIENT, next_client |-> LOGFILE_NO_CLIENT]

(***************************************************************************)
(* One list of the for loop of lines 321-333, started at head with the    *)
(* budget nr (nr_clients).  The result is the budget left when the loop   *)
(* reaches LOGFILE_NO_CLIENT, or -1 for `goto err', together with the set *)
(* of indices whose record the loop dereferenced.                         *)
(***************************************************************************)
ClientListWalk(ra, head, nr) ==
  LET walk[b \in 0..nr, idx \in 0..65535, first \in BOOLEAN] ==
        IF idx = LOGFILE_NO_CLIENT THEN [left |-> b, seen |-> {}]
        ELSE IF b = 0 \/ idx >= ra.log_clients THEN [left |-> -1, seen |-> {}]
        ELSE IF first /\ ClientRecord(ra, idx).prev_client # LOGFILE_NO_CLIENT
             THEN [left |-> -1, seen |-> {idx}]
        ELSE LET rest == walk[b - 1, ClientRecord(ra, idx).next_client, FALSE]
             IN [left |-> rest.left, seen |-> rest.seen \cup {idx}]
  IN walk[nr, head, TRUE]

\* Variant of InUseListWalk that gives the in-use list a fresh budget.
InUseListWalkFreshBudget(rp) ==
  ClientListWalk(rp.ra, rp.ra.client_in_use_list, rp.ra.log_clients)

\* The free list is walked first; the in-use list continues with the
\* budget the free list left (nr_clients is not reset at `goto check_list').
FreeListWalk(rp) ==
  ClientListWalk(rp.ra, rp.ra.client_free_list, rp.ra.log_clients)
InUseListWalk(rp) ==
  ClientListWalk(rp.ra, rp.ra.client_in_use_list, FreeListWalk(rp).left)

ntfs_log_client_array_is_consistent(rp) ==
  /\ FreeListWalk(rp).left >= 0
  /\ InUseListWalk(rp).left >= 0

\* The indices whose record ntfs_log_client_array_is_consistent reads.
ClientsRead(rp) ==
  FreeListWalk(rp).seen \cup
    (IF FreeListWalk(rp).left >= 0 THEN InUseListWalk(rp).seen ELSE {})

\* The current LSN a loaded restart page reports (lines 479-484).
RestartPageLsn(rp) ==
  IF rp.magic = "RSTR" THEN rp.ra.current_lsn ELSE rp.chkdsk_lsn
=============================================================================
