------------------------- MODULE MCRestartPageLoad -------------------------
(***************************************************************************)
(* Model-checking instances of one ntfs_restart_page_load call.  Each     *)
(* page set enumerates the field values around one family of checks:     *)
(*   HeaderPages  the update sequence array fields and page size,         *)
(*   AreaPages    the restart area offset, client array offset and count, *)
(*   ClientPages  every client array of up to 2 records, so that every    *)
(*                shape of the two lists (empty, short, cyclic, shared,   *)
(*                out of range, headed by a linked record) occurs.        *)
(***************************************************************************)
EXTENDS RestartPageLoad, SequencesExt

NO == LOGFILE_NO_CLIENT
FileSize == 4194304        \* a 4 MiB $LogFile
SeqNumberBits == 44        \* 67 - 23, the bit length of FileSize

MkArea(n, free, inuse, ca_ofs, ra_len, clients) ==
  [current_lsn |-> 1, log_clients |-> n,
   client_free_list |-> free, client_in_use_list |-> inuse,
   volume_is_clean |-> FALSE,
   seq_number_bits |-> SeqNumberBits,
   restart_area_length |-> ra_len, client_array_offset |-> ca_ofs,
   file_size |-> FileSize,
   log_record_header_length |-> 48, log_page_data_offset |-> 64,
   clients |-> clients]

MkPage(magic, usa_ofs, usa_count, chkdsk_lsn, sps, ra_ofs, ra) ==
  [magic |-> magic, usa_ofs |-> usa_ofs, usa_count |-> usa_count,
   chkdsk_lsn |-> chkdsk_lsn, system_page_size |-> sps,
   log_page_size |-> 4096, restart_area_offset |-> ra_ofs,
   minor_ver |-> 1, major_ver |-> 1, usn_ok |-> TRUE, ra |-> ra]

UnlinkedClient == [prev_client |-> NO, next_client |-> NO]

\* One free client record and an empty in-use list.
OneFreeClient == MkArea(1, 0, NO, 48, 48 + 160, [i \in ClientSlots |-> UnlinkedClient])

HeaderPages ==
  {MkPage(m, uo, uc, cl, sps, rao, OneFreeClient) :
     m \in {"RSTR", "CHKD"}, uo \in {30, 65530}, uc \in {0, 1, 9},
     cl \in {0, 7}, sps \in {4096, 2^25}, rao \in {0, 48}}

AreaPages ==
  UNION {{MkPage("RSTR", 30, 9, 0, 4096, rao,
                 MkArea(n, free, 0, ca, U16(ca + n * SizeofLogClientRecord),
                        [i \in ClientSlots |-> UnlinkedClient])) :
            rao \in {48, 472, 480}, ca \in {0, 48}, free \in {NO, n - 1}} :
           n \in {1, 410}}

Heads(n) == (0..(n - 1)) \cup {NO}
ClientArrays(n) ==
  {[i \in ClientSlots |-> IF i < n THEN c[i] ELSE UnlinkedClient] :
     c \in [0..(n - 1) -> [prev_client : {NO, 0}, next_client : (0..n) \cup {NO}]]}

ClientPages ==
  UNION {{MkPage("RSTR", 30, 9, 0, 4096, 48,
                 MkArea(n, f, u, 48, 48 + n * SizeofLogClientRecord, c)) :
            f \in Heads(n), u \in Heads(n), c \in ClientArrays(n)} :
           n \in 0..2}

-----------------------------------------------------------------------------
(* Reference definitions of a consistent client array.                   *)

\* s is the list that starts at head: in range, linked by next_client,
\* ended by LOGFILE_NO_CLIENT, and headed by a record with no prev_client.
IsClientList(ra, head, s) ==
  /\ (s = <<>>) <=> (head = NO)
  /\ s # <<>> =>
       /\ s[1] = head
       /\ ClientRecord(ra, head).prev_client = NO
       /\ \A i \in 1..(Len(s) - 1) : ClientRecord(ra, s[i]).next_client = s[i + 1]
       /\ ClientRecord(ra, s[Len(s)]).next_client = NO

ListsOf(rp) == SeqOf(0..(rp.ra.log_clients - 1), rp.ra.log_clients)

\* Both lists end, and together hold no more records than the array has.
ClientListsWellFormed(rp) ==
  \E s1 \in ListsOf(rp) :
    /\ IsClientList(rp.ra, rp.ra.client_free_list, s1)
    /\ \E s2 \in ListsOf(rp) :
         /\ IsClientList(rp.ra, rp.ra.client_in_use_list, s2)
         /\ Len(s1) + Len(s2) <= rp.ra.log_clients

\* Spec 4.3: each list is walked with a fresh budget of log_clients.
ClientListsEachWellFormed(rp) ==
  /\ \E s1 \in ListsOf(rp) : IsClientList(rp.ra, rp.ra.client_free_list, s1)
  /\ \E s2 \in ListsOf(rp) : IsClientList(rp.ra, rp.ra.client_in_use_list, s2)

\* The loop of ntfs_log_client_array_is_consistent accepts exactly the
\* arrays whose two lists end, are in range, have heads without a
\* predecessor and hold together at most log_clients records: the budget
\* that detects a cycle never rejects a list that ends.
ClientWalkMatchesReference ==
  ldStage = "clients" =>
    (ntfs_log_client_array_is_consistent(ldPage) <=> ClientListsWellFormed(ldPage))

\* Spec 4.3 says the in-use list is checked "with a fresh budget": an
\* array whose two lists each end and are in range is accepted.
SpecFreshBudgetPerList ==
  ldStage = "clients" /\ NeedsClientCheck(ldPage) /\ ClientListsEachWellFormed(ldPage)
    => ntfs_log_client_array_is_consistent(ldPage)
=============================================================================
