# TLA+ models of the NTFS `$LogFile` restart-page checks

This directory models `src/kext/ntfs_logfile.c`, the only source file of
the repository. Mount calls that file to decide whether the journal
`$LogFile` may be ignored. The directory holds:

- TLA+ modules of the file's functions and of the mount code that calls them;
- TLC configurations that model-check them on small instances;
- TLAPS proofs of the main safety invariants, for every value of the constants.

`PROJECT.json` lists the components, runs, mutants, hazards and findings. It
also maps every definition to the source lines it translates.

## The system

| Part | Function (lines) | What it does |
|---|---|---|
| Header validator | `ntfs_restart_page_header_is_valid` (74-166) | Checks the page sizes, the position, the version and the update sequence array (USA). It also checks the restart-area offset and the chkdsk LSN. |
| Area validator | `ntfs_restart_area_is_valid` (182-280) | Bounds the restart area and the client array inside the page. Checks the list heads, `seq_number_bits` and the alignments. |
| Client-list validator | `ntfs_log_client_array_is_consistent` (297-345) | Walks the free list and then the in-use list with one shared budget `nr_clients`. The budget detects cycles. |
| Restart-page loader | `ntfs_restart_page_load` (374-493) | Runs the two checks above and allocates a `system_page_size` buffer. Then reads the rest of the page, undoes the multi sector transfer protection, checks the clients and returns the buffer and the LSN. Every error path frees the buffer. |
| Scanner | `ntfs_logfile_check` (515-727) | Takes the vnode and the shared lock and computes the scan size. Walks the offsets 0, 512, 1024, ... up to `size`, mapping page-cache pages as it goes. Loads up to two restart pages and keeps the one with the greater LSN, the first on ties. Sets `NVolLogFileEmpty` when every block is empty. |
| Clean determiner | `ntfs_logfile_is_clean` (749-784) | Treats an empty log as clean. Otherwise a volume is clean when the RSTR page has no client in use and the clean flag set. |
| Log reset | `ntfs_logfile_empty` (798-829) | Fills the log with 0xff through `ntfs_attr_set`. Sets `NVolLogFileEmpty` only on success. |

The functions interact like this:

- The mount code (not in `src/`) calls check, then is_clean, then possibly empty, and later frees the page that check handed it.
- The volume flag `NVolLogFileEmpty` links these calls across mounts. Check and is_clean skip reading the log when it is set.

## Modules

- **`NtfsLogfileLayout`**: the on-disk fields as records and the three
  validators as predicates.
  - Each conjunct of a validator is one early `return FALSE`, in code order.
  - Every u16 local is reduced `% 2^16` where the code stores it: `usa_count`, `usa_end` and `ra_len`.
  - The loop of lines 321-333 is the recursive function `ClientListWalk`. It returns the budget left, or -1 for `goto err`, together with the records it dereferenced.
  - The in-use walk continues with the free walk's budget, as the code does.
- **`RestartPageLoad`**: `ntfs_restart_page_load`, with one action per stage.
  - The stages are header, area, alloc, read, fixup and clients.
  - The variable `heap` counts the allocated restart-page buffers per log offset, so every `IOFree` on the `err` path is visible.
  - The collaborators are modelled by their outcomes only: `IOMalloc`, `ntfs_page_map` and `ntfs_mst_fixup_post_read`. Each may fail when its name is in `Faults`.
- **`RestartPageContract`**: the abstract specification of one call of the loader, as one atomic step.
  - `Load`: the page passes every check (`LoadAccepts`). The call returns a new buffer with the page and its LSN.
  - `Reject`: the call returns EINVAL, and only for a page that fails a check.
  - `Fail`: the call returns ENOMEM or EIO.
  - `RestartPageLoad` instantiates it as `PageContract`. Every stage before the return maps to `"busy"`. The buffer that the call holds between `IOMalloc` and its return is left out of the abstract `heap` (`LoadHeapBar`). So an allocation is a stutter, and the return hands the buffer over or frees it.
- **`LogfileCheck`**: composes `RestartPageLoad` with the scanner, `ntfs_logfile_is_clean`, `ntfs_logfile_empty` and the mount code.
  - `pc` is where `ntfs_logfile_check` is: idle, begin, scan, load or exit.
  - These variables are its locals and held resources: `size`, `pos`, `upl`, `isEmpty`, `rstr1`, `rstr2`, `vnodeRefs` and `locks`.
  - `disk` gives the block at each candidate offset. `dataSize` and `logEmpty` are the volume state.
  - Actions of the scanner:
    - `CheckBegin`: lines 536-590, up to the loop.
    - `ScanStep`: one iteration of the loop, lines 590-644.
    - `ScanAfterLoad`: the handling of the load's result, lines 646-677.
    - `CheckFinish`: lines 678-720.
    - `CheckErr`: label `err`.
  - `ntfs_logfile_is_clean` and `ntfs_logfile_empty` are one action each.
  - The mount code is written from the spec: `CallCheck`, `ReleasePage`, `Unmount`, `ForeignWrite` and `Mount`. `ForeignWrite` is another system writing the log while the volume is unmounted.
- **`LogfileContract`**: the abstract specification of what `ntfs_logfile_check` promises the mount code. Each call is one atomic step: `Call`, then one of `ReturnFailed`, `ReturnEmpty` or `ReturnPage`. Between calls, `Environment` allows anything that keeps `NVolLogFileEmpty` truthful and hands out no page.
  - Its state is the caller-visible part of `LogfileCheck`: `disk`, `dataSize`, `logEmpty`, `callerPc` and `held`.
  - It is parameterised by the loader's acceptance predicate (`Accepted`), the scan bound (`ScanLimit`) and the LSN of a page (`Lsn`).
  - `LogfileCheck` instantiates it as `Contract`, with `Loadable` (a restart magic and `LoadAccepts`), `ScanSize` and `RestartPageLsn`. The refinement mapping is the identity on the shared variables. Every internal step of the check, and every step of a load, is a stutter of the contract.
- **`MCRestartPageLoad`** and **`MCLogfileCheck`**: the instances checked by TLC.
- **`RestartPageLoadProofs`**, **`LogfileCheckProofs`** and **`LogfileContractProofs`**: the TLAPS proofs.

## Runs

| Run | Expect | Shows |
|---|---|---|
| `load_client_walk` | pass | `ntfs_log_client_array_is_consistent` accepts exactly the arrays that the reference `ClientListsWellFormed` accepts. The reference is written with sequences. It requires both lists to end, to stay in range, to have heads without a predecessor, and to hold together at most `log_clients` records. All 601 restart pages with a client array of up to 2 records are checked, through every stage of the loader. Every such call implements `RestartPageContract` (`LoadContractSpec`). |
| `logfile_check` | pass | Runs repeated mounts with every collaborator fault and foreign writes. Buffers are never leaked or freed twice. Every return releases the lock, the vnode and the mapping. The empty flag stays sound. No dirty volume is reported clean. The caller gets the loaded restart page with the greatest LSN, the first one read on ties (`NewestPageHandedOut`). Every check returns. The composition implements the safety part of `LogfileContract` (`ContractSpec`). `CheckTerminates` gives the liveness part, that every call returns. |
| `load_usa_count` | violation | `usa_count` truncates to 1 for a 32 MiB system page. |
| `load_usa_offset` | violation | `usa_end` wraps, so a USA at offset 65530 is accepted. |
| `load_area_fields` | violation | The restart area's fixed fields may cross the first protected word, although the comment of lines 204-209 says they can be read safely. |
| `load_client_bounds` | violation | **Code bug**: `ra_len` wraps for 410 clients, and the client walk reads up to about 64 KiB past the 4 KiB buffer. |
| `load_fresh_budget` | violation | The code shares one budget between the two lists, where spec 4.3 says the in-use list gets a fresh one. |
| `logfile_in_page_empty` | violation | An empty block at offset 512 stops the scan inside the first restart page. A newer dirty page at 4096 is then never read, and is_clean reports the volume clean. |

### Bounds

- `MCLogfileCheck` models a 16 KiB log on 4 KiB host pages.
  - `NtfsMinLogRecordPages = 1` scales the minimum size down, so that both a log that is too small (8 KiB) and a usable one (16 KiB) occur.
  - The candidate offsets are 0, 512, 1024, 2048, 4096 and 8192. These are every offset the loop visits.
- The blocks at those offsets cover every branch of the loop: empty, RCRD, other, RSTR, CHKD, a bad version and torn pages.
  - A torn page is tolerated or rejected depending on whether its restart area ends before the first protected word.
  - An 8 KiB restart page is read through two page-cache pages.
  - LSNs are chosen so that each of the two pages is sometimes the newer one, and sometimes the two are equal.
- `Faults` makes every collaborator fail somewhere: alloc, read, map, vnode and write.
- `WellFormedDisks` requires the bytes after a restart page's header inside its page to be page data, not an empty block. Run `logfile_in_page_empty` drops that restriction.
- One client record is enough for the scanner. The client walk has its own run.

### Fairness

`Spec` has `WF_vars(CheckStep)`. The check runs to completion on the mount thread. It blocks on nothing that another step of the model has to release, so once it has started it keeps taking steps. The mount code gets no fairness, because a volume may stay mounted forever. `CheckTerminates` is therefore the only liveness property.

### Mutants

Every property of a passing run is broken by a plausible bug in the definition it guards:

| Mutant | Property it breaks |
|---|---|
| Allocation not accounted | `LoadTypeOK` |
| In-use list given a fresh budget | `ClientWalkMatchesReference` |
| No `vnode_get` | `LogfileTypeOK` |
| Loser of the LSN comparison not freed | `BuffersOwned` |
| No `ntfs_page_unmap` before `goto err` | `CheckReleasesResources` |
| Flag set even when `ntfs_attr_set` fails | `EmptyFlagSound` |
| `>=` in the LSN comparison | `NoDirtyVolumeReportedClean`, `NewestPageHandedOut` |
| No `pos = 256` fix at offset 0 | `CheckTerminates` |
| Result of `ntfs_mst_fixup_post_read` ignored | `ContractSpec` |
| `goto err` returns without `IOFree` | `LoadContractSpec` |

## Proofs (`RestartPageLoadProofs`, `LogfileCheckProofs`, `LogfileContractProofs`)

`RestartPageLoadProofs` proves two theorems about one call of the loader (`LoadSpec`). They hold for every page size, offset, page set and fault set, from the assumptions of `RestartPageLoad`:

- `LoadTypeCorrect`: `LoadSpec => []LoadTypeOK`. Its inductive invariant `LoadIInv` adds two facts: the page is one of `Pages`, and the heap holds the buffer from `read` to `clients`. Without the second fact, a `goto err` could take the heap count below zero.
- `LoadRefinement`: `LoadSpec => LoadContractSpec`.
  - The invariant `LRInv` adds `LoadPassed` to `LoadIInv`. `LoadPassed` records which checks the page has passed at each stage, and that the errno and the LSN keep their initial values until the call returns.
  - The final step to `done` tests only the client array, so the stage is the only record that the header, the area and the fixup passed.
  - `LoadRefineStep` maps each stage action to a stutter, `Load`, `Reject` or `Fail`.
  - Two lemmas, `HeapIncDec` and `HeapDecInc`, show that adding and then removing the in-flight buffer gives back the same `heap`.

`LogfileCheckProofs` proves four theorems for all values of the constants, from the named assumptions in `RestartPageLoad` and `LogfileCheck`:

- `IInvInductive`: `IInv /\ [Next]_vars => IInv'`.
- `TypeCorrect`: `Spec => []LogfileTypeOK`.
- `BuffersOwnedInvariant`: `Spec => []BuffersOwned`.
- `CheckReleasesResourcesInvariant`: `Spec => []CheckReleasesResources`.

The inductive invariant is `IInv == LogfileTypeOK /\ BuffersOwned /\ ScanShape`. `BuffersOwned` alone is not inductive. For example, `CheckFinish` may free `rstr2` only if `rstr2` is set when the check is at `exit`. A load may start only when no load is in progress, at an offset in `Positions`. The caller may hold a page only while no check runs. `ScanShape` records these facts about the scanner's control state:

- resources are held exactly in the scanning states;
- a load is in progress exactly at `pc = "load"`;
- `rstr2` implies `rstr1` and `pc = "exit"`;
- a loaded page means `logfile_is_empty` is false.

TLC checked `IInv` as an invariant of `logfile_check` before it was proved.

The proof of `IInvInductive` has one lemma per action, and each lemma has one step per conjunct that the action can disturb. The load's six stages are lemmas of their own, combined in `LoadStepIInv`. The temporal theorems follow from `InitIInv` and `IInvInductive` by PTL.

`LogfileContractProofs` proves four more:

- `CInvInductive`: `IInv /\ CInv /\ [Next]_vars => CInv'`.
- `EmptyFlagSoundInvariant`: `Spec => []EmptyFlagSound`.
- `ContractRefinement`: `Spec => ContractSpec`. `ContractSpec` is `Contract!SafetySpec`, so the model implements the safety part of the contract.
- `NewestPageHandedOutThm`: `Spec => NewestPageHandedOut`. This is the action property that the page handed out is the newest loaded one, the first on ties.
  - Line 701 compares strictly and keeps `rstr1` on equal LSNs. That is "the first page read" only because `rstr1` always lies at a lower offset than `rstr2`.
  - The invariant `RstrOrder` states this: `rstr1.pos < rstr2.pos`, and while scanning `rstr1.pos < pos`. It holds because `NextPos` grows (`NextPosGrows`), and `rstr2` is set only at the loop's current offset. `RstrOrder` was checked with TLC before it was proved.
  - `HandOffStep` shows that only `CheckFinish` gives the caller a page. `ChosenNewest` shows that `Chosen` picks the newest page, the first on ties.

These rest on one more assumption, `ScanPositionsExactAssumption`: no candidate offset lies strictly between an offset and `NextPos` of it. So when the scan is at `pos`, every offset below `pos` has been read. TLC evaluates it on every run of `MCLogfileCheck`.

`CInv` strengthens `EmptyFlagSound`. A check sets the flag only at `CheckFinish`, from the local `logfile_is_empty`. For that step to be safe, these facts must hold throughout the scan:

- `SizeFixed`: the scan size is `ScanSize(dataSize)` while scanning.
- `ScannedEmpty`: while `logfile_is_empty` holds, every offset below `pos` is an empty block. Together with the assumption, this gives the whole scanned range at the end.
- `ExitNotEmpty`: at `exit`, the log is not empty.
- `KeptFaithful`: `rstr1` and `rstr2` are exact copies of an accepted block at their offset inside the scanned range, with its LSN.
- `LoadProgress`: the load reads the block at `ldPos`, and its stage records which validator has passed. A load that reaches `done` has passed all of them. A failed load has an error code.
- `UnmountedClears`: the flag is clear while unmounted. So a foreign write cannot make it stale.

`ntfs_logfile_empty` keeps the flag sound through `FillPrefixBlank`: a successful `ntfs_attr_set` blanks the prefix that the scan reads.

The refinement is proved as in the TwoPhase example of TLAPS, with one lemma per group of actions:

- `CallCheck` maps to `Call`.
- The other caller steps map to `Environment`.
- `CheckFinish` maps to one of the three returns. A kept page maps to `ReturnPage`, through `KeptFaithful` and `FaithfulRecord`.
- The error paths through `CheckErr`, in `CheckBegin`, `ScanStep` and `ScanAfterLoad`, map to `ReturnFailed`.
- The rest are stutters.

Some things stay with TLC:

- `CheckTerminates`, the liveness part of the scanner's contract: liveness is beyond TLAPS.
- The recursive client walk and `BitLen`: induction over data cannot be instantiated by the installed provers. They are not needed for the proofs, which treat the validators as opaque predicates.
- `NoDirtyVolumeReportedClean`: it is false for some disks. Run `logfile_in_page_empty` shows that an empty block inside the first restart page ends the scan before the governing page. The property holds only for logs laid out as NTFS writes them (`WellFormedDisks`). Stating that layout in general comes to assuming the property for the scan, so it is checked on the instance only.
- `ClientWalkMatchesReference`: it compares the recursive walk with a reference over sequences, for every client array. That is induction over data.

## Not modelled

- The `rp == NULL` variants of `ntfs_logfile_check` (lines 536-537 and 715-718). The mount code always passes a pointer.
- The panics at lines 426, 690 and 761. They are unreachable in the model: 690 and 761 by `ScanShape` and by the caller's protocol.
- Concurrent callers. The code takes `ni->lock` shared in both check and empty. The mount code serializes the calls on one volume, so there is no interleaving to explore and one caller per volume is modelled.
- Byte contents: block magics, field values and the "USN matches" flag abstract the sector data. How `ntfs_page_map` copies the page is not modelled.
- `ntfs_mst_fixup_post_read`, `ntfs_page_map` and `ntfs_attr_set` are not in the repository. Only their success or failure is modelled, plus the prefix that `ntfs_attr_set` fills.
