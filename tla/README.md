# TLA+ models of TinyLSMTree's durability core

This directory holds TLA+ models of TinyLSMTree's manifest log, its write
path (memtables, WAL files, flush and recovery) and its key comparator
(`src/`). Definitions are translated from the Go source, except those for
the collaborators that are not in the repository (the level manager, the WAL
file, the skiplist and the closer). Those are modelled from `spec.md` and
marked `spec_modelled` (section 5 lists them). `PROJECT.json` maps each
definition to the lines it models.
It also lists the runs, the mutants that show each property can fail, the
findings and the hazards.

| Module | Models | Checked by |
|---|---|---|
| `ManifestFile` | The manifest log, `part_000` | `MCManifestFile` with the `Manifest*.cfg` runs |
| `ManifestAbstract` | What the manifest log promises its callers | The refinement in `MCManifestFile` (`ManifestRoundTrip.cfg`) |
| `LsmEngine` | Memtables, WAL files, `Set`, `Get`, `StartCompacter`, `Close`, startup; `lsm.go` and `AddTableMeta`/`RevertToManifest` | `MCLsmEngine` with the `Engine*.cfg` runs |
| `KeyOrder` | `CompareKeys`, `part_002` | `KeyOrder.cfg` |

## 1. Inventory

### Components and their state

| Component | Source | State | Operations |
|---|---|---|---|
| Manifest log | `src/unnamed/part_000` lines 25-423, constants in `part_001` | `ManifestFile{file, lock, manifest}`; `Manifest{Levels, Tables, Creations, Deletions}`; the files `MANIFEST` and `REWRITEMANIFEST` | `OpenManifestFile`, `ReplayManifestFile`, `applyChangeSet`/`applyManifestChange`, `AddChanges`/`addChanges`, `rewrite`, `createFileAndRewrite`, `AddTableMeta`, `RevertToManifest`, `GetManifest`, `Close` |
| Memtable and WAL | `src/lsm/lsm.go` lines 115-276 | `memTable{wal, sl, maxVersion}`; the `NNNNN.wal` files | `NewMemtable`, `set`, `Get`, `close`, `recovery`, `RecoveryMemTable`, `UpdateSkipList`, `replayFunction` |
| Engine (LSM) | `src/lsm/lsm.go` lines 1-114 | `LSM{memTable, immutables, levels, closer}` | `initLSM`, `Set` (seal and synchronous flush), `Get`, `Close`, `StartCompacter` |
| Key ordering | `part_002` `CompareKeys` | none | compare the user key, then the 8-byte version |
| Table naming and startup check | `part_002` `FID`, `SSTableFullPath`, `LoadSSTIdMap`; `RevertToManifest` | table files `NNNNN.sst` | list table ids, delete orphans |
| Directory sync | `part_002` `SyncDir` | directory entries | fsync of the directory |
| External collaborators | not in the repository | level manager, skiplist, WAL codec, compaction workers | `flush`, `Get`, `close`, `runCompacter` |

### How the components interact

- `LSM.Set` appends to the active memtable's WAL and then to its skiplist.
  When the WAL is full, `Set` seals the active memtable into `immutables`.
  It then flushes every immutable in order through the level manager. The
  level manager records each new table with `ManifestFile.AddTableMeta`,
  which calls `addChanges`.
- At startup, `OpenManifestFile` replays `MANIFEST`. `RevertToManifest`
  compares it with the table files on disk. `LSM.recovery` replays every WAL
  file into a memtable.
- The only lock is `ManifestFile.lock`. It serialises `addChanges` and
  `rewrite`. `GetManifest` readers and concurrent `Set` callers are not
  synchronised.

### What makes it hard

- **Crash atomicity.** Only append, fsync, rename and directory fsync are
  available. A crash can tear an unsynced write or undo an unsynced rename.
- **Partial failure.** `addChanges` mutates memory before it writes. A
  `ChangeSet` (a batch of table changes) can be rejected partway. `rewrite`
  closes the file before it can fail.
- **Two logs that must agree.** The WAL files and `MANIFEST` are recovered
  independently, then reconciled against the table files on disk.
- **Ordering.** Reads must see the newest write across the active memtable,
  the immutables and the tables.

### What makes each component correct

- **Manifest log.**
  - `Tables` and `Levels` agree.
  - `MANIFEST` replays to the in-memory `Manifest`.
  - An acknowledged `ChangeSet` survives any crash.
  - A torn tail is discarded.
  - A rewrite is atomic.
  - A failed call never makes the file unreadable.
- **Memtable and engine.**
  - Every acknowledged `Set` is recoverable from a WAL file or from a table
    that `MANIFEST` records.
  - `Get` returns the newest value.
  - Immutables are flushed in order.
  - File ids are never reused.
- **Key ordering.** `CompareKeys` is a total order consistent with
  (user key, version).

The hazards (section 7) list where each of these can go wrong, line by line.

## 2. Plan

1. **`ManifestFile`** (done). The manifest log with crashes and I/O errors.
   This comes first because every other component's recovery rests on it.
2. **`LsmEngine`** (done, section 5). `Set`, `Get`, sealing, the
   synchronous flush loop, `close`, WAL `recovery`, `maxFID`, `Close`,
   `AddTableMeta` and `RevertToManifest`, with crashes, failed flushes and
   failed `MANIFEST` appends. Since added: entry sizes and the byte-sized
   seal check (`lsm.go:72`), the failing WAL write of `memTable.set`,
   `StartCompacter`, and the closer that `Close` waits on. Still open: torn WAL
   tails, whose codec is external.
3. **`ManifestAbstract` and the refinement** (done, section 3). The
   abstract manifest is a table-to-level map that changes by whole
   `ChangeSet`s and survives close, crash and reopen. `ManifestFile` with
   crashes implements it under a mapping built from history variables.
4. **`KeyOrder`** (done, section 4). `CompareKeys` over keys of 1-2 user
   bytes plus a 2-byte version. It is checked against the order on (user
   key, version number).
5. **Left.** `GetManifest` readers racing a rewrite: the readers are in
   the level manager, outside the repository (section 6).

## 3. Module `ManifestFile`

**State.**

| Variable | Models |
|---|---|
| `manifest` | `mf.manifest` |
| `disk`, `cache` | The durable and the written-but-unsynced pieces of `MANIFEST` |
| `tmpDisk`, `tmpCache` | The same for `REWRITEMANIFEST` |
| `replaced` | The old `MANIFEST` while a rename awaits `SyncDir` |
| `fileOpen` | Whether `mf.file` is open |
| `pc` | Where the process is |
| `inflight`, `acked`, `openError` | History variables: the `ChangeSet` holding the lock, the last acknowledged manifest, and the last open error |
| `calls`, `faults` | Bounds |

**Files.** A file is a sequence of pieces: `Header`, `Frame(cs)`, and the
torn pieces `PartHeader`, `PartPrefix` and `PartPayload`. Replay is modelled
by what `ReplayManifestFile` does with each piece:
- EOF inside a frame prefix ends replay. The file is truncated there.
- A short payload fails replay.
- A header or a torn piece followed by more bytes is read as a garbage
  length. Replay fails as a short read or a checksum mismatch.
- A `ChangeSet` that does not apply fails replay.

**Actions.** Each action is one step of the code between two points where a
crash changes the outcome:

| Action | Code |
|---|---|
| `OpenManifestFileCreate`, `OpenManifestFileReplay`, `OpenManifestFileFail` | `OpenManifestFile` |
| `addChangesRejected`, `addChangesAppend`, `addChangesRewrite` | The apply, then the write or the start of `rewrite`/`createFileAndRewrite` |
| `addChangesSync` | The fsync and the nil return |
| `rewriteSyncTmp`, `rewriteRename`, `rewriteFinish` | The fsync, the rename, and the reopen plus `SyncDir` plus the count reset |
| `addChangesWriteFails`, `addChangesRewriteCloseFails`, `addChangesSyncFails`, `rewriteFails` | Every error return |
| `Close` | `ManifestFile.Close` |
| `Crash` | The process dies |

`Crash` drops memory and the page cache, except for a nondeterministic prefix
of each file's unsynced pieces, possibly torn. It may undo a rename that
`SyncDir` has not made durable.

**Abstractions.**
- Checksums and the protobuf encoding are left out.
- `CREATE`/`DELETE` are the only operations; the `default:` arm of
  `applyManifestChange` cannot be reached from the model's inputs.
- `asChanges` iterates a Go map in random order. Replay does not depend on
  the order, so one order is taken.
- `file.Truncate` at open is taken as durable at once.

### Runs

| Run (cfg) | Expect | What it shows |
|---|---|---|
| `manifest_roundtrip` (`ManifestRoundTrip.cfg`) | pass | `ManifestRefinement` (below) and `ReopenIdentical`. Crashes can hit every step; unsynced writes can be torn and unsynced renames undone. The log implements `ManifestAbstract`: a reopen starts from the acknowledged tables, or those plus the whole interrupted `ChangeSet`. Until the first crash, between calls, replaying `MANIFEST` gives the in-memory `Tables`, level sets, `Creations` and `Deletions`, after appends and after rewrites (spec 8, round trip and rewrite idempotence). |
| `manifest_faults` (`ManifestFaults.cfg`) | pass | `TypeOK`, `LevelsAgree`: with crashes, I/O errors and `ChangeSet`s of any content, a live id is in exactly the level set of its recorded level. |
| `manifest_torn_tail` (`ManifestTornTail.cfg`) | violation | `TornTailTolerated`: a torn payload at the end of `MANIFEST` makes the store refuse to open (finding). |
| `manifest_hybrid` (`ManifestHybrid.cfg`) | violation | `NoHybridManifest`: a stale `REWRITEMANIFEST` is appended to and renamed over `MANIFEST` (finding). |
| `manifest_ioerror` (`ManifestIOError.cfg`, starts from a bootstrapped store) | violation | `AckedManifestReplayable`: a failed write, then an acknowledged `DELETE` of the same table, makes `MANIFEST` unreplayable (finding). |

### The abstract manifest and the refinement

`ManifestAbstract` is what the log promises its callers, with no file format.
Its state is a map `tables` from table id to level, a flag `open`, the map
`before` as of the last acknowledged call, and a flag `unacked` while a
call has changed the map and not returned.
- `AddChanges(cs)` replaces the map by the result of the whole `ChangeSet`,
  and only when every `Change` applies in turn. `Return` acknowledges it.
- `Crash` closes the store at any point and keeps both maps.
- `Open` gives back the map, or, if a call was unacknowledged, the map
  before it. Nothing else.

`MCManifestFile` instantiates it with a refinement mapping built from the
history variables `acked` and `inflight`:
- `open <- pc # "down"`;
- `before <- acked.Tables`;
- `unacked <- inflight # <<>>`;
- `tables <- manifest.Tables` while the process is up, and
  `applyChangeSet(acked, inflight).m.Tables` while it is down.

It checks `Abs!Spec` as a `PROPERTY`. The code's internal steps are abstract
stutters: the write, and each step of a rewrite. The in-memory apply is the
abstract `AddChanges`. The fsync, or the end of a rewrite, is `Return`.
Reopening `MANIFEST` must be an abstract `Open`, so it must give back one
of the two maps. A store whose open fails stays down, which the abstract
spec allows.

What the refinement leaves out:
- I/O errors. Finding 3 breaks the refinement.
- Callers passing `ChangeSet`s that do not apply. The non-atomic
  `ChangeSet`s noted below the findings break it.
- `Creations` and `Deletions`. They are internal to the log, and
  `ReopenIdentical` checks them.

Replay and the in-memory apply share `applyManifestChange`. So a bug that
both make the same way escapes `ReopenIdentical`, and only the independent
abstract map catches it. The refinement's mutant is one such bug: a dropped
"table exists" check.

### Findings

1. **Hybrid `MANIFEST` after an interrupted rewrite** (`part_000:134`).
   `REWRITEMANIFEST` is opened with `O_APPEND|O_CREATE` and without
   `O_TRUNC`. Take a crash, or an I/O error, after that open and before the
   rename. The next rewrite then writes its header and snapshot after the
   stale bytes and renames the result over `MANIFEST`. This also applies to
   the next bootstrap. The store then cannot open.
   - Shortest trace: the bootstrap crashes after its header reaches the
     disk. The restart bootstraps again. The result is `MANIFEST = header,
     header, frame`.
2. **Short payload at the tail is fatal** (`part_000:262`). Spec 8 says it
   is discarded.
3. **A failed write, then an acknowledged `DELETE`, corrupts `MANIFEST`**
   (`part_000:369`). Apply-before-write keeps the failed `CREATE` in
   memory. The later `DELETE` passes the in-memory check and is written.
   Replay rejects it.

Also seen while modelling, and not kept as a run: `ChangeSet`s are not
atomic (`part_000:293`). `applyChangeSet` stops at the first failing
`Change` and keeps the ones before it in memory. Spec 3 says
all-or-nothing. Only a caller that passes a `ChangeSet` that does not apply
reaches it; the level manager's calls are not in the repository.

### Bounds and why they suffice

- **Tables and levels.** There are 2 table ids and 2 levels. With 2 levels,
  a `DELETE` can name a level other than the table's, which is the mutant
  that `LevelsAgree` must catch. With 2 ids, a `ChangeSet` can create one
  table and delete another.
- **Calls.**
  - Round trip: 1 change per call and 5 calls. With
    `DeletionsRewriteThreshold = 1` and `DeletionsRatio = 1`, the fourth
    call of `CREATE`, `CREATE`, `DELETE`, `DELETE` rewrites and earlier
    ones append, so a crash can hit an append, a rewrite, and a call after
    the rewrite.
  - Other runs: at most 2 changes per call and 3 or 4 calls. With
    threshold 0, the second call can already rewrite. That leaves calls to
    append after a rewrite and to rewrite twice.
- **Faults.** The round trip allows up to 2 crashes: a crash, then a crash
  during recovery or the next rewrite. Every finding needs one fault.
  `manifest_faults` allows 1 fault, a crash or an I/O error, on top of
  arbitrary `ChangeSet`s. One fault reaches every error path, and its
  mutants are killed with that bound.
- **No deadlock check is switched off.** Close and reopen are always
  possible. A store whose open fails retries the open forever, which is a
  self-loop.

### Fairness

None is assumed yet. All properties are safety properties. The code has no
background activity in this component: every step is taken by a caller
holding `mf.lock`.

## 4. Module `KeyOrder`

`CompareKeys` (`part_002:76`) is a pure function, so the module is an operator
plus one action, `Compare`, that draws any two keys. TLC then checks the
property on every pair.
- **Keys.** A key is a sequence of byte values: a user key of 1-2 bytes,
  then a version of `TsLen` bytes. The code fixes the version at 8 bytes;
  the run uses 2 bytes over the values 0-2, which gives 108 keys.
- **Model.** `bytes.Compare` is a recursive operator.
- **Reference.** The reference order is spec 2's: user keys in dictionary
  order (a proper prefix first), then the version number that the
  big-endian suffix encodes.

| Run (cfg) | Expect | What it shows |
|---|---|---|
| `key_order` (`KeyOrder.cfg`) | pass | `CompareKeysIsVersionedOrder`: on every pair of well-formed keys, `CompareKeys` agrees with the reference order and never panics. The mutant compares whole keys with `bytes.Compare`, and the run catches it on `<<0>>` plus a version against `<<0,0>>` plus a version. |

## 5. Module `LsmEngine`

**State.** `MANIFEST` enters only as `recorded`, the set of table ids it
holds; `ManifestFile` checks how that set is kept.

| Variable | Models |
|---|---|
| `active` | `lsm.memTable`: its fid and skiplist contents |
| `imms` | `lsm.immutables`, with whether each was already closed |
| `wal` | The WAL files on disk, fid to entries (key, value, encoded size) |
| `sst` | The table files on disk, id to contents |
| `recorded` | The table ids `MANIFEST` records |
| `lvl` | The tables the level manager serves reads from |
| `maxFID` | `levels.maxFID`, the fid allocator |
| `pc`, `idx`, `pending` | The step of the `Set` in progress, its loop index, and its entry |
| `latest`, `acked`, `panicked` | History: the newest write applied since startup, the newest acknowledged write per key, and whether `utils.Panic` ended the process |
| `writes`, `faults` | Bounds |
| `closer`, `signalled`, `workers` | `lsm.closer`'s counter and shutdown signal, and the compaction goroutines still running |
| `gpc`, `gkey`, `gidx`, `gval`, `gfrom` | A `LSM.Get` running beside the `Set`s: its step, key, loop index and result, and (history) the newest value of the key when it was called |

A write is a key and a value. The values are serial numbers, so the newest
write of a key has the largest value. A skiplist is a map from key to value
(0 for none). `Replay` gives the last entry of each key in a WAL.

**Actions.**

| Action | Code |
|---|---|
| `initLSM` | `initLSM`: `RevertToManifest` and `recovery`. The operator `recovery` replays every WAL (`RecoveryMemTable`), keeps the non-empty ones as immutables in fid order (`NonEmptyWals`, `memTableSize`, `RecoveredImms`), and opens a new memtable one past the largest fid (`RecoveredMaxFID`, `NewMemtable`). The new memtable's WAL file is created at once |
| `Set(k, sz)` | `LSM.Set` up to the flush loop: the seal check on `WalSize` plus the entry's size, `NewMemtable`, `memTable.set` (`memTableSet`). Its second disjunct is the WAL write failing after the seal: `Set` returns the error, the entry is in the file or not |
| `FlushWriteTable`, `FlushFails` | `levels.flush` writes the table, or fails and `Set` returns the error |
| `AddTableMeta`, `AddTableMetaFails` | The `CREATE` reaches `MANIFEST`, or fails and the error is dropped |
| `CloseImmutable`, `ClosePanics` | `immutable.close()` removes the WAL, or fails on a second close and `utils.Panic` ends the process |
| `SetReturn` | The queue is emptied and `Set` returns nil |
| `StartCompacter` | `closer.Add(NumCompactors)` and one `runCompacter` goroutine each |
| `WorkerExit` | A worker sees the shutdown signal, exits and decrements the counter (spec 5) |
| `Close` | `LSM.Close`: closes the memtables (`ClosedWals`); the first failing close returns its error and the caller ends the process; otherwise `closer.Close()` raises the signal and waits (`up = "closing"`) |
| `Crash` | The process dies. WAL and `MANIFEST` appends are synced before they return, so the disk keeps them |
| `Terminating` | Callers stop after `MaxWrites` calls with the engine open, or `Close` waits in `closer.Close()` |
| `GetActive(k)`, `GetLen`, `GetScan`, `GetLevels`, `GetReturn` | `LSM.Get` as a reader of its own, one step per read of shared state: search `lsm.memTable`; take `len(lsm.immutables)`; read `lsm.immutables[i]` again at each iteration; `levels.Get`. Enabled by `GetsEnabled` |
| `GetPanics` | An iteration finds the queue shorter than its index, because a `Set` emptied it since the loop began. The index is out of range and the runtime panic ends the process |

`Next` pairs every engine step with `ReaderFollows`. A `Get` in progress
ends when its process ends (crash, panic) or when `Close` stops the engine.
A `Get` running through `Close` is not modelled. The `Get` operator stays
as the atomic view of the same reads, which `FreshestGet` checks in every
state.

**From the spec, not the repository.**
- The level manager: `flush` writes a table named by the memtable's fid,
  then calls `AddTableMeta`; `Get` reads the newest served table first; its
  `maxFID` starts at the largest recorded id.
- The compaction workers exit when the closer's signal is raised and
  decrement its counter (spec 5). `WalFile.Size` is the sum of the encoded
  sizes of the entries appended.
- `WalFile.Close` removes the file. Spec 4.2 requires `Set` to remove the
  WAL of a flushed memtable, and `memTable.close` is the only call `Set`
  makes.

### Runs

| Run (cfg) | Expect | What it shows |
|---|---|---|
| `engine_reads` (`EngineReads.cfg`) | pass | `FreshestGet`, `FreshFid`, `TypeOK`. Faults are crashes, failed flushes, failed `MANIFEST` appends and failed WAL writes. Entries are of size 1 or 3 against `MemTableSize = 2`, so a size-3 entry seals even an empty memtable. `StartCompacter`, `Close` and restarts are allowed. `Get` returns the newest write since startup from any tier, including immutables rebuilt by recovery. A new memtable never takes the fid of a file on disk. |
| `engine_crash` (`EngineCrash.cfg`) | pass | `DurableAcked`, `WalsHeld`, `ConcurrentGetFresh`. `DurableAcked`: with crashes at every step, failed flushes retried, WAL writes failing after a seal, and entries larger than a memtable, an acknowledged write is always in a WAL file or a recorded table. This covers the re-flush after a crash between flush and close. `WalsHeld`: while the engine runs, every WAL file holding entries is the active memtable's or a queued immutable's not yet closed, so only empty WALs are left behind (mutant: `memTable.close` leaving the WAL file). `ConcurrentGetFresh`: a `Get` whose reads interleave with a `Set`'s seal, flush loop and queue reset returns a value at least as new as the newest write applied when it was called. It holds because a table is served before its immutable leaves the queue, and `Get` reads the tiers in the direction data moves. The seal is one step of the model; the code appends to the queue before it replaces the active memtable, so no reader finds the memtable in neither place. Mutant: the loop stopping before index 0. |
| `engine_close_loses` | violation | `DurableAcked`: once `Close` has run, acknowledged writes are on no disk (finding 4). |
| `engine_lost_flush` | violation | `DurableAcked`: a failed `CREATE` in `AddTableMeta` loses the flushed table at the next start (finding 5). |
| `engine_retry_panic` | violation | `NoPanic`: the retry after a failed flush panics (finding 6). |
| `engine_close_hangs` (`EngineCloseHangs.cfg`) | violation | `CloserCountsWorkers`: while `Close` waits, the closer's counter is one more than the number of running workers (finding 7). |

### Findings

4. **`Close` discards unflushed writes** (`lsm.go:43`). `Close` closes the
   active memtable and the immutables without flushing them. Closing removes
   their WALs, so a restart finds nothing of those writes. Spec 5 promises
   that a write is durable once `Set` returns. Trace: one `Set`, then
   `Close`.
5. **A lost `CREATE` loses the table** (`part_000:393`). `AddTableMeta`
   returns its never-assigned `err`, so a failed append is ignored. `Set`
   then removes the WAL, and `RevertToManifest` deletes the unrecorded table
   as an orphan.
6. **Retry after a failed flush panics** (`lsm.go:87`). Flushing the second
   immutable fails after the first was flushed and closed. The next `Set`
   flushes the first one again and closes it again, and `utils.Panic` ends
   the process. Spec 4.2 says the retry resumes.

7. **`Close` never returns** (`lsm.go:38`, `lsm.go:56`). `initLSM`
   creates the closer with `NewCloser(1)`. `StartCompacter` adds one count
   per worker, and each worker takes its own back on exit. Nothing takes
   back the initial 1. Under spec 5's counted shutdown, `closer.Close()`
   waits until the counter reaches 0, which never happens. Spec 4.2 says
   `Close` blocks "until all background compaction workers have exited".
   The workers do exit, but the wait outlives them.
   - The property `CloserCountsWorkers` says that while `Close` waits, the
     counter equals the number of workers still running. That is exactly
     when the wait ends with the last worker.
   - TLC's trace: `initLSM`, then `Close` with no workers, and the counter
     is 1.
   - The counting is `utils.Closer`'s, which is outside the repository. The
     model takes it from spec 5.

**Observed, not kept as a run: a `Get` beside a `Set` panics** (`lsm.go:108`).
`Get` takes the loop bound from `len(lsm.immutables)` and then reads
`lsm.immutables[i]` afresh at each iteration. A `Set` that empties the
queue in between (`lsm.go:92`) leaves `i` out of range, and the runtime
panic ends the process. In `engine_crash`, `GetPanics` fires on a 10-step
trace: a `Set` seals and flushes, a `Get` misses in the active memtable
and reads length 1, the `Set` empties the queue, and the `Get` indexes it.
Spec 5 requires only `Set` callers to be serialised. The property it breaks
is `NoPanic`, and `engine_retry_panic` checks that property for finding 6;
no run of its own isolates this trace.

**Observed, not kept as a run: reads of released skiplists** (`lsm.go:108`).
After a flush fails, the queue can hold immutables that an earlier
iteration already closed. `Get` still searches their released skiplists.
The model lets them answer as before. With a released skiplist allowed to
answer either its entries or nothing, TLC finds `Get` returning an older
value: a newer released skiplist answers nothing, and an older one still
answers. What a search after close returns is up to the external skiplist.

### Bounds and fairness

- **Keys and writes.** 2 keys (model values) and 2 to 4 writes. The crash
  runs use symmetry: keys are only compared for equality.
- **Entry sizes.** `{1, 3}` against `MemTableSize = 2` in `engine_reads`,
  and `{1, 2}` against `MemTableSize = 1` in `engine_crash`. Both contain
  an entry larger than the memtable, which seals an empty one. The
  violation runs use size 1.
- **Compactors.** `NumCompactors = 2` in `engine_reads`: the counter goes
  from 3 down to 1 as they exit.
- **Memtable size.** `MemTableSize = 1` (crash run) seals on every `Set`
  after the first. That gives queues of two or three immutables after failed flushes.
  `MemTableSize = 2` (reads run) puts two entries of one key in one WAL.
- **Faults.** 2 per behaviour in `engine_reads` and the violation runs.
  `engine_retry_panic` needs two failed flushes. The recovery-order case
  needs a failed flush, then a crash. `engine_crash` allows 1 fault,
  because its concurrent `Get`, callable in every state, multiplies the
  states about twentyfold: 1 fault and 4 writes give 0.9M states. One
  fault still reaches a crash between flush and close, a failed flush
  leaving immutables queued, and a failed WAL write after a seal.
- **Readers.** One `Get` at a time, called any number of times, in
  `engine_crash` only. Its panic needs only one `Set` whose flush loop
  runs: an entry of size 2 seals even the empty memtable.
- **Fairness.** None is assumed, and all engine properties are safety
  properties. Callers may stop at any time. The workers' exit on the
  signal comes from the external closer and level manager, so a liveness
  property about it would check only the model's own assumption. What the
  repository decides, the initial count of `NewCloser(1)`, is checked by
  `CloserCountsWorkers` (finding 7).

## 6. Not modelled, and why

- **The `GetManifest` race.** `GetManifest` returns the live map without
  the lock. Its readers are in the level manager, which is not in the
  repository, and spec 5 and 9 state that a reader may see a structure
  mid-mutation. No reader exists whose use of the result could be checked.
- **Compaction itself.** The workers are modelled only as goroutines that
  exit on the shutdown signal. Merging and moving tables between levels
  is in the external level manager.
- **External code.** The skiplist, the WAL codec, the level manager and the
  compaction workers are not in the repository. They enter `LsmEngine` only
  as the interfaces spec 4.2 describes.
- **Leftover empty WAL files.** `recovery` skips a WAL that replays to
  nothing (`lsm.go:222`) but neither closes nor removes it. The memtable
  opened by every start is such a file until a write reaches it, so each
  restart without writes leaves one more. The model keeps them in `wal`.
  `WalsHeld` checks that only empty WALs are left behind, and `FreshFid`
  that no new fid collides with them. No property bounds their number:
  the run bounds restarts, and the hazard is the growth itself.
- **Concurrent `Set`s.** They are serialised. Spec 5 makes the caller
  responsible for that.
- **Torn WAL tails.** The WAL codec is external, so a WAL append is atomic.
- **Pure byte helpers.** `Copy`, `VerifyChecksum` and `CalculateChecksum`
  are not modelled. CRC protection appears only as replay failing on torn
  or misaligned bytes.
- **`CoreFile`.** It is an interface without behaviour.

## 7. Hazards

`PROJECT.json` `hazards` lists each hazard at its line, with the properties
that cover it. Those with no property carry a note saying why; sections 5
and 6 describe them.
