----------------------------- MODULE LsmEngine -----------------------------
(***************************************************************************)
(* The write path of TinyLSMTree (src/lsm/lsm.go): the active memtable and *)
(* the queue of immutables, each backed by a WAL file; LSM.Set with its    *)
(* seal and synchronous flush loop; LSM.Get; StartCompacter and LSM.Close *)
(* with the closer they share; and startup, which checks the table files  *)
(* against MANIFEST (RevertToManifest) and replays every WAL file into a   *)
(* memtable (LSM.recovery).                                                *)
(*                                                                         *)
(* MANIFEST is abstracted to the set of table ids it records; module       *)
(* ManifestFile models how that set is kept.  The level manager is not in  *)
(* the repository: its flush (write the table, then AddTableMeta) and its  *)
(* Get (tables newest first) follow spec 2 and 4.2.  A write is a key and  *)
(* a value; values are the serial numbers of the writes, so the newest     *)
(* write of a key is the one with the largest value.                       *)
(***************************************************************************)
EXTENDS Integers, Sequences, SequencesExt, FiniteSets, TLC

CONSTANTS
    Keys,           \* the keys written
    MaxWrites,      \* bound: Set calls in a behaviour
    MemTableSize,   \* lsmOptions.MemTableSize, in WAL entries
    MaxFaults,      \* bound: faults in a behaviour
    Faults,         \* subset of {"crash", "flushError", "manifestError",
                    \*            "walError"}
    CloseEnabled,   \* LSM.Close is called between Sets
    EntrySizes,     \* utils.EstimateWalCodecSize of the entries written
    NumCompactors,  \* lsmOptions.NumCompactors
    GetsEnabled     \* LSM.Get is called while Sets run

VARIABLES
    up,         \* "down", "running", or "closing" (inside closer.Close())
    active,     \* lsm.memTable: [fid, data]
    imms,       \* lsm.immutables: <<[fid, data, closed]>>
    wal,        \* WAL files on disk: fid -> entries <<key, value, size>>
    sst,        \* table files on disk: id -> data
    recorded,   \* table ids MANIFEST records
    lvl,        \* table ids the level manager serves reads from
    maxFID,     \* levels.maxFID, the file id allocator
    pc,         \* "idle", or the step of the Set in progress
    idx,        \* the immutable the flush loop is at
    pending,    \* the <<key, value>> of the Set in progress
    latest,     \* history: the newest value applied per key since startup
    acked,      \* history: the newest value per key whose Set returned nil
    panicked,   \* history: utils.Panic ended the process
    writes,     \* Set calls so far
    faults,     \* faults so far
    closer,     \* lsm.closer's counter
    signalled,  \* lsm.closer's shutdown signal has been raised
    workers,    \* compaction goroutines still running
    gpc,        \* the step of the LSM.Get in progress, or "idle"
    gkey,       \* its key
    gfrom,      \* history: the newest value of the key when it was called
    gidx,       \* its loop index into lsm.immutables (1-based)
    gval        \* the value it found

compactVars == <<closer, signalled, workers>>

engineVars == <<up, active, imms, wal, sst, recorded, lvl, maxFID, pc, idx,
                pending, latest, acked, panicked, writes, faults, closer,
                signalled, workers>>

readerVars == <<gpc, gkey, gfrom, gidx, gval>>

vars == <<engineVars, readerVars>>

Vals == 0..MaxWrites      \* 0: no entry for the key

NoData == [k \in Keys |-> 0]

\* the skiplist a WAL replays into (memTable.UpdateSkipList): the last
\* entry of each key
Replay(es) ==
    [k \in Keys |->
        LET is == {i \in DOMAIN es : es[i][1] = k}
        IN IF is = {} THEN 0 ELSE es[Max(is)][2]]

MaxOf(S) == IF S = {} THEN 0 ELSE Max(S)

-----------------------------------------------------------------------------
(* Reads                                                                   *)

\* levelManager.Get (spec): the newest served table holding the key
LevelsGet(k) ==
    LET ids == {id \in lvl : sst[id][k] # 0}
    IN IF ids = {} THEN 0 ELSE sst[Max(ids)][k]

\* memTable.Get: sl.Search.  The queue can still hold flushed immutables
\* whose skiplist memTable.close released (a later flush of the same loop
\* failed); the model takes such a skiplist to answer as before.
memTableGet(m, k) == m.data[k]

\* LSM.Get: the active memtable, the immutables newest first, the levels
Get(k) ==
    IF memTableGet(active, k) # 0 THEN memTableGet(active, k)
    ELSE LET is == {i \in 1..Len(imms) : memTableGet(imms[i], k) # 0}
         IN IF is # {} THEN memTableGet(imms[Max(is)], k) ELSE LevelsGet(k)

\* the newest value of a key that startup can find: in a WAL file, or in a
\* table file MANIFEST records
NewestDurable(k) ==
    MaxOf({Replay(wal[f])[k] : f \in DOMAIN wal}
            \cup {sst[id][k] : id \in recorded \cap DOMAIN sst})

-----------------------------------------------------------------------------
(* Startup: initLSM.                                                       *)

\* RecoveryMemTable: the WAL file is opened and replayed into a new
\* skiplist (UpdateSkipList); a torn trailing record is cut off
RecoveryMemTable(w, fid) == [fid |-> fid, data |-> Replay(w[fid]), closed |-> FALSE]

\* memTable.Size: sl.Size(), the number of keys the skiplist holds
memTableSize(m) == Cardinality({k \in Keys : m.data[k] # 0})

\* the fids of the WAL files whose recovered skiplist is not empty
NonEmptyWals(w) == {f \in DOMAIN w : memTableSize(RecoveryMemTable(w, f)) # 0}

\* mutant: recovery queues the WAL files newest first
RecoveredImmsNewestFirst(w) ==
    LET fids == SetToSortSeq(NonEmptyWals(w), >)
    IN [i \in 1..Len(fids) |-> RecoveryMemTable(w, fids[i])]

\* the WAL files recovery turns into immutables: ascending fid, memtables
\* whose skiplist is empty discarded
RecoveredImms(w) ==
    LET fids == SetToSortSeq(NonEmptyWals(w), <)
    IN [i \in 1..Len(fids) |-> RecoveryMemTable(w, fids[i])]

\* mutant: recovery keeps the level manager's maxFID, ignoring WAL fids
RecoveredMaxFIDLevelsOnly(w, ids) == MaxOf(ids)

\* LSM.recovery's new maxFID: the largest WAL fid, or the level manager's
\* maximum table id if that is larger
RecoveredMaxFID(w, ids) == MaxOf(DOMAIN w \cup ids)

\* NewMemtable: a memtable on a new, empty WAL file named by fid
NewMemtable(fid) == [fid |-> fid, data |-> NoData]

\* LSM.recovery: the WAL files in the work directory replayed into the
\* immutable queue, the level manager's maxFID raised past every WAL fid,
\* and a new active memtable from NewMemtable
recovery(w, ids) ==
    LET fid == RecoveredMaxFID(w, ids) + 1
    IN [active |-> NewMemtable(fid), imms |-> RecoveredImms(w), maxFID |-> fid]

\* RevertToManifest: with every recorded table present, the table files
\* MANIFEST does not record are deleted
RevertToManifest(files) == Restrict(files, recorded)

\* initLSM: RevertToManifest deletes the table files MANIFEST does not
\* record (a recorded table is never missing: no table is deleted without
\* compaction, which is not modelled); recovery replays the WAL files;
\* NewMemtable opens a new WAL
initLSM ==
    /\ up = "down"
    /\ recorded \subseteq DOMAIN sst
    /\ LET r == recovery(wal, recorded)
       IN /\ active' = r.active
          /\ imms' = r.imms
          /\ maxFID' = r.maxFID
          /\ wal' = wal @@ (r.maxFID :> <<>>)
    /\ sst' = RevertToManifest(sst)
    /\ lvl' = recorded
    /\ latest' = [k \in Keys |-> NewestDurable(k)]
    /\ up' = "running"
    /\ closer' = 1
    /\ UNCHANGED <<recorded, pc, idx, pending, acked, panicked, writes, faults,
                   signalled, workers>>

-----------------------------------------------------------------------------
(* LSM.Set: seal, memTable.set, then the flush loop over the immutables.  *)

\* memTable.close: the WAL file is closed and removed (spec 3 and 4.2: a
\* flushed memtable is closed "and its WAL file removed"; Set does nothing
\* but close it), the skiplist is released.  Closing it twice fails.
walClose(w, fid) == Restrict(w, DOMAIN w \ {fid})

\* the memtable a seal moves to the immutable queue
Sealed(m) == [fid |-> m.fid, data |-> m.data, closed |-> FALSE]

\* the bytes a WAL file holds: the sum of its entries' encoded sizes
WalSize(es) == FoldLeft(LAMBDA n, e : n + e[3], 0, es)

\* memTable.set: the entry is appended to the WAL file of m (w holds the
\* files), then added to its skiplist
memTableSet(m, w, k, v, sz) ==
    /\ wal' = [w EXCEPT ![m.fid] = Append(@, <<k, v, sz>>)]
    /\ active' = [m EXCEPT !.data[k] = v]

\* Set(entry): seal when the WAL would exceed MemTableSize bytes, then
\* memTable.set.  Its success starts the flush loop; a failed WAL write
\* returns the error after the seal, the entry in the file or not.
Set(k, sz) ==
    /\ up = "running" /\ pc = "idle" /\ writes < MaxWrites
    /\ LET v    == writes + 1
           seal == WalSize(wal[active.fid]) + sz > MemTableSize
           nfid == maxFID + 1
           cur  == IF seal THEN NewMemtable(nfid) ELSE active
           w    == IF seal THEN wal @@ (nfid :> <<>>) ELSE wal
       IN /\ imms' = IF seal THEN Append(imms, Sealed(active)) ELSE imms
          /\ maxFID' = IF seal THEN nfid ELSE maxFID
          /\ writes' = v
          /\ idx' = 1
          /\ \/ /\ memTableSet(cur, w, k, v, sz)
                /\ latest' = [latest EXCEPT ![k] = v]
                /\ pending' = <<k, v>>
                /\ pc' = IF imms' = <<>> THEN "return" ELSE "flush"
                /\ UNCHANGED faults
             \/ /\ "walError" \in Faults /\ faults < MaxFaults
                /\ \E landed \in BOOLEAN :
                      wal' = IF landed
                             THEN [w EXCEPT ![cur.fid] = Append(@, <<k, v, sz>>)]
                             ELSE w
                /\ active' = cur
                /\ faults' = faults + 1
                /\ UNCHANGED <<latest, pending, pc>>
    /\ UNCHANGED <<up, sst, recorded, lvl, acked, panicked, compactVars>>

\* levels.flush (spec): the table file is written under the memtable's fid
FlushWriteTable ==
    /\ up = "running" /\ pc = "flush"
    /\ sst' = (imms[idx].fid :> imms[idx].data) @@ sst
    /\ pc' = "meta"
    /\ UNCHANGED <<up, active, imms, wal, recorded, lvl, maxFID, idx,
                   pending, latest, acked, panicked, writes, faults, compactVars>>

\* levels.flush fails: Set returns the error, the queue is left as it is
FlushFails ==
    /\ up = "running" /\ pc = "flush"
    /\ "flushError" \in Faults /\ faults < MaxFaults
    /\ pc' = "idle"
    /\ pending' = <<>>
    /\ faults' = faults + 1
    /\ UNCHANGED <<up, active, imms, wal, sst, recorded, lvl, maxFID, idx,
                   latest, acked, panicked, writes, compactVars>>

\* mutant: the CREATE is appended but not synced, and a crash loses it
AddTableMetaNoSync ==
    /\ up = "running" /\ pc = "meta"
    /\ lvl' = lvl \cup {imms[idx].fid}
    /\ pc' = "close"
    /\ UNCHANGED <<up, active, imms, wal, sst, recorded, maxFID, idx, pending,
                   latest, acked, panicked, writes, faults, compactVars>>

\* AddTableMeta: a CREATE of the table at level 0 is appended to MANIFEST
\* and synced; the level manager serves the table.  A CREATE of a table
\* MANIFEST already holds is rejected, and AddTableMeta drops the error.
AddTableMeta ==
    /\ up = "running" /\ pc = "meta"
    /\ recorded' = recorded \cup {imms[idx].fid}
    /\ lvl' = lvl \cup {imms[idx].fid}
    /\ pc' = "close"
    /\ UNCHANGED <<up, active, imms, wal, sst, maxFID, idx, pending, latest,
                   acked, panicked, writes, faults, compactVars>>

\* AddTableMeta: AddChanges fails writing MANIFEST; AddTableMeta returns
\* nil all the same, and the flush goes on
AddTableMetaFails ==
    /\ up = "running" /\ pc = "meta"
    /\ "manifestError" \in Faults /\ faults < MaxFaults
    /\ lvl' = lvl \cup {imms[idx].fid}
    /\ pc' = "close"
    /\ faults' = faults + 1
    /\ UNCHANGED <<up, active, imms, wal, sst, recorded, maxFID, idx,
                   pending, latest, acked, panicked, writes, compactVars>>

\* the volatile state of an engine that is closed or whose process ends
Forget ==
    /\ active' = [fid |-> 0, data |-> NoData]
    /\ imms' = <<>>
    /\ lvl' = {}
    /\ maxFID' = 0
    /\ pc' = "idle"
    /\ idx' = 1
    /\ pending' = <<>>
    /\ latest' = NoData

\* the process ends: nothing of it is left but the files
GoDown ==
    /\ up' = "down"
    /\ Forget
    /\ closer' = 0
    /\ signalled' = FALSE
    /\ workers' = 0

\* mutant: memTable.close releases the skiplist but leaves the WAL file
CloseImmutableKeepsWal ==
    /\ up = "running" /\ pc = "close"
    /\ ~imms[idx].closed
    /\ imms' = [imms EXCEPT ![idx].closed = TRUE]
    /\ idx' = idx + 1
    /\ pc' = IF idx < Len(imms) THEN "flush" ELSE "return"
    /\ UNCHANGED <<up, active, wal, sst, recorded, lvl, maxFID, pending, latest,
                   acked, panicked, writes, faults, compactVars>>

\* immutable.close() succeeds: its WAL file is removed
CloseImmutable ==
    /\ up = "running" /\ pc = "close"
    /\ ~imms[idx].closed
    /\ wal' = walClose(wal, imms[idx].fid)
    /\ imms' = [imms EXCEPT ![idx].closed = TRUE]
    /\ idx' = idx + 1
    /\ pc' = IF idx < Len(imms) THEN "flush" ELSE "return"
    /\ UNCHANGED <<up, active, sst, recorded, lvl, maxFID, pending, latest,
                   acked, panicked, writes, faults, compactVars>>

\* immutable.close() of a memtable an earlier Set already closed fails,
\* and utils.Panic(err) ends the process
ClosePanics ==
    /\ up = "running" /\ pc = "close"
    /\ imms[idx].closed
    /\ GoDown
    /\ panicked' = TRUE
    /\ UNCHANGED <<wal, sst, recorded, acked, writes, faults>>

\* mutant: the loop index is not reset when the queue is emptied
SetReturnKeepsIdx ==
    /\ up = "running" /\ pc = "return"
    /\ imms' = <<>>
    /\ acked' = [acked EXCEPT ![pending[1]] = pending[2]]
    /\ pc' = "idle"
    /\ pending' = <<>>
    /\ UNCHANGED <<up, active, wal, sst, recorded, lvl, maxFID, idx, latest,
                   panicked, writes, faults, compactVars>>

\* the loop is over: the queue is emptied and Set returns nil
SetReturn ==
    /\ up = "running" /\ pc = "return"
    /\ imms' = <<>>
    /\ acked' = [acked EXCEPT ![pending[1]] = pending[2]]
    /\ pc' = "idle"
    /\ idx' = 1
    /\ pending' = <<>>
    /\ UNCHANGED <<up, active, wal, sst, recorded, lvl, maxFID, latest,
                   panicked, writes, faults, compactVars>>

-----------------------------------------------------------------------------
(* LSM.Close, crash, and the specification.                               *)

\* StartCompacter: closer.Add(NumCompactors), then one levels.runCompacter
\* goroutine per compactor; the callers start the pool once per process
StartCompacter ==
    /\ up = "running" /\ pc = "idle" /\ workers = 0
    /\ closer' = closer + NumCompactors
    /\ workers' = NumCompactors
    /\ UNCHANGED <<up, active, imms, wal, sst, recorded, lvl, maxFID, pc, idx,
                   pending, latest, acked, panicked, writes, faults, signalled>>

\* levelManager.runCompacter (spec 5): a worker sees the shutdown signal,
\* exits and decrements the closer's counter
WorkerExit ==
    /\ signalled /\ workers > 0
    /\ workers' = workers - 1
    /\ closer' = closer - 1
    /\ UNCHANGED <<up, active, imms, wal, sst, recorded, lvl, maxFID, pc, idx,
                   pending, latest, acked, panicked, writes, faults, signalled>>

\* the files LSM.Close removes: the WAL of the active memtable, then those
\* of the immutables up to the first whose close fails
ClosedWals ==
    LET bad  == {i \in 1..Len(imms) : imms[i].closed}
        stop == IF bad = {} THEN Len(imms) + 1 ELSE Min(bad)
    IN {active.fid} \cup {imms[i].fid : i \in 1..stop - 1}

\* LSM.Close: close the active memtable, then the immutables in order.  The
\* first close that fails returns its error (the caller then ends the
\* process).  Otherwise levels.close(), and closer.Close(): raise the
\* shutdown signal and wait for the counter to reach zero.
Close ==
    /\ CloseEnabled
    /\ up = "running" /\ pc = "idle"
    /\ wal' = Restrict(wal, DOMAIN wal \ ClosedWals)
    /\ \/ /\ \E i \in 1..Len(imms) : imms[i].closed
          /\ GoDown
       \/ /\ \A i \in 1..Len(imms) : ~imms[i].closed
          /\ up' = "closing"
          /\ Forget
          /\ signalled' = TRUE
          /\ UNCHANGED <<closer, workers>>
    /\ UNCHANGED <<sst, recorded, acked, panicked, writes, faults>>

\* the process stops at any point, a Close blocked in closer.Close()
\* included; WAL appends and MANIFEST appends are synced before they
\* return, and a table file is written whole
Crash ==
    /\ up \in {"running", "closing"}
    /\ "crash" \in Faults /\ faults < MaxFaults
    /\ GoDown
    /\ faults' = faults + 1
    /\ UNCHANGED <<wal, sst, recorded, acked, panicked, writes>>

-----------------------------------------------------------------------------
(* LSM.Get running beside a Set.  Spec 5 asks callers to serialise Sets    *)
(* only; a Get reads lsm.memTable, len(lsm.immutables), each              *)
(* lsm.immutables[i] and the levels in separate steps, and a Set can move *)
(* memtables between any two of them.  A sealed memtable's skiplist no    *)
(* longer changes, so each step reads it at once.                         *)

\* the reader's record of a Get that is over
GetOver ==
    /\ gpc' = "idle" /\ gkey' = CHOOSE k \in Keys : TRUE
    /\ gfrom' = 0 /\ gidx' = 0 /\ gval' = 0

\* LSM.Get(k) is called and searches the active memtable
GetActive(k) ==
    /\ GetsEnabled /\ up = "running" /\ gpc = "idle"
    /\ gkey' = k /\ gfrom' = latest[k]
    /\ gval' = memTableGet(active, k)
    /\ gpc' = IF memTableGet(active, k) # 0 THEN "done" ELSE "len"
    /\ UNCHANGED gidx

\* the loop starts at len(lsm.immutables) - 1
GetLen ==
    /\ up = "running" /\ gpc = "len"
    /\ gidx' = Len(imms)
    /\ gpc' = IF imms = <<>> THEN "levels" ELSE "scan"
    /\ UNCHANGED <<gkey, gfrom, gval>>

\* mutant: the loop stops before index 0, the oldest immutable
GetScanSkipsOldest ==
    /\ up = "running" /\ gpc = "scan" /\ gidx <= Len(imms)
    /\ gval' = IF gidx > 1 THEN memTableGet(imms[gidx], gkey) ELSE 0
    /\ gidx' = gidx - 1
    /\ gpc' = CASE gval' # 0 -> "done" [] gidx = 1 -> "levels" [] OTHER -> "scan"
    /\ UNCHANGED <<gkey, gfrom>>

\* one iteration: lsm.immutables is read again and indexed at i
GetScan ==
    /\ up = "running" /\ gpc = "scan" /\ gidx <= Len(imms)
    /\ gval' = memTableGet(imms[gidx], gkey)
    /\ gidx' = gidx - 1
    /\ gpc' = CASE gval' # 0 -> "done" [] gidx = 1 -> "levels" [] OTHER -> "scan"
    /\ UNCHANGED <<gkey, gfrom>>

\* the iteration finds the queue shorter than i: a Set emptied it since
\* the loop started, the index is out of range, and the runtime panic
\* ends the process
GetPanics ==
    /\ up = "running" /\ gpc = "scan" /\ gidx > Len(imms)
    /\ GoDown
    /\ panicked' = TRUE
    /\ GetOver
    /\ UNCHANGED <<wal, sst, recorded, acked, writes, faults>>

\* no immutable holds the key: levels.Get
GetLevels ==
    /\ up = "running" /\ gpc = "levels"
    /\ gval' = LevelsGet(gkey)
    /\ gpc' = "done"
    /\ UNCHANGED <<gkey, gfrom, gidx>>

\* Get returns gval to its caller
GetReturn ==
    /\ gpc = "done"
    /\ GetOver

\* a step of the engine: a Get in progress ends with the process that
\* runs it, or when Close stops the engine
ReaderFollows ==
    IF up' = "running" THEN UNCHANGED readerVars
    ELSE GetOver

\* a store no one has opened yet
Init ==
    /\ up = "down"
    /\ active = [fid |-> 0, data |-> NoData]
    /\ imms = <<>>
    /\ wal = <<>>
    /\ sst = <<>>
    /\ recorded = {}
    /\ lvl = {}
    /\ maxFID = 0
    /\ pc = "idle"
    /\ idx = 1
    /\ pending = <<>>
    /\ latest = NoData
    /\ acked = NoData
    /\ panicked = FALSE
    /\ writes = 0
    /\ faults = 0
    /\ closer = 0
    /\ signalled = FALSE
    /\ workers = 0
    /\ gpc = "idle" /\ gkey = CHOOSE k \in Keys : TRUE
    /\ gfrom = 0
    /\ gidx = 0
    /\ gval = 0

\* the callers have made their MaxWrites calls and the engine stays open;
\* or Close waits in closer.Close(), whose counter the initial
\* NewCloser(1) keeps above zero: nothing in the repository decrements it
Terminating ==
    /\ \/ up = "running" /\ pc = "idle" /\ writes = MaxWrites
       \/ up = "closing"
    /\ UNCHANGED vars

EngineStep ==
    \/ initLSM
    \/ \E k \in Keys, sz \in EntrySizes : Set(k, sz)
    \/ FlushWriteTable
    \/ FlushFails
    \/ AddTableMeta
    \/ AddTableMetaFails
    \/ CloseImmutable
    \/ ClosePanics
    \/ SetReturn
    \/ StartCompacter
    \/ WorkerExit
    \/ Close
    \/ Crash
    \/ Terminating

\* the steps of a Get that read the engine without changing it
GetStep ==
    \/ \E k \in Keys : GetActive(k)
    \/ GetLen
    \/ GetScan
    \/ GetLevels
    \/ GetReturn

Next ==
    \/ EngineStep /\ ReaderFollows
    \/ GetStep /\ UNCHANGED engineVars
    \/ GetPanics

\* the callers may stop at any point; the properties are safety only
Spec == Init /\ [][Next]_vars

-----------------------------------------------------------------------------
(* Properties                                                              *)

Data == [Keys -> Vals]

TypeOK ==
    /\ up \in {"down", "running", "closing"}
    /\ active \in [fid : Nat, data : Data]
    /\ imms \in Seq([fid : Nat, data : Data, closed : BOOLEAN])
    /\ \A f \in DOMAIN wal : f \in Nat /\ wal[f] \in Seq(Keys \X Vals \X EntrySizes)
    /\ \A id \in DOMAIN sst : id \in Nat /\ sst[id] \in Data
    /\ recorded \subseteq Nat /\ lvl \subseteq DOMAIN sst
    /\ maxFID \in Nat
    /\ pc \in {"idle", "flush", "meta", "close", "return"}
    /\ idx \in 1..Len(imms) + 1
    /\ pending \in (Keys \X Vals) \cup {<<>>}
    /\ latest \in Data /\ acked \in Data
    /\ panicked \in BOOLEAN
    /\ writes \in 0..MaxWrites /\ faults \in 0..MaxFaults
    /\ closer \in 0..NumCompactors + 1 /\ signalled \in BOOLEAN
    /\ workers \in 0..NumCompactors
    /\ gpc \in {"idle", "len", "scan", "levels", "done"}
    /\ gkey \in Keys /\ gfrom \in Vals /\ gval \in Vals
    /\ gidx \in 0..MaxWrites + 1

\* Durability of acknowledged writes (spec 5: every WAL append is synced
\* before Set returns).  In every state, a crash followed by initLSM can
\* still find, for every key, a value at least as new as the newest one
\* whose Set returned nil: in a WAL file, or in a table MANIFEST records
\* (RevertToManifest deletes the others).  It spans Set, the flush loop's
\* table write, AddTableMeta and the WAL removal in memTable.close.
DurableAcked == \A k \in Keys : NewestDurable(k) >= acked[k]

\* Recency of LSM.Get (spec 4.2): while the engine runs, Get returns the
\* newest write of every key applied since startup, whichever tier holds
\* it: the active memtable, the immutables (as recovery queued them), or
\* the tables the flush loop handed to the level manager.
FreshestGet ==
    up = "running" => \A k \in Keys : Get(k) = latest[k]

\* The file id allocator (spec 2): the active memtable's WAL has a fid
\* larger than every other WAL file and every table file on disk, so that
\* its WAL and the table it is flushed to never collide with a recovered
\* or flushed file.
FreshFid ==
    up = "running" =>
        \A f \in (DOMAIN wal \ {active.fid}) \cup DOMAIN sst : f < active.fid

\* The WAL files on disk (spec 3 and 4.2: a memtable's WAL is removed once
\* the memtable is flushed and closed): while the engine runs, every WAL
\* file that still holds entries is the active memtable's or that of a
\* queued immutable not yet closed.  Only empty WALs, which recovery skips,
\* are left behind; a WAL with data held by no memtable would be queued
\* again and flushed a second time by the next initLSM.  It spans the seal
\* in Set, CloseImmutable, the queue reset in SetReturn and recovery.
WalsHeld ==
    up = "running" =>
        NonEmptyWals(wal) \subseteq
            {active.fid} \cup {imms[i].fid : i \in {j \in 1..Len(imms) : ~imms[j].closed}}

\* Retrying after a failed flush (spec 4.2: "the immutable queue is left
\* as-is so a retry can resume from the same state"): no Set ends the
\* process through utils.Panic on memTable.close.
NoPanic == ~panicked

\* Reads beside writes (spec 4.2's freshest-wins, with spec 5 serialising
\* only the Set callers): a Get that runs while a Set seals, flushes,
\* closes and empties the queue returns a value at least as new as the
\* newest write applied when it was called, though the active memtable,
\* the queue and the levels may change between each of its reads.
ConcurrentGetFresh == gpc = "done" => gval >= gfrom

\* The counted shutdown (spec 5: each worker decrements a shared counter
\* on exit, and shutdown blocks until it reaches zero): while LSM.Close
\* waits in closer.Close(), the counter is the number of compaction
\* workers still running, so the wait ends when the last one exits.
CloserCountsWorkers == up = "closing" => closer = workers

=============================================================================
