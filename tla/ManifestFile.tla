---------------------------- MODULE ManifestFile ----------------------------
(***************************************************************************)
(* The manifest log of TinyLSMTree (src/unnamed/part_000, package file):   *)
(* the in-memory Manifest, the MANIFEST file and its REWRITEMANIFEST       *)
(* temporary, AddChanges with its append and rewrite paths, replay at      *)
(* OpenManifestFile, and process crashes and I/O errors between the steps *)
(* that change what is on disk.                                            *)
(*                                                                         *)
(* A file is a sequence of pieces: the 8-byte magic header, a whole        *)
(* len|crc|payload frame holding one ChangeSet, or a torn piece left by a  *)
(* crash before fsync (part of a header, part of a frame's 8-byte prefix,  *)
(* or a whole prefix with part of its payload).  Byte-level decoding is    *)
(* abstracted to what replay does with each kind of piece.                 *)
(***************************************************************************)
EXTENDS Integers, Sequences, SequencesExt, FiniteSets, TLC

CONSTANTS
    TableIds,                   \* table ids a Change may name
    LevelNums,                  \* levels a Change may name, 0..k
    DeletionsRewriteThreshold,  \* utils.ManifestDeletionsRewriteThreshold
    DeletionsRatio,             \* utils.ManifestDeletionsRatio
    MaxChanges,                 \* bound: Changes in one AddChanges call
    MaxCalls,                   \* bound: AddChanges calls in a behaviour
    MaxFaults,                  \* bound: crashes and I/O errors in a behaviour
    Faults,                     \* subset of {"crash", "ioerror"}
    CallersValid                \* callers only pass ChangeSets that apply

VARIABLES
    manifest,   \* mf.manifest, the in-memory Manifest
    disk,       \* durable pieces of MANIFEST (<<>>: no such file)
    cache,      \* pieces written to MANIFEST and not yet fsynced
    tmpDisk,    \* durable pieces of REWRITEMANIFEST (<<>>: absent or empty)
    tmpCache,   \* pieces written to REWRITEMANIFEST and not yet fsynced
    replaced,   \* <<old>> while a rename over MANIFEST awaits SyncDir
    fileOpen,   \* mf.file is open (rewrite() closes it first thing)
    pc,         \* where the process is: "down", "idle" or inside a call
    inflight,   \* history: the ChangeSet of the call holding mf.lock
    acked,      \* history: manifest as of the last call that returned nil
    openError,  \* history: error of the last OpenManifestFile, or "none"
    calls,      \* AddChanges calls so far (bounded by MaxCalls)
    faults      \* crashes and I/O errors so far (bounded by MaxFaults)

vars == <<manifest, disk, cache, tmpDisk, tmpCache, replaced, fileOpen, pc,
          inflight, acked, openError, calls, faults>>

-----------------------------------------------------------------------------
(* Data: pb.ManifestChange without its checksum, ChangeSets, Manifest.     *)

Change == [Op : {"CREATE", "DELETE"}, Id : TableIds, Level : LevelNums]

ChangeSets == UNION {[1..n -> Change] : n \in 1..MaxChanges}

Header == [kind |-> "header"]
Frame(cs) == [kind |-> "frame", cs |-> cs]
PartHeader == [kind |-> "partHeader"]
PartPrefix == [kind |-> "partPrefix"]
PartPayload == [kind |-> "partPayload"]

Piece == {Header, PartHeader, PartPrefix, PartPayload}
           \cup [kind : {"frame"}, cs : Seq(Change)]

ManifestRec == [Tables : UNION {[D -> LevelNums] : D \in SUBSET TableIds},
                Levels : Seq(SUBSET TableIds),
                Creations : Nat, Deletions : Nat]

\* createNewManifest
createNewManifest ==
    [Tables |-> <<>>, Levels |-> <<>>, Creations |-> 0, Deletions |-> 0]

\* the per-level id sets of a Manifest, trailing empty levels ignored
LevelView(m) ==
    [l \in LevelNums |-> IF l + 1 <= Len(m.Levels) THEN m.Levels[l + 1]
                                                  ELSE {}]

-----------------------------------------------------------------------------
(* applyManifestChange and applyChangeSet.  A failing Change leaves the    *)
(* Manifest as the Changes before it left it: nothing is rolled back.      *)

Applied(m) == [ok |-> TRUE, m |-> m]
Rejected(m) == [ok |-> FALSE, m |-> m]

\* mutant: the growth loop runs while len(Levels) <= level + 1
GrowLevelsOneMore(levels, l) ==
    IF Len(levels) <= l + 1
    THEN levels \o [i \in 1..(l + 2 - Len(levels)) |-> {}]
    ELSE levels

\* append empty levels until Levels[level] exists
GrowLevels(levels, l) ==
    IF Len(levels) <= l
    THEN levels \o [i \in 1..(l + 1 - Len(levels)) |-> {}]
    ELSE levels

\* mutant: DELETE removes the id from the level the Change names
applyManifestChangeDeleteNamedLevel(m, c) ==
    IF c.Op = "CREATE"
    THEN IF c.Id \in DOMAIN m.Tables THEN Rejected(m)
         ELSE LET lv == GrowLevels(m.Levels, c.Level) IN
              Applied([m EXCEPT
                  !.Tables = (c.Id :> c.Level) @@ m.Tables,
                  !.Levels = [lv EXCEPT ![c.Level + 1] = @ \cup {c.Id}],
                  !.Creations = @ + 1])
    ELSE IF c.Id \notin DOMAIN m.Tables THEN Rejected(m)
         ELSE LET lv == GrowLevels(m.Levels, c.Level) IN
              Applied([m EXCEPT
                  !.Levels = [lv EXCEPT ![c.Level + 1] = @ \ {c.Id}],
                  !.Tables = Restrict(m.Tables, DOMAIN m.Tables \ {c.Id}),
                  !.Deletions = @ + 1])

\* mutant: the "table exists" check is dropped and a CREATE of a live id
\* records it again at the new level
applyManifestChangeCreateOverwrites(m, c) ==
    IF c.Op = "CREATE"
    THEN LET lv == GrowLevels(m.Levels, c.Level) IN
         Applied([m EXCEPT
             !.Tables = (c.Id :> c.Level) @@ m.Tables,
             !.Levels = [lv EXCEPT ![c.Level + 1] = @ \cup {c.Id}],
             !.Creations = @ + 1])
    ELSE IF c.Id \notin DOMAIN m.Tables THEN Rejected(m)
         ELSE Applied([m EXCEPT
                  !.Levels[m.Tables[c.Id] + 1] = @ \ {c.Id},
                  !.Tables = Restrict(m.Tables, DOMAIN m.Tables \ {c.Id}),
                  !.Deletions = @ + 1])

applyManifestChange(m, c) ==
    IF c.Op = "CREATE"
    THEN IF c.Id \in DOMAIN m.Tables THEN Rejected(m)
         ELSE LET lv == GrowLevels(m.Levels, c.Level) IN
              Applied([m EXCEPT
                  !.Tables = (c.Id :> c.Level) @@ m.Tables,
                  !.Levels = [lv EXCEPT ![c.Level + 1] = @ \cup {c.Id}],
                  !.Creations = @ + 1])
    ELSE IF c.Id \notin DOMAIN m.Tables THEN Rejected(m)
         ELSE Applied([m EXCEPT
                  !.Levels[m.Tables[c.Id] + 1] = @ \ {c.Id},
                  !.Tables = Restrict(m.Tables, DOMAIN m.Tables \ {c.Id}),
                  !.Deletions = @ + 1])

RECURSIVE applyChangeSet(_, _)
applyChangeSet(m, cs) ==
    IF cs = <<>> THEN Applied(m)
    ELSE LET r == applyManifestChange(m, Head(cs)) IN
         IF r.ok THEN applyChangeSet(r.m, Tail(cs)) ELSE r

\* Manifest.asChanges: one CREATE per live table (Go map order; replay
\* does not depend on it)
asChanges(m) ==
    SetToSeq({[Op |-> "CREATE", Id |-> id, Level |-> m.Tables[id]] :
                  id \in DOMAIN m.Tables})

\* the rewrite condition of addChanges
ShouldRewrite(m) ==
    /\ m.Deletions > DeletionsRewriteThreshold
    /\ m.Deletions > DeletionsRatio * (m.Creations - m.Deletions)

-----------------------------------------------------------------------------
(* ReplayManifestFile.  ps is what follows the header; off counts pieces   *)
(* read at the start of the current frame, the offset the file is          *)
(* truncated to.  EOF inside the 8-byte prefix ends replay; a short        *)
(* payload, a bad checksum or a rejected ChangeSet fails it.  A header or  *)
(* a torn piece followed by more bytes is read as a prefix with a garbage  *)
(* length and fails as a short read or a checksum mismatch.                *)

Replayed(m, off) == [ok |-> TRUE, m |-> m, off |-> off, err |-> "none"]
Failed(e) == [ok |-> FALSE, m |-> createNewManifest, off |-> 0, err |-> e]

RECURSIVE ReplayFrames(_, _, _)
ReplayFrames(m, ps, off) ==
    IF ps = <<>> THEN Replayed(m, off)
    ELSE LET p == Head(ps) IN
         CASE p.kind = "frame" ->
                  LET r == applyChangeSet(m, p.cs) IN
                  IF r.ok THEN ReplayFrames(r.m, Tail(ps), off + 1)
                          ELSE Failed("structural")
           [] p = PartPrefix /\ Len(ps) = 1 -> Replayed(m, off)
           [] p = PartPayload /\ Len(ps) = 1 -> Failed("shortPayload")
           [] OTHER -> Failed("corrupt")

ReplayManifestFile(ps) ==
    IF ps = <<>> \/ Head(ps) # Header THEN Failed("badMagic")
    ELSE ReplayFrames(createNewManifest, Tail(ps), 1)

-----------------------------------------------------------------------------
(* What of a file's unsynced pieces a crash may leave on disk: any whole   *)
(* prefix of them, possibly followed by a torn part of the next piece.     *)

Torn(p) == IF p = Header THEN {PartHeader} ELSE {PartPrefix, PartPayload}

Survivors(c) ==
    {SubSeq(c, 1, k) : k \in 0..Len(c)}
      \cup UNION {{SubSeq(c, 1, k) \o <<t>> : t \in Torn(c[k + 1])} :
                      k \in 0..(Len(c) - 1)}

-----------------------------------------------------------------------------
(* createFileAndRewrite, first part: open REWRITEMANIFEST with             *)
(* O_RDWR|O_CREATE|O_APPEND and write the header and one frame holding     *)
(* the whole Manifest as CREATE Changes.  The open does not truncate: the  *)
(* write lands after whatever REWRITEMANIFEST already holds.               *)
createFileAndRewrite(m) ==
    /\ tmpCache' = tmpCache \o <<Header, Frame(asChanges(m))>>
    /\ pc' = "tmpWritten"

\* OpenManifestFile when MANIFEST does not exist: bootstrap by a rewrite of
\* an empty Manifest
OpenManifestFileCreate ==
    /\ pc = "down"
    /\ disk = <<>>
    /\ manifest' = createNewManifest
    /\ createFileAndRewrite(createNewManifest)
    /\ inflight' = <<>>
    /\ openError' = "none"
    /\ UNCHANGED <<fileOpen, disk, cache, tmpDisk, replaced, acked, calls, faults>>

\* OpenManifestFile when MANIFEST exists and replays: truncate the file to
\* the last whole frame and append from there
OpenManifestFileReplay ==
    /\ pc = "down"
    /\ disk # <<>>
    /\ LET r == ReplayManifestFile(disk) IN
       /\ r.ok
       /\ manifest' = r.m
       /\ disk' = SubSeq(disk, 1, r.off)
       /\ acked' = r.m
    /\ fileOpen' = TRUE
    /\ pc' = "idle"
    /\ inflight' = <<>>
    /\ openError' = "none"
    /\ UNCHANGED <<cache, tmpDisk, tmpCache, replaced, calls, faults>>

\* OpenManifestFile when replay fails: the store refuses to start
OpenManifestFileFail ==
    /\ pc = "down"
    /\ disk # <<>>
    /\ ~ReplayManifestFile(disk).ok
    /\ openError' = ReplayManifestFile(disk).err
    /\ UNCHANGED <<manifest, disk, cache, tmpDisk, tmpCache, replaced,
                   fileOpen, pc, inflight, acked, calls, faults>>

-----------------------------------------------------------------------------
(* addChanges, under mf.lock.  The ChangeSet is applied to the in-memory   *)
(* Manifest first; the disk write comes after.  The lock makes calls       *)
(* sequential, so one call at a time is in flight.                         *)

\* what callers pass: anything, or only ChangeSets that apply
Inputs(m) ==
    IF CallersValid THEN {cs \in ChangeSets : applyChangeSet(m, cs).ok}
                    ELSE ChangeSets

\* applyChangeSet fails: the error is returned, the Changes applied before
\* the failing one stay applied in memory, nothing is written
addChangesRejected(cs) ==
    /\ pc = "idle"
    /\ calls < MaxCalls
    /\ ~applyChangeSet(manifest, cs).ok
    /\ manifest' = applyChangeSet(manifest, cs).m
    /\ calls' = calls + 1
    /\ UNCHANGED <<disk, cache, tmpDisk, tmpCache, replaced, fileOpen, pc,
                   inflight, acked, openError, faults>>

\* applyChangeSet succeeds and no rewrite is due: the len|crc|payload
\* frame is written to MANIFEST
addChangesAppend(cs) ==
    /\ pc = "idle"
    /\ calls < MaxCalls
    /\ LET r == applyChangeSet(manifest, cs) IN
       /\ r.ok
       /\ ~ShouldRewrite(r.m)
       /\ manifest' = r.m
    /\ fileOpen
    /\ cache' = Append(cache, Frame(cs))
    /\ pc' = "appended"
    /\ inflight' = cs
    /\ calls' = calls + 1
    /\ UNCHANGED <<disk, tmpDisk, tmpCache, replaced, fileOpen, acked,
                   openError, faults>>

\* the append path's mf.file.Sync(); then addChanges returns nil
addChangesSync ==
    /\ pc = "appended"
    /\ disk' = disk \o cache
    /\ cache' = <<>>
    /\ pc' = "idle"
    /\ acked' = manifest
    /\ inflight' = <<>>
    /\ UNCHANGED <<manifest, tmpDisk, tmpCache, replaced, fileOpen,
                   openError, calls, faults>>

\* applyChangeSet succeeds and a rewrite is due: rewrite() closes mf.file
\* and starts createFileAndRewrite on the updated Manifest
addChangesRewrite(cs) ==
    /\ pc = "idle"
    /\ calls < MaxCalls
    /\ LET r == applyChangeSet(manifest, cs) IN
       /\ r.ok
       /\ ShouldRewrite(r.m)
       /\ manifest' = r.m
       /\ createFileAndRewrite(r.m)
    /\ fileOpen
    /\ fileOpen' = FALSE
    /\ inflight' = cs
    /\ calls' = calls + 1
    /\ UNCHANGED <<disk, cache, tmpDisk, replaced, acked, openError, faults>>

\* createFileAndRewrite: Sync and Close of REWRITEMANIFEST
rewriteSyncTmp ==
    /\ pc = "tmpWritten"
    /\ tmpDisk' = tmpDisk \o tmpCache
    /\ tmpCache' = <<>>
    /\ pc' = "tmpSynced"
    /\ UNCHANGED <<manifest, disk, cache, replaced, fileOpen, inflight,
                   acked, openError, calls, faults>>

\* createFileAndRewrite: os.Rename(REWRITEMANIFEST, MANIFEST); the old
\* MANIFEST can come back after a crash until the directory is synced
rewriteRename ==
    /\ pc = "tmpSynced"
    /\ disk' = tmpDisk
    /\ tmpDisk' = <<>>
    /\ replaced' = <<disk>>
    /\ pc' = "renamed"
    /\ UNCHANGED <<manifest, cache, tmpCache, fileOpen, inflight, acked,
                   openError, calls, faults>>

\* mutant: rewrite() resets Deletions but leaves Creations as it was
rewriteFinishKeepsCreations ==
    /\ pc = "renamed"
    /\ replaced' = <<>>
    /\ fileOpen' = TRUE
    /\ manifest' = [manifest EXCEPT !.Deletions = 0]
    /\ pc' = "idle"
    /\ acked' = manifest'
    /\ inflight' = <<>>
    /\ UNCHANGED <<disk, cache, tmpDisk, tmpCache, openError, calls, faults>>

\* createFileAndRewrite: reopen MANIFEST for append and SyncDir; rewrite()
\* then resets Creations and Deletions, and addChanges syncs and returns
\* nil (for the bootstrap of OpenManifestFile the counts are already 0)
rewriteFinish ==
    /\ pc = "renamed"
    /\ replaced' = <<>>
    /\ fileOpen' = TRUE
    /\ manifest' = [manifest EXCEPT
                       !.Creations = Cardinality(DOMAIN manifest.Tables),
                       !.Deletions = 0]
    /\ pc' = "idle"
    /\ acked' = manifest'
    /\ inflight' = <<>>
    /\ UNCHANGED <<disk, cache, tmpDisk, tmpCache, openError, calls, faults>>

-----------------------------------------------------------------------------
(* The error returns of addChanges and createFileAndRewrite.  Every one   *)
(* comes after applyChangeSet has changed the in-memory Manifest, and none *)
(* undoes it.                                                              *)

\* mf.file.Write fails: on a closed mf.file (a failed rewrite closed it)
\* nothing is written; an I/O error may leave part of the frame behind
addChangesWriteFails(cs) ==
    /\ pc = "idle"
    /\ calls < MaxCalls
    /\ ~fileOpen \/ ("ioerror" \in Faults /\ faults < MaxFaults)
    /\ faults' = IF fileOpen THEN faults + 1 ELSE faults
    /\ LET r == applyChangeSet(manifest, cs) IN
       /\ r.ok
       /\ ~ShouldRewrite(r.m)
       /\ manifest' = r.m
    /\ \E s \in IF fileOpen THEN {<<>>, <<PartPrefix>>, <<PartPayload>>}
                            ELSE {<<>>} :
          cache' = cache \o s
    /\ calls' = calls + 1
    /\ UNCHANGED <<disk, tmpDisk, tmpCache, replaced, fileOpen, pc,
                   inflight, acked, openError>>

\* rewrite() on a closed mf.file: its Close returns the error at once
addChangesRewriteCloseFails(cs) ==
    /\ pc = "idle"
    /\ calls < MaxCalls
    /\ ~fileOpen
    /\ LET r == applyChangeSet(manifest, cs) IN
       /\ r.ok
       /\ ShouldRewrite(r.m)
       /\ manifest' = r.m
    /\ calls' = calls + 1
    /\ UNCHANGED <<disk, cache, tmpDisk, tmpCache, replaced, fileOpen, pc,
                   inflight, acked, openError, faults>>

\* the append path's mf.file.Sync() fails: the error is returned and the
\* frame stays in the page cache
addChangesSyncFails ==
    /\ "ioerror" \in Faults
    /\ faults < MaxFaults
    /\ faults' = faults + 1
    /\ pc = "appended"
    /\ pc' = "idle"
    /\ inflight' = <<>>
    /\ UNCHANGED <<manifest, disk, cache, tmpDisk, tmpCache, replaced,
                   fileOpen, acked, openError, calls>>

\* a write, sync, close, rename, open, seek or SyncDir of
\* createFileAndRewrite fails: the error is returned with mf.file closed,
\* REWRITEMANIFEST left where it is, and, once renamed, the rename not yet
\* synced.  During the bootstrap of OpenManifestFile the open fails.
Booting == inflight = <<>>

rewriteFails ==
    /\ "ioerror" \in Faults
    /\ faults < MaxFaults
    /\ faults' = faults + 1
    /\ pc \in {"tmpWritten", "tmpSynced", "renamed"}
    /\ pc' = IF Booting THEN "down" ELSE "idle"
    /\ openError' = IF Booting THEN "io" ELSE openError
    /\ inflight' = <<>>
    /\ UNCHANGED <<manifest, disk, cache, tmpDisk, tmpCache, replaced,
                   fileOpen, acked, calls>>

\* ManifestFile.Close, at engine shutdown, between calls
Close ==
    /\ pc = "idle"
    /\ pc' = "down"
    /\ fileOpen' = FALSE
    /\ UNCHANGED <<manifest, disk, cache, tmpDisk, tmpCache, replaced,
                   inflight, acked, openError, calls, faults>>

\* the process dies: memory and unsynced writes are lost, except for what
\* the OS had already written back; an unsynced rename may be undone
Crash ==
    /\ "crash" \in Faults
    /\ pc # "down"
    /\ faults < MaxFaults
    /\ faults' = faults + 1
    /\ \/ /\ replaced = <<>>
          /\ \E s \in Survivors(cache) : disk' = disk \o s
          /\ \E s \in Survivors(tmpCache) : tmpDisk' = tmpDisk \o s
       \/ /\ replaced # <<>>
          /\ disk' = replaced[1]
          /\ tmpDisk' = disk
    /\ cache' = <<>>
    /\ tmpCache' = <<>>
    /\ replaced' = <<>>
    /\ manifest' = createNewManifest
    /\ fileOpen' = FALSE
    /\ pc' = "down"
    /\ UNCHANGED <<inflight, acked, openError, calls>>

-----------------------------------------------------------------------------
Init ==
    /\ manifest = createNewManifest
    /\ disk = <<>>
    /\ cache = <<>>
    /\ tmpDisk = <<>>
    /\ tmpCache = <<>>
    /\ replaced = <<>>
    /\ fileOpen = FALSE
    /\ pc = "down"
    /\ inflight = <<>>
    /\ acked = createNewManifest
    /\ openError = "none"
    /\ calls = 0
    /\ faults = 0

Next ==
    \/ OpenManifestFileCreate
    \/ OpenManifestFileReplay
    \/ OpenManifestFileFail
    \/ \E cs \in Inputs(manifest) :
          \/ addChangesRejected(cs)
          \/ addChangesAppend(cs)
          \/ addChangesRewrite(cs)
          \/ addChangesWriteFails(cs)
          \/ addChangesRewriteCloseFails(cs)
    \/ addChangesSync
    \/ addChangesSyncFails
    \/ rewriteFails
    \/ rewriteSyncTmp
    \/ rewriteRename
    \/ rewriteFinish
    \/ Close
    \/ Crash

Spec == Init /\ [][Next]_vars

-----------------------------------------------------------------------------
(* Properties                                                              *)

TypeOK ==
    /\ manifest \in ManifestRec
    /\ acked \in ManifestRec
    /\ \A f \in {disk, cache, tmpDisk, tmpCache} : f \in Seq(Piece)
    /\ replaced \in Seq(Seq(Piece)) /\ Len(replaced) <= 1
    /\ fileOpen \in BOOLEAN
    /\ pc \in {"down", "idle", "appended", "tmpWritten", "tmpSynced",
               "renamed"}
    /\ inflight \in Seq(Change)
    /\ openError \in {"none", "badMagic", "corrupt", "shortPayload",
                      "structural", "io"}
    /\ calls \in 0..MaxCalls
    /\ faults \in 0..MaxFaults
    /\ Len(manifest.Levels) <= Cardinality(LevelNums)

\* Manifest invariant kept by applyManifestChange: a live table is in the
\* id set of exactly the level recorded for it in Tables, and the level id
\* sets hold no other ids.  DELETE removes the id from Tables[id].Level, not
\* from the level the DELETE Change names.
LevelsAgree ==
    pc # "down" =>
        \A id \in TableIds, i \in 1..Len(manifest.Levels) :
            id \in manifest.Levels[i] <=>
                id \in DOMAIN manifest.Tables /\ manifest.Tables[id] = i - 1

\* Round trip: between calls of a process that has not crashed, replaying
\* MANIFEST as it is on disk yields the in-memory Manifest: the same
\* Tables and level sets, and the same Creations and Deletions, which
\* after a rewrite the code resets to what the rewritten file replays to.
\* (After a crash, what a reopen yields is ManifestRefinement's concern.)
ReopenIdentical ==
    pc = "idle" /\ faults = 0 =>
        LET r == ReplayManifestFile(disk) IN
        /\ r.ok
        /\ r.m.Tables = manifest.Tables
        /\ LevelView(r.m) = LevelView(manifest)
        /\ r.m.Creations = manifest.Creations
        /\ r.m.Deletions = manifest.Deletions

\* Spec 8: a frame left incomplete at the end of MANIFEST (a partial
\* len|crc prefix or a short payload) is discarded by OpenManifestFile,
\* which then starts from the complete frames before it.
TornTailTolerated == openError # "shortPayload"

\* Spec 4.1: a crash during a rewrite leaves either the old MANIFEST or the
\* whole new one, never a hybrid: MANIFEST holds its magic header only at
\* its start.
NoHybridManifest ==
    \A i \in 2..Len(disk) : disk[i] \notin {Header, PartHeader}

\* Spec 7 and 9: an AddChanges that returns an error may leave memory and
\* disk apart, but once a later call returns nil, MANIFEST as the OS will
\* write it back (disk and page cache) replays without error.
AckedManifestReplayable ==
    pc = "idle" /\ acked = manifest => ReplayManifestFile(disk \o cache).ok

=============================================================================
