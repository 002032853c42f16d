--------------------------- MODULE MCManifestFile ---------------------------
(* Model-checking instance of ManifestFile: two table ids and two levels   *)
(* so that DELETE Changes can name a level other than the table's, and a   *)
(* rewrite threshold of 1 and ratio of 1 so that both arms of the rewrite  *)
(* condition are decided by the Changes of four calls.                     *)
EXTENDS ManifestFile

MCTableIds == 1..2
MCLevelNums == 0..1

\* a store that OpenManifestFile has already bootstrapped, process down
MCInitStore ==
    /\ disk = <<Header, Frame(<<>>)>>
    /\ manifest = createNewManifest
    /\ acked = createNewManifest
    /\ cache = <<>> /\ tmpDisk = <<>> /\ tmpCache = <<>> /\ replaced = <<>>
    /\ fileOpen = FALSE /\ pc = "down" /\ inflight = <<>>
    /\ openError = "none" /\ calls = 0 /\ faults = 0

\* the map the process holds, or, while it is down, the map a reopen may
\* start from if it keeps the ChangeSet the crash cut short
MappedTables ==
    IF pc # "down" THEN manifest.Tables
    ELSE applyChangeSet(acked, inflight).m.Tables

\* ManifestFile as an implementation of ManifestAbstract: the store is open
\* unless the process is down (closed, crashed, or its open failed); the
\* acknowledged map is the Tables of the last call that returned nil, and
\* a call is unacknowledged while its ChangeSet is in flight
Abs == INSTANCE ManifestAbstract
           WITH tables <- MappedTables, open <- pc # "down",
                before <- acked.Tables, unacked <- inflight # <<>>,
                TableIds <- TableIds, LevelNums <- LevelNums,
                MaxChanges <- MaxChanges

\* Durability and atomicity of AddChanges: with crashes at every step (torn
\* unsynced writes, unsynced renames undone) every step of OpenManifestFile,
\* AddChanges (append or rewrite), Close and Crash is a step of
\* ManifestAbstract: a ChangeSet changes Tables as a whole, and reopening
\* MANIFEST yields the Tables of the last acknowledged call, or those and
\* the ChangeSet of the call the crash cut short.
ManifestRefinement == Abs!Spec
=============================================================================
