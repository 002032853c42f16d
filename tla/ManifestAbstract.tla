--------------------------- MODULE ManifestAbstract ---------------------------
(***************************************************************************)
(* What the manifest log promises its callers (spec 3, 4.1 and 6), with    *)
(* none of its file format: a map from table id to level that AddChanges   *)
(* changes by a whole ChangeSet at once, and that survives close and       *)
(* reopen.  A call is acknowledged when it returns nil; a crash loses      *)
(* nothing acknowledged, and the one call it cuts short is either whole    *)
(* in the reopened map or absent.  ManifestFile implements it when no      *)
(* I/O error occurs (MCManifestFile's ManifestRefinement).                 *)
(***************************************************************************)
EXTENDS Integers, Sequences

CONSTANTS TableIds, LevelNums, MaxChanges

VARIABLES
    tables,     \* table id -> level
    open,       \* the store is open
    before,     \* the map as of the last acknowledged call
    unacked     \* a call has changed the map and not yet returned

vars == <<tables, open, before, unacked>>

Change == [Op : {"CREATE", "DELETE"}, Id : TableIds, Level : LevelNums]

ChangeSets == UNION {[1..n -> Change] : n \in 1..MaxChanges}

\* a CREATE adds a table that is not there, a DELETE removes one that is
Applies(t, c) ==
    IF c.Op = "CREATE" THEN c.Id \notin DOMAIN t ELSE c.Id \in DOMAIN t

After(t, c) ==
    IF c.Op = "CREATE"
    THEN [id \in DOMAIN t \cup {c.Id} |-> IF id = c.Id THEN c.Level ELSE t[id]]
    ELSE [id \in DOMAIN t \ {c.Id} |-> t[id]]

\* the map after a ChangeSet, and whether each of its Changes applies in turn
RECURSIVE Apply(_, _)
Apply(t, cs) ==
    IF cs = <<>> THEN [ok |-> TRUE, t |-> t]
    ELSE IF Applies(t, Head(cs)) THEN Apply(After(t, Head(cs)), Tail(cs))
    ELSE [ok |-> FALSE, t |-> t]

Init == tables = <<>> /\ before = <<>> /\ ~open /\ ~unacked

\* a reopened store holds the map of the last acknowledged call, or that
\* map with the ChangeSet a crash cut short
Open ==
    /\ ~open /\ open'
    /\ tables' \in {tables} \cup (IF unacked THEN {before} ELSE {})
    /\ before' = tables'
    /\ unacked' = FALSE

\* a ChangeSet that applies replaces the map; the call has not returned
AddChanges(cs) ==
    /\ open /\ ~unacked
    /\ Apply(tables, cs).ok
    /\ tables' = Apply(tables, cs).t
    /\ before' = tables
    /\ unacked' = TRUE
    /\ UNCHANGED open

\* the call returns nil: its ChangeSet is acknowledged
Return ==
    /\ unacked /\ ~unacked'
    /\ before' = tables
    /\ UNCHANGED <<tables, open>>

Close == open /\ ~unacked /\ ~open' /\ UNCHANGED <<tables, before, unacked>>

\* the process dies, in a call or between calls
Crash == open /\ ~open' /\ UNCHANGED <<tables, before, unacked>>

Next ==
    \/ Open \/ Close \/ Return \/ Crash
    \/ \E cs \in ChangeSets : AddChanges(cs)

Spec == Init /\ [][Next]_vars

===============================================================================
