------------------------------ MODULE KeyOrder ------------------------------
(***************************************************************************)
(* utils.CompareKeys (src/unnamed/part_002): every key the core handles is *)
(* a user key followed by a fixed-width big-endian version.  CompareKeys   *)
(* compares the user keys with bytes.Compare and, when they are equal, the *)
(* version bytes.  A key is a sequence of byte values; the version width   *)
(* is the constant TsLen (8 in the code).                                  *)
(*                                                                         *)
(* The module is a pure function; its state is the pair of keys of one     *)
(* call, so that TLC checks the properties on every pair of keys.          *)
(***************************************************************************)
EXTENDS Integers, Sequences, SequencesExt

CONSTANTS
    Bytes,          \* the byte values keys are made of
    MaxUserLen,     \* bound: user key length
    TsLen           \* the version suffix length (8 in the code)

VARIABLES key1, key2

vars == <<key1, key2>>

\* bytes.Compare: lexicographic, a proper prefix first; -1, 0 or 1
RECURSIVE BytesCompare(_, _)
BytesCompare(a, b) ==
    CASE a = <<>> /\ b = <<>> -> 0
      [] a = <<>> -> -1
      [] b = <<>> -> 1
      [] Head(a) < Head(b) -> -1
      [] Head(a) > Head(b) -> 1
      [] OTHER -> BytesCompare(Tail(a), Tail(b))

\* mutant: the whole key compared with bytes.Compare, the version included
CompareKeysWhole(k1, k2) == BytesCompare(k1, k2)

\* CompareKeys; it panics (CondPanic) on a key of TsLen bytes or fewer
CompareKeys(k1, k2) ==
    IF Len(k1) <= TsLen \/ Len(k2) <= TsLen THEN "panic"
    ELSE LET c == BytesCompare(SubSeq(k1, 1, Len(k1) - TsLen),
                               SubSeq(k2, 1, Len(k2) - TsLen))
         IN IF c # 0 THEN c
            ELSE BytesCompare(SubSeq(k1, Len(k1) - TsLen + 1, Len(k1)),
                              SubSeq(k2, Len(k2) - TsLen + 1, Len(k2)))

-----------------------------------------------------------------------------
(* The keys a caller can pass, and the reference order.                    *)

UserKeys == UNION {[1..n -> Bytes] : n \in 1..MaxUserLen}

Versions == [1..TsLen -> Bytes]

\* spec 2: every key is at least one user byte and the version
Keys == {u \o v : u \in UserKeys, v \in Versions}

UserKey(k) == SubSeq(k, 1, Len(k) - TsLen)

ByteBase == Max(Bytes) + 1

\* the version number the big-endian suffix encodes
Version(k) ==
    FoldLeft(LAMBDA acc, b : acc * ByteBase + b, 0,
             SubSeq(k, Len(k) - TsLen + 1, Len(k)))

\* the dictionary order of user keys, stated without recursion: a proper
\* prefix comes first, otherwise the first differing byte decides
UserBefore(u, w) ==
    \/ Len(u) < Len(w) /\ u = SubSeq(w, 1, Len(u))
    \/ \E i \in 1..Len(u) :
          /\ i <= Len(w)
          /\ SubSeq(u, 1, i - 1) = SubSeq(w, 1, i - 1)
          /\ u[i] < w[i]

\* the order spec 2 asks for: user key first, then version number
RefCompare(k1, k2) ==
    CASE UserBefore(UserKey(k1), UserKey(k2)) -> -1
      [] UserBefore(UserKey(k2), UserKey(k1)) -> 1
      [] Version(k1) < Version(k2) -> -1
      [] Version(k1) > Version(k2) -> 1
      [] OTHER -> 0

Init == key1 \in Keys /\ key2 \in Keys

\* one call of CompareKeys, on any two keys
Compare == key1' \in Keys /\ key2' \in Keys

Spec == Init /\ [][Compare]_vars

-----------------------------------------------------------------------------
(* Properties                                                              *)

\* CompareKeys orders every pair of well-formed keys as spec 2 does: by
\* user key, a key that is a prefix of another first ("a<ts>" before
\* "aa<ts>", which bytes.Compare on whole keys gets wrong), then by the
\* version the big-endian suffix encodes; and it never panics on them.
CompareKeysIsVersionedOrder == CompareKeys(key1, key2) = RefCompare(key1, key2)

=============================================================================
