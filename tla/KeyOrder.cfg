\* Every pair of keys of 1-2 user bytes and a 2-byte version over 3 byte values.
CONSTANTS
    Bytes = {0, 1, 2}
    MaxUserLen = 2
    TsLen = 2
SPECIFICATION Spec
INVARIANTS
    CompareKeysIsVersionedOrder
