\* Four adapter names (every array order and every slot of a removal), two hashes.
SPECIFICATION RegistrySpec
CONSTANTS
    Names = {n1, n2, n3, n4}
    EmptyName = empty
    Hashes = {h1, h2}
    NoHash = nohash
    MaxNames = 4
INVARIANTS
    RegistryTypeOK
    NamesMatchAdapters
    NamesUnique
