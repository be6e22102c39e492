\* Messages in pieces and several messages for a key, with all four algorithms.
SPECIFICATION Spec
CONSTANTS
    UintLimit = 4096
    Garbage = Garbage
    Digest <- ToyDigest
    xor <- TableXor
    Keys <- SomeKeys
    Pieces <- SomePieces
    MacSizes = {28, 32}
    MaxMessage = 128
INVARIANTS
    TypeOK
    MacIsRight
    CopiesHoldKey
    ContextsHoldMessage
