CONSTANTS
    Stacks <- BlockStacks
    MaxPlain = 5
    MaxPacked = 7
    MaxStreamed = 2
    MaxBlock = 5
    Buffer = 4
    CodecChunk = 6
    CipherChunk = 4
    ZStdInSize = 6
SPECIFICATION Spec
CHECK_DEADLOCK FALSE
INVARIANTS
    ReadsBack
