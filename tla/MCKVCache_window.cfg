SPECIFICATION Spec
CONSTANTS
    r1 = r1
    r2 = r2
    r3 = r3
    Req = {r1, r2, r3}
    TokenStream <- MCStream
    NumPrompt <- MCPrompt
    Hash <- MCHash
    NoHash = NoHash
    b0 = b0
    b1 = b1
    b2 = b2
    b3 = b3
    b4 = b4
    Block = {b0, b1, b2, b3, b4}
    NullBlock = b0
    EnableCaching = TRUE
    BlockSize = 2
    MaxModelLen = 6
    SlidingWindow = 3
    UseEagle = FALSE
    SkipReading = {}
    Lookahead = 0
    MaxDraft = 0
    UseConnector = FALSE
INVARIANT WindowCovered
SYMMETRY BlockSymmetry
