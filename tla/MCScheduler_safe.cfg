SPECIFICATION Spec
CONSTANTS
    r1 = r1
    r2 = r2
    r3 = r3
    b0 = b0
    b1 = b1
    b2 = b2
    b3 = b3
    b4 = b4
    NoReq = NoReq
    NoHash = NoHash
    Req = {r1, r2, r3}
    Block = {b0, b1, b2, b3}
    NullBlock = b0
    TokenStream <- LongStream
    NumPrompt <- LongPrompt
    MaxTokens <- LongMaxTokens
    Hash <- LongHash
    Rank <- MCRank
    EnableCaching = TRUE
    BlockSize = 2
    MaxModelLen = 7
    SlidingWindow = 0
    UseEagle = FALSE
    SkipReading = {}
    MaxRunning = 3
    Configs <- SafeConfigs
INVARIANTS NoFailure TokensInOrder TokensFromOwnKV StateConsistent PlaceholdersExact CacheHoldsItsHash PrefixClosed ForcedResetSucceeds
SYMMETRY BlockSymmetry
