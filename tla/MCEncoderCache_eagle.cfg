SPECIFICATION Spec
CONSTANTS
    a = a
    b = b
    c = c
    r1 = r1
    r2 = r2
    r3 = r3
    Req = {r1, r2, r3}
    Hash = {a, b, c}
    NumEmbeds <- Embeddings
    CacheSize = 3
    Features <- Prompts
    NumTokens <- Lengths
    Rank <- Ranks
    Hits = {0, 2}
    TokenBudget = 4
    ComputeBudget = 4
    MaxShortages = 2
    Configs <- Eagle
INVARIANT
    NoCacheMiss
