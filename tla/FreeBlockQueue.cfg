SPECIFICATION Spec
CONSTANTS
    Block = {b1, b2, b3, b4}
    FakeHead = FakeHead
    FakeTail = FakeTail
    None = None
    NoBlocks = NoBlocks
INVARIANT ListIntact
PROPERTY ImplementsQueue
