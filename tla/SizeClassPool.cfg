CONSTANTS
    a1 = a1
    a2 = a2
    a3 = a3
    Arenas <- MCArenas
    BlockCount = 2
    ChunkBits = 2
    NoArena = NoArena
    NoBlock = NoBlock
    NotSweeping = NotSweeping

SPECIFICATION FairSpec

INVARIANTS
    ArenasConsistent

PROPERTIES
    NewArenaOnlyWhenFull
    ImplementsBlockStore
    SweepEnds
