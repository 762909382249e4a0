CONSTANTS
    a1 = a1
    a2 = a2
    a3 = a3
    Arenas <- TwoArenas
    BlockCount = 3
    ChunkBits = 2
    NoArena = NoArena
    NoBlock = NoBlock
    NotSweeping = NotSweeping

SPECIFICATION FairSpec

INVARIANTS
    ArenasConsistent

PROPERTIES
    NewArenaOnlyWhenFull
    ImplementsBlockStore
    SweepEnds
