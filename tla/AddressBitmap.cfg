CONSTANTS
    Addresses <- MCAddresses
    Granularity = 4
    SegmentBits = 2
    CacheSize = 2
    NullSegment = NullSegment

SPECIFICATION BitmapSpec

INVARIANTS
    CacheCoherent

PROPERTY
    ImplementsMarkSet
