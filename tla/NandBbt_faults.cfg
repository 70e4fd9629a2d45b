\* Any two faults; a chip as delivered or in use.
SPECIFICATION Spec
CONSTANTS
    NBlocks = 5
    MAXBLOCKS = 3
    VersionMod = 4
    Factory <- MCFactory
    Faults = {"cut", "ecc", "flip", "io", "fail"}
    MaxFaults = 2
INVARIANT MarkedStays WrittenStays MainIsCurrent
PROPERTY ScanEnds
