SPECIFICATION Spec
CONSTANTS
    Snapshots <- SnapshotFiles
    Items <- PeerItems
    Fsyncs = {"always", "no"}
    MaxSent = 2
    MaxBoots = 2
    MaxFails = 1
    maxLineLength = 40
    maxBulkLength = 40
    maxArrayLen = 4
CONSTRAINT OneBase
INVARIANTS ReaderExact BootExact 
CHECK_DEADLOCK FALSE
