SPECIFICATION Spec
CONSTANTS
    Workers = {w1, w2}
    Contents <- Releases
    MaxRequests = 3
    MaxAssets = 2
    MaxAssetBytes = 3
    MaxPackBytes = 4
CHECK_DEADLOCK FALSE
INVARIANTS TypeOK RowsTracked Footprint StoredWhole ArchiveFaithful
