CONSTANTS
    Priorities <- MCPriorities
    Qoses <- MCQoses
    IDs <- MCIDs
    Blobs <- MCBlobs
    MaxCut <- MCMaxCut
    ForgedLens <- MCForgedLens
SPECIFICATION Spec
INVARIANTS TypeOK IDsRoundTrip LengthFraming MalformedRejected
CHECK_DEADLOCK FALSE
