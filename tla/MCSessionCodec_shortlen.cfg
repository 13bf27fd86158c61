\* A header whose length field is shorter than the variant's fixed fields.
CONSTANTS
    Priorities <- MCPriorities
    Qoses <- MCQoses
    IDs <- MCIDs
    Blobs <- MCBlobs
    MaxCut <- MCMaxCut
    ForgedLens <- MCShortLens
SPECIFICATION Spec
INVARIANT MalformedRejected
CHECK_DEADLOCK FALSE
