SPECIFICATION Spec
CONSTANTS
    Blobs <- MCBlobs
    maxFileSize = 3
    FileNumbers = 3
    MaxItems = 4
    MaxFiles = 3
    MaxFaults = 2
INVARIANT TableIsConsistent
PROPERTY ImplementsAncientTable
