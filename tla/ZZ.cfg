SPECIFICATION Spec
CONSTANTS
    Blobs <- MCBlobs
    maxFileSize = 3
    FileNumbers = 2
    MaxItems = 4
    MaxFiles = 2
    MaxFaults = 2
INVARIANT TableIsConsistent
PROPERTY ImplementsAncientTable
