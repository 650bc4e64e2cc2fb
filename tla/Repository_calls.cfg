CONSTANTS
    w1 = w1
    w2 = w2
    w3 = w3
    Writers <- ThreeWriters
    MaxInodes = 3
    NoFile = NoFile
SPECIFICATION FairSpec
INVARIANTS
    ReadersSeeWholeDocuments
    TemporariesAreCleanedUp
PROPERTIES
    CreateNeverOverwrites
    StoreSpec
    CallsEnd
