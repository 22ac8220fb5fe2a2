\* Calls stop when MaxCalls of them were made: the run may end.
CHECK_DEADLOCK FALSE
SPECIFICATION Spec
CONSTANTS
    Docs = {d1}
    Calls = {k1, k2}
    Contents <- ContentsDef
    NoContent = NoContent
    NoDocument = NoDocument
    ScannerIsReal = TRUE
    MaxSuggestions = 2
    MaxCalls = 4
    MaxFailures = 1
SYMMETRY Symmetry
INVARIANTS
    TypeOK
    StorageIsAccounted
    ProposalsKeepTheirDocument
    StatusTellsLastExtraction
    BookkeepingWrongOnlyByOverlap
    EvidenceIsHonest
