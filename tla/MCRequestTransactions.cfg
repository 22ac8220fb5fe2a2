SPECIFICATION Spec
CONSTANTS
    k1 = k1
    k2 = k2
    s1 = s1
    s2 = s2
    p1 = p1
    p2 = p2
    Calls = {k1, k2}
    Slots = {s1, s2}
    Proposals = {p1, p2}
    SlotOf <- SlotOfDef
    MaxAutomaticRounds = 1
    MaxCalls = 4
    MaxFailures = 1
SYMMETRY Symmetry
CHECK_DEADLOCK FALSE
INVARIANTS
    TypeOK
    RowIsCoherent
PROPERTIES
    RevocationWins
    CompletionReopensOnlyStale
    CompletionMissedOnlyByOverlap
    WorkflowLeftOnlyByOverlap
    DecisionsReplacedOnlyByOverlap
