SPECIFICATION Spec
CONSTANTS
    material = material
    recycled = recycled
    Components = {c1, c2}
    Fields = {material}
    Values = {v1, v2}
    NoValue = NoValue
    NoComponent = NoComponent
    Same <- MCSame
    Docs = {d1}
    Rows = {r1}
    NoRow = NoRow
    SupplierFields = {material}
    TextFields = {material}
    RequiredFields = {}
    Valid <- MCValid
    Stored <- MCStored
    MaxSuggestions = 1
    MaxEdits = 1
    ExpiryDays = 0
    ReminderSchedule <- NoSchedule
    MaxAutomaticRounds = 1
    LongestDelay = 0
    MaxRounds = 1
SYMMETRY Symmetry
INVARIANTS
    TypeOK
PROPERTIES
    CompletionIsEarned
    ImplementsReview
