SPECIFICATION Spec
CONSTANTS
    material = material
    recycled = recycled
    Components = {c1}
    Fields = {material, recycled}
    Values = {v1}
    NoValue = NoValue
    NoComponent = NoComponent
    Same <- MCSame
    Docs = {}
    Rows = {}
    NoRow = NoRow
    SupplierFields = {material, recycled}
    TextFields = {material}
    RequiredFields = {}
    Valid <- MCValid
    Stored <- MCStored
    MaxSuggestions = 1
    MaxEdits = 1
    ExpiryDays = 1
    ReminderSchedule <- TwoReminders
    MaxAutomaticRounds = 1
    LongestDelay = 2
    MaxRounds = 3
INVARIANTS
    NeverPester
    AutomaticRoundsCapped
PROPERTIES
    CompletionIsFinal
    RevokedStaysDead
    ImplementsWorkflow
