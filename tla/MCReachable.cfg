SPECIFICATION Spec
CONSTANTS
    material = material
    recycled = recycled
    Components = {c1}
    Fields = {material}
    Values = {v1}
    NoValue = NoValue
    NoComponent = NoComponent
    Same <- MCSame
    Docs = {}
    Rows = {}
    NoRow = NoRow
    SupplierFields = {material}
    TextFields = {material}
    RequiredFields = {}
    Valid <- MCValid
    Stored <- MCStored
    MaxSuggestions = 1
    MaxEdits = 1
    ExpiryDays = 1
    ReminderSchedule <- OneReminder
    MaxAutomaticRounds = 1
    LongestDelay = 1
    MaxRounds = 2
INVARIANTS
    SupplierIsReachable
