SPECIFICATION LightSpec
CONSTANTS
    packaging_type = packaging_type
    recycled = recycled
    v1 = v1
    v2 = v2
    v3 = v3
    p1 = p1
    Components = {c1, c2}
    Fields = {packaging_type, recycled}
    Values = {v1, v2, v3}
    NoValue = NoValue
    NoComponent = NoComponent
    Same <- MCSame
    Docs = {d1, d2}
    Rows = {r1, r2}
    NoRow = NoRow
    SupplierFields = {recycled}
    TextFields = {}
    RequiredFields = {packaging_type}
    Valid <- MCValid
    Stored <- MCStored
    MaxSuggestions = 2
    MaxEdits = 1
    Products = {p1, p2}
    ProductOf <- MCProductOf
    LightFields = {packaging_type, recycled}
SYMMETRY Symmetry
INVARIANTS
    ReviewTypeOK
    LinksStayValid
    LightTellsTheSummary
PROPERTIES
    ValueHasProvenance
    NoSilentOverwrite
    LinkIsNeverGuessed
    ProposalsAreKept
