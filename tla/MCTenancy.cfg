\* Calls stop when MaxCalls of them were made: the run may end.
CHECK_DEADLOCK FALSE
SPECIFICATION Spec
CONSTANTS
    u1 = u1
    u2 = u2
    e1 = e1
    e2 = e2
    Subjects = {u1, u2}
    Emails = {e1, e2, NoEmail}
    NoEmail = NoEmail
    Tokens <- TokensDef
    Companies = {c1, c2}
    Suppliers = {s1, s2}
    Products = {p1, p2}
    Requests = {q1}
    None = None
    Calls = {k1, k2}
    MaxCalls = 8
SYMMETRY Symmetry
INVARIANTS
    TypeOK
    TenantsNeverMix
    OnboardedOnce
PROPERTIES
    RequestCoversItsSupplier
