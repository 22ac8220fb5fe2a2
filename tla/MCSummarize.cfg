SPECIFICATION Spec
CONSTANTS
    c1 = c1
    c2 = c2
    material = material
    weight = weight
    v10 = v10
    v100 = v100
    v9 = v9
    Components = {c1, c2}
    Fields = {material, weight}
    Values = {v10, v100, v9}
    NoValue = NoValue
    NoComponent = NoComponent
    Same <- MCSame
    MaxPending = 2
INVARIANTS
    TypeOK
    ResultIsTheDefinition
    AnswerIsHonest
SYMMETRY Symmetry
CHECK_DEADLOCK FALSE
