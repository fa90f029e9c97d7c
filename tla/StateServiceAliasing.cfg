SPECIFICATION Spec
CONSTANTS
    ledger = ledger
    inner = inner
    item = item
    j = j
    k = k
    flat = flat
    a = a
    b = b
    Fields = {ledger, flat}
    Vars = {inner, item}
    Keys = {j, k}
    Scalars = {a, b}
    Yes = a
    No = b
    Absent = Absent
    Kind <- FlatKind
    MaxKind = 1
    MaxFresh = 4
    InPlaceOnly = FALSE
PROPERTIES BindingsImmutable
SYMMETRY KeySymmetry
