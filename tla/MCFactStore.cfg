CONSTANTS
    FactIds = {1, 2, 3}
    r1 = r1
    r2 = r2
    a1 = a1
    c1 = c1
    c2 = c2
    Relations = {r1, r2}
    Connections = {c1, c2}
    ArgLists <- MCArgLists
    Offered <- MCOffered
    None = None
SPECIFICATION Spec
INVARIANTS JobsSound VerdictsHold WarrantsGrounded
PROPERTIES KeepsLog
SYMMETRY MCSymmetry
