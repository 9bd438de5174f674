CONSTANTS
    None = None
    c1 = c1
    c2 = c2
    x = x
    y = y
    g = g
    NoGrp = NoGrp
    Owners = {1}
    TodoIds = {1, 2}
    Texts = {x, y}
    Groups = {NoGrp, g}
    NoGroup = NoGrp
    Patches <- MCPatches
    Clients = {c1, c2}
    InitV1 <- MCInitV1
SPECIFICATION Spec
INVARIANT TypeOK
INVARIANT NoLostPatch
