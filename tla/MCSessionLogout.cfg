CONSTANTS
    None = None
    c1 = c1
    c2 = c2
    s1 = s1
    s2 = s2
    j1 = j1
    j2 = j2
    j3 = j3
    j4 = j4
    Users = {1}
    Sids = {s1, s2}
    Jtis = {j1, j2, j3, j4}
    Clients = {c1, c2}
SPECIFICATION Spec
INVARIANT TypeOK
INVARIANT LoggedOutStaysDeleted
