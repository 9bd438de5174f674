CONSTANTS
    None = None
    c1 = c1
    c2 = c2
    e1 = e1
    e2 = e2
    e3 = e3
    User = User
    Admin = Admin
    Ids = {1, 2, 3}
    Emails = {e1, e2, e3}
    Roles = {User, Admin}
    UserRole = User
    AdminRole = Admin
    Clients = {c1}
    Evict = TRUE
    InitUsers <- MCInitUsers
    PageLimit = 1
SPECIFICATION Spec
INVARIANT TypeOK
INVARIANT ByIdCoherent
INVARIANT UserListingComplete
