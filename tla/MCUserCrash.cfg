CONSTANTS
    None = None
    r1 = r1
    r2 = r2
    a1 = a1
    a2 = a2
    w1 = w1
    e1 = e1
    e2 = e2
    User = User
    Admin = Admin
    Owners <- MCOwners
    TodoIds <- MCTodoIds
    BatchSize = 1
    PageLimit = 1
    Deleters = {}
    Pagers = {}
    Actors = {}
    InitTodos <- MCUserTodos
    Emails = {e1, e2}
    Roles = {User, Admin}
    UserRole = User
    Registrars = {r1}
    Admins = {a1, a2}
    Writers = {}
    InitUsers <- MCInitUsers
SPECIFICATION UserCrashSpec
INVARIANT NoOrphanTodos
