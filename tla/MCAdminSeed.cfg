CONSTANTS
    None = None
    a1 = a1
    a2 = a2
    e1 = e1
    User = User
    Admin = Admin
    Ids = {1, 2, 3}
    Emails = {a1, a2, e1}
    Roles = {User, Admin}
    UserRole = User
    AdminRole = Admin
    AdminEmails <- MCAdminEmails
SPECIFICATION Spec
INVARIANT AdminsSeeded
