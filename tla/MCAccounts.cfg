SPECIFICATION Spec
CONSTANTS
    Session = {s1, s2}
    Name = {admin}
    AdminName = admin
    NoName = NoName
    Role = {"SuperAdmin", "Admin", "Visitor"}
    NoRow = NoRow
    Undone = Undone
SYMMETRY Sessions
INVARIANTS
    TypeOK
    AccountSurvives
    RolesAreAsGiven
