SPECIFICATION AccountsSpec
CONSTANTS
    boss = boss
    clerk = clerk
    owner = owner
    desk = desk
    User = {boss, clerk}
    Role = {owner, desk}
    Owner = owner
    Permission = {"role.manage", "user.manage", "customer.update"}
    Hired <- OnlyBoss
    Granted <- DeskRole
    Matrix <- Matrices
    Handler = {h1, h2}
    MaxRequests = 4
    Omitted = Omitted
SYMMETRY Symmetry
CHECK_DEADLOCK FALSE
INVARIANTS
    SecretsOpenOnce
    SessionsEnd
    RecoveryPathSurvives
