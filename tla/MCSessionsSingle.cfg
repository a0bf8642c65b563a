\* A platform administrator and an account, both with the single-login policy.
SPECIFICATION Spec
CONSTANTS
    User = {root, ann}
    SingleLogin = {root, ann}
    PlatformAdmin = {root}
    Token = {t1, t2, t3}
    Client = {c1, c2}
    Password = {p}
    Email = {}
    NoEmail = NoEmail
    NoSession = NoSession
    NoAttempt = NoAttempt
    TTL = 1
    MaxVersion = 4
    MaxTime = 1
SYMMETRY Symmetry
INVARIANTS OneLiveSession
PROPERTIES DeadStaysDead ImplementsRegistry
\* The bounds on versions, tokens and time end every behaviour.
CHECK_DEADLOCK FALSE
