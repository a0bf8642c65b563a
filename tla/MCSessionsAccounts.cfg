\* An imported account without the single-login policy, whose logins upgrade the
\* hash and leave the version alone, passwords that change, and an address that
\* two imported accounts may share.
SPECIFICATION Spec
CONSTANTS
    User = {root, bob}
    SingleLogin = {root}
    PlatformAdmin = {root}
    Token = {t1, t2}
    Client = {c1}
    Password = {p, q}
    Email = {e}
    NoEmail = NoEmail
    NoSession = NoSession
    NoAttempt = NoAttempt
    TTL = 1
    MaxVersion = 3
    MaxTime = 1
SYMMETRY Symmetry
INVARIANTS LiveTokenKnowsPassword NoSessionOutlivesRevocation
PROPERTIES  NoNewSharedEmail
\* The bounds on versions, tokens and time end every behaviour.
CHECK_DEADLOCK FALSE
