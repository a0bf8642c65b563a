\* A tool is granted, used and revoked while one turn runs.
SPECIFICATION Spec
CONSTANTS
    Request = {r1}
    Tool = {x}
    Size = {1}
    LeaseTTL = 2
    MaxHistory = 2
    MaxSize = 2
    MaxTurns = 2
SYMMETRY Symmetry
INVARIANTS NoRevokedResults
