\* An imported tenant, perhaps without an effective administrator, and two platform administrators.
SPECIFICATION ImportedSpec
CONSTANTS
    User = {root, ops, ann}
    Platform = {root, ops}
    Tenant = {hq}
    Role = {r1, r2}
    Expiry = {"never", "later"}
    NoTenant = NoTenant
SYMMETRY Symmetry
PROPERTIES LastAdminStays
\* An imported database may have no member who can act.
CHECK_DEADLOCK FALSE
