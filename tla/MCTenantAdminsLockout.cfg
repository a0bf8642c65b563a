\* An administrator edits the expiry date of its own tenant.
SPECIFICATION Spec
CONSTANTS
    User = {root, ann}
    Platform = {root}
    Tenant = {hq, acme}
    Role = {r1, r2}
    Expiry = {"never", "later", "past"}
    NoTenant = NoTenant
SYMMETRY Symmetry
INVARIANTS PlatformAdminCanAct
