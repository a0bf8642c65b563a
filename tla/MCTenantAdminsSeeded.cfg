\* From the seed: two tenants, one of which is created, approved and administered.
SPECIFICATION Spec
CONSTANTS
    User = {root, ann}
    Platform = {root}
    Tenant = {hq, acme}
    Role = {r1, r2, r3}
    Expiry = {"never"}
    NoTenant = NoTenant
SYMMETRY Symmetry
INVARIANTS TypeOK ApprovedTenantHasAdmin LinksJoinMembers 
PROPERTIES TenantIsolation
