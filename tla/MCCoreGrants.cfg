\* One tenant, an application with two resources and a link, two roles; three organizations,
\* a position and two members.
SPECIFICATION Spec
CONSTANTS
    basic = basic
    system = system
    link = link
    menu = menu
    list = list
    op = op
    acme = acme
    admin = admin
    clerk = clerk
    Tenant = {acme}
    App = {basic, system, link}
    Basic = basic
    System = system
    Third = {link}
    Resource = {menu, list}
    Operation = {op}
    Role = {admin, clerk}
    AppOf <- MCAppOf
    ServedBy <- MCServedBy
    TenantOf <- MCTenantOf
    AdminRole <- MCAdminRole
    None = None
    Company = {acme}
    Org = {o1, o2, o3}
    Position = {p}
    Member = {m1, m2}
    CompanyOf <- MCCompanyOf
    NoOrg = NoOrg
SYMMETRY Symmetry
INVARIANTS GrantsWithinEntitlement CatalogSound PlacesSound ScopesFollowTree
