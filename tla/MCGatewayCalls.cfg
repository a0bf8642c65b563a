\* Three requests compete for two slots and two rows, and fail in every way.
\* For the editor: two roles and two resources, pages of one row, two loads.
SPECIFICATION GatewaySpec
CONSTANTS
    Upload = {r1, r2, r3}
    File = {f1, f2}
    MaxConcurrent = 2
    NoFile = NoFile
    menu = menu
    list = list
    own = own
    unit = unit
    Role = {clerk, admin}
    Administrators = {admin}
    Resource = {menu, list}
    DataScope = {own, unit}
    Personal = own
    PageSize = 1
    MaxPages = 3
    MaxLoads = 2
    MaxActs = 2
    MaxChanges = 1
    None = None
INVARIANTS TypeOK ConfirmedHasObject ShownIsConfirmed FailedUploadsReclaimed SavesTheSelectedRole
PROPERTIES EveryUploadEnds 
