\* One change, or two that overlap.
CONSTANTS
    admin = admin
    user = user
    meco = meco
    alpha = alpha
    adm = adm
    int = int
    sup = sup
    Users = {admin, user}
    ActiveUsers = {admin, user}
    Logins = {l1, l2}
    Callbacks = {c1, c2}
    Requests = {r1, r2}
    Organizations = {meco, alpha}
    TypeOf <- MCTypeOf
    Memberships = {adm, int, sup}
    UserOf <- MCUserOf
    OrganizationOf <- MCOrganizationOf
    InitialMemberships = {adm}
    InitialRoles <- MCInitialRoles
    RoleChoices <- MCRoleChoices
    Assigned = {adm, int, sup}
    Managed = {int, sup}
    MaxChanges = 1
SPECIFICATION Spec
SYMMETRY MCInterchangeable
INVARIANTS
    OneSessionPerLogin
    ChangesAreDuties
PROPERTIES
    RolesAreOneChoice
CHECK_DEADLOCK FALSE
