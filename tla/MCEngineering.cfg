\* Two transactions at a time, two or three in all.
CONSTANTS
    p1 = p1
    p2 = p2
    k1 = k1
    k2 = k2
    mgr = mgr
    lead = lead
    vendor = vendor
    ms1 = ms1
    ms2 = ms2
    wp1 = wp1
    wp2 = wp2
    cat = cat
    other = other
    kg = kg
    pc = pc
    new = new
    a1 = a1
    a2 = a2
    i1 = i1
    i2 = i2
    r1 = r1
    r2 = r2
    r3 = r3
    Tx = {t1, t2}
    Agendas <- MCAgendas
    Databases <- MCDatabases
    Projects = {p1, p2}
    ProductCategories = {k1, k2}
    Memberships = {mgr, lead, vendor}
    Suppliers = {vendor}
    Milestones = {ms1, ms2}
    Packages = {wp1, wp2}
    Dates = {1, 2}
    ItemCategories = {cat, other}
    Units = {kg, pc, new}
    Attributes = {a1, a2}
    Items = {i1, i2}
    ItemCategoryOf <- MCItemCategoryOf
    DataTypes = {"NUMBER"}
    MaxPrecision = 1
    Revisions = {r1, r2, r3}
    ProjectOf <- MCProjectOf
    RowsOf <- MCRowsOf
SPECIFICATION Spec
SYMMETRY Interchangeable
INVARIANTS
    HistoriesChain
    ItemMasterHolds
    WaitCyclesInvolveRelease
PROPERTIES
    ReleaseReplaces
    
CHECK_DEADLOCK FALSE
