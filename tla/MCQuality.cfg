\* Two transactions at a time.
CONSTANTS
    d1 = d1
    d2 = d2
    q1 = q1
    q2 = q2
    x1 = x1
    x2 = x2
    Tx = {t1, t2}
    Docs = {d1, d2}
    Inspections = {q1, q2}
    Ncrs = {x1, x2}
    ExtensionOf <- MCExtensionOf
    Bodies <- MCBodies
    Linkable <- MCLinkable
    Databases <- MCDatabases
    Agendas <- MCAgendas
    MaxVersions = 2
    MaxRecordings = 2
    MaxResponses = 2
SPECIFICATION Spec
SYMMETRY Interchangeable
INVARIANTS
    EvidenceStaysReadable
    CreationsNeverCollide
    AnsweredIsNeverCancelled
PROPERTIES
    TriggersAccept
CHECK_DEADLOCK FALSE
