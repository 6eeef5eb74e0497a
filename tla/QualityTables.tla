--------------------------- MODULE QualityTables ----------------------------
(***************************************************************************)
(* The rows behind documents, the evidence inspections cite and            *)
(* nonconformance reports (NCRs) of one project, and the transactions that *)
(* work on them at READ COMMITTED.                                         *)
(***************************************************************************)
EXTENDS RowLocks, FiniteSets, FiniteSetsExt

CONSTANTS
    Tx,                 \* connections to the database
    Docs, Inspections, Ncrs,
    ExtensionOf,        \* declared extension of a document's files
    Bodies,             \* bound: what may have been uploaded, see Accepts
    Linkable,           \* bound: what a document may be linked to
    Databases,          \* bound: what the tables hold at the start
    Agendas,            \* bound: the commands used together
    MaxVersions,        \* bound: versions of a document
    MaxRecordings,      \* bound: recordings in an inspection
    MaxResponses        \* bound: a supplier's responses to an NCR

ASSUME QualityAssumption ==
    /\ MaxVersions \in Nat /\ MaxRecordings \in Nat /\ MaxResponses \in Nat
    /\ \A e \in Linkable : e.inspection \in Inspections => e.type = "RECEIVING_INSPECTION"
    /\ ExtensionOf \in [Docs -> {"pdf", "png", "jpg", "jpeg", "txt", "csv"}]

VARIABLES
    document,       \* owner, current version number and links of a document
    versions,       \* its versions, the one numbered n in place n
    inspection,     \* status, disposition and cited evidence
    ncr,
    projectOpen,    \* neither completed nor cancelled
    supplierScoped, \* the supplier has an active member in the project
    tx,             \* what each connection is doing
    agenda          \* the bound of this behaviour

rows == <<document, versions, inspection, ncr, projectOpen, supplierScoped>>
vars == <<rows, tx, agenda>>

None == "none"

NoDocument == [owner |-> None, current |-> 0, links |-> {}]

\* document_versions begin in quarantine, unscanned.
NewVersion == [status |-> "QUARANTINED", scan |-> "PENDING", version |-> 1, expired |-> FALSE]

NoNcr == [status |-> None, number |-> 0, responses |-> 0, version |-> 0]

Drafted(d) == document[d].owner # None

Idle == [command |-> [op |-> None], pos |-> 0, expected |-> 0, noted |-> 0]

Running(t) == tx[t].command.op # None
=============================================================================
