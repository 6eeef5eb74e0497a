----------------------------- MODULE Documents ------------------------------
(***************************************************************************)
(* Documents and their versions: upload, scan, review and replacement, the *)
(* commands of documents.service.ts and documents.repository.ts; and the   *)
(* use inspections make of an approved document.                           *)
(*                                                                         *)
(* The version of the documents row is counted up together with its        *)
(* current version number and nowhere else, so one counter is both.        *)
(***************************************************************************)
EXTENDS QualityTables

Owners == {"INTERNAL", "SUPPLIER"}

DocumentCommands ==
    [op : {"createDocument"}, doc : Docs, owner : Owners, links : SUBSET Linkable]
    \cup [op : {"supersedeDocument"}, doc : Docs, by : Owners]
    \cup [op : {"completeUpload", "submitReview"}, doc : Docs, number : 1..MaxVersions, by : Owners]
    \cup [op : {"approve", "reject"}, doc : Docs, number : 1..MaxVersions]

EvidenceCommands ==
    [op : {"recordEvidence"}, inspection : Inspections, doc : Docs, decision : {"ACCEPTED", "REJECTED"}]
    \cup [op : {"finalize"}, inspection : Inspections,
          disposition : {"ACCEPTED", "CONDITIONALLY_ACCEPTED", "REJECTED"}]

-----------------------------------------------------------------------------
(* What may be uploaded and linked. *)

Format(extension) ==
    CASE extension = "pdf" -> "PDF"
      [] extension = "png" -> "PNG"
      [] extension \in {"jpg", "jpeg"} -> "JPEG"
      [] OTHER -> "UTF8"

\* A body is the set of formats its bytes satisfy; the empty set stands for
\* one that is missing or not the announced file.
Accepts(extension, body) ==
    /\ body \cap {"ZIP", "EXECUTABLE"} = {}
    /\ Format(extension) \in body

\* The scanner answers, or cannot be reached.
ScanResults == {"CLEAN", "INFECTED", "ERROR"}

\* The object is read back and compared with what was announced.
Verified(extension, body) == body # {} /\ Accepts(extension, body)

\* Whatever fails, the upload fails.
Verdict(extension, body, scanned) ==
    IF Verified(extension, body) THEN scanned ELSE "ERROR"

\* Purchase orders and shipments of a supplier's document are its own;
\* receipts and inspections are internal.
LinkAllowed(owner, e) ==
    /\ e.inProject
    /\ owner = "SUPPLIER" =>
          /\ e.type \in {"PROJECT", "PURCHASE_ORDER", "ADVANCE_SHIPMENT_NOTICE"}
          /\ e.type # "PROJECT" => e.ownOrder

ReviewTarget(op) ==
    CASE op = "submitReview" -> "IN_REVIEW" [] op = "approve" -> "APPROVED" [] OTHER -> "REJECTED"

ReviewSource(op) == IF op = "submitReview" THEN "DRAFT" ELSE "IN_REVIEW"

ApprovedOf(history) == {n \in 1..Len(history) : history[n].status = "APPROVED"}

Approved(d) == ApprovedOf(versions[d])

\* download, for a reader of the owner's side or the internal organization.
Downloadable(v, mayReview) ==
    /\ v.scan = "CLEAN"
    /\ v.status \in {"APPROVED", "IN_REVIEW"}
    /\ v.status = "IN_REVIEW" => mayReview

-----------------------------------------------------------------------------
(***************************************************************************)
(* What the tables of documents and inspections hold between commands; the *)
(* empty database is like this, and so must be one that is started from.   *)
(***************************************************************************)
Versions ==
    [status : {"QUARANTINED", "SCAN_FAILED", "DRAFT", "IN_REVIEW", "APPROVED", "REJECTED",
               "SUPERSEDED"},
     scan : {"PENDING"} \cup ScanResults, version : Nat, expired : BOOLEAN]

\* One number for each version, none but the scanned ones beyond quarantine,
\* at most one of them approved, and links its owner may have.
DocumentInOrder(row, history) ==
    /\ row \in [owner : Owners \cup {None}, current : Nat, links : SUBSET Linkable]
    /\ history \in Seq(Versions)
    /\ row.current = Len(history)
    /\ row.owner = None <=> history = <<>>
    /\ row.owner = None => row.links = {}
    /\ \A e \in row.links : LinkAllowed(row.owner, e)
    /\ \A n \in 1..Len(history) :
          history[n].status \notin {"QUARANTINED", "SCAN_FAILED"} => history[n].scan = "CLEAN"
    /\ \A m, n \in ApprovedOf(history) : m = n

TablesInOrder(documents, histories, inspections) ==
    /\ documents = [d \in Docs |-> documents[d]] /\ histories = [d \in Docs |-> histories[d]]
    /\ \A d \in Docs : DocumentInOrder(documents[d], histories[d])
    /\ inspections \in
          [Inspections -> [status : {"OPEN", "FINALIZED"},
                           disposition : {None, "ACCEPTED", "CONDITIONALLY_ACCEPTED", "REJECTED"},
                           evidence : Docs \cup {None}, conforming : BOOLEAN, version : Nat]]
    /\ \A i \in Inspections :
          LET d == inspections[i].evidence
          IN d # None => documents[d].owner = "INTERNAL" /\ ApprovedOf(histories[d]) # {}

ASSUME DatabasesInOrder ==
    \A b \in Databases : TablesInOrder(b.document, b.versions, b.inspection)

-----------------------------------------------------------------------------
(* Beginning of a request: what is read before the transaction. *)

Addressed(c) == Drafted(c.doc) /\ c.number \in 1..Len(versions[c.doc])

DocumentBegins(c) ==
    \/ c.op = "createDocument" /\ ~Drafted(c.doc)
    \/ c.op = "supersedeDocument" /\ document[c.doc].owner = c.by
    \/ /\ c.op = "completeUpload" /\ Addressed(c)
       /\ document[c.doc].owner = c.by
       /\ ~versions[c.doc][c.number].expired
    \/ c.op = "submitReview" /\ Addressed(c) /\ document[c.doc].owner = c.by
    \/ c.op \in {"approve", "reject"} /\ Addressed(c)
    \/ /\ c.op = "recordEvidence" /\ Drafted(c.doc)
       /\ inspection[c.inspection].version < MaxRecordings
    \/ c.op = "finalize"

DocumentRowVersion(c) ==
    CASE c.op \in {"createDocument", "supersedeDocument"} -> document[c.doc].current
      [] c.op \in {"recordEvidence", "finalize"} -> inspection[c.inspection].version
      [] OTHER -> versions[c.doc][c.number].version

\* Approval also updates the version it replaces; approvedEvidence reads the
\* document and its versions one after the other, and locks neither.
DocumentPlan(c) ==
    CASE c.op = "createDocument" -> <<Check>>
      [] c.op = "supersedeDocument" -> <<Lock("documents", c.doc, "UPDATE"), Check>>
      [] c.op = "approve" ->
            <<Lock("document_versions", <<c.doc, c.number>>, "UPDATE"), Check>>
            \o LockAll("document_versions", {<<c.doc, n>> : n \in Approved(c.doc)}, "UPDATE")
      [] c.op = "recordEvidence" ->
            <<Lock("inspections", c.inspection, "UPDATE"), Check, Check>>
      [] c.op = "finalize" -> <<Lock("inspections", c.inspection, "UPDATE"), Check>>
      [] OTHER -> <<Lock("document_versions", <<c.doc, c.number>>, "UPDATE"), Check>>

-----------------------------------------------------------------------------
(* What a transaction requires of what it reads under its locks. *)

ReviewAllowed(c) ==
    LET v == versions[c.doc][c.number]
    IN /\ c.op \in {"submitReview", "approve", "reject"}
       /\ v.status = ReviewSource(c.op)
       /\ v.scan = "CLEAN"
       /\ projectOpen
       /\ c.number = document[c.doc].current

\* The second read: the version that was current at the first.
EvidenceApproved(c, number) ==
    versions[c.doc][number].status = "APPROVED" /\ versions[c.doc][number].scan = "CLEAN"

EvidenceAllowed(c, pos, noted) ==
    /\ c.op = "recordEvidence"
    /\ inspection[c.inspection].status = "OPEN"
    /\ \E e \in document[c.doc].links : e.inspection = c.inspection
    /\ pos = 2 => EvidenceApproved(c, noted)

DocumentAllowed(c, pos, noted) ==
    \/ /\ c.op = "createDocument" /\ projectOpen
       /\ \A e \in c.links : LinkAllowed(c.owner, e)
    \/ /\ c.op = "supersedeDocument" /\ projectOpen
       /\ Last(versions[c.doc]).status = "APPROVED"
       /\ document[c.doc].current < MaxVersions
    \/ /\ c.op = "completeUpload"
       /\ versions[c.doc][c.number].status = "QUARANTINED"
       /\ versions[c.doc][c.number].scan = "PENDING"
    \/ ReviewAllowed(c)
    \/ EvidenceAllowed(c, pos, noted)
    \/ /\ c.op = "finalize" /\ inspection[c.inspection].status = "OPEN"
       \* The certificate is the inspection's required check.
       /\ inspection[c.inspection].evidence # None
       /\ c.disposition = "ACCEPTED" => inspection[c.inspection].conforming

\* What the handler keeps in memory between its reads.
DocumentNoted(c) == IF c.op = "recordEvidence" THEN document[c.doc].current ELSE 0

-----------------------------------------------------------------------------
(* Writes. *)

CreateDocument(c) ==
    /\ c.op = "createDocument" /\ ~Drafted(c.doc)
    /\ document' = [document EXCEPT ![c.doc] =
           [owner |-> c.owner, current |-> 1, links |-> c.links]]
    /\ versions' = [versions EXCEPT ![c.doc] = <<NewVersion>>]
    /\ UNCHANGED inspection

SupersedeDocument(c) ==
    /\ c.op = "supersedeDocument"
    /\ document' = [document EXCEPT ![c.doc].current = @ + 1]
    /\ versions' = [versions EXCEPT ![c.doc] = Append(@, NewVersion)]
    /\ UNCHANGED inspection

Scanned(old, verdict) ==
    [old EXCEPT !.status = IF verdict = "CLEAN" THEN "DRAFT" ELSE "SCAN_FAILED",
                !.scan = verdict, !.version = @ + 1]

CompleteUpload(c) ==
    \E body \in Bodies, scanned \in ScanResults :
        LET verdict == Verdict(ExtensionOf[c.doc], body, scanned)
        IN /\ c.op = "completeUpload"
           /\ versions' = [versions EXCEPT ![c.doc][c.number] =
                              Scanned(versions[c.doc][c.number], verdict)]
           /\ UNCHANGED <<document, inspection>>

\* Slip: the version an approval replaces stays approved.
ReplacesNothing(c) == {}

Replaced(c) == IF c.op = "approve" THEN Approved(c.doc) \ {c.number} ELSE {}

Moved(old, status) == [old EXCEPT !.status = status, !.version = @ + 1]

ReviewVersion(c) ==
    LET history == versions[c.doc]
        Reviewed(n) ==
            IF n = c.number THEN Moved(history[n], ReviewTarget(c.op))
            ELSE IF n \in Replaced(c) THEN Moved(history[n], "SUPERSEDED")
            ELSE history[n]
    IN /\ c.op \in {"submitReview", "approve", "reject"}
       /\ versions' = [versions EXCEPT ![c.doc] = [n \in 1..Len(history) |-> Reviewed(n)]]
       /\ UNCHANGED <<document, inspection>>

RecordEvidence(c) ==
    /\ c.op = "recordEvidence"
    /\ inspection' = [inspection EXCEPT ![c.inspection].evidence = c.doc,
                                        ![c.inspection].conforming = (c.decision = "ACCEPTED"),
                                        ![c.inspection].version = @ + 1]
    /\ UNCHANGED <<document, versions>>

FinalizeInspection(c) ==
    /\ c.op = "finalize"
    /\ inspection' = [inspection EXCEPT ![c.inspection].status = "FINALIZED",
                                        ![c.inspection].disposition = c.disposition,
                                        ![c.inspection].version = @ + 1]
    /\ UNCHANGED <<document, versions>>

\* The five minutes of an upload session pass.
Expire(d, n) ==
    /\ n \in 1..Len(versions[d])
    /\ versions[d][n].status = "QUARANTINED" /\ ~versions[d][n].expired
    /\ versions' = [versions EXCEPT ![d][n].expired = TRUE]
    /\ UNCHANGED <<document, inspection, ncr, projectOpen, supplierScoped, tx, agenda>>

-----------------------------------------------------------------------------
(* The row triggers on document_versions. *)

VersionGuard(d) ==
    /\ \A n \in 1..Len(versions[d]) :
          LET old == versions[d][n]
              new == versions'[d][n]
          IN /\ new.status # old.status =>
                   <<old.status, new.status>> \in
                       {<<"QUARANTINED", "DRAFT">>, <<"QUARANTINED", "SCAN_FAILED">>,
                        <<"DRAFT", "IN_REVIEW">>, <<"IN_REVIEW", "APPROVED">>,
                        <<"IN_REVIEW", "REJECTED">>, <<"APPROVED", "SUPERSEDED">>}
             /\ old.status = "APPROVED" /\ new # old => new.status = "SUPERSEDED"
             /\ new.scan # old.scan => old.scan = "PENDING"
             /\ new.status \notin {"QUARANTINED", "SCAN_FAILED"} => new.scan = "CLEAN"
    /\ \A n \in (Len(versions[d]) + 1)..Len(versions'[d]) :
          versions'[d][n].status = "QUARANTINED" /\ versions'[d][n].scan = "PENDING"
=============================================================================
