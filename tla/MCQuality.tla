----------------------------- MODULE MCQuality ------------------------------
(***************************************************************************)
(* Two documents, one of them approved from the start, one inspection open *)
(* and one rejected, and two reports.                                      *)
(***************************************************************************)
EXTENDS Quality, TLC

CONSTANTS d1, d2, q1, q2, x1, x2

Link(type, i, inProject) ==
    [type |-> type, inspection |-> i, inProject |-> inProject, ownOrder |-> TRUE]

MCLinkable == {Link("RECEIVING_INSPECTION", q1, TRUE), Link("BOM", None, FALSE)}

MCExtensionOf == [d \in {d1, d2} |-> IF d = d1 THEN "pdf" ELSE "txt"]

MCBodies == {{}, {"PDF", "UTF8"}, {"UTF8", "ZIP"}}

Inspection(status, disposition) ==
    [status |-> status, disposition |-> disposition, evidence |-> None,
     conforming |-> FALSE, version |-> 1]

MCDatabases ==
    {[document |-> d1 :> [owner |-> "INTERNAL", current |-> 1,
                          links |-> {Link("RECEIVING_INSPECTION", q1, TRUE)}]
                   @@ d2 :> NoDocument,
      versions |-> d1 :> <<[NewVersion EXCEPT !.status = "APPROVED", !.scan = "CLEAN"]>>
                   @@ d2 :> <<>>,
      inspection |-> q1 :> Inspection("OPEN", None) @@ q2 :> Inspection("FINALIZED", "REJECTED")]}

MCAgendas ==
    { {"supersedeDocument", "completeUpload", "submitReview", "approve", "reject",
       "recordEvidence", "finalize"},
      {"createDocument", "completeUpload", "submitReview", "approve", "recordEvidence",
       "transitionProject"},
      {"createNcr", "issue", "cancel", "close", "respond", "updateProjectMember"},
      {"supersedeDocument", "finalize", "recordEvidence", "createNcr", "transitionProject"} }

Interchangeable == Permutations(Tx) \cup Permutations(Ncrs)
=============================================================================
