------------------------------ MODULE Quality -------------------------------
(***************************************************************************)
(* Documents, evidence and nonconformance reports of one project, under    *)
(* concurrent transactions.                                                *)
(***************************************************************************)
EXTENDS Documents, Nonconformance

Commands == DocumentCommands \cup EvidenceCommands \cup NcrCommands

Init ==
    /\ \E d \in Databases :
          /\ document = d.document /\ versions = d.versions
          /\ inspection = d.inspection
    /\ ncr = [x \in Ncrs |-> NoNcr]
    /\ projectOpen = TRUE /\ supplierScoped = TRUE
    /\ tx = [t \in Tx |-> Idle]
    /\ agenda \in Agendas

-----------------------------------------------------------------------------
(* Transactions. *)

IsNcr(c) == "ncr" \in DOMAIN c

Plan(c) == IF c.op = None THEN <<>> ELSE IF IsNcr(c) THEN NcrPlan(c) ELSE DocumentPlan(c)

Noted(c) == IF IsNcr(c) THEN NcrNoted(c) ELSE DocumentNoted(c)

RowVersion(c) == IF IsNcr(c) THEN ncr[c.ncr].version ELSE DocumentRowVersion(c)

\* The client expects the version its request finds.
Begin(t, c) ==
    /\ ~Running(t)
    /\ IF IsNcr(c) THEN NcrBegins(c) ELSE DocumentBegins(c)
    /\ tx' = [tx EXCEPT ![t] =
           [command |-> c, pos |-> 0, expected |-> RowVersion(c), noted |-> 0]]
    /\ UNCHANGED <<rows, agenda>>

Waiting(t) == tx[t].pos < Len(Plan(tx[t].command))

Wanted(t) == Plan(tx[t].command)[tx[t].pos + 1]

Held(t) == {Plan(tx[t].command)[n] : n \in 1..tx[t].pos} \ {Check}

TakeLock(t) ==
    /\ Waiting(t) /\ Wanted(t) # Check
    /\ \A u \in Tx \ {t} : \A held \in Held(u) : ~Conflict(Wanted(t), held)
    /\ tx' = [tx EXCEPT ![t].pos = @ + 1]
    /\ UNCHANGED <<rows, agenda>>

CheckUnderLocks(t) ==
    LET c == tx[t].command
    IN /\ Waiting(t) /\ Wanted(t) = Check
       /\ RowVersion(c) = tx[t].expected
       /\ IF IsNcr(c) THEN NcrAllowed(c) ELSE DocumentAllowed(c, tx[t].pos, tx[t].noted)
       /\ tx' = [tx EXCEPT ![t].pos = @ + 1, ![t].noted = Noted(c)]
       /\ UNCHANGED <<rows, agenda>>

\* A refusal, a conflict or a lost connection leaves nothing behind.
Abort(t) ==
    /\ Running(t)
    /\ tx' = [tx EXCEPT ![t] = Idle]
    /\ UNCHANGED <<rows, agenda>>

Commit(t) ==
    LET c == tx[t].command
    IN /\ Running(t) /\ ~Waiting(t)
       /\ RowVersion(c) = tx[t].expected
       /\ \/ /\ CreateDocument(c) \/ SupersedeDocument(c) \/ CompleteUpload(c)
                \/ ReviewVersion(c) \/ RecordEvidence(c) \/ FinalizeInspection(c)
             /\ UNCHANGED ncr
          \/ /\ CreateNcr(c, tx[t].noted) \/ TransitionNcr(c)
                \/ SubmitSupplierResponse(c, tx[t].noted)
             /\ UNCHANGED <<document, versions, inspection>>
       /\ tx' = [tx EXCEPT ![t] = Idle]
       /\ UNCHANGED <<projectOpen, supplierScoped, agenda>>

\* The project is completed or cancelled, the supplier's membership ends.
CloseProject ==
    /\ "transitionProject" \in agenda
    /\ projectOpen /\ projectOpen' = FALSE
    /\ UNCHANGED <<document, versions, inspection, ncr, supplierScoped, tx, agenda>>

RemoveSupplier ==
    /\ "updateProjectMember" \in agenda
    /\ supplierScoped /\ supplierScoped' = FALSE
    /\ UNCHANGED <<document, versions, inspection, ncr, projectOpen, tx, agenda>>

Next ==
    \/ \E t \in Tx :
          \/ \E c \in {x \in Commands : x.op \in agenda} : Begin(t, c)
          \/ TakeLock(t) \/ CheckUnderLocks(t) \/ Commit(t) \/ Abort(t)
    \/ \E d \in Docs, n \in 1..MaxVersions : Expire(d, n)
    \/ CloseProject \/ RemoveSupplier

Spec == Init /\ [][Next]_vars

-----------------------------------------------------------------------------
(* Properties. *)

\* A document an inspection cites as evidence is internal and has one approved
\* version that can be opened, for good: however replacements, reviews and
\* scans interleave with the recording of the evidence, which locks nothing of
\* the document.
EvidenceStaysReadable ==
    \A i \in Inspections :
        LET d == inspection[i].evidence
        IN d # None =>
              /\ document[d].owner = "INTERNAL"
              /\ \E n \in Approved(d) : Approved(d) = {n} /\ Downloadable(versions[d][n], FALSE)

\* The number a transaction has computed for a report or a response is still
\* free when it inserts it: no creation fails because another was faster.
CreationsNeverCollide ==
    \A t \in Tx : Running(t) /\ ~Waiting(t) =>
        LET c == tx[t].command
        IN /\ c.op = "createNcr" => tx[t].noted \notin Numbers
           /\ c.op = "respond" => tx[t].noted = ncr[c.ncr].responses + 1

\* A report the supplier has answered is answered or closed, never cancelled,
\* and was issued first; one that was never issued has no answer.
AnsweredIsNeverCancelled ==
    \A x \in Ncrs : ncr[x].responses > 0 => ncr[x].status \in {"SUPPLIER_RESPONDED", "CLOSED"}

\* The triggers never refuse what the handlers have decided, so that leaving
\* them out of the actions hides nothing.
TriggersAccept ==
    [][(\A d \in Docs : VersionGuard(d)) /\ (\A x \in Ncrs : NcrGuard(x))]_vars
=============================================================================
