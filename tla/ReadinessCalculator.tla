------------------------- MODULE ReadinessCalculator -------------------------
(***************************************************************************)
(* packages/readiness/src/readiness-calculator.ts: the readiness of a set  *)
(* of requirement lines on a date.  Pure operators.  Dates are day         *)
(* numbers, 0 where there is none; scores are kept in hundredths.          *)
(***************************************************************************)
EXTENDS RequirementStatus, FiniteSets

CriticalityWeights == [CRITICAL |-> 8, HIGH |-> 4, NORMAL |-> 2, LOW |-> 1]

StageScores ==
  [NOT_STARTED |-> 0, REQUISITIONED |-> 15, ORDERED |-> 30, CONFIRMED |-> 45, SHIPPED |-> 60,
   RECEIVED |-> 70, ACCEPTED |-> 80, CERTIFICATE_COMPLETE |-> 90, ALLOCATED |-> 95,
   COMPLETE |-> 100]

ActionByBlocker ==
  [ACCEPTANCE_SHORTFALL |-> "COMPLETE_INSPECTION",
   ALLOCATION_SHORTFALL |-> "ALLOCATE_ACCEPTED_MATERIAL",
   CERTIFICATE_INCOMPLETE |-> "COMPLETE_CERTIFICATE_REVIEW",
   INSPECTION_PENDING |-> "COMPLETE_INSPECTION",
   ORDER_SHORTFALL |-> "PLACE_ORDER",
   QUARANTINED_MATERIAL |-> "RESOLVE_QUARANTINE",
   RECEIPT_SHORTFALL |-> "RECEIVE_MATERIAL",
   REJECTED_MATERIAL |-> "REPLACE_REJECTED_MATERIAL",
   REQUISITION_SHORTFALL |-> "RAISE_REQUISITION",
   SHIPMENT_SHORTFALL |-> "EXPEDITE_SHIPMENT",
   SUPPLIER_CONFIRMATION_MISSING |-> "OBTAIN_SUPPLIER_CONFIRMATION"]

(***************************************************************************)
(* What is wrong with one line.                                            *)
(***************************************************************************)
Complete(line) == line.stage = "COMPLETE" /\ line.shortage = 0

Late(line) == line.commitment > line.due

CertificateMissing(line) ==
  line.certificateRequired /\ line.certificateComplete < line.required

Critical(line) == line.criticality = "CRITICAL"

DueWithin(line, date, days) == line.due - date <= days

\* A critical line that makes the whole scope RED whatever its score.
RedGate(line, date) ==
  /\ Critical(line)
  /\ \/ line.openNcrs > 0
     \/ Late(line)
     \/ line.blocker \in {"REJECTED_MATERIAL", "QUARANTINED_MATERIAL"}
     \/ CertificateMissing(line)
     \/ line.shortage > 0 /\ DueWithin(line, date, 0)

LineBlockers(line) ==
  (IF line.blocker # "NONE" THEN {line.blocker} ELSE {})
    \cup (IF line.openNcrs > 0 THEN {"OPEN_NCR"} ELSE {})
    \cup (IF Late(line) THEN {"LATE_COMMITMENT"} ELSE {})
    \cup (IF Critical(line) /\ CertificateMissing(line) THEN {"CERTIFICATE_INCOMPLETE"} ELSE {})

LineActions(line) ==
  {CASE b = "OPEN_NCR" -> "RESOLVE_NCR"
     [] b = "LATE_COMMITMENT" -> "EXPEDITE_LATE_COMMITMENT"
     [] OTHER -> ActionByBlocker[b] : b \in LineBlockers(line)}

ShortageReasons(line, date) ==
  IF line.shortage = 0 THEN {}
  ELSE IF Critical(line) /\ DueWithin(line, date, 0) THEN {"CRITICAL_SHORTAGE_DUE"}
  ELSE IF DueWithin(line, date, 30) THEN {"SHORTAGE_DUE_SOON"}
  ELSE IF line.criticality = "LOW" THEN {"FUTURE_LOW_PRIORITY_SHORTAGE"}
  ELSE {}

LineReasons(line, date) ==
  LET either(critical, other) == IF Critical(line) THEN {critical} ELSE {other}
      blockedBy(b) == Critical(line) /\ line.blocker = b
  IN (IF line.accepted > 0 /\ line.accepted < line.required THEN {"PARTIAL_ACCEPTANCE"} ELSE {})
       \cup (IF line.openNcrs > 0 THEN either("CRITICAL_OPEN_NCR", "OPEN_NCR") ELSE {})
       \cup (IF Late(line) THEN either("CRITICAL_LATE_COMMITMENT", "LATE_COMMITMENT") ELSE {})
       \cup (IF blockedBy("REJECTED_MATERIAL") THEN {"CRITICAL_REJECTED_MATERIAL"} ELSE {})
       \cup (IF blockedBy("QUARANTINED_MATERIAL") THEN {"CRITICAL_QUARANTINED_MATERIAL"} ELSE {})
       \cup (IF Critical(line) /\ CertificateMissing(line)
             THEN {"CRITICAL_CERTIFICATE_MISSING"} ELSE {})
       \cup ShortageReasons(line, date)

(***************************************************************************)
(* The scope: lines is a set, scope.projectNcrs the unresolved nonconfor-  *)
(* mance reports of the project itself.                                    *)
(***************************************************************************)
\* Points over weight in hundredths, rounded half up.
Score(lines) ==
  LET weight(line) == CriticalityWeights[line.criticality]
      total == SumOver(lines, weight)
      points == SumOver(lines, LAMBDA line : StageScores[line.stage] * weight(line))
  IN (200 * points + total) \div (2 * total)

BlockerCount(scope) ==
  (IF scope.projectNcrs > 0 THEN 1 ELSE 0)
    + SumOver(scope.lines, LAMBDA line : Cardinality(LineBlockers(line)))

\* Mutant: what is due within thirty days is not looked at.
OnlyLowPriorityShortage(scope) ==
  /\ scope.projectNcrs = 0
  /\ \A line \in scope.lines :
       /\ line.openNcrs = 0
       /\ ~Late(line)
       /\ (line.shortage > 0 /\ line.criticality = "LOW") \/ Complete(line)

OnlyFutureLowPriorityShortage(scope) ==
  /\ scope.projectNcrs = 0
  /\ \A line \in scope.lines :
       /\ line.openNcrs = 0
       /\ ~Late(line)
       /\ IF line.shortage > 0
          THEN line.criticality = "LOW" /\ ~DueWithin(line, scope.date, 30)
          ELSE Complete(line)

AllComplete(scope) ==
  /\ scope.projectNcrs = 0
  /\ \A line \in scope.lines :
       Complete(line) /\ line.blocker = "NONE" /\ line.openNcrs = 0 /\ ~Late(line)

Gated(scope) == \E line \in scope.lines : RedGate(line, scope.date)

Status(scope, score) ==
  IF AllComplete(scope) THEN "COMPLETE"
  ELSE IF Gated(scope) \/ score < 6000 THEN "RED"
  ELSE IF OnlyFutureLowPriorityShortage(scope) /\ score >= 8500 THEN "GREEN"
  ELSE IF score < 8500 \/ BlockerCount(scope) > 0 THEN "AMBER"
  ELSE "GREEN"

ReasonCodes(scope, score, status) ==
  (IF scope.projectNcrs > 0 THEN {"OPEN_NCR"} ELSE {})
    \cup UNION {LineReasons(line, scope.date) : line \in scope.lines}
    \cup (IF status = "RED" /\ ~Gated(scope) THEN {"WEIGHTED_SCORE_RED"} ELSE {})
    \cup (IF status = "AMBER" /\ score < 8500 THEN {"WEIGHTED_SCORE_AMBER"} ELSE {})

\* Nothing is released in the scope.
NoRequirements ==
  [status |-> "RED", score |-> 0, blockers |-> 1, reasons |-> {"NO_RELEASED_REQUIREMENTS"},
   actions |-> {<<0, "RELEASE_REQUIREMENT">>}, critical |-> 0, readyCritical |-> 0]

CalculateReadiness(scope) ==
  LET score == Score(scope.lines)
      status == Status(scope, score)
  IN
  IF scope.lines = {} THEN NoRequirements
  ELSE [status |-> status,
        score |-> score,
        blockers |-> BlockerCount(scope),
        reasons |-> ReasonCodes(scope, score, status),
        actions |-> (IF scope.projectNcrs > 0 THEN {<<0, "RESOLVE_NCR">>} ELSE {})
                      \cup UNION {{line.need} \X LineActions(line) : line \in scope.lines},
        critical |-> Cardinality({line \in scope.lines : Critical(line)}),
        readyCritical |-> Cardinality({line \in scope.lines : Critical(line) /\ Complete(line)})]

\* Lines the calculation refuses.
LineRejected(line) ==
  \/ line.required <= 0
  \/ line.certificateComplete > line.accepted
  \/ line.shortage # IF line.required > line.allocated THEN line.required - line.allocated ELSE 0

-----------------------------------------------------------------------------
(***************************************************************************)
(* apps/worker/src/readiness-input.repository.ts: the rows of a project,   *)
(* read in one transaction, made into the scopes readiness is calculated   *)
(* for.  Rows are                                                          *)
(*   [needs        : function from the lines of released revisions to      *)
(*                   [required, criticality, item, workPackage, due],      *)
(*    requisitions, allocations : functions from ids to rows,              *)
(*    supply       : function from ids to supply lines,                    *)
(*    certificates : items with an active required certificate check,      *)
(*    names        : function from items to what they, their codes and     *)
(*                   their units are called,                               *)
(*    ncrs         : function from ids to [about, status], about being a   *)
(*                   supply line, or 0 for the project].                   *)
(***************************************************************************)
RowsTyped(rows) ==
  /\ DOMAIN rows = {"needs", "requisitions", "supply", "allocations", "certificates", "names",
                   "ncrs"}
  /\ IsFiniteSet(DOMAIN rows.needs) /\ DOMAIN rows.needs \subseteq Nat
  /\ \A n \in DOMAIN rows.needs : rows.needs[n].required \in Nat /\ rows.needs[n].due \in Nat
  /\ IsFiniteSet(DOMAIN rows.supply) /\ \A s \in DOMAIN rows.supply : LineTyped(rows.supply[s])
  /\ IsFiniteSet(DOMAIN rows.allocations)
  /\ \A a \in DOMAIN rows.allocations : rows.allocations[a].quantity \in Nat
  /\ IsFiniteSet(DOMAIN rows.ncrs)

ActiveNcrs(rows) ==
  {n \in DOMAIN rows.ncrs : rows.ncrs[n].status \in {"ISSUED", "SUPPLIER_RESPONDED"}}

\* A report about a lot counts for every need its supply line serves.
OpenNcrs(rows, need) ==
  Cardinality({n \in ActiveNcrs(rows) : /\ rows.ncrs[n].about \in DOMAIN rows.supply
                                        /\ need \in NeedsOf(rows.supply[rows.ncrs[n].about])})

ProjectNcrs(rows) == Cardinality({n \in ActiveNcrs(rows) : rows.ncrs[n].about = 0})

\* Only order lines that serve a released need are read.
Touching(rows) ==
  {s \in DOMAIN rows.supply : NeedsOf(rows.supply[s]) \cap DOMAIN rows.needs # {}}

QuantitiesOf(rows, need) ==
  Accumulated(need, rows.needs[need].required, rows.requisitions,
              [s \in Touching(rows) |-> rows.supply[s]], rows.allocations)

LineWith(rows, need, n, acc) ==
  [need |-> need,
   required |-> acc.required, requisitioned |-> acc.requisitioned, ordered |-> acc.ordered,
   confirmed |-> acc.confirmed, shipped |-> acc.shipped, received |-> acc.received,
   accepted |-> acc.accepted, allocated |-> acc.allocated,
   certificateComplete |-> acc.certificateComplete,
   shortage |-> Shortage(acc), stage |-> CurrentStage(acc), blocker |-> BlockerReason(acc),
   commitment |-> OperativeCommitmentDate(need, rows.supply),
   criticality |-> n.criticality, due |-> n.due, workPackage |-> n.workPackage,
   certificateRequired |-> n.item \in rows.certificates,
   itemName |-> rows.names[n.item], openNcrs |-> OpenNcrs(rows, need)]

LineOf(rows, need) == LineWith(rows, need, rows.needs[need], QuantitiesOf(rows, need))

\* What the hash of a calculation covers, besides the date.
Load(rows) ==
  [lines |-> {LineOf(rows, need) : need \in DOMAIN rows.needs},
   projectNcrs |-> ProjectNcrs(rows)]

\* The calculations throw on what they do not expect.
Refuses(rows) == \E s \in Touching(rows) : LineRefused(rows.supply[s])

NoSource == [lines |-> {}, projectNcrs |-> 0]

Result(tables, source) ==
  IF \E line \in source.lines : LineRejected(line)
  THEN [tables |-> tables, refused |-> TRUE, source |-> NoSource]
  ELSE [tables |-> tables, refused |-> FALSE, source |-> source]

\* The rows with what a recalculation makes of them, which is calculated
\* once for each set of rows and not in every state.
Read(tables) ==
  IF Refuses(tables)
  THEN [tables |-> tables, refused |-> TRUE, source |-> NoSource]
  ELSE Result(tables, Load(tables))

\* Nothing has been read.
NoRows == [tables |-> <<>>, refused |-> FALSE, source |-> NoSource]

ProjectScope(source, date) ==
  [lines |-> source.lines, projectNcrs |-> source.projectNcrs, date |-> date]

\* Nonconformance reports of the project are not held against its packages.
PackageScope(source, date, package) ==
  [lines |-> {line \in source.lines : line.workPackage = package}, projectNcrs |-> 0,
   date |-> date]

WorkPackages(source) == {line.workPackage : line \in source.lines} \ {"NONE"}

=============================================================================
