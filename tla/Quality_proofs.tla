---------------------------- MODULE Quality_proofs ----------------------------
(***************************************************************************)
(* Documents and nonconformance reports under any number of concurrent     *)
(* transactions: numbers never collide, no answered report is cancelled,   *)
(* what an inspection cites as evidence stays readable, and no trigger     *)
(* refuses what the handlers have decided.                                 *)
(*                                                                         *)
(* What a transaction has found of a report, of the numbers of the         *)
(* project's reports, of a version or of an inspection, under a lock of    *)
(* its plan, is still so when it commits, because whoever changes it needs *)
(* the same lock.  The evidence of an inspection is the exception: it      *)
(* locks nothing of the document, and rests on the fact that an approved   *)
(* version is only ever replaced by one that is approved.                  *)
(***************************************************************************)
EXTENDS Quality, FiniteSetTheorems, TLAPS

Statuses == {None, "DRAFT", "ISSUED", "SUPPLIER_RESPONDED", "CLOSED", "CANCELLED"}

Reports == [status : Statuses, number : Nat, responses : Nat, version : Nat]

Operations == {"createNcr", "issue", "cancel", "close", "respond"}

\* The lock a command on reports begins with.
Guarding(c) ==
  IF c.op = "createNcr" THEN Lock("projects", "project", "UPDATE")
  ELSE Lock("ncrs", c.ncr, "UPDATE")

\* The command of a transaction that works on reports.
Reporting(t) == tx[t].command.op \in Operations

\* It has its lock; it has checked.
Guarded(t) == Reporting(t) /\ tx[t].pos >= 1
Decided(t) == Reporting(t) /\ tx[t].pos >= 2

\* What it expects and notes down may be of a document, and is left open.
Shaped(row) ==
  /\ row = [command |-> row.command, pos |-> row.pos, expected |-> row.expected,
            noted |-> row.noted]
  /\ row.command \in Commands \cup {Idle.command}
  /\ row.pos \in Nat

Typed ==
  /\ ncr \in [Ncrs -> Reports]
  /\ tx = [t \in Tx |-> tx[t]]
  /\ \A t \in Tx : Shaped(tx[t])

\* What a transaction that has checked relies on.
StillAllowed(t) ==
  LET c == tx[t].command
      report == ncr[c.ncr]
  IN /\ c.op = "createNcr" => tx[t].noted \notin Numbers /\ tx[t].noted \in Nat
     /\ c.op \in {"issue", "cancel", "close"} => CanTransitionNcr(report.status, NcrTarget(c.op))
     /\ c.op = "respond" => /\ report.status \in {"ISSUED", "SUPPLIER_RESPONDED"}
                            /\ tx[t].noted = report.responses + 1

\* Nobody else has the same lock, and every decision still stands.
DecisionsStand ==
  /\ \A t, u \in Tx : Guarded(t) /\ Guarded(u) /\ t # u
        => Guarding(tx[t].command) # Guarding(tx[u].command)
  /\ \A t \in Tx : Reporting(t) /\ tx[t].command.op # "createNcr" => Reported(tx[t].command.ncr)
  /\ \A t \in Tx : Decided(t) => StillAllowed(t)

\* There is a greatest number, if only 0, so the next is a number of its own.
GreatestNumber == \E m \in Numbers \cup {0} : \A n \in Numbers \cup {0} : n <= m

ReportsInOrder ==
  \A x \in Ncrs :
    /\ ncr[x].responses > 0 => ncr[x].status \in {"SUPPLIER_RESPONDED", "CLOSED"}
    /\ ncr[x].status = "SUPPLIER_RESPONDED" => ncr[x].responses > 0

IInv == Typed /\ GreatestNumber /\ DecisionsStand /\ ReportsInOrder

-----------------------------------------------------------------------------
\* A command on reports is one of five operations, and names a report.
LEMMA CommandsOfReports ==
  ASSUME NEW c \in Commands
  PROVE  /\ IsNcr(c) <=> c.op \in Operations
         /\ c.op \in Operations => c.ncr \in Ncrs
         /\ c.op # None
<1>1. ASSUME c \in DocumentCommands
      PROVE  ~IsNcr(c) /\ c.op \notin Operations /\ c.op # None
  BY <1>1 DEF DocumentCommands, IsNcr, Operations, None
<1>2. ASSUME c \in EvidenceCommands
      PROVE  ~IsNcr(c) /\ c.op \notin Operations /\ c.op # None
  BY <1>2 DEF EvidenceCommands, IsNcr, Operations, None
<1>3. ASSUME c \in NcrCommands
      PROVE  IsNcr(c) /\ c.op \in Operations /\ c.ncr \in Ncrs /\ c.op # None
  BY <1>3 DEF NcrCommands, IsNcr, Operations, None
<1> QED
  BY <1>1, <1>2, <1>3 DEF Commands

\* Every command on reports locks one row and then checks.
LEMMA PlanOfReports ==
  ASSUME NEW c \in Commands, c.op \in Operations
  PROVE  Plan(c) = <<Guarding(c), Check>>
BY CommandsOfReports DEF Plan, NcrPlan, Guarding

\* One more than the greatest number is none of the numbers.
LEMMA OneMoreIsNew ==
  ASSUME NEW S, S \subseteq Nat, \E m \in S : \A n \in S : n <= m
  PROVE  Max(S) \in Nat /\ Max(S) + 1 \notin S
<1>1. \E m \in S : \A n \in S : m >= n
  OBVIOUS
<1>2. Max(S) \in S /\ \A n \in S : Max(S) >= n
  BY <1>1, Zenon DEF Max
<1> DEFINE m == Max(S)
<1>3. m \in S /\ \A n \in S : m >= n
  BY <1>2
<1> HIDE DEF m
<1>4. m \in Nat /\ m + 1 \notin S
  BY <1>3
<1> QED
  BY <1>4 DEF m

\* The number computed for a new report is not given yet.
LEMMA NextNumberIsNew ==
  ASSUME Typed, GreatestNumber
  PROVE  /\ Max(Numbers \cup {0}) \in Nat
         /\ Max(Numbers \cup {0}) + 1 \notin Numbers
<1>1. Numbers \cup {0} \subseteq Nat
  BY DEF Typed, Numbers, Reports
<1> QED
  BY <1>1, OneMoreIsNew DEF GreatestNumber

\* Nobody is at work and no report exists at the beginning.
LEMMA InvAtStart == Init => IInv
<1> SUFFICES ASSUME Init PROVE IInv
  OBVIOUS
<1>1. ncr = [x \in Ncrs |-> NoNcr] /\ NoNcr \in Reports
  BY DEF Init, NoNcr, Reports, Statuses
<1>2. tx = [t \in Tx |-> Idle] /\ Idle.command.op = None /\ None \notin Operations
  BY DEF Init, Idle, Operations, None
<1>3. Typed
  BY <1>1, <1>2 DEF Typed, Idle, Shaped
<1>4. \A x \in Ncrs : ~Reported(x) /\ ncr[x].responses = 0 /\ ncr[x].status = None
  BY <1>1 DEF NoNcr, Reported
<1>5. Numbers = {}
  BY <1>4 DEF Numbers
<1>6. GreatestNumber
  BY <1>5 DEF GreatestNumber
<1>7. \A t \in Tx : ~Reporting(t)
  BY <1>2 DEF Reporting
<1> QED
  BY <1>3, <1>4, <1>6, <1>7 DEF IInv, DecisionsStand, Guarded, Decided, ReportsInOrder, None

-----------------------------------------------------------------------------
(***************************************************************************)
(* Steps that leave the reports alone.                                     *)
(***************************************************************************)

\* What is said of the reports stays true; only transactions have to be seen to.
LEMMA ReportsUnchanged ==
  ASSUME IInv, UNCHANGED ncr
  PROVE  /\ ncr' \in [Ncrs -> Reports]
         /\ Numbers' = Numbers
         /\ GreatestNumber' /\ ReportsInOrder'
         /\ \A x \in Ncrs : Reported(x)' = Reported(x)
BY DEF IInv, Typed, GreatestNumber, ReportsInOrder, Numbers, Reported

\* One transaction goes on and has done what it must have done there.
LEMMA OneProceeds ==
  ASSUME IInv, UNCHANGED ncr, NEW t \in Tx, NEW row,
         tx' = [tx EXCEPT ![t] = row],
         Shaped(row),
         \A u \in Tx \ {t} : Guarded(t)' /\ Guarded(u) =>
            Guarding(row.command) # Guarding(tx[u].command),
         Reporting(t)' /\ row.command.op # "createNcr" => Reported(row.command.ncr),
         Decided(t)' => StillAllowed(t)'
  PROVE  IInv'
<1>1. Typed'
  BY DEF IInv, Typed
<1>2. \A u \in Tx \ {t} : tx'[u] = tx[u]
  BY DEF IInv, Typed
<1>3. tx'[t] = row
  BY DEF IInv, Typed
<1>4. \A u \in Tx \ {t} : /\ Guarded(u)' = Guarded(u) /\ Reporting(u)' = Reporting(u)
                          /\ Decided(u)' = Decided(u)
  BY <1>2 DEF Guarded, Reporting, Decided
<1>5. \A u \in Tx \ {t} : StillAllowed(u) => StillAllowed(u)'
  BY <1>2, ReportsUnchanged DEF StillAllowed
<1>6. ASSUME NEW u \in Tx, NEW v \in Tx, Guarded(u)', Guarded(v)', u # v
      PROVE  Guarding(tx'[u].command) # Guarding(tx'[v].command)
  BY <1>2, <1>3, <1>4, <1>6 DEF IInv, DecisionsStand
<1>7. ASSUME NEW u \in Tx, Reporting(u)', tx'[u].command.op # "createNcr"
      PROVE  Reported(tx[u].command.ncr)'
  <2>1. Reported(tx'[u].command.ncr)
    BY <1>2, <1>3, <1>4, <1>7 DEF IInv, DecisionsStand
  <2> QED
    BY <2>1 DEF Reported
<1>8. ASSUME NEW u \in Tx, Decided(u)'
      PROVE  StillAllowed(u)'
  BY <1>4, <1>5, <1>8 DEF IInv, DecisionsStand
<1>9. DecisionsStand'
  BY <1>6, <1>7, <1>8 DEF DecisionsStand
<1> QED
  BY <1>1, <1>9, ReportsUnchanged DEF IInv

\* A request that begins has neither locked nor checked anything.
LEMMA BeginKeeps ==
  ASSUME IInv, NEW t \in Tx, NEW c \in Commands, Begin(t, c)
  PROVE  IInv'
<1> DEFINE row == [command |-> c, pos |-> 0, expected |-> RowVersion(c), noted |-> 0]
<1>1. UNCHANGED ncr /\ tx' = [tx EXCEPT ![t] = row]
  BY DEF Begin, rows
<1>2. Shaped(row) /\ row.pos = 0 /\ row.command = c
  BY DEF Shaped
<1>3. tx'[t] = row
  BY <1>1 DEF IInv, Typed
<1>4. c.op \in Operations /\ c.op # "createNcr" => Reported(c.ncr)
  BY CommandsOfReports DEF Begin, NcrBegins
<1> HIDE DEF row
<1>5. ~Guarded(t)' /\ ~Decided(t)'
  BY <1>2, <1>3 DEF Guarded, Decided
<1>6. Reporting(t)' => c.op \in Operations
  BY <1>2, <1>3 DEF Reporting
<1> QED
  BY <1>1, <1>2, <1>4, <1>5, <1>6, OneProceeds

\* Whoever is refused has no decision left that could be wrong.
LEMMA AbortKeeps ==
  ASSUME IInv, NEW t \in Tx, UNCHANGED ncr, tx' = [tx EXCEPT ![t] = Idle]
  PROVE  IInv'
<1>1. Shaped(Idle) /\ Idle.command.op = None /\ None \notin Operations
  BY DEF Shaped, Idle, Operations, None
<1>2. tx'[t] = Idle
  BY DEF IInv, Typed
<1>3. ~Guarded(t)' /\ ~Decided(t)' /\ ~Reporting(t)'
  BY <1>1, <1>2 DEF Guarded, Decided, Reporting
<1> QED
  BY <1>1, <1>3, OneProceeds

\* A command on reports waits for its lock, then for its check.
LEMMA PlaceInPlan ==
  ASSUME IInv, NEW t \in Tx, Reporting(t)
  PROVE  LET c == tx[t].command
         IN /\ c \in Commands /\ IsNcr(c) /\ c.ncr \in Ncrs
            /\ Waiting(t) <=> tx[t].pos < 2
            /\ tx[t].pos = 0 => Wanted(t) = Guarding(c) /\ Wanted(t) # Check
            /\ tx[t].pos = 1 => Wanted(t) = Check
            /\ tx[t].pos >= 1 => Guarding(c) \in Held(t)
<1> DEFINE c == tx[t].command
<1>1. c \in Commands
  BY DEF IInv, Typed, Shaped, Reporting, Idle, Operations, None
<1>2. IsNcr(c) /\ c.ncr \in Ncrs /\ Plan(c) = <<Guarding(c), Check>>
  BY <1>1, CommandsOfReports, PlanOfReports DEF Reporting
<1>3. Guarding(c) # Check
  <2>1. "id" \in DOMAIN Guarding(c)
    BY DEF Guarding, Lock
  <2>2. "id" \notin DOMAIN Check
    BY DEF Check
  <2> QED
    BY <2>1, <2>2
<1>4. tx[t].pos \in Nat
  BY DEF IInv, Typed, Shaped
<1>5. Waiting(t) <=> tx[t].pos < 2
  BY <1>2 DEF Waiting
<1>6. tx[t].pos = 0 => Wanted(t) = Guarding(c)
  BY <1>2 DEF Wanted
<1>7. tx[t].pos = 1 => Wanted(t) = Check
  BY <1>2 DEF Wanted
<1>8. tx[t].pos >= 1 => Guarding(c) \in Held(t)
  <2> SUFFICES ASSUME tx[t].pos >= 1 PROVE Guarding(c) \in Held(t)
    OBVIOUS
  <2>1. 1 \in 1..tx[t].pos /\ Plan(c)[1] = Guarding(c)
    BY <1>2, <1>4
  <2> QED
    BY <2>1, <1>3 DEF Held
<1> QED
  BY <1>1, <1>2, <1>3, <1>5, <1>6, <1>7, <1>8

\* A lock is taken only while nobody who has it goes on.
LEMMA TakeLockKeeps ==
  ASSUME IInv, NEW t \in Tx, TakeLock(t)
  PROVE  IInv'
<1> DEFINE row == [tx[t] EXCEPT !.pos = @ + 1]
           c == tx[t].command
<1>1. UNCHANGED ncr /\ tx' = [tx EXCEPT ![t] = row]
  BY DEF TakeLock, rows, IInv, Typed
<1>2. Shaped(tx[t])
  BY DEF IInv, Typed
<1>3. Shaped(row) /\ row.command = c /\ row.pos = tx[t].pos + 1
  <2>1. tx[t].pos + 1 \in Nat
    BY <1>2 DEF Shaped
  <2>2. row = [command |-> c, pos |-> tx[t].pos + 1, expected |-> tx[t].expected,
               noted |-> tx[t].noted]
    BY <1>2 DEF Shaped
  <2> QED
    BY <1>2, <2>1, <2>2 DEF Shaped
<1>4. tx'[t] = row
  BY <1>1 DEF IInv, Typed
<1>5. Reporting(t)' <=> Reporting(t)
  BY <1>3, <1>4 DEF Reporting
<1> HIDE DEF row
<1>6. Reporting(t) => tx[t].pos = 0 /\ Wanted(t) = Guarding(c)
  <2> SUFFICES ASSUME Reporting(t) PROVE tx[t].pos = 0 /\ Wanted(t) = Guarding(c)
    OBVIOUS
  <2>1. tx[t].pos < 2 /\ tx[t].pos # 1 /\ tx[t].pos \in Nat
    BY <1>2, PlaceInPlan DEF TakeLock, Shaped
  <2> QED
    BY <2>1, PlaceInPlan
<1>7. ~Decided(t)'
  BY <1>3, <1>4, <1>5, <1>6 DEF Decided
<1>8. ASSUME Reporting(t), NEW u \in Tx \ {t}, Guarded(u)
      PROVE  Guarding(c) # Guarding(tx[u].command)
  <2>1. Guarding(tx[u].command) \in Held(u)
    BY <1>8, PlaceInPlan DEF Guarded
  <2>2. ~Conflict(Guarding(c), Guarding(tx[u].command))
    BY <1>6, <1>8, <2>1 DEF TakeLock
  <2> QED
    BY <2>2 DEF Conflict, Guarding, Lock
<1>9. Guarded(t)' => Reporting(t)
  BY <1>5 DEF Guarded
<1>10. Reporting(t) /\ c.op # "createNcr" => Reported(c.ncr)
  BY DEF IInv, DecisionsStand
<1> QED
  BY <1>1, <1>3, <1>5, <1>7, <1>8, <1>9, <1>10, OneProceeds

\* A row of the transactions with a new place and a new note, written out.
LEMMA PlaceAndNote ==
  ASSUME NEW row, Shaped(row), NEW pos, NEW noted
  PROVE  [row EXCEPT !.pos = pos, !.noted = noted]
         = [command |-> row.command, pos |-> pos, expected |-> row.expected, noted |-> noted]
<1> DEFINE w == [row EXCEPT !.pos = pos, !.noted = noted]
<1>1. w = [row EXCEPT !.pos = pos, !.noted = noted]
  OBVIOUS
<1> HIDE DEF w
<1>2. /\ w.pos = pos /\ w.noted = noted
      /\ w.command = row.command /\ w.expected = row.expected
  BY <1>1 DEF Shaped
<1>3. w = [command |-> w.command, pos |-> w.pos, expected |-> w.expected, noted |-> w.noted]
  BY <1>1 DEF Shaped
<1> QED
  BY <1>2, <1>3 DEF w

\* What a handler checks and computes under its locks is so when it does.
LEMMA CheckKeeps ==
  ASSUME IInv, NEW t \in Tx, CheckUnderLocks(t)
  PROVE  IInv'
<1> DEFINE c == tx[t].command
           noted == Noted(c)
           row == [command |-> c, pos |-> tx[t].pos + 1, expected |-> tx[t].expected,
                   noted |-> noted]
<1>2. Shaped(tx[t])
  BY DEF IInv, Typed
<1>1. UNCHANGED ncr /\ tx' = [tx EXCEPT ![t] = row]
  <2>1. UNCHANGED ncr /\ tx' = [tx EXCEPT ![t].pos = tx[t].pos + 1, ![t].noted = noted]
    BY DEF CheckUnderLocks, rows
  <2>2. tx = [u \in Tx |-> tx[u]]
    BY DEF IInv, Typed
  <2> HIDE DEF noted
  <2>3. tx' = [tx EXCEPT ![t] = [tx[t] EXCEPT !.pos = tx[t].pos + 1, !.noted = noted]]
    BY <1>2, <2>1, <2>2 DEF Shaped
  <2>4. [tx[t] EXCEPT !.pos = tx[t].pos + 1, !.noted = noted] = row
    BY <1>2, PlaceAndNote
  <2> QED
    BY <2>1, <2>3, <2>4, Zenon
<1> HIDE DEF noted
<1>3. Shaped(row) /\ row.command = c /\ row.pos = tx[t].pos + 1 /\ row.noted = noted
  <2>1. tx[t].pos + 1 \in Nat
    BY <1>2 DEF Shaped
  <2> QED
    BY <1>2, <2>1 DEF Shaped
<1>4. tx'[t] = row
  BY <1>1 DEF IInv, Typed
<1>5. Reporting(t)' <=> Reporting(t)
  BY <1>3, <1>4 DEF Reporting
<1> HIDE DEF row
<1>6. Reporting(t) => tx[t].pos = 1
  <2> SUFFICES ASSUME Reporting(t) PROVE tx[t].pos = 1
    OBVIOUS
  <2>1. tx[t].pos < 2 /\ tx[t].pos # 0 /\ tx[t].pos \in Nat
    BY <1>2, PlaceInPlan DEF CheckUnderLocks, Shaped
  <2> QED
    BY <2>1
<1>7. Guarded(t)' => Guarded(t)
  BY <1>5, <1>6 DEF Guarded
<1>8. Guarded(t) => \A u \in Tx \ {t} : Guarded(u) => Guarding(c) # Guarding(tx[u].command)
  BY DEF IInv, DecisionsStand
<1>9. Reporting(t) /\ c.op # "createNcr" => Reported(c.ncr)
  BY DEF IInv, DecisionsStand
<1>10. ASSUME Reporting(t) PROVE StillAllowed(t)'
  <2>1. c \in Commands /\ IsNcr(c) /\ c.ncr \in Ncrs
    BY <1>10, PlaceInPlan
  <2>2. NcrAllowed(c) /\ noted = NcrNoted(c)
    BY <2>1 DEF CheckUnderLocks, noted, Noted
  <2>3. c.op = "createNcr" => noted \notin Numbers /\ noted \in Nat
    BY <2>2, NextNumberIsNew DEF NcrNoted, IInv
  <2>4. c.op \in {"issue", "cancel", "close"} => CanTransitionNcr(ncr[c.ncr].status, NcrTarget(c.op))
    BY <2>2 DEF NcrAllowed
  <2>5. c.op = "respond" => ncr[c.ncr].status \in {"ISSUED", "SUPPLIER_RESPONDED"}
                              /\ noted = ncr[c.ncr].responses + 1
    BY <2>2 DEF NcrAllowed, NcrNoted
  <2>6. Numbers' = Numbers
    BY <1>1, ReportsUnchanged
  <2> QED
    BY <1>1, <1>3, <1>4, <2>3, <2>4, <2>5, <2>6 DEF StillAllowed
<1>11. Decided(t)' => Reporting(t)
  BY <1>5 DEF Decided
<1> QED
  BY <1>1, <1>3, <1>5, <1>7, <1>8, <1>9, <1>10, <1>11, OneProceeds

-----------------------------------------------------------------------------
(***************************************************************************)
(* Steps that write a report.                                              *)
(***************************************************************************)

\* A report is new and has a number of its own, or stays what it was called.
Numbered(c, x, new) ==
  IF c.op = "createNcr" THEN ~Reported(x) /\ new.number \notin Numbers
  ELSE x = c.ncr /\ new.number = ncr[x].number

\* A report that was numbered rightly adds its own number and no other.
LEMMA NumbersAfter ==
  ASSUME IInv, NEW c, NEW x \in Ncrs, NEW new \in Reports, new.status # None,
         ncr' = [ncr EXCEPT ![x] = new], Numbered(c, x, new),
         c.op # "createNcr" => Reported(c.ncr)
  PROVE  /\ c.op # "createNcr" => Numbers' = Numbers
         /\ GreatestNumber'
<1>1. ncr \in [Ncrs -> Reports]
  BY DEF IInv, Typed
<1>2. ncr'[x] = new /\ \A y \in Ncrs \ {x} : ncr'[y] = ncr[y]
  BY <1>1
<1>3. Numbers' = {ncr'[y].number : y \in {z \in Ncrs : ncr'[z].status # None}}
  BY DEF Numbers, Reported
<1>4. Numbers = {ncr[y].number : y \in {z \in Ncrs : ncr[z].status # None}}
  BY DEF Numbers, Reported
<1>5. ASSUME c.op # "createNcr" PROVE Numbers' = Numbers
  <2>1. ncr[x].status # None /\ new.number = ncr[x].number
    BY <1>5 DEF Numbered, Reported
  <2>2. \A y \in Ncrs : ncr'[y].number = ncr[y].number
    BY <1>2, <2>1
  <2>3. \A y \in Ncrs : ncr'[y].status # None <=> ncr[y].status # None
    BY <1>2, <2>1
  <2> QED
    BY <1>3, <1>4, <2>2, <2>3, Zenon
<1>6. ASSUME c.op = "createNcr" PROVE Numbers' = Numbers \cup {new.number}
  <2>1. ncr[x].status = None
    BY <1>6 DEF Numbered, Reported
  <2> QED
    BY <1>2, <1>3, <1>4, <2>1
<1>7. Numbers \subseteq Nat /\ new.number \in Nat
  BY <1>1, <1>4 DEF Reports
<1>8. GreatestNumber'
  <2>1. PICK m \in Numbers \cup {0} : \A n \in Numbers \cup {0} : n <= m
    BY DEF IInv, GreatestNumber
  <2>2. CASE c.op # "createNcr"
    BY <1>5, <2>1, <2>2 DEF GreatestNumber
  <2>3. CASE c.op = "createNcr"
    <3>1. m \in Nat /\ new.number \in Nat
      BY <1>7, <2>1
    <3>2. CASE new.number <= m
      <4>1. m \in Numbers' \cup {0} /\ \A n \in Numbers' \cup {0} : n <= m
        BY <1>6, <2>1, <2>3, <3>2
      <4> QED
        BY <4>1 DEF GreatestNumber
    <3>3. CASE m < new.number
      <4>1. \A n \in Numbers \cup {0} : n <= new.number
        BY <1>7, <2>1, <3>1, <3>3
      <4> DEFINE k == new.number
      <4>2. k \in Nat /\ Numbers' = Numbers \cup {k} /\ \A n \in Numbers \cup {0} : n <= k
        BY <1>6, <2>3, <3>1, <4>1
      <4> HIDE DEF k
      <4>3. k \in Numbers' \cup {0} /\ \A n \in Numbers' \cup {0} : n <= k
        BY <4>2
      <4> QED
        BY <4>3 DEF GreatestNumber
    <3> QED
      BY <3>1, <3>2, <3>3
  <2> QED
    BY <2>2, <2>3
<1> QED
  BY <1>5, <1>8

\* Whoever has the lock may write its report, or add one: nobody else has
\* decided anything about what changes.
LEMMA ReportWritten ==
  ASSUME IInv, NEW t \in Tx, Guarded(t), tx' = [tx EXCEPT ![t] = Idle],
         NEW x \in Ncrs, NEW new \in Reports, new.status # None,
         ncr' = [ncr EXCEPT ![x] = new], Numbered(tx[t].command, x, new),
         new.responses > 0 => new.status \in {"SUPPLIER_RESPONDED", "CLOSED"},
         new.status = "SUPPLIER_RESPONDED" => new.responses > 0
  PROVE  IInv'
<1> DEFINE c == tx[t].command
<1>1. ncr'[x] = new /\ \A y \in Ncrs \ {x} : ncr'[y] = ncr[y]
  BY DEF IInv, Typed
<1>2. Typed'
  BY DEF IInv, Typed, Shaped, Idle
<1>3. tx'[t] = Idle /\ \A u \in Tx \ {t} : tx'[u] = tx[u]
  BY DEF IInv, Typed
<1>4. Idle.command.op = None /\ None \notin Operations
  BY DEF Idle, Operations, None
<1>5. ~Guarded(t)' /\ ~Decided(t)' /\ ~Reporting(t)'
  BY <1>3, <1>4 DEF Guarded, Decided, Reporting
<1>6. \A u \in Tx \ {t} : /\ Guarded(u)' = Guarded(u) /\ Reporting(u)' = Reporting(u)
                          /\ Decided(u)' = Decided(u)
  BY <1>3 DEF Guarded, Reporting, Decided
<1>7. Reporting(t) /\ (c.op # "createNcr" => Reported(c.ncr))
  BY DEF Guarded, IInv, DecisionsStand
<1>8. (c.op # "createNcr" => Numbers' = Numbers) /\ GreatestNumber'
  BY <1>7, NumbersAfter
<1>9. \A y \in Ncrs : Reported(y) => ncr'[y].status # None
  BY <1>1 DEF Reported
<1>10. ASSUME NEW u \in Tx, Reporting(u)', tx'[u].command.op # "createNcr"
       PROVE  Reported(tx[u].command.ncr)'
  <2>1. u # t /\ tx'[u] = tx[u] /\ Reporting(u)
    BY <1>3, <1>5, <1>6, <1>10
  <2>2. Reported(tx[u].command.ncr) /\ tx[u].command.ncr \in Ncrs
    BY <1>10, <2>1, PlaceInPlan DEF IInv, DecisionsStand
  <2> QED
    BY <1>9, <2>1, <2>2 DEF Reported
<1>11. ASSUME NEW u \in Tx, Decided(u)' PROVE StillAllowed(u)'
  <2> DEFINE d == tx[u].command
  <2>1. u # t /\ tx'[u] = tx[u] /\ Decided(u) /\ Guarded(u)
    BY <1>3, <1>5, <1>6, <1>11 DEF Decided, Guarded, IInv, Typed, Shaped
  <2>2. StillAllowed(u) /\ Guarding(c) # Guarding(d)
    BY <2>1 DEF IInv, DecisionsStand
  <2>3. Reporting(u) /\ d.ncr \in Ncrs /\ (d.op # "createNcr" => Reported(d.ncr))
    BY <2>1, PlaceInPlan DEF Decided, IInv, DecisionsStand
  <2>4. CASE d.op = "createNcr"
    <3>1. c.op # "createNcr"
      BY <2>2, <2>4 DEF Guarding
    <3> QED
      BY <1>8, <2>1, <2>2, <2>4, <3>1 DEF StillAllowed
  <2>5. CASE d.op # "createNcr"
    <3>1. d.ncr # x
      <4>1. CASE c.op = "createNcr"
        BY <2>3, <2>5, <4>1 DEF Numbered
      <4>2. CASE c.op # "createNcr"
        BY <2>2, <2>5, <4>2 DEF Numbered, Guarding
      <4> QED
        BY <4>1, <4>2
    <3>2. ncr'[d.ncr] = ncr[d.ncr]
      BY <1>1, <2>3, <3>1
    <3> QED
      BY <2>1, <2>2, <2>5, <3>2 DEF StillAllowed
  <2> QED
    BY <2>4, <2>5
<1>12. DecisionsStand'
  <2>1. ASSUME NEW u \in Tx, NEW v \in Tx, Guarded(u)', Guarded(v)', u # v
        PROVE  Guarding(tx'[u].command) # Guarding(tx'[v].command)
    BY <1>3, <1>5, <1>6, <2>1 DEF IInv, DecisionsStand
  <2> QED
    BY <1>10, <1>11, <2>1 DEF DecisionsStand
<1>13. ReportsInOrder'
  BY <1>1 DEF IInv, ReportsInOrder
<1> QED
  BY <1>2, <1>8, <1>12, <1>13 DEF IInv

\* A report with a new status and a new version, written out.
LEMMA StatusAndVersion ==
  ASSUME NEW old \in Reports, NEW status, NEW version
  PROVE  [old EXCEPT !.status = status, !.version = version]
         = [status |-> status, number |-> old.number, responses |-> old.responses,
            version |-> version]
<1> DEFINE w == [old EXCEPT !.status = status, !.version = version]
<1>1. w = [old EXCEPT !.status = status, !.version = version]
  OBVIOUS
<1> HIDE DEF w
<1>2. /\ w.status = status /\ w.number = old.number
      /\ w.responses = old.responses /\ w.version = version
  BY <1>1 DEF Reports
<1>3. w = [status |-> w.status, number |-> w.number, responses |-> w.responses, version |-> w.version]
  BY <1>1 DEF Reports
<1> QED
  BY <1>2, <1>3 DEF w

\* A commit changes one report, of which nobody else has decided anything.
LEMMA CommitKeeps ==
  ASSUME IInv, NEW t \in Tx, Commit(t)
  PROVE  IInv'
<1> DEFINE c == tx[t].command
<1>1. tx' = [tx EXCEPT ![t] = Idle]
  BY DEF Commit
<1>2. \/ UNCHANGED ncr
      \/ CreateNcr(c, tx[t].noted)
      \/ TransitionNcr(c)
      \/ SubmitSupplierResponse(c, tx[t].noted)
  BY DEF Commit
<1>3. Shaped(tx[t]) /\ ncr \in [Ncrs -> Reports]
  BY DEF IInv, Typed
<1>4. ASSUME Reporting(t) PROVE Guarded(t) /\ Decided(t) /\ StillAllowed(t) /\ c.ncr \in Ncrs
  <2>1. tx[t].pos >= 2 /\ c.ncr \in Ncrs
    BY <1>3, <1>4, PlaceInPlan DEF Commit, Shaped
  <2>2. Guarded(t) /\ Decided(t)
    BY <1>3, <1>4, <2>1 DEF Guarded, Decided, Shaped
  <2> QED
    BY <2>1, <2>2 DEF IInv, DecisionsStand
<1>5. CASE UNCHANGED ncr
  BY <1>1, <1>5, AbortKeeps
<1>6. CASE CreateNcr(c, tx[t].noted)
  <2> DEFINE x == c.ncr
             new == [status |-> "DRAFT", number |-> tx[t].noted, responses |-> 0, version |-> 1]
  <2>1. c.op = "createNcr" /\ Reporting(t)
    BY <1>6 DEF CreateNcr, Reporting, Operations
  <2>2. Guarded(t) /\ x \in Ncrs /\ tx[t].noted \notin Numbers /\ tx[t].noted \in Nat
    BY <1>4, <2>1 DEF StillAllowed
  <2>3. new \in Reports /\ new.status = "DRAFT" /\ new.responses = 0
    BY <2>2 DEF Reports, Statuses
  <2>4. ncr' = [ncr EXCEPT ![x] = new] /\ Numbered(c, x, new)
    BY <1>6, <2>1, <2>2 DEF CreateNcr, Numbered
  <2>5. /\ new.status # None
        /\ new.responses > 0 => new.status \in {"SUPPLIER_RESPONDED", "CLOSED"}
        /\ new.status = "SUPPLIER_RESPONDED" => new.responses > 0
    BY DEF None
  <2> HIDE DEF new
  <2> QED
    BY <1>1, <2>2, <2>3, <2>4, <2>5, ReportWritten
<1>7. CASE TransitionNcr(c)
  <2> DEFINE x == c.ncr
             target == NcrTarget(c.op)
             new == [status |-> target, number |-> ncr[x].number,
                     responses |-> ncr[x].responses, version |-> ncr[x].version + 1]
  <2>1. c.op \in {"issue", "cancel", "close"} /\ c.op # "createNcr" /\ Reporting(t)
    BY <1>7 DEF TransitionNcr, Reporting, Operations
  <2>2. Guarded(t) /\ x \in Ncrs /\ CanTransitionNcr(ncr[x].status, target)
    BY <1>4, <2>1 DEF StillAllowed
  <2>3. ncr[x] \in Reports
    BY <1>3, <2>2
  <2>4. target \in {"ISSUED", "CLOSED", "CANCELLED"}
    BY DEF NcrTarget
  <2>5. new \in Reports
    BY <2>3, <2>4 DEF Reports, Statuses
  <2>6. ncr' = [ncr EXCEPT ![x] = new] /\ Numbered(c, x, new)
    <3>1. ncr' = [ncr EXCEPT ![x].status = target, ![x].version = ncr[x].version + 1]
      BY <1>7 DEF TransitionNcr
    <3>2. ncr' = [ncr EXCEPT ![x] = [ncr[x] EXCEPT !.status = target, !.version = ncr[x].version + 1]]
      BY <1>3, <2>2, <2>3, <3>1 DEF Reports
    <3>3. [ncr[x] EXCEPT !.status = target, !.version = ncr[x].version + 1] = new
      <4> DEFINE old == ncr[x]
                 status == target
                 version == ncr[x].version + 1
      <4>1. old \in Reports
        BY <2>3
      <4>2. new = [status |-> status, number |-> old.number, responses |-> old.responses,
                   version |-> version]
        OBVIOUS
      <4> HIDE DEF new, old, status, version
      <4>3. [old EXCEPT !.status = status, !.version = version] = new
        BY <4>1, <4>2, StatusAndVersion
      <4> QED
        BY <4>3 DEF old, status, version
    <3>4. Numbered(c, x, new)
      BY <2>1 DEF Numbered
    <3> QED
      BY <3>2, <3>3, <3>4, Zenon
  <2>7. /\ new.status = target /\ new.status # None /\ new.status # "SUPPLIER_RESPONDED"
        /\ new.responses > 0 => new.status \in {"SUPPLIER_RESPONDED", "CLOSED"}
    BY <2>2, <2>4 DEF None, CanTransitionNcr, IInv, ReportsInOrder
  <2> HIDE DEF new
  <2> QED
    BY <1>1, <2>2, <2>5, <2>6, <2>7, ReportWritten
<1>8. CASE SubmitSupplierResponse(c, tx[t].noted)
  <2> DEFINE x == c.ncr
             new == [status |-> RespondedStatus(ncr[x].status), number |-> ncr[x].number,
                     responses |-> tx[t].noted, version |-> ncr[x].version + 1]
  <2>1. c.op = "respond" /\ c.op # "createNcr" /\ Reporting(t)
    BY <1>8 DEF SubmitSupplierResponse, Reporting, Operations
  <2>2. /\ Guarded(t) /\ x \in Ncrs
        /\ ncr[x].status \in {"ISSUED", "SUPPLIER_RESPONDED"}
        /\ tx[t].noted = ncr[x].responses + 1
    BY <1>4, <2>1 DEF StillAllowed
  <2>3. ncr[x] \in Reports
    BY <1>3, <2>2
  <2>4. RespondedStatus(ncr[x].status) = "SUPPLIER_RESPONDED" /\ tx[t].noted \in Nat /\ tx[t].noted > 0
    BY <2>2, <2>3 DEF RespondedStatus, Reports
  <2>5. new \in Reports
    BY <2>3, <2>4 DEF Reports, Statuses
  <2>6. ncr' = [ncr EXCEPT ![x] = new] /\ Numbered(c, x, new)
    <3>1. ncr' = [ncr EXCEPT ![x].status = RespondedStatus(ncr[x].status),
                             ![x].responses = tx[t].noted, ![x].version = ncr[x].version + 1]
      BY <1>8 DEF SubmitSupplierResponse
    <3>2. ncr' = [ncr EXCEPT ![x] =
             [ncr[x] EXCEPT !.status = RespondedStatus(ncr[x].status),
                            !.responses = tx[t].noted, !.version = ncr[x].version + 1]]
      BY <1>3, <2>2, <2>3, <3>1 DEF Reports
    <3>3. [ncr[x] EXCEPT !.status = RespondedStatus(ncr[x].status),
                         !.responses = tx[t].noted, !.version = ncr[x].version + 1] = new
      <4> DEFINE old == ncr[x]
                 status == RespondedStatus(ncr[x].status)
                 responses == tx[t].noted
                 version == ncr[x].version + 1
      <4>1. old \in Reports
        BY <2>3
      <4>2. new = [status |-> status, number |-> old.number, responses |-> responses,
                   version |-> version]
        OBVIOUS
      <4> HIDE DEF new, old, status, responses, version
      <4> DEFINE w == [old EXCEPT !.status = status, !.responses = responses, !.version = version]
      <4>3. w = [old EXCEPT !.status = status, !.responses = responses, !.version = version]
        OBVIOUS
      <4> HIDE DEF w
      <4>4. /\ w.status = status /\ w.number = old.number
            /\ w.responses = responses /\ w.version = version
        BY <4>1, <4>3 DEF Reports
      <4>5. w = [status |-> w.status, number |-> w.number, responses |-> w.responses,
                 version |-> w.version]
        BY <4>1, <4>3 DEF Reports
      <4>6. w = new
        BY <4>2, <4>4, <4>5
      <4> QED
        BY <4>6 DEF old, status, responses, version, w
    <3>4. Numbered(c, x, new)
      BY <2>1 DEF Numbered
    <3> QED
      BY <3>2, <3>3, <3>4, Zenon
  <2>7. new.status = "SUPPLIER_RESPONDED" /\ new.status # None /\ new.responses > 0
    BY <2>4 DEF None
  <2> HIDE DEF new
  <2> QED
    BY <1>1, <2>2, <2>5, <2>6, <2>7, ReportWritten
<1> QED
  BY <1>2, <1>5, <1>6, <1>7, <1>8

-----------------------------------------------------------------------------
\* What neither touches a report nor a transaction changes nothing here.
LEMMA ElsewhereKeeps == ASSUME IInv, UNCHANGED <<ncr, tx>> PROVE IInv'
<1>1. /\ \A t \in Tx : Guarded(t)' = Guarded(t) /\ Decided(t)' = Decided(t)
      /\ \A t \in Tx : Reporting(t)' = Reporting(t) /\ StillAllowed(t)' = StillAllowed(t)
      /\ \A x : Reported(x)' = Reported(x)
  BY ReportsUnchanged DEF Guarded, Decided, Reporting, StillAllowed, Reported
<1>2. Typed'
  BY DEF IInv, Typed
<1>3. DecisionsStand'
  BY <1>1 DEF IInv, DecisionsStand
<1> QED
  BY <1>2, <1>3, ReportsUnchanged DEF IInv

\* The invariant of the reports is inductive.
LEMMA StepKeeps == IInv /\ [Next]_vars => IInv'
<1> SUFFICES ASSUME IInv, [Next]_vars PROVE IInv'
  OBVIOUS
<1>1. ASSUME NEW t \in Tx, NEW c \in Commands, Begin(t, c) PROVE IInv'
  BY <1>1, BeginKeeps
<1>2. ASSUME NEW t \in Tx, TakeLock(t) PROVE IInv'
  BY <1>2, TakeLockKeeps
<1>3. ASSUME NEW t \in Tx, CheckUnderLocks(t) PROVE IInv'
  BY <1>3, CheckKeeps
<1>4. ASSUME NEW t \in Tx, Commit(t) PROVE IInv'
  BY <1>4, CommitKeeps
<1>5. ASSUME NEW t \in Tx, Abort(t) PROVE IInv'
  BY <1>5, AbortKeeps DEF Abort, rows
<1>6. ASSUME NEW d \in Docs, NEW n \in 1..MaxVersions, Expire(d, n) PROVE IInv'
  BY <1>6, ElsewhereKeeps DEF Expire
<1>7. CASE CloseProject
  BY <1>7, ElsewhereKeeps DEF CloseProject
<1>8. CASE RemoveSupplier
  BY <1>8, ElsewhereKeeps DEF RemoveSupplier
<1>9. CASE UNCHANGED vars
  BY <1>9, ElsewhereKeeps DEF vars, rows
<1>10. ASSUME NEW t \in Tx, \/ \E c \in {x \in Commands : x.op \in agenda} : Begin(t, c)
                            \/ TakeLock(t) \/ CheckUnderLocks(t) \/ Commit(t) \/ Abort(t)
       PROVE  IInv'
  BY <1>1, <1>2, <1>3, <1>4, <1>5, <1>10
<1> QED
  BY <1>6, <1>7, <1>8, <1>9, <1>10 DEF Next

\* The invariant holds for any number of connections, reports and documents:
\* under the lock of a report, or of the project's numbers, nothing changes
\* between the check of a command and its commit.
THEOREM ReportsStand == Spec => []IInv
BY InvAtStart, StepKeeps, PTL DEF Spec

\* With any number of connections, reports and documents, the number a creation
\* or an answer has computed is still free when it inserts it, because the lock
\* it computed it under is the one every other inserter waits for.
THEOREM NumbersNeverCollide == Spec => []CreationsNeverCollide
<1>1. IInv => CreationsNeverCollide
  <2> SUFFICES ASSUME IInv, NEW t \in Tx, Running(t), ~Waiting(t),
                      tx[t].command.op \in {"createNcr", "respond"}
               PROVE  Decided(t) /\ StillAllowed(t)
    BY DEF CreationsNeverCollide, StillAllowed
  <2>1. Reporting(t)
    BY DEF Reporting, Operations
  <2>2. tx[t].pos \in Nat /\ tx[t].pos >= 2
    BY <2>1, PlaceInPlan DEF IInv, Typed, Shaped
  <2> QED
    BY <2>1, <2>2 DEF Decided, IInv, DecisionsStand
<1> QED
  BY <1>1, ReportsStand, PTL

\* With any number of connections, reports and documents, a report the supplier
\* has answered is answered or closed: cancelling is decided under the lock an
\* answer needs.
THEOREM AnswersAreKept == Spec => []AnsweredIsNeverCancelled
<1>1. IInv => AnsweredIsNeverCancelled
  BY DEF IInv, ReportsInOrder, AnsweredIsNeverCancelled
<1> QED
  BY <1>1, ReportsStand, PTL

-----------------------------------------------------------------------------
(***************************************************************************)
(* Documents.  A version changes its status under the lock of its row or,  *)
(* when it is approved, by the approval of another one.  So what a command *)
(* on a version found there under its lock still holds when it commits,    *)
(* and a document that has an approved version keeps one.                   *)
(***************************************************************************)
VersionOps == {"completeUpload", "submitReview", "approve", "reject"}

OnVersion(t) == tx[t].command.op \in VersionOps

VersionLock(c) == Lock("document_versions", <<c.doc, c.number>>, "UPDATE")

\* What a command on a version has found.
Ready(c) ==
  LET v == versions[c.doc][c.number]
  IN IF c.op = "completeUpload" THEN v.status = "QUARANTINED" /\ v.scan = "PENDING"
     ELSE v.status = ReviewSource(c.op) /\ v.scan = "CLEAN"

\* What is so of a transaction on a document at each place of its plan.
Prepared(t) ==
  LET c == tx[t].command
      pos == tx[t].pos
  IN /\ c.op = "createDocument" /\ pos >= 1 => \A e \in c.links : LinkAllowed(c.owner, e)
     /\ c.op \in {"supersedeDocument", "recordEvidence"} \cup VersionOps => Drafted(c.doc)
     /\ OnVersion(t) => c.number \in 1..Len(versions[c.doc])
     /\ OnVersion(t) /\ pos >= 2 => Ready(c)
     /\ c.op = "recordEvidence" /\ pos >= 2 =>
           document[c.doc].owner = "INTERNAL" /\ tx[t].noted \in 1..Len(versions[c.doc])
     /\ c.op = "recordEvidence" /\ pos >= 3 => Approved(c.doc) # {}

\* It has the lock of its version.
AtVersion(t) == OnVersion(t) /\ tx[t].pos >= 1

VersionLocksApart ==
  \A t, u \in Tx : AtVersion(t) /\ AtVersion(u) /\ t # u
     => VersionLock(tx[t].command) # VersionLock(tx[u].command)

DocumentsInv ==
  /\ TablesInOrder(document, versions, inspection)
  /\ VersionLocksApart
  /\ \A t \in Tx : Prepared(t)

-----------------------------------------------------------------------------
\* The commands on documents and inspections, and what they name.
LEMMA CommandsOfDocuments ==
  ASSUME NEW c \in Commands
  PROVE  /\ c.op \in {"createDocument", "supersedeDocument", "recordEvidence"} \cup VersionOps
              => c.doc \in Docs /\ ~IsNcr(c)
         /\ c.op = "createDocument" => c.owner \in Owners /\ c.links \in SUBSET Linkable
         /\ c.op \in {"recordEvidence", "finalize"} => c.inspection \in Inspections /\ ~IsNcr(c)
         /\ c.op = "finalize" => c.disposition \in {"ACCEPTED", "CONDITIONALLY_ACCEPTED", "REJECTED"}
<1>1. ASSUME c \in DocumentCommands
      PROVE  /\ c.op \in {"createDocument", "supersedeDocument"} \cup VersionOps
             /\ c.doc \in Docs /\ ~IsNcr(c)
             /\ c.op = "createDocument" => c.owner \in Owners /\ c.links \in SUBSET Linkable
  BY <1>1 DEF DocumentCommands, IsNcr, VersionOps
<1>2. ASSUME c \in EvidenceCommands
      PROVE  /\ c.op \in {"recordEvidence", "finalize"}
             /\ c.inspection \in Inspections /\ ~IsNcr(c)
             /\ c.op = "recordEvidence" => c.doc \in Docs
             /\ c.op = "finalize" => c.disposition \in {"ACCEPTED", "CONDITIONALLY_ACCEPTED", "REJECTED"}
  BY <1>2 DEF EvidenceCommands, IsNcr
<1>3. ASSUME c \in NcrCommands
      PROVE  c.op \in Operations
  BY <1>3 DEF NcrCommands, Operations
<1> QED
  BY <1>1, <1>2, <1>3 DEF Commands, Operations, VersionOps

\* The rows an approval replaces, one at most, can be put in an order.
LEMMA ReplacedInOrder ==
  ASSUME NEW S, \A x, y \in S : x = y, NEW table, NEW mode
  PROVE  LockAll(table, S, mode) \in Seq({Lock(table, x, mode) : x \in S})
<1> DEFINE order == SetToSeq(S)
<1>1. \E f \in [1..Cardinality(S) -> S] : IsInjective(f)
  <2>1. CASE S = {}
    <3>1. 1..Cardinality(S) = {}
      BY <2>1, FS_EmptySet
    <3>2. [n \in {} |-> n] \in [1..Cardinality(S) -> S] /\ IsInjective([n \in {} |-> n])
      BY <2>1, <3>1 DEF IsInjective
    <3> QED  BY <3>2
  <2>2. CASE S # {}
    <3>1. PICK x \in S : S = {x}
      BY <2>2
    <3>2. 1..Cardinality(S) = {1}
      <4>1. Cardinality({x}) = 1
        BY FS_Singleton
      <4> QED  BY <3>1, <4>1
    <3>3. [n \in {1} |-> x] \in [1..Cardinality(S) -> S] /\ IsInjective([n \in {1} |-> x])
      BY <3>1, <3>2 DEF IsInjective
    <3> QED  BY <3>3
  <2> QED  BY <2>1, <2>2
<1>2. order \in [1..Cardinality(S) -> S]
  BY <1>1, Zenon DEF SetToSeq
<1>3. Cardinality(S) \in Nat
  <2>1. S = {} \/ \E x \in S : S = {x}
    OBVIOUS
  <2> QED  BY <2>1, FS_EmptySet, FS_Singleton
<1>4. order \in Seq(S) /\ Len(order) \in Nat /\ \A n \in 1..Len(order) : order[n] \in S
  BY <1>2, <1>3
<1> QED
  BY <1>4 DEF LockAll

\* Where the commands on documents lock and check.
LEMMA PlanOfDocuments ==
  ASSUME NEW c \in Commands, TablesInOrder(document, versions, inspection)
  PROVE  /\ c.op = "createDocument" => Plan(c) = <<Check>>
         /\ c.op \in VersionOps =>
               /\ Len(Plan(c)) \in Nat /\ Len(Plan(c)) >= 2
               /\ Plan(c)[1] = VersionLock(c) /\ Plan(c)[2] = Check
         /\ c.op = "recordEvidence" =>
               Plan(c) = <<Lock("inspections", c.inspection, "UPDATE"), Check, Check>>
<1>1. c.op \in {"createDocument", "recordEvidence"} \cup VersionOps
        => Plan(c) = DocumentPlan(c) /\ c.doc \in Docs
  BY CommandsOfDocuments, CommandsOfReports DEF Plan
<1>2. CASE c.op = "createDocument"
  BY <1>1, <1>2 DEF DocumentPlan, VersionOps
<1>3. CASE c.op = "recordEvidence"
  BY <1>1, <1>3 DEF DocumentPlan, VersionOps
<1>4. CASE c.op = "approve"
  <2> DEFINE S == {<<c.doc, n>> : n \in Approved(c.doc)}
             others == LockAll("document_versions", S, "UPDATE")
             T == {Lock("document_versions", x, "UPDATE") : x \in S}
  <2>1. \A m, n \in Approved(c.doc) : m = n
    BY <1>1, <1>4 DEF TablesInOrder, DocumentInOrder, Approved, VersionOps
  <2>2. \A x, y \in S : x = y
    BY <2>1
  <2> HIDE DEF S
  <2>3. others \in Seq(T)
    BY <2>2, ReplacedInOrder
  <2>4. Plan(c) = <<VersionLock(c), Check>> \o others
    BY <1>1, <1>4 DEF DocumentPlan, VersionLock, VersionOps, S
  <2> HIDE DEF others, T
  <2>5. /\ Len(Plan(c)) \in Nat /\ Len(Plan(c)) >= 2
        /\ Plan(c)[1] = VersionLock(c) /\ Plan(c)[2] = Check
    BY <2>3, <2>4
  <2> QED  BY <1>4, <2>5 DEF VersionOps
<1>5. CASE c.op \in {"completeUpload", "submitReview", "reject"}
  <2>1. Plan(c) = <<VersionLock(c), Check>>
    BY <1>1, <1>5 DEF DocumentPlan, VersionLock, VersionOps
  <2> QED  BY <1>5, <2>1 DEF VersionOps
<1> QED
  BY <1>2, <1>3, <1>4, <1>5 DEF VersionOps

\* The rows of a document in order have their types.
LEMMA HistoryOfDocument ==
  ASSUME NEW row, NEW history, DocumentInOrder(row, history)
  PROVE  /\ row \in [owner : Owners \cup {None}, current : Nat, links : SUBSET Linkable]
         /\ history \in Seq(Versions) /\ Len(history) \in Nat
         /\ \A n \in 1..Len(history) : history[n] \in Versions
         /\ row.current = Len(history)
         /\ row.owner = None <=> history = <<>>
<1>1. history \in Seq(Versions)
  BY DEF DocumentInOrder
<1>2. Len(history) \in Nat /\ \A n \in 1..Len(history) : history[n] \in Versions
  BY <1>1
<1> QED
  BY <1>1, <1>2 DEF DocumentInOrder

-----------------------------------------------------------------------------
(***************************************************************************)
(* Steps of one transaction that leave the tables alone.                   *)
(***************************************************************************)

\* A transaction that stays where it is, beside tables that stay, stays
\* prepared.
LEMMA StillPrepared ==
  ASSUME DocumentsInv, NEW u \in Tx, tx'[u] = tx[u], UNCHANGED <<document, versions>>
  PROVE  Prepared(u)' /\ AtVersion(u)' = AtVersion(u)
<1>1. Prepared(u)
  BY DEF DocumentsInv
<1>2. \A d : Approved(d)' = Approved(d) /\ Drafted(d)' = Drafted(d)
  BY DEF Approved, Drafted
<1>3. Ready(tx[u].command)' = Ready(tx[u].command)
  BY DEF Ready
<1>4. OnVersion(u)' = OnVersion(u) /\ AtVersion(u)' = AtVersion(u)
  BY DEF OnVersion, AtVersion
<1>5. Prepared(u)'
  BY <1>1, <1>2, <1>3, <1>4 DEF Prepared
<1> QED
  BY <1>4, <1>5

\* The transaction goes on and is prepared for where it goes.
LEMMA DocumentsKept ==
  ASSUME Typed, DocumentsInv, UNCHANGED <<document, versions, inspection>>,
         NEW t \in Tx, \A u \in Tx \ {t} : tx'[u] = tx[u], Prepared(t)',
         \A u \in Tx \ {t} : AtVersion(t)' /\ AtVersion(u)
            => VersionLock(tx'[t].command) # VersionLock(tx[u].command)
  PROVE  DocumentsInv'
<1>1. ASSUME NEW u \in Tx \ {t} PROVE Prepared(u)' /\ AtVersion(u)' = AtVersion(u)
  BY StillPrepared
<1>2. VersionLocksApart'
  BY <1>1 DEF DocumentsInv, VersionLocksApart
<1>3. TablesInOrder(document, versions, inspection)'
  BY DEF DocumentsInv, TablesInOrder
<1> QED
  BY <1>1, <1>2, <1>3 DEF DocumentsInv

\* A request that begins is prepared by what it read before its transaction.
LEMMA DocumentsBegin ==
  ASSUME Typed, DocumentsInv, NEW t \in Tx, NEW c \in Commands, Begin(t, c)
  PROVE  DocumentsInv'
<1>1. /\ UNCHANGED <<document, versions, inspection>>
      /\ tx' = [tx EXCEPT ![t] = [command |-> c, pos |-> 0, expected |-> RowVersion(c), noted |-> 0]]
      /\ ~IsNcr(c) => DocumentBegins(c)
  BY DEF Begin, rows
<1>2. tx'[t].command = c /\ tx'[t].pos = 0 /\ \A u \in Tx \ {t} : tx'[u] = tx[u]
  BY <1>1 DEF Typed
<1>3. c.op \in {"supersedeDocument", "recordEvidence"} \cup VersionOps
        => c.doc \in Docs /\ DocumentBegins(c)
  BY <1>1, CommandsOfDocuments
<1>4. c.op \in {"supersedeDocument", "recordEvidence"} \cup VersionOps => Drafted(c.doc)
  <2>1. CASE c.op \in {"completeUpload", "submitReview", "approve", "reject", "recordEvidence"}
    BY <1>3, <2>1 DEF DocumentBegins, Addressed, VersionOps
  <2>2. CASE c.op = "supersedeDocument"
    <3>1. document[c.doc].owner = c.by /\ c.by \in Owners
      BY <1>3, <2>2 DEF DocumentBegins, Commands, DocumentCommands, EvidenceCommands, NcrCommands
    <3> QED  BY <3>1 DEF Owners, Drafted, None
  <2> QED  BY <2>1, <2>2 DEF VersionOps
<1>5. c.op \in VersionOps => c.number \in 1..Len(versions[c.doc])
  BY <1>3 DEF DocumentBegins, Addressed, VersionOps
<1>6. Prepared(t)'
  BY <1>1, <1>2, <1>4, <1>5 DEF Prepared, OnVersion, Drafted
<1>7. ~AtVersion(t)'
  BY <1>2 DEF AtVersion
<1> QED
  BY <1>1, <1>2, <1>6, <1>7, DocumentsKept

\* A transaction that ends without a write leaves the others prepared.
LEMMA DocumentsAbort ==
  ASSUME Typed, DocumentsInv, UNCHANGED <<document, versions, inspection>>,
         NEW t \in Tx, tx' = [tx EXCEPT ![t] = Idle]
  PROVE  DocumentsInv'
<1>1. tx'[t] = Idle /\ \A u \in Tx \ {t} : tx'[u] = tx[u]
  BY DEF Typed
<1>2. Idle.command.op = None /\ None \notin VersionOps /\ None # "createDocument"
      /\ None # "recordEvidence" /\ None # "supersedeDocument"
  BY DEF Idle, None, VersionOps
<1>3. Prepared(t)' /\ ~AtVersion(t)'
  BY <1>1, <1>2 DEF Prepared, AtVersion, OnVersion
<1> QED
  BY <1>1, <1>3, DocumentsKept

\* A command on a version takes its lock first and checks then.
LEMMA PlaceOfVersion ==
  ASSUME Typed, DocumentsInv, NEW t \in Tx, OnVersion(t)
  PROVE  LET c == tx[t].command
         IN /\ c \in Commands /\ c.doc \in Docs /\ tx[t].pos \in Nat
            /\ ~Waiting(t) => tx[t].pos >= 2
            /\ tx[t].pos = 0 => Wanted(t) = VersionLock(c) /\ Wanted(t) # Check
            /\ tx[t].pos = 1 => Wanted(t) = Check
            /\ tx[t].pos >= 1 => VersionLock(c) \in Held(t)
<1> DEFINE c == tx[t].command
<1>1. c \in Commands /\ tx[t].pos \in Nat
  BY DEF Typed, Shaped, OnVersion, VersionOps, Idle, None
<1>2. c.doc \in Docs
  BY <1>1, CommandsOfDocuments DEF OnVersion
<1>3. /\ Len(Plan(c)) \in Nat /\ Len(Plan(c)) >= 2
      /\ Plan(c)[1] = VersionLock(c) /\ Plan(c)[2] = Check
  BY <1>1, PlanOfDocuments DEF OnVersion, DocumentsInv
<1>4. VersionLock(c) # Check
  <2>1. "id" \in DOMAIN VersionLock(c)
    BY DEF VersionLock, Lock
  <2>2. "id" \notin DOMAIN Check
    BY DEF Check
  <2> QED  BY <2>1, <2>2
<1>5. ~Waiting(t) => tx[t].pos >= 2
  BY <1>1, <1>3 DEF Waiting
<1>6. /\ tx[t].pos = 0 => Wanted(t) = VersionLock(c)
      /\ tx[t].pos = 1 => Wanted(t) = Check
  BY <1>3 DEF Wanted
<1>7. ASSUME tx[t].pos >= 1 PROVE VersionLock(c) \in Held(t)
  <2>1. 1 \in 1..tx[t].pos
    BY <1>1, <1>7
  <2> QED  BY <1>3, <1>4, <2>1 DEF Held
<1> QED
  BY <1>1, <1>2, <1>4, <1>5, <1>6, <1>7

\* Who waits for a lock or a check has a command.
LEMMA WaitingIsCommand ==
  ASSUME Typed, NEW t \in Tx, Waiting(t)
  PROVE  tx[t].command \in Commands
<1>1. Shaped(tx[t])
  BY DEF Typed
<1>2. ASSUME tx[t].command = Idle.command PROVE FALSE
  <2>1. Plan(tx[t].command) = <<>>
    BY <1>2 DEF Plan, Idle
  <2>2. tx[t].pos < 0 /\ tx[t].pos \in Nat
    BY <1>1, <2>1 DEF Waiting, Shaped
  <2> QED  BY <2>2
<1> QED
  BY <1>1, <1>2 DEF Shaped

\* Taking a lock changes no table, and nobody else had that lock.
LEMMA DocumentsLock ==
  ASSUME Typed, DocumentsInv, NEW t \in Tx, TakeLock(t)
  PROVE  DocumentsInv'
<1> DEFINE c == tx[t].command
<1>1. Shaped(tx[t])
  BY DEF Typed
<1>2. UNCHANGED <<document, versions, inspection>> /\ tx' = [tx EXCEPT ![t].pos = tx[t].pos + 1]
  BY DEF TakeLock, rows
<1>3. /\ tx'[t].command = c /\ tx'[t].pos = tx[t].pos + 1 /\ tx'[t].noted = tx[t].noted
      /\ \A u \in Tx \ {t} : tx'[u] = tx[u]
  BY <1>1, <1>2 DEF Typed, Shaped
<1>4. Prepared(t) /\ tx[t].pos \in Nat
  BY <1>1 DEF DocumentsInv, Shaped
<1>5. c \in Commands
  BY WaitingIsCommand DEF TakeLock
<1>6. c.op = "createDocument" => FALSE
  <2> SUFFICES ASSUME c.op = "createDocument" PROVE FALSE
    OBVIOUS
  <2>1. Plan(c) = <<Check>>
    BY <1>5, PlanOfDocuments DEF DocumentsInv
  <2>2. tx[t].pos = 0
    BY <1>4, <2>1 DEF TakeLock, Waiting
  <2> QED  BY <2>1, <2>2 DEF TakeLock, Wanted
<1>7. c.op = "recordEvidence" => tx[t].pos = 0
  <2> SUFFICES ASSUME c.op = "recordEvidence" PROVE tx[t].pos = 0
    OBVIOUS
  <2>1. Plan(c) = <<Lock("inspections", c.inspection, "UPDATE"), Check, Check>>
    BY <1>5, PlanOfDocuments DEF DocumentsInv
  <2>2. tx[t].pos \in 0..2 /\ Plan(c)[tx[t].pos + 1] # Check
    BY <1>4, <2>1 DEF TakeLock, Waiting, Wanted
  <2> QED  BY <2>1, <2>2
<1>8. OnVersion(t) => tx[t].pos # 1
  BY PlaceOfVersion DEF TakeLock
<1>9. Prepared(t)'
  <2> DEFINE p == tx[t].pos
  <2>1. p + 1 >= 2 /\ p # 1 => p >= 2
    BY <1>4
  <2>2. OnVersion(t)' = OnVersion(t) /\ (OnVersion(t) /\ p + 1 >= 2 => Ready(c))
    BY <1>3, <1>4, <1>8, <2>1 DEF Prepared, OnVersion
  <2>3. Ready(c)' = Ready(c)
    BY <1>2, <1>3 DEF Ready
  <2>4. c.op = "recordEvidence" => ~(p + 1 >= 2)
    BY <1>7
  <2>5. ~(p + 1 >= 2) => ~(p + 1 >= 3)
    BY <1>4
  <2> HIDE DEF p
  <2> QED
    BY <1>2, <1>3, <1>4, <1>6, <2>2, <2>3, <2>4, <2>5 DEF Prepared, Drafted, p
<1>10. ASSUME NEW u \in Tx \ {t}, AtVersion(t)', AtVersion(u)
       PROVE  VersionLock(tx'[t].command) # VersionLock(tx[u].command)
  <2>1. OnVersion(t) /\ OnVersion(u) /\ tx[u].pos >= 1
    BY <1>3, <1>10 DEF AtVersion, OnVersion
  <2>2. CASE tx[t].pos = 0
    <3>1. Wanted(t) = VersionLock(c) /\ VersionLock(tx[u].command) \in Held(u)
      BY <2>1, <2>2, PlaceOfVersion
    <3>2. ~Conflict(VersionLock(c), VersionLock(tx[u].command))
      BY <3>1 DEF TakeLock
    <3> QED  BY <1>3, <3>2 DEF Conflict, VersionLock, Lock
  <2>3. CASE tx[t].pos # 0
    <3>1. AtVersion(t)
      BY <1>4, <2>1, <2>3 DEF AtVersion
    <3> QED  BY <1>3, <1>10, <3>1 DEF DocumentsInv, VersionLocksApart
  <2> QED  BY <2>2, <2>3
<1> QED
  BY <1>2, <1>3, <1>9, <1>10, DocumentsKept

\* A check finds what the transaction needs to go on.
LEMMA DocumentsCheck ==
  ASSUME Typed, DocumentsInv, NEW t \in Tx, CheckUnderLocks(t)
  PROVE  DocumentsInv'
<1> DEFINE c == tx[t].command
           p == tx[t].pos
<1>1. Shaped(tx[t]) /\ p \in Nat
  BY DEF Typed, Shaped
<1>2. /\ UNCHANGED <<document, versions, inspection>>
      /\ tx' = [tx EXCEPT ![t].pos = p + 1, ![t].noted = Noted(c)]
  BY DEF CheckUnderLocks, rows
<1>3. /\ tx'[t].command = c /\ tx'[t].pos = p + 1 /\ tx'[t].noted = Noted(c)
      /\ \A u \in Tx \ {t} : tx'[u] = tx[u]
  BY <1>1, <1>2 DEF Typed, Shaped
<1>4. Prepared(t) /\ TablesInOrder(document, versions, inspection)
  BY DEF DocumentsInv
<1>5. c \in Commands
  BY WaitingIsCommand DEF CheckUnderLocks
<1>6. ~IsNcr(c) => DocumentAllowed(c, p, tx[t].noted) /\ Noted(c) = DocumentNoted(c)
  BY DEF CheckUnderLocks, Noted
<1> HIDE DEF p
<1>7. c.op = "createDocument" => \A e \in c.links : LinkAllowed(c.owner, e)
  BY <1>5, <1>6, CommandsOfDocuments DEF DocumentAllowed, ReviewAllowed, EvidenceAllowed
<1>8. OnVersion(t) => Ready(c)
  <2> SUFFICES ASSUME OnVersion(t) PROVE Ready(c)
    OBVIOUS
  <2>1. DocumentAllowed(c, p, tx[t].noted)
    BY <1>5, <1>6, CommandsOfDocuments DEF OnVersion
  <2>2. CASE c.op = "completeUpload"
    BY <2>1, <2>2 DEF DocumentAllowed, ReviewAllowed, EvidenceAllowed, Ready
  <2>3. CASE c.op \in {"submitReview", "approve", "reject"}
    BY <2>1, <2>3 DEF DocumentAllowed, ReviewAllowed, EvidenceAllowed, Ready
  <2> QED  BY <2>2, <2>3 DEF OnVersion, VersionOps
<1>9. ASSUME c.op = "recordEvidence"
      PROVE  /\ document[c.doc].owner = "INTERNAL"
             /\ Noted(c) \in 1..Len(versions[c.doc])
             /\ p + 1 >= 3 => Approved(c.doc) # {}
  <2>1. c.doc \in Docs /\ c.inspection \in Inspections /\ ~IsNcr(c)
    BY <1>5, <1>9, CommandsOfDocuments
  <2>2. /\ EvidenceAllowed(c, p, tx[t].noted)
        /\ Noted(c) = document[c.doc].current
    BY <1>6, <1>9, <2>1 DEF DocumentAllowed, ReviewAllowed, DocumentNoted
  <2>3. DocumentInOrder(document[c.doc], versions[c.doc])
    BY <1>4, <2>1 DEF TablesInOrder
  <2>4. PICK e \in document[c.doc].links : e.inspection = c.inspection
    BY <2>2 DEF EvidenceAllowed
  <2>5. e \in Linkable /\ LinkAllowed(document[c.doc].owner, e)
    BY <2>3 DEF DocumentInOrder
  <2>6. e.type = "RECEIVING_INSPECTION"
    BY <2>1, <2>4, <2>5, QualityAssumption
  <2>7. document[c.doc].owner \in Owners
    BY <2>3, <2>4 DEF DocumentInOrder
  <2>8. document[c.doc].owner = "INTERNAL"
    BY <2>5, <2>6, <2>7 DEF LinkAllowed, Owners
  <2>9. /\ versions[c.doc] # <<>> /\ versions[c.doc] \in Seq(Versions)
        /\ document[c.doc].current = Len(versions[c.doc])
    BY <2>3, <2>8, HistoryOfDocument DEF None
  <2>10. Noted(c) \in 1..Len(versions[c.doc])
    <3>1. Len(versions[c.doc]) \in Nat /\ Len(versions[c.doc]) # 0
      BY <2>9
    <3> QED  BY <2>2, <2>9, <3>1
  <2>11. ASSUME p + 1 >= 3 PROVE Approved(c.doc) # {}
    <3>1. Plan(c) = <<Lock("inspections", c.inspection, "UPDATE"), Check, Check>>
      BY <1>4, <1>5, <1>9, PlanOfDocuments
    <3>2. p < 3
      BY <3>1 DEF CheckUnderLocks, Waiting, p
    <3>3. p = 2
      BY <1>1, <2>11, <3>2 DEF p
    <3>4. EvidenceApproved(c, tx[t].noted) /\ tx[t].noted \in 1..Len(versions[c.doc])
      BY <1>4, <1>9, <2>2, <3>3 DEF EvidenceAllowed, Prepared, p
    <3>5. tx[t].noted \in Approved(c.doc)
      BY <3>4 DEF EvidenceApproved, Approved, ApprovedOf
    <3> QED  BY <3>5
  <2> QED  BY <2>8, <2>10, <2>11
<1>10. Prepared(t)'
  BY <1>2, <1>3, <1>4, <1>7, <1>8, <1>9 DEF Prepared, OnVersion, Ready, Drafted, Approved
<1>11. ASSUME NEW u \in Tx \ {t}, AtVersion(t)', AtVersion(u)
       PROVE  VersionLock(tx'[t].command) # VersionLock(tx[u].command)
  <2>1. OnVersion(t) /\ p # 0
    <3>1. OnVersion(t)
      BY <1>3, <1>11 DEF AtVersion, OnVersion
    <3> QED  BY <3>1, PlaceOfVersion DEF CheckUnderLocks, p
  <2>2. AtVersion(t)
    BY <1>1, <2>1 DEF AtVersion, p
  <2> QED  BY <1>3, <1>11, <2>2 DEF DocumentsInv, VersionLocksApart
<1> QED
  BY <1>2, <1>3, <1>10, <1>11, DocumentsKept

-----------------------------------------------------------------------------
(***************************************************************************)
(* Steps that write.                                                       *)
(***************************************************************************)

\* Who is not the writer stays prepared, if documents keep their owners, their
\* versions and an approved one, and the row it works on keeps its status.
LEMMA OthersPrepared ==
  ASSUME Typed, DocumentsInv, NEW u \in Tx, tx'[u] = tx[u],
         \A d \in Docs : Drafted(d) =>
            /\ document'[d].owner = document[d].owner
            /\ Len(versions[d]) \in Nat /\ Len(versions'[d]) \in Nat
            /\ Len(versions[d]) <= Len(versions'[d])
            /\ Approved(d) # {} => Approved(d)' # {},
         OnVersion(u) /\ tx[u].pos >= 2 => Ready(tx[u].command)'
  PROVE  Prepared(u)'
<1> DEFINE c == tx[u].command
<1>1. Prepared(u) /\ Shaped(tx[u])
  BY DEF DocumentsInv, Typed
<1>2. c.op \in {"createDocument", "supersedeDocument", "recordEvidence"} \cup VersionOps
        => c.doc \in Docs
  <2>1. Idle.command.op \notin {"createDocument", "supersedeDocument", "recordEvidence"} \cup VersionOps
    BY DEF Idle, None, VersionOps
  <2> QED  BY <1>1, <2>1, CommandsOfDocuments DEF Shaped
<1>3. c.op \in {"supersedeDocument", "recordEvidence"} \cup VersionOps =>
        /\ Drafted(c.doc) /\ Drafted(c.doc)'
        /\ document'[c.doc].owner = document[c.doc].owner
        /\ 1..Len(versions[c.doc]) \subseteq 1..Len(versions'[c.doc])
        /\ Approved(c.doc) # {} => Approved(c.doc)' # {}
  BY <1>1, <1>2 DEF Prepared, Drafted
<1> QED
  BY <1>1, <1>3 DEF Prepared, OnVersion, VersionOps, Ready, Drafted, Approved

\* A step that leaves documents in order and nobody unprepared.
LEMMA DocumentsWritten ==
  ASSUME Typed, DocumentsInv, TablesInOrder(document, versions, inspection)',
         NEW t \in Tx, tx' = [tx EXCEPT ![t] = Idle],
         \A u \in Tx \ {t} : Prepared(u)'
  PROVE  DocumentsInv'
<1>1. tx'[t] = Idle /\ \A u \in Tx \ {t} : tx'[u] = tx[u]
  BY DEF Typed
<1>2. Idle.command.op = None /\ None \notin VersionOps /\ None # "createDocument"
      /\ None # "recordEvidence" /\ None # "supersedeDocument"
  BY DEF Idle, None, VersionOps
<1>3. Prepared(t)' /\ ~AtVersion(t)'
  BY <1>1, <1>2 DEF Prepared, AtVersion, OnVersion
<1>4. \A u \in Tx \ {t} : AtVersion(u)' = AtVersion(u)
  BY <1>1 DEF AtVersion, OnVersion
<1>5. VersionLocksApart'
  BY <1>1, <1>3, <1>4 DEF DocumentsInv, VersionLocksApart
<1> QED
  BY <1>3, <1>5 DEF DocumentsInv

\* The tables stay in order when one document does and keeps what may be cited.
LEMMA DocumentReplaced ==
  ASSUME DocumentsInv, NEW d \in Docs, NEW row, NEW history,
         document' = [document EXCEPT ![d] = row],
         versions' = [versions EXCEPT ![d] = history],
         UNCHANGED inspection,
         DocumentInOrder(row, history),
         Drafted(d) => row.owner = document[d].owner,
         Approved(d) # {} => ApprovedOf(history) # {}
  PROVE  /\ TablesInOrder(document, versions, inspection)'
         /\ document'[d] = row /\ versions'[d] = history
         /\ \A e \in Docs \ {d} : document'[e] = document[e] /\ versions'[e] = versions[e]
<1>1. TablesInOrder(document, versions, inspection)
  BY DEF DocumentsInv
<1>2. /\ document'[d] = row /\ versions'[d] = history
      /\ \A e \in Docs \ {d} : document'[e] = document[e] /\ versions'[e] = versions[e]
      /\ document' = [e \in Docs |-> document'[e]] /\ versions' = [e \in Docs |-> versions'[e]]
  BY <1>1 DEF TablesInOrder
<1>3. \A e \in Docs : DocumentInOrder(document'[e], versions'[e])
  BY <1>1, <1>2 DEF TablesInOrder
<1>4. ASSUME NEW i \in Inspections, inspection'[i].evidence # None
      PROVE  /\ document'[inspection'[i].evidence].owner = "INTERNAL"
             /\ ApprovedOf(versions'[inspection'[i].evidence]) # {}
  <2> DEFINE e == inspection[i].evidence
  <2>1. e \in Docs /\ document[e].owner = "INTERNAL" /\ ApprovedOf(versions[e]) # {}
    BY <1>1, <1>4 DEF TablesInOrder
  <2>2. CASE e = d
    BY <1>2, <2>1, <2>2 DEF Drafted, Approved, None
  <2>3. CASE e # d
    BY <1>2, <2>1, <2>3
  <2> QED  BY <2>2, <2>3
<1>5. TablesInOrder(document', versions', inspection')
  BY <1>1, <1>2, <1>3, <1>4 DEF TablesInOrder
<1> QED
  BY <1>2, <1>5 DEF TablesInOrder

\* A new document has one version, in quarantine.
LEMMA CreateDocumentKeeps ==
  ASSUME Typed, DocumentsInv, NEW t \in Tx, tx' = [tx EXCEPT ![t] = Idle],
         tx[t].command \in Commands, ~Waiting(t), CreateDocument(tx[t].command)
  PROVE  DocumentsInv'
<1> DEFINE c == tx[t].command
           d == c.doc
           row == [owner |-> c.owner, current |-> 1, links |-> c.links]
           history == <<NewVersion>>
<1>1. c.op = "createDocument" /\ ~Drafted(d)
  BY DEF CreateDocument
<1>2. d \in Docs /\ c.owner \in Owners /\ c.links \in SUBSET Linkable
  BY <1>1, CommandsOfDocuments
<1>3. \A e \in c.links : LinkAllowed(c.owner, e)
  <2>1. tx[t].pos >= 1
    <3>1. Plan(c) = <<Check>> /\ tx[t].pos \in Nat
      BY <1>1, PlanOfDocuments DEF DocumentsInv, Typed, Shaped
    <3> QED  BY <3>1 DEF Waiting
  <2> QED  BY <1>1, <2>1 DEF DocumentsInv, Prepared
<1>4. /\ document' = [document EXCEPT ![d] = row] /\ versions' = [versions EXCEPT ![d] = history]
      /\ UNCHANGED inspection
  BY DEF CreateDocument
<1>5. DocumentInOrder(row, history)
  <2>1. NewVersion \in Versions /\ NewVersion.status = "QUARANTINED"
    BY DEF NewVersion, Versions
  <2>2. history \in Seq(Versions) /\ Len(history) = 1 /\ history # <<>> /\ history[1] = NewVersion
    BY <2>1
  <2>3. row \in [owner : Owners \cup {None}, current : Nat, links : SUBSET Linkable]
    BY <1>2
  <2>4. row.owner = c.owner /\ row.owner # None /\ row.current = 1 /\ row.links = c.links
    BY <1>2 DEF Owners, None
  <2> HIDE DEF row, history
  <2>5. ApprovedOf(history) = {}
    BY <2>1, <2>2 DEF ApprovedOf
  <2> QED  BY <1>3, <2>1, <2>2, <2>3, <2>4, <2>5 DEF DocumentInOrder
<1>6. Approved(d) = {}
  <2>1. document[d].owner = None
    BY <1>1 DEF Drafted
  <2>2. versions[d] = <<>>
    BY <1>2, <2>1 DEF DocumentsInv, TablesInOrder, DocumentInOrder
  <2> QED  BY <2>2 DEF Approved, ApprovedOf
<1> HIDE DEF row, history
<1>7. /\ TablesInOrder(document, versions, inspection)'
      /\ \A e \in Docs \ {d} : document'[e] = document[e] /\ versions'[e] = versions[e]
  BY <1>1, <1>2, <1>4, <1>5, <1>6, DocumentReplaced
<1>8. \A e \in Docs : Drafted(e) =>
        /\ document'[e] = document[e] /\ versions'[e] = versions[e] /\ versions[e] \in Seq(Versions)
  BY <1>1, <1>7 DEF DocumentsInv, TablesInOrder, DocumentInOrder
<1>9. ASSUME NEW u \in Tx \ {t} PROVE Prepared(u)'
  <2>1. tx'[u] = tx[u]
    BY DEF Typed
  <2>2. OnVersion(u) => Drafted(tx[u].command.doc) /\ tx[u].command.doc \in Docs
    BY PlaceOfVersion DEF DocumentsInv, Prepared, OnVersion
  <2>3. OnVersion(u) /\ tx[u].pos >= 2 => Ready(tx[u].command)'
    <3> SUFFICES ASSUME OnVersion(u), tx[u].pos >= 2 PROVE Ready(tx[u].command)'
      OBVIOUS
    <3>1. versions'[tx[u].command.doc] = versions[tx[u].command.doc]
      BY <1>8, <2>2
    <3>2. Ready(tx[u].command)
      BY DEF DocumentsInv, Prepared
    <3> QED  BY <2>1, <3>1, <3>2 DEF Ready
  <2>4. \A e \in Docs : Drafted(e) =>
            /\ document'[e].owner = document[e].owner
            /\ Len(versions[e]) \in Nat /\ Len(versions'[e]) \in Nat
            /\ Len(versions[e]) <= Len(versions'[e])
            /\ Approved(e) # {} => Approved(e)' # {}
    BY <1>8 DEF Approved
  <2> QED  BY <2>1, <2>3, <2>4, OthersPrepared
<1> QED
  BY <1>7, <1>9, DocumentsWritten

\* A replacement begins a new version, in quarantine, behind the others.
LEMMA SupersedeKeeps ==
  ASSUME Typed, DocumentsInv, NEW t \in Tx, tx' = [tx EXCEPT ![t] = Idle],
         tx[t].command \in Commands, SupersedeDocument(tx[t].command)
  PROVE  DocumentsInv'
<1> DEFINE c == tx[t].command
           d == c.doc
           row == [document[d] EXCEPT !.current = document[d].current + 1]
           history == Append(versions[d], NewVersion)
           old == versions[d]
<1>1. c.op = "supersedeDocument"
  BY DEF SupersedeDocument
<1>2. d \in Docs /\ Drafted(d)
  BY <1>1, CommandsOfDocuments DEF DocumentsInv, Prepared
<1>3. DocumentInOrder(document[d], old)
  BY <1>2 DEF DocumentsInv, TablesInOrder
<1>4. /\ document' = [document EXCEPT ![d] = row] /\ versions' = [versions EXCEPT ![d] = history]
      /\ UNCHANGED inspection
  <2>1. document = [e \in Docs |-> document[e]] /\ versions = [e \in Docs |-> versions[e]]
    BY DEF DocumentsInv, TablesInOrder
  <2> QED  BY <1>2, <2>1 DEF SupersedeDocument
<1>5. /\ row \in [owner : Owners \cup {None}, current : Nat, links : SUBSET Linkable]
      /\ row.owner = document[d].owner /\ row.links = document[d].links
      /\ row.current = document[d].current + 1
  BY <1>3, HistoryOfDocument
<1>6. NewVersion \in Versions /\ NewVersion.status = "QUARANTINED"
  BY DEF NewVersion, Versions
<1>7. /\ history \in Seq(Versions) /\ Len(history) = Len(old) + 1 /\ history # <<>>
      /\ \A n \in 1..Len(old) : history[n] = old[n]
      /\ history[Len(old) + 1] = NewVersion
      /\ Len(old) \in Nat
  <2>1. old \in Seq(Versions) /\ NewVersion \in Versions /\ history = Append(old, NewVersion)
    BY <1>3, <1>6 DEF DocumentInOrder
  <2> HIDE DEF old, history
  <2> QED  BY <2>1
<1> HIDE DEF row, history, old
<1>8. ApprovedOf(history) = ApprovedOf(old)
  <2>1. \A n \in 1..Len(history) : n \in 1..Len(old) \/ n = Len(old) + 1
    BY <1>7
  <2>2. \A n \in 1..Len(history) : n \in ApprovedOf(old) <=> history[n].status = "APPROVED"
    <3> TAKE n \in 1..Len(history)
    <3>1. CASE n \in 1..Len(old)
      BY <1>7, <3>1 DEF ApprovedOf
    <3>2. CASE n = Len(old) + 1
      BY <1>6, <1>7, <3>2 DEF ApprovedOf
    <3> QED  BY <2>1, <3>1, <3>2
  <2>3. 1..Len(old) \subseteq 1..Len(history)
    BY <1>7
  <2> QED  BY <2>2, <2>3 DEF ApprovedOf
<1>9. DocumentInOrder(row, history)
  <2>1. row.owner # None
    BY <1>2, <1>5 DEF Drafted
  <2>2. row.current = Len(history)
    BY <1>3, <1>5, <1>7 DEF DocumentInOrder
  <2>3. ASSUME NEW n \in 1..Len(history), history[n].status \notin {"QUARANTINED", "SCAN_FAILED"}
        PROVE  history[n].scan = "CLEAN"
    <3>1. n \in 1..Len(old)
      BY <1>6, <1>7, <2>3
    <3> QED  BY <1>3, <1>7, <2>3, <3>1 DEF DocumentInOrder
  <2>4. \A e \in row.links : LinkAllowed(row.owner, e)
    BY <1>3, <1>5 DEF DocumentInOrder
  <2>5. \A m, n \in ApprovedOf(history) : m = n
    BY <1>3, <1>8 DEF DocumentInOrder
  <2> QED  BY <1>5, <1>7, <2>1, <2>2, <2>3, <2>4, <2>5 DEF DocumentInOrder
<1>10. Approved(d) = ApprovedOf(old)
  BY DEF Approved, old
<1>11. /\ TablesInOrder(document, versions, inspection)'
       /\ document'[d] = row /\ versions'[d] = history
       /\ \A e \in Docs \ {d} : document'[e] = document[e] /\ versions'[e] = versions[e]
  <2>1. Approved(d) # {} => ApprovedOf(history) # {}
    BY <1>8, <1>10
  <2>2. row.owner = document[d].owner
    BY <1>5
  <2> HIDE DEF d
  <2> QED  BY <1>2, <1>4, <1>9, <2>1, <2>2, DocumentReplaced
<1>12. ASSUME NEW u \in Tx \ {t} PROVE Prepared(u)'
  <2>1. tx'[u] = tx[u]
    BY DEF Typed
  <2>2. ASSUME OnVersion(u), tx[u].pos >= 2 PROVE Ready(tx[u].command)'
    <3> DEFINE k == tx[u].command.number
               e == tx[u].command.doc
    <3>1. e \in Docs /\ k \in 1..Len(versions[e]) /\ Ready(tx[u].command)
      BY <2>2, PlaceOfVersion DEF DocumentsInv, Prepared
    <3>2. versions'[e][k] = versions[e][k]
      <4>1. CASE e = d
        BY <1>7, <1>11, <3>1, <4>1 DEF old
      <4>2. CASE e # d
        BY <1>11, <3>1, <4>2
      <4> QED  BY <4>1, <4>2
    <3> QED  BY <2>1, <3>1, <3>2 DEF Ready
  <2>3. ASSUME NEW e \in Docs, Drafted(e)
        PROVE  /\ document'[e].owner = document[e].owner
               /\ Len(versions[e]) \in Nat /\ Len(versions'[e]) \in Nat
               /\ Len(versions[e]) <= Len(versions'[e])
               /\ Approved(e) # {} => Approved(e)' # {}
    <3>1. CASE e = d
      <4>1. versions[e] = old /\ versions'[e] = history /\ document'[e] = row
        BY <1>11, <3>1 DEF old
      <4>2. Approved(e) = ApprovedOf(old) /\ Approved(e)' = ApprovedOf(history)
        BY <4>1 DEF Approved
      <4>3. row.owner = document[e].owner
        BY <1>5, <3>1
      <4>4. Len(old) \in Nat /\ Len(history) = Len(old) + 1
        BY <1>7
      <4> HIDE DEF c, d
      <4> QED  BY <1>8, <4>1, <4>2, <4>3, <4>4
    <3>2. CASE e # d
      <4>1. versions[e] \in Seq(Versions)
        BY DEF DocumentsInv, TablesInOrder, DocumentInOrder
      <4> QED  BY <1>11, <3>2, <4>1 DEF Approved
    <3> QED  BY <3>1, <3>2
  <2> QED  BY <2>1, <2>2, <2>3, OthersPrepared
<1> QED
  BY <1>11, <1>12, DocumentsWritten

\* What a command on version "number" may make of a document's versions.
Rewritten(old, number, history) ==
    /\ history \in Seq(Versions) /\ Len(history) = Len(old)
    /\ \A n \in 1..Len(history) :
          history[n].status \notin {"QUARANTINED", "SCAN_FAILED"} => history[n].scan = "CLEAN"
    /\ \A m, n \in ApprovedOf(history) : m = n
    /\ ApprovedOf(old) # {} => ApprovedOf(history) # {}
    /\ \A n \in 1..Len(history) : n # number /\ n \notin ApprovedOf(old) => history[n] = old[n]

\* A command on a version writes the row it has locked and ready, and those an
\* approval replaces; everything else of the document stays.
LEMMA VersionWritten ==
  ASSUME Typed, DocumentsInv, NEW t \in Tx, tx' = [tx EXCEPT ![t] = Idle],
         OnVersion(t), ~Waiting(t),
         NEW d, d = tx[t].command.doc,
         NEW number, number = tx[t].command.number,
         NEW history, Rewritten(versions[d], number, history),
         versions' = [versions EXCEPT ![d] = history],
         UNCHANGED <<document, inspection>>
  PROVE  DocumentsInv'
<1> DEFINE c == tx[t].command
           row == document[d]
<1> USE DEF Rewritten
<1>1. d \in Docs /\ c.number \in 1..Len(versions[d]) /\ tx[t].pos \in Nat /\ tx[t].pos >= 2
  BY PlaceOfVersion DEF DocumentsInv, Prepared
<1>2. DocumentInOrder(row, versions[d])
  BY <1>1 DEF DocumentsInv, TablesInOrder
<1>3. document' = [document EXCEPT ![d] = row]
  BY <1>1 DEF DocumentsInv, TablesInOrder
<1>4. DocumentInOrder(row, history)
  <2>1. Len(versions[d]) \in Nat /\ Len(versions[d]) # 0
    BY <1>1, <1>2, HistoryOfDocument
  <2>2. history # <<>> /\ versions[d] # <<>>
    BY <2>1
  <2> QED  BY <1>2, <2>2 DEF DocumentInOrder
<1>5. /\ TablesInOrder(document, versions, inspection)'
      /\ versions'[d] = history
      /\ \A e \in Docs \ {d} : versions'[e] = versions[e]
  <2>1. versions' = [versions EXCEPT ![d] = history] /\ UNCHANGED inspection
    OBVIOUS
  <2>2. Approved(d) # {} => ApprovedOf(history) # {}
    BY DEF Approved
  <2>3. row.owner = document[d].owner
    OBVIOUS
  <2> HIDE DEF row
  <2>4. /\ TablesInOrder(document, versions, inspection)'
        /\ document'[d] = row /\ versions'[d] = history
        /\ \A e \in Docs \ {d} : document'[e] = document[e] /\ versions'[e] = versions[e]
    BY <1>1, <1>3, <1>4, <2>1, <2>2, <2>3, DocumentReplaced
  <2> QED  BY <2>4
<1>6. ASSUME NEW u \in Tx \ {t} PROVE Prepared(u)'
  <2>1. tx'[u] = tx[u]
    BY DEF Typed
  <2>2. ASSUME OnVersion(u), tx[u].pos >= 2 PROVE Ready(tx[u].command)'
    <3> DEFINE k == tx[u].command.number
               e == tx[u].command.doc
    <3>1. e \in Docs /\ k \in 1..Len(versions[e]) /\ Ready(tx[u].command) /\ tx[u].pos \in Nat
      BY <2>2, PlaceOfVersion DEF DocumentsInv, Prepared
    <3>2. ASSUME e = d PROVE versions'[e][k] = versions[e][k]
      <4>1. VersionLock(c) # VersionLock(tx[u].command)
        <5>1. AtVersion(t) /\ AtVersion(u)
          BY <1>1, <2>2, <3>1 DEF AtVersion
        <5> QED  BY <5>1 DEF DocumentsInv, VersionLocksApart
      <4>2. k # c.number
        BY <3>2, <4>1 DEF VersionLock
      <4>3. versions[d][k].status # "APPROVED"
        BY <3>1, <3>2 DEF Ready, ReviewSource
      <4>4. history[k] = versions[d][k]
        BY <3>1, <3>2, <4>2, <4>3 DEF ApprovedOf
      <4> QED  BY <1>5, <3>2, <4>4
    <3>3. ASSUME e # d PROVE versions'[e][k] = versions[e][k]
      BY <1>5, <3>1, <3>3
    <3>4. versions'[e][k] = versions[e][k]
      BY <3>2, <3>3
    <3> QED  BY <2>1, <3>1, <3>4 DEF Ready
  <2>3. ASSUME NEW e \in Docs, Drafted(e)
        PROVE  /\ document'[e].owner = document[e].owner
               /\ Len(versions[e]) \in Nat /\ Len(versions'[e]) \in Nat
               /\ Len(versions[e]) <= Len(versions'[e])
               /\ Approved(e) # {} => Approved(e)' # {}
    <3>1. versions[e] \in Seq(Versions)
      BY DEF DocumentsInv, TablesInOrder, DocumentInOrder
    <3>2. CASE e = d
      <4>1. versions'[e] = history /\ ApprovedOf(history) = Approved(e)'
        BY <1>5, <3>2 DEF Approved
      <4>2. Approved(e) = ApprovedOf(versions[d])
        BY <3>2 DEF Approved
      <4>3. Len(versions'[e]) = Len(versions[e]) /\ Len(versions[e]) \in Nat
        BY <3>1, <3>2, <4>1
      <4> QED  BY <4>1, <4>2, <4>3
    <3>3. CASE e # d
      BY <1>5, <3>1, <3>3 DEF Approved
    <3> QED  BY <3>2, <3>3
  <2> QED  BY <2>1, <2>2, <2>3, OthersPrepared
<1> QED
  BY <1>5, <1>6, DocumentsWritten

\* What the scan makes of a version.
LEMMA ScannedVersion ==
  ASSUME NEW old \in Versions, NEW verdict \in ScanResults
  PROVE  /\ Scanned(old, verdict) \in Versions
         /\ Scanned(old, verdict).status = IF verdict = "CLEAN" THEN "DRAFT" ELSE "SCAN_FAILED"
         /\ Scanned(old, verdict).scan = verdict
<1> DEFINE w == Scanned(old, verdict)
           status == IF verdict = "CLEAN" THEN "DRAFT" ELSE "SCAN_FAILED"
<1>1. w = [old EXCEPT !.status = status, !.scan = verdict, !.version = old.version + 1]
  BY DEF Scanned
<1>2. status \in {"DRAFT", "SCAN_FAILED"} /\ old.version + 1 \in Nat
  BY DEF Versions
<1> HIDE DEF w, status
<1>3. w \in Versions /\ w.status = status /\ w.scan = verdict
  BY <1>1, <1>2 DEF Versions
<1> QED
  BY <1>3 DEF w, status

\* What a review makes of a version.
LEMMA MovedVersion ==
  ASSUME NEW old \in Versions,
         NEW status \in {"IN_REVIEW", "APPROVED", "REJECTED", "SUPERSEDED"}
  PROVE  /\ Moved(old, status) \in Versions
         /\ Moved(old, status).status = status
         /\ Moved(old, status).scan = old.scan
<1> DEFINE w == Moved(old, status)
<1>1. w = [old EXCEPT !.status = status, !.version = old.version + 1]
  BY DEF Moved
<1>2. old.version + 1 \in Nat
  BY DEF Versions
<1> HIDE DEF w
<1>3. w \in Versions /\ w.status = status /\ w.scan = old.scan
  BY <1>1, <1>2 DEF Versions
<1> QED
  BY <1>3 DEF w

\* The scan of an upload decides its version and no other.
LEMMA CompleteUploadKeeps ==
  ASSUME Typed, DocumentsInv, NEW t \in Tx, tx' = [tx EXCEPT ![t] = Idle],
         ~Waiting(t), CompleteUpload(tx[t].command)
  PROVE  DocumentsInv'
<1> DEFINE c == tx[t].command
           d == c.doc
           k == c.number
           old == versions[d]
<1>1. c.op = "completeUpload" /\ OnVersion(t)
  BY DEF CompleteUpload, OnVersion, VersionOps
<1>2. /\ d \in Docs /\ k \in 1..Len(old)
      /\ old[k].status = "QUARANTINED" /\ old[k].scan = "PENDING"
  BY <1>1, PlaceOfVersion DEF DocumentsInv, Prepared, Ready
<1>3. DocumentInOrder(document[d], old)
  BY <1>2 DEF DocumentsInv, TablesInOrder
<1>4. PICK verdict \in ScanResults :
        /\ versions' = [versions EXCEPT ![d][k] = Scanned(old[k], verdict)]
        /\ UNCHANGED <<document, inspection>>
  BY DEF CompleteUpload, Verdict, ScanResults
<1> DEFINE new == Scanned(old[k], verdict)
           history == [old EXCEPT ![k] = new]
<1>5. old \in Seq(Versions) /\ old[k] \in Versions
  <2> HIDE DEF old, k
  <2> QED  BY <1>2, <1>3, HistoryOfDocument
<1>6. /\ new \in Versions
      /\ new.status \in {"DRAFT", "SCAN_FAILED"} /\ (new.status = "DRAFT" => new.scan = "CLEAN")
  BY <1>5, ScannedVersion
<1>7. versions' = [versions EXCEPT ![d] = history]
  BY <1>4, <1>2 DEF DocumentsInv, TablesInOrder
<1> HIDE DEF new
<1>8. /\ history \in Seq(Versions) /\ Len(history) = Len(old)
      /\ history[k] = new /\ \A n \in 1..Len(old) : n # k => history[n] = old[n]
  <2> HIDE DEF old, k
  <2> QED  BY <1>2, <1>5, <1>6
<1> HIDE DEF history
<1>9. ApprovedOf(history) = ApprovedOf(old)
  BY <1>2, <1>6, <1>8 DEF ApprovedOf
<1>10. \A n \in 1..Len(history) :
         history[n].status \notin {"QUARANTINED", "SCAN_FAILED"} => history[n].scan = "CLEAN"
  BY <1>3, <1>6, <1>8 DEF DocumentInOrder
<1>11. /\ \A m, n \in ApprovedOf(history) : m = n
       /\ ApprovedOf(old) # {} => ApprovedOf(history) # {}
  BY <1>3, <1>9 DEF DocumentInOrder
<1>12. \A n \in 1..Len(history) : n # k /\ n \notin ApprovedOf(old) => history[n] = old[n]
  BY <1>8
<1>13. Rewritten(old, k, history)
  BY <1>8, <1>10, <1>11, <1>12 DEF Rewritten
<1> HIDE DEF c, d, k, old
<1>14. /\ d = tx[t].command.doc /\ k = tx[t].command.number
       /\ Rewritten(versions[d], k, history)
  BY <1>13 DEF c, d, k, old
<1>15. OnVersion(t) /\ UNCHANGED <<document, inspection>>
  BY <1>1, <1>4
<1> QED
  BY <1>7, <1>14, <1>15, VersionWritten

\* A review moves its version on; an approval takes the approved one back.
LEMMA ReviewVersionKeeps ==
  ASSUME Typed, DocumentsInv, NEW t \in Tx, tx' = [tx EXCEPT ![t] = Idle],
         ~Waiting(t), ReviewVersion(tx[t].command)
  PROVE  DocumentsInv'
<1> DEFINE c == tx[t].command
           d == c.doc
           k == c.number
           old == versions[d]
           target == ReviewTarget(c.op)
           Reviewed(n) ==
             IF n = k THEN Moved(old[n], target)
             ELSE IF n \in Replaced(c) THEN Moved(old[n], "SUPERSEDED")
             ELSE old[n]
           history == [n \in 1..Len(old) |-> Reviewed(n)]
<1>1. c.op \in {"submitReview", "approve", "reject"} /\ OnVersion(t)
  BY DEF ReviewVersion, OnVersion, VersionOps
<1>2. /\ d \in Docs /\ k \in 1..Len(old)
      /\ old[k].status = ReviewSource(c.op) /\ old[k].scan = "CLEAN"
  BY <1>1, PlaceOfVersion DEF DocumentsInv, Prepared, Ready
<1>3. DocumentInOrder(document[d], old)
  BY <1>2 DEF DocumentsInv, TablesInOrder
<1>4. versions' = [versions EXCEPT ![d] = history] /\ UNCHANGED <<document, inspection>>
  BY DEF ReviewVersion
<1>5. old \in Seq(Versions) /\ Len(old) \in Nat /\ \A n \in 1..Len(old) : old[n] \in Versions
  <2> HIDE DEF old
  <2> QED  BY <1>3, HistoryOfDocument
<1>6. /\ target \in {"IN_REVIEW", "APPROVED", "REJECTED"}
      /\ target = "APPROVED" <=> c.op = "approve"
  BY <1>1 DEF ReviewTarget
<1>7. old[k].status # "APPROVED"
  BY <1>2 DEF ReviewSource
<1>8. /\ Replaced(c) = IF c.op = "approve" THEN ApprovedOf(old) ELSE {}
      /\ Replaced(c) \subseteq ApprovedOf(old)
  <2>1. k \notin ApprovedOf(old)
    BY <1>7 DEF ApprovedOf
  <2>2. Replaced(c) = IF c.op = "approve" THEN ApprovedOf(old) \ {k} ELSE {}
    BY DEF Replaced, Approved
  <2> HIDE DEF old, k, c
  <2>3. ApprovedOf(old) \ {k} = ApprovedOf(old)
    BY <2>1
  <2> QED  BY <2>2, <2>3
<1> HIDE DEF target
<1>9. ASSUME NEW n \in 1..Len(old)
      PROVE  /\ Reviewed(n) \in Versions
             /\ n = k => Reviewed(n).status = target /\ Reviewed(n).scan = "CLEAN"
             /\ n # k /\ n \in Replaced(c) => Reviewed(n).status = "SUPERSEDED" /\ Reviewed(n).scan = old[n].scan
             /\ n # k /\ n \notin Replaced(c) => Reviewed(n) = old[n]
  <2> DEFINE v == old[n]
  <2>1. v \in Versions
    BY <1>5
  <2> HIDE DEF v
  <2>2. /\ Moved(v, target) \in Versions
        /\ Moved(v, target).status = target /\ Moved(v, target).scan = v.scan
    BY <1>6, <2>1, MovedVersion
  <2>3. /\ Moved(v, "SUPERSEDED") \in Versions
        /\ Moved(v, "SUPERSEDED").status = "SUPERSEDED" /\ Moved(v, "SUPERSEDED").scan = v.scan
    BY <2>1, MovedVersion
  <2>4. Reviewed(n) = IF n = k THEN Moved(v, target)
                      ELSE IF n \in Replaced(c) THEN Moved(v, "SUPERSEDED") ELSE v
    BY DEF v
  <2>5. n = k => v.scan = "CLEAN"
    BY <1>2 DEF v
  <2>6. v = old[n]
    BY DEF v
  <2> HIDE DEF Reviewed, old, k, c
  <2> QED  BY <2>1, <2>2, <2>3, <2>4, <2>5, <2>6
<1>10. /\ history \in Seq(Versions) /\ Len(history) = Len(old)
       /\ \A n \in 1..Len(old) : history[n] = Reviewed(n)
  <2> HIDE DEF Reviewed, old
  <2> QED  BY <1>5, <1>9
<1> HIDE DEF history
<1>11. ASSUME NEW n \in 1..Len(old)
       PROVE  /\ n = k => history[n].status = target /\ history[n].scan = "CLEAN"
              /\ n # k /\ n \in Replaced(c) => history[n].status = "SUPERSEDED" /\ history[n].scan = old[n].scan
              /\ n # k /\ n \notin Replaced(c) => history[n] = old[n]
  <2> HIDE DEF Reviewed
  <2> QED  BY <1>9, <1>10
<1> HIDE DEF Reviewed, old, k, d, c
<1>12. ApprovedOf(history) = IF c.op = "approve" THEN {k} ELSE ApprovedOf(old)
  <2>1. CASE c.op = "approve"
    BY <1>2, <1>6, <1>8, <1>10, <1>11, <2>1 DEF ApprovedOf
  <2>2. CASE c.op # "approve"
    BY <1>2, <1>6, <1>7, <1>8, <1>10, <1>11, <2>2 DEF ApprovedOf
  <2> QED  BY <2>1, <2>2
<1>13. ASSUME NEW n \in 1..Len(history), history[n].status \notin {"QUARANTINED", "SCAN_FAILED"}
       PROVE  history[n].scan = "CLEAN"
  <2>1. \A m \in ApprovedOf(old) : old[m].scan = "CLEAN"
    BY <1>3 DEF DocumentInOrder, ApprovedOf
  <2> QED  BY <1>3, <1>8, <1>10, <1>11, <1>13, <2>1 DEF DocumentInOrder
<1>14. /\ \A m, n \in ApprovedOf(history) : m = n
       /\ ApprovedOf(old) # {} => ApprovedOf(history) # {}
  BY <1>3, <1>12 DEF DocumentInOrder
<1>15. \A n \in 1..Len(history) : n # k /\ n \notin ApprovedOf(old) => history[n] = old[n]
  BY <1>8, <1>10, <1>11
<1>16. Rewritten(old, k, history)
  BY <1>10, <1>13, <1>14, <1>15 DEF Rewritten
<1>17. /\ d = tx[t].command.doc /\ k = tx[t].command.number
       /\ Rewritten(versions[d], k, history)
  BY <1>16 DEF c, d, k, old
<1> QED
  BY <1>1, <1>4, <1>17, VersionWritten

-----------------------------------------------------------------------------
(***************************************************************************)
(* Inspections, and the steps that are no command's.                       *)
(***************************************************************************)

InspectionRows ==
  [status : {"OPEN", "FINALIZED"},
   disposition : {None, "ACCEPTED", "CONDITIONALLY_ACCEPTED", "REJECTED"},
   evidence : Docs \cup {None}, conforming : BOOLEAN, version : Nat]

\* An inspection is written, no document is: what it cites, if it cites one, is
\* internal and approved.
LEMMA InspectionWritten ==
  ASSUME Typed, DocumentsInv, NEW t \in Tx, tx' = [tx EXCEPT ![t] = Idle],
         UNCHANGED <<document, versions>>,
         NEW i \in Inspections, NEW row \in InspectionRows,
         inspection'[i] = row, inspection' = [j \in Inspections |-> inspection'[j]],
         \A j \in Inspections \ {i} : inspection'[j] = inspection[j],
         row.evidence # None =>
            document[row.evidence].owner = "INTERNAL" /\ Approved(row.evidence) # {}
  PROVE  DocumentsInv'
<1>1. TablesInOrder(document, versions, inspection) /\ \A j \in Inspections : inspection[j] \in InspectionRows
  BY DEF DocumentsInv, TablesInOrder, InspectionRows
<1>2. \A j \in Inspections : inspection'[j] \in InspectionRows
  BY <1>1
<1>3. inspection' \in [Inspections -> InspectionRows]
  <2>1. [j \in Inspections |-> inspection'[j]] \in [Inspections -> InspectionRows]
    BY <1>2
  <2> QED  BY <2>1
<1>4. ASSUME NEW j \in Inspections, inspection'[j].evidence # None
      PROVE  /\ document[inspection'[j].evidence].owner = "INTERNAL"
             /\ ApprovedOf(versions[inspection'[j].evidence]) # {}
  <2>1. CASE j = i
    BY <1>4, <2>1 DEF Approved
  <2>2. CASE j # i
    BY <1>1, <1>4, <2>2 DEF TablesInOrder
  <2> QED  BY <2>1, <2>2
<1>5. TablesInOrder(document, versions, inspection')
  BY <1>1, <1>3, <1>4 DEF TablesInOrder, InspectionRows
<1>6. TablesInOrder(document, versions, inspection)'
  BY <1>5 DEF TablesInOrder
<1>7. ASSUME NEW u \in Tx \ {t} PROVE Prepared(u)'
  <2>1. tx'[u] = tx[u]
    BY DEF Typed
  <2> QED  BY <2>1, StillPrepared
<1> QED
  BY <1>6, <1>7, DocumentsWritten

\* Recording what has been found to be approved, while nobody could take the
\* approval of the last version away without giving it to another.
LEMMA RecordEvidenceKeeps ==
  ASSUME Typed, DocumentsInv, NEW t \in Tx, tx' = [tx EXCEPT ![t] = Idle],
         tx[t].command \in Commands, ~Waiting(t), RecordEvidence(tx[t].command)
  PROVE  DocumentsInv'
<1> DEFINE c == tx[t].command
           i == c.inspection
           old == inspection[i]
           conforms == c.decision = "ACCEPTED"
<1>1. c.op = "recordEvidence" /\ c.doc \in Docs /\ i \in Inspections
  BY CommandsOfDocuments DEF RecordEvidence
<1>2. tx[t].pos >= 3 /\ tx[t].pos >= 2
  <2>1. Plan(c) = <<Lock("inspections", c.inspection, "UPDATE"), Check, Check>> /\ tx[t].pos \in Nat
    BY <1>1, PlanOfDocuments DEF DocumentsInv, Typed, Shaped
  <2> QED  BY <2>1 DEF Waiting
<1>3. document[c.doc].owner = "INTERNAL" /\ Approved(c.doc) # {}
  BY <1>1, <1>2 DEF DocumentsInv, Prepared
<1>4. inspection \in [Inspections -> InspectionRows] /\ old \in InspectionRows
  BY <1>1 DEF DocumentsInv, TablesInOrder, InspectionRows
<1>5. /\ inspection' = [inspection EXCEPT ![i] =
            [old EXCEPT !.evidence = c.doc, !.conforming = conforms, !.version = old.version + 1]]
      /\ UNCHANGED <<document, versions>>
  BY <1>1, <1>4 DEF RecordEvidence, InspectionRows
<1> DEFINE d == c.doc
           row == [old EXCEPT !.evidence = d, !.conforming = conforms, !.version = old.version + 1]
<1>6. row \in InspectionRows /\ row.evidence = d
  <2>1. conforms \in BOOLEAN /\ old.version + 1 \in Nat /\ d \in Docs \cup {None}
    BY <1>1, <1>4 DEF InspectionRows
  <2> HIDE DEF old, conforms, d
  <2> QED  BY <1>4, <2>1 DEF InspectionRows
<1> HIDE DEF row
<1>7. /\ inspection'[i] = row /\ inspection' = [j \in Inspections |-> inspection'[j]]
      /\ \A j \in Inspections \ {i} : inspection'[j] = inspection[j]
  <2>1. inspection' = [inspection EXCEPT ![i] = row]
    BY <1>5 DEF row
  <2> QED  BY <1>1, <1>4, <2>1
<1> HIDE DEF i, d
<1>8. i \in Inspections /\ row.evidence # None =>
         document[row.evidence].owner = "INTERNAL" /\ Approved(row.evidence) # {}
  BY <1>3, <1>6 DEF d
<1>9. UNCHANGED <<document, versions>> /\ i \in Inspections
  BY <1>1, <1>5 DEF i
<1> QED
  BY <1>6, <1>7, <1>8, <1>9, InspectionWritten

\* Finalizing cites nothing new.
LEMMA FinalizeInspectionKeeps ==
  ASSUME Typed, DocumentsInv, NEW t \in Tx, tx' = [tx EXCEPT ![t] = Idle],
         tx[t].command \in Commands, FinalizeInspection(tx[t].command)
  PROVE  DocumentsInv'
<1> DEFINE c == tx[t].command
           i == c.inspection
           old == inspection[i]
           disposition == c.disposition
<1>1. /\ c.op = "finalize" /\ i \in Inspections
      /\ disposition \in {"ACCEPTED", "CONDITIONALLY_ACCEPTED", "REJECTED"}
  BY CommandsOfDocuments DEF FinalizeInspection
<1>2. inspection \in [Inspections -> InspectionRows] /\ old \in InspectionRows
  BY <1>1 DEF DocumentsInv, TablesInOrder, InspectionRows
<1> DEFINE row == [old EXCEPT !.status = "FINALIZED", !.disposition = disposition,
                              !.version = old.version + 1]
<1>3. inspection' = [inspection EXCEPT ![i] = row] /\ UNCHANGED <<document, versions>>
  BY <1>1, <1>2 DEF FinalizeInspection, InspectionRows
<1>4. row \in InspectionRows /\ row.evidence = old.evidence
  <2>1. old.version + 1 \in Nat
    BY <1>2 DEF InspectionRows
  <2> HIDE DEF old, disposition
  <2> QED  BY <1>1, <1>2, <2>1 DEF InspectionRows
<1> HIDE DEF row
<1>5. /\ inspection'[i] = row /\ inspection' = [j \in Inspections |-> inspection'[j]]
      /\ \A j \in Inspections \ {i} : inspection'[j] = inspection[j]
  BY <1>1, <1>2, <1>3
<1>6. row.evidence # None =>
         document[row.evidence].owner = "INTERNAL" /\ Approved(row.evidence) # {}
  BY <1>1, <1>4 DEF DocumentsInv, TablesInOrder, Approved
<1>7. UNCHANGED <<document, versions>> /\ i \in Inspections
  BY <1>1, <1>3
<1> HIDE DEF i, c
<1> QED
  BY <1>4, <1>5, <1>6, <1>7, InspectionWritten

\* An upload session ends: no status, scan or number is touched.
LEMMA ExpireKeeps ==
  ASSUME DocumentsInv, NEW d \in Docs, NEW n, Expire(d, n)
  PROVE  DocumentsInv'
<1> DEFINE old == versions[d]
           new == [old[n] EXCEPT !.expired = TRUE]
           history == [old EXCEPT ![n] = new]
           Same(v, w) == w.status = v.status /\ w.scan = v.scan
<1>1. DocumentInOrder(document[d], old) /\ n \in 1..Len(old) /\ UNCHANGED <<document, inspection, tx>>
  BY DEF DocumentsInv, TablesInOrder, Expire
<1>2. old \in Seq(Versions) /\ old[n] \in Versions
  BY <1>1 DEF DocumentInOrder
<1>3. versions' = [versions EXCEPT ![d] = history]
  BY <1>1 DEF Expire, DocumentsInv, TablesInOrder
<1>4. /\ history \in Seq(Versions) /\ Len(history) = Len(old)
      /\ \A m \in 1..Len(old) : Same(old[m], history[m])
  <2>1. new \in Versions /\ Same(old[n], new)
    BY <1>2 DEF Versions
  <2> HIDE DEF new, old
  <2> QED  BY <1>1, <1>2, <2>1
<1> HIDE DEF history
<1>5. ApprovedOf(history) = ApprovedOf(old)
  BY <1>4 DEF ApprovedOf
<1>6. DocumentInOrder(document[d], history)
  <2>1. history = <<>> <=> old = <<>>
    BY <1>2, <1>4
  <2> HIDE DEF old
  <2> QED  BY <1>1, <1>4, <1>5, <2>1 DEF DocumentInOrder
<1>7. /\ TablesInOrder(document, versions, inspection)'
      /\ versions'[d] = history
      /\ \A e \in Docs \ {d} : versions'[e] = versions[e]
  <2> DEFINE row == document[d]
  <2>1. document' = [document EXCEPT ![d] = row]
    BY <1>1 DEF DocumentsInv, TablesInOrder
  <2>2. DocumentInOrder(row, history) /\ row.owner = document[d].owner
    BY <1>6
  <2>3. Approved(d) # {} => ApprovedOf(history) # {}
    BY <1>5 DEF Approved
  <2> HIDE DEF row
  <2>4. /\ TablesInOrder(document, versions, inspection)'
        /\ document'[d] = row /\ versions'[d] = history
        /\ \A e \in Docs \ {d} : document'[e] = document[e] /\ versions'[e] = versions[e]
    BY <1>1, <1>3, <2>1, <2>2, <2>3, DocumentReplaced
  <2> QED  BY <2>4
<1>8. ASSUME NEW e
      PROVE  /\ Len(versions'[e]) = Len(versions[e]) /\ Approved(e)' = Approved(e)
             /\ \A m \in 1..Len(versions[e]) : Same(versions[e][m], versions'[e][m])
  <2>1. CASE e = d
    BY <1>4, <1>5, <1>7, <2>1 DEF Approved
  <2>2. CASE e # d
    <3>1. versions'[e] = versions[e]
      BY <1>3, <2>2 DEF DocumentsInv, TablesInOrder
    <3> QED  BY <3>1 DEF Approved
  <2> QED  BY <2>1, <2>2
<1>9. ASSUME NEW t \in Tx PROVE Prepared(t)'
  <2> DEFINE c == tx[t].command
  <2>1. OnVersion(t) /\ tx[t].pos >= 2 => Ready(c)'
    <3> SUFFICES ASSUME OnVersion(t), tx[t].pos >= 2 PROVE Ready(c)'
      OBVIOUS
    <3>1. Ready(c) /\ Same(versions[c.doc][c.number], versions'[c.doc][c.number])
      BY <1>8 DEF DocumentsInv, Prepared
    <3> QED  BY <1>1, <3>1 DEF Ready
  <2>2. tx'[t] = tx[t] /\ document' = document
    BY <1>1
  <2>3. Prepared(t)
    BY DEF DocumentsInv
  <2> QED  BY <1>8, <2>1, <2>2, <2>3 DEF Prepared, OnVersion, Drafted, Ready
<1>10. VersionLocksApart'
  BY <1>1 DEF DocumentsInv, VersionLocksApart, AtVersion, OnVersion
<1> QED
  BY <1>7, <1>9, <1>10 DEF DocumentsInv

\* What a transaction writes.
LEMMA DocumentsCommit ==
  ASSUME IInv, DocumentsInv, NEW t \in Tx, Commit(t)
  PROVE  DocumentsInv'
<1> DEFINE c == tx[t].command
<1>1. Typed /\ tx' = [tx EXCEPT ![t] = Idle] /\ ~Waiting(t) /\ Running(t)
  BY DEF IInv, Commit
<1>2. c \in Commands
  BY <1>1 DEF Typed, Shaped, Running, Idle
<1>3. \/ CreateDocument(c) \/ SupersedeDocument(c) \/ CompleteUpload(c)
      \/ ReviewVersion(c) \/ RecordEvidence(c) \/ FinalizeInspection(c)
      \/ UNCHANGED <<document, versions, inspection>>
  BY DEF Commit
<1>4. CASE CreateDocument(c)
  BY <1>1, <1>2, <1>4, CreateDocumentKeeps
<1>5. CASE SupersedeDocument(c)
  BY <1>1, <1>2, <1>5, SupersedeKeeps
<1>6. CASE CompleteUpload(c)
  BY <1>1, <1>6, CompleteUploadKeeps
<1>7. CASE ReviewVersion(c)
  BY <1>1, <1>7, ReviewVersionKeeps
<1>8. CASE RecordEvidence(c)
  BY <1>1, <1>2, <1>8, RecordEvidenceKeeps
<1>9. CASE FinalizeInspection(c)
  BY <1>1, <1>2, <1>9, FinalizeInspectionKeeps
<1>10. CASE UNCHANGED <<document, versions, inspection>>
  BY <1>1, <1>10, DocumentsAbort
<1> QED
  BY <1>3, <1>4, <1>5, <1>6, <1>7, <1>8, <1>9, <1>10

\* A step that is nobody's transaction's.
LEMMA DocumentsElsewhere ==
  ASSUME DocumentsInv, UNCHANGED <<document, versions, inspection, tx>>
  PROVE  DocumentsInv'
<1>1. TablesInOrder(document, versions, inspection)'
  BY DEF DocumentsInv, TablesInOrder
<1>2. VersionLocksApart'
  BY DEF DocumentsInv, VersionLocksApart, AtVersion, OnVersion
<1>3. \A t \in Tx : Prepared(t)'
  BY DEF DocumentsInv, Prepared, OnVersion, Ready, Drafted, Approved
<1> QED
  BY <1>1, <1>2, <1>3 DEF DocumentsInv

\* The tables are in order at the beginning, and nobody is at work.
LEMMA DocumentsAtStart == Init => DocumentsInv
<1> SUFFICES ASSUME Init PROVE DocumentsInv
  OBVIOUS
<1>1. TablesInOrder(document, versions, inspection)
  <2>1. PICK b \in Databases : /\ document = b.document /\ versions = b.versions
                               /\ inspection = b.inspection
    BY DEF Init
  <2> QED  BY <2>1, DatabasesInOrder
<1>2. \A t \in Tx : tx[t] = Idle
  BY DEF Init
<1>3. Idle.command.op = None /\ None \notin VersionOps /\ None # "createDocument"
      /\ None # "recordEvidence" /\ None # "supersedeDocument"
  BY DEF Idle, None, VersionOps
<1>4. \A t \in Tx : ~OnVersion(t) /\ Prepared(t)
  BY <1>2, <1>3 DEF OnVersion, Prepared
<1> QED
  BY <1>1, <1>4 DEF DocumentsInv, VersionLocksApart, AtVersion

\* The invariant of the documents is inductive, given that of the reports.
LEMMA DocumentsStep == IInv /\ DocumentsInv /\ [Next]_vars => DocumentsInv'
<1> SUFFICES ASSUME IInv, DocumentsInv, [Next]_vars PROVE DocumentsInv'
  OBVIOUS
<1>1. Typed
  BY DEF IInv
<1>2. ASSUME NEW t \in Tx, NEW c \in Commands, Begin(t, c) PROVE DocumentsInv'
  BY <1>1, <1>2, DocumentsBegin
<1>3. ASSUME NEW t \in Tx, TakeLock(t) PROVE DocumentsInv'
  BY <1>1, <1>3, DocumentsLock
<1>4. ASSUME NEW t \in Tx, CheckUnderLocks(t) PROVE DocumentsInv'
  BY <1>1, <1>4, DocumentsCheck
<1>5. ASSUME NEW t \in Tx, Commit(t) PROVE DocumentsInv'
  BY <1>5, DocumentsCommit
<1>6. ASSUME NEW t \in Tx, Abort(t) PROVE DocumentsInv'
  <2>1. UNCHANGED <<document, versions, inspection>> /\ tx' = [tx EXCEPT ![t] = Idle]
    BY <1>6 DEF Abort, rows
  <2> QED  BY <1>1, <2>1, DocumentsAbort
<1>7. ASSUME NEW d \in Docs, NEW n \in 1..MaxVersions, Expire(d, n) PROVE DocumentsInv'
  BY <1>7, ExpireKeeps
<1>8. ASSUME CloseProject \/ RemoveSupplier \/ UNCHANGED vars PROVE DocumentsInv'
  <2>1. UNCHANGED <<document, versions, inspection, tx>>
    BY <1>8 DEF CloseProject, RemoveSupplier, vars, rows
  <2> QED  BY <2>1, DocumentsElsewhere
<1> QED
  BY <1>2, <1>3, <1>4, <1>5, <1>6, <1>7, <1>8, Zenon DEF Next

\* Documents, their versions and what inspections cite are in order in every
\* reachable state, and every transaction on a version finds at its commit what
\* it has found under the lock of it.
THEOREM DocumentsStand == Spec => []DocumentsInv
<1>1. Init => DocumentsInv
  BY DocumentsAtStart
<1>2. IInv /\ DocumentsInv /\ [Next]_vars => DocumentsInv'
  BY DocumentsStep
<1> QED
  BY <1>1, <1>2, ReportsStand, PTL DEF Spec

\* The evidence of every inspection can be opened, for good, however reviews,
\* replacements and scans run beside its recording.
THEOREM EvidenceIsKept == Spec => []EvidenceStaysReadable
<1>1. DocumentsInv => EvidenceStaysReadable
  <2> SUFFICES ASSUME DocumentsInv, NEW i \in Inspections, inspection[i].evidence # None
               PROVE  LET d == inspection[i].evidence
                      IN /\ document[d].owner = "INTERNAL"
                         /\ \E n \in Approved(d) :
                               Approved(d) = {n} /\ Downloadable(versions[d][n], FALSE)
    BY DEF EvidenceStaysReadable
  <2> DEFINE d == inspection[i].evidence
  <2>1. d \in Docs /\ document[d].owner = "INTERNAL" /\ Approved(d) # {}
    BY DEF DocumentsInv, TablesInOrder, Approved
  <2>2. DocumentInOrder(document[d], versions[d])
    BY <2>1 DEF DocumentsInv, TablesInOrder
  <2>3. PICK n \in Approved(d) : TRUE
    BY <2>1
  <2>4. Approved(d) = {n}
    <3>1. \A m \in Approved(d) : m = n
      BY <2>2, <2>3 DEF Approved, DocumentInOrder
    <3> QED  BY <2>3, <3>1
  <2>5. versions[d][n].status = "APPROVED" /\ versions[d][n].scan = "CLEAN"
    BY <2>2, <2>3 DEF Approved, ApprovedOf, DocumentInOrder
  <2> QED  BY <2>1, <2>3, <2>4, <2>5 DEF Downloadable
<1> QED
  BY <1>1, DocumentsStand, PTL

-----------------------------------------------------------------------------
(***************************************************************************)
(* The row triggers accept every step.                                     *)
(***************************************************************************)

\* A row of document_versions the trigger lets through.
RowAccepted(old, new) ==
  /\ new.status # old.status =>
        <<old.status, new.status>> \in
            {<<"QUARANTINED", "DRAFT">>, <<"QUARANTINED", "SCAN_FAILED">>,
             <<"DRAFT", "IN_REVIEW">>, <<"IN_REVIEW", "APPROVED">>,
             <<"IN_REVIEW", "REJECTED">>, <<"APPROVED", "SUPERSEDED">>}
  /\ old.status = "APPROVED" /\ new # old => new.status = "SUPERSEDED"
  /\ new.scan # old.scan => old.scan = "PENDING"
  /\ new.status \notin {"QUARANTINED", "SCAN_FAILED"} => new.scan = "CLEAN"

\* The trigger, for a document that keeps its number of versions.
LEMMA RowsAccepted ==
  ASSUME NEW d \in Docs, DocumentsInv,
         Len(versions'[d]) = Len(versions[d]),
         \A n \in 1..Len(versions[d]) : RowAccepted(versions[d][n], versions'[d][n])
  PROVE  VersionGuard(d)
<1>1. versions[d] \in Seq(Versions)
  BY DEF DocumentsInv, TablesInOrder, DocumentInOrder
<1>2. Len(versions[d]) \in Nat
  BY <1>1
<1>3. (Len(versions[d]) + 1)..Len(versions'[d]) = {}
  BY <1>2
<1> QED
  BY <1>3 DEF VersionGuard, RowAccepted

\* A document no step writes.
LEMMA UntouchedAccepted ==
  ASSUME NEW d \in Docs, DocumentsInv, versions'[d] = versions[d]
  PROVE  VersionGuard(d)
<1>1. \A n \in 1..Len(versions[d]) : RowAccepted(versions[d][n], versions'[d][n])
  BY DEF RowAccepted, DocumentsInv, TablesInOrder, DocumentInOrder
<1> QED
  BY <1>1, RowsAccepted

\* A new version is inserted in quarantine, behind the others.
LEMMA InsertAccepted ==
  ASSUME NEW d \in Docs, DocumentsInv, versions'[d] = Append(versions[d], NewVersion)
  PROVE  VersionGuard(d)
<1> DEFINE old == versions[d]
           new == versions'[d]
<1>1. old \in Seq(Versions) /\ DocumentInOrder(document[d], old)
  BY DEF DocumentsInv, TablesInOrder, DocumentInOrder
<1>2. /\ Len(old) \in Nat /\ Len(new) = Len(old) + 1
      /\ new[Len(old) + 1] = NewVersion
      /\ \A n \in 1..Len(old) : new[n] = old[n]
  <2>1. NewVersion \in Versions
    BY DEF NewVersion, Versions
  <2>2. new = Append(old, NewVersion)
    OBVIOUS
  <2> HIDE DEF old, new
  <2> QED  BY <1>1, <2>1, <2>2
<1>3. NewVersion.status = "QUARANTINED" /\ NewVersion.scan = "PENDING"
  BY DEF NewVersion
<1>4. \A n \in 1..Len(old) : RowAccepted(old[n], new[n])
  BY <1>1, <1>2 DEF RowAccepted, DocumentInOrder
<1>5. (Len(old) + 1)..Len(new) = {Len(old) + 1}
  <2> HIDE DEF old, new
  <2> QED  BY <1>2
<1> QED
  BY <1>2, <1>3, <1>4, <1>5 DEF VersionGuard, RowAccepted

\* A scanned version was in quarantine, and no scan had been recorded.
LEMMA UploadAccepted ==
  ASSUME Typed, DocumentsInv, NEW t \in Tx, ~Waiting(t), CompleteUpload(tx[t].command)
  PROVE  \A d \in Docs : VersionGuard(d)
<1> DEFINE c == tx[t].command
           d == c.doc
           k == c.number
           old == versions[d]
<1>1. OnVersion(t) /\ c.op = "completeUpload"
  BY DEF CompleteUpload, OnVersion, VersionOps
<1>2. /\ d \in Docs /\ k \in 1..Len(old)
      /\ old[k].status = "QUARANTINED" /\ old[k].scan = "PENDING"
  BY <1>1, PlaceOfVersion DEF DocumentsInv, Prepared, Ready
<1>3. DocumentInOrder(document[d], old)
  BY <1>2 DEF DocumentsInv, TablesInOrder
<1>4. PICK verdict \in ScanResults :
        versions' = [versions EXCEPT ![d][k] = Scanned(old[k], verdict)]
  BY DEF CompleteUpload, Verdict, ScanResults
<1> DEFINE new == Scanned(old[k], verdict)
<1>5. old \in Seq(Versions) /\ old[k] \in Versions
  <2> HIDE DEF old, k
  <2> QED  BY <1>2, <1>3, HistoryOfDocument
<1>6. new.status \in {"DRAFT", "SCAN_FAILED"} /\ (new.status = "DRAFT" => new.scan = "CLEAN")
  BY <1>5, ScannedVersion
<1>7. versions'[d] = [old EXCEPT ![k] = new] /\ \A e \in Docs \ {d} : versions'[e] = versions[e]
  BY <1>2, <1>4 DEF DocumentsInv, TablesInOrder
<1> HIDE DEF new
<1>8. /\ Len(versions'[d]) = Len(old) /\ versions'[d][k] = new
      /\ \A n \in 1..Len(old) : n # k => versions'[d][n] = old[n]
  <2> HIDE DEF old, k
  <2> QED  BY <1>2, <1>5, <1>7
<1>9. \A n \in 1..Len(old) : RowAccepted(old[n], versions'[d][n])
  <2> HIDE DEF old, k, d
  <2>1. RowAccepted(old[k], versions'[d][k])
    BY <1>2, <1>6, <1>8 DEF RowAccepted
  <2>2. ASSUME NEW n \in 1..Len(old), n # k PROVE RowAccepted(old[n], versions'[d][n])
    BY <1>3, <1>8, <2>2 DEF RowAccepted, DocumentInOrder
  <2> QED  BY <2>1, <2>2
<1>10. VersionGuard(d)
  <2> HIDE DEF d
  <2> QED  BY <1>2, <1>8, <1>9, RowsAccepted
<1> QED
  BY <1>7, <1>10, UntouchedAccepted

\* A review moves a version that is where the trigger expects it, and
\* replaces none but the approved one.
LEMMA ReviewAccepted ==
  ASSUME Typed, DocumentsInv, NEW t \in Tx, ~Waiting(t), ReviewVersion(tx[t].command)
  PROVE  \A d \in Docs : VersionGuard(d)
<1> DEFINE c == tx[t].command
           d == c.doc
           k == c.number
           old == versions[d]
           target == ReviewTarget(c.op)
           source == ReviewSource(c.op)
           Reviewed(n) ==
             IF n = k THEN Moved(old[n], target)
             ELSE IF n \in Replaced(c) THEN Moved(old[n], "SUPERSEDED")
             ELSE old[n]
<1>1. c.op \in {"submitReview", "approve", "reject"} /\ OnVersion(t)
  BY DEF ReviewVersion, OnVersion, VersionOps
<1>2. /\ d \in Docs /\ k \in 1..Len(old)
      /\ old[k].status = source /\ old[k].scan = "CLEAN"
  BY <1>1, PlaceOfVersion DEF DocumentsInv, Prepared, Ready
<1>3. DocumentInOrder(document[d], old)
  BY <1>2 DEF DocumentsInv, TablesInOrder
<1>4. versions' = [versions EXCEPT ![d] = [n \in 1..Len(old) |-> Reviewed(n)]]
  BY DEF ReviewVersion
<1>5. old \in Seq(Versions) /\ Len(old) \in Nat /\ \A n \in 1..Len(old) : old[n] \in Versions
  <2> HIDE DEF old
  <2> QED  BY <1>3, HistoryOfDocument
<1>6. <<source, target>> \in {<<"DRAFT", "IN_REVIEW">>, <<"IN_REVIEW", "APPROVED">>,
                               <<"IN_REVIEW", "REJECTED">>}
  BY <1>1 DEF ReviewTarget, ReviewSource
<1>7. Replaced(c) \subseteq ApprovedOf(old)
  BY DEF Replaced, Approved
<1>8. versions'[d] = [n \in 1..Len(old) |-> Reviewed(n)]
      /\ \A e \in Docs \ {d} : versions'[e] = versions[e]
  BY <1>2, <1>4 DEF DocumentsInv, TablesInOrder
<1>9. /\ Len(versions'[d]) = Len(old)
      /\ \A n \in 1..Len(old) : versions'[d][n] = Reviewed(n)
  <2> HIDE DEF Reviewed, old
  <2> QED  BY <1>5, <1>8
<1> HIDE DEF target, source
<1>10. ASSUME NEW n \in 1..Len(old) PROVE RowAccepted(old[n], Reviewed(n))
  <2> DEFINE v == old[n]
  <2>1. v \in Versions
    BY <1>5
  <2> HIDE DEF v
  <2>2. target \in {"IN_REVIEW", "APPROVED", "REJECTED"}
    BY <1>6
  <2>3. /\ Moved(v, target).status = target /\ Moved(v, target).scan = v.scan
        /\ Moved(v, "SUPERSEDED").status = "SUPERSEDED" /\ Moved(v, "SUPERSEDED").scan = v.scan
    BY <2>1, <2>2, MovedVersion
  <2>4. ASSUME n = k PROVE RowAccepted(v, Reviewed(n))
    <3>1. v.status = source /\ v.scan = "CLEAN" /\ Reviewed(n) = Moved(v, target)
      BY <1>2, <2>4 DEF v
    <3> HIDE DEF Reviewed
    <3> QED  BY <1>6, <2>3, <3>1 DEF RowAccepted
  <2>5. ASSUME n # k, n \in Replaced(c) PROVE RowAccepted(v, Reviewed(n))
    <3>1. v.status = "APPROVED" /\ v.scan = "CLEAN"
      BY <1>3, <1>7, <2>5 DEF v, ApprovedOf, DocumentInOrder
    <3>2. Reviewed(n) = Moved(v, "SUPERSEDED")
      BY <2>5 DEF v
    <3> HIDE DEF Reviewed
    <3> QED  BY <2>3, <3>1, <3>2 DEF RowAccepted
  <2>6. ASSUME n # k, n \notin Replaced(c) PROVE RowAccepted(v, Reviewed(n))
    <3>1. Reviewed(n) = v
      BY <2>6 DEF v
    <3>2. v.status \notin {"QUARANTINED", "SCAN_FAILED"} => v.scan = "CLEAN"
      BY <1>3 DEF v, DocumentInOrder
    <3> HIDE DEF Reviewed
    <3> QED  BY <3>1, <3>2 DEF RowAccepted
  <2> QED  BY <2>4, <2>5, <2>6 DEF v
<1> HIDE DEF Reviewed
<1>11. \A n \in 1..Len(old) : RowAccepted(old[n], versions'[d][n])
  BY <1>9, <1>10
<1>12. VersionGuard(d)
  <2> HIDE DEF d
  <2> QED  BY <1>2, <1>9, <1>11, RowsAccepted
<1> QED
  BY <1>8, <1>12, UntouchedAccepted

\* An upload session that expires changes nothing the trigger looks at.
LEMMA ExpiryAccepted ==
  ASSUME DocumentsInv, NEW d \in Docs, NEW n, Expire(d, n)
  PROVE  \A e \in Docs : VersionGuard(e)
<1> DEFINE old == versions[d]
           new == [old[n] EXCEPT !.expired = TRUE]
<1>1. DocumentInOrder(document[d], old) /\ n \in 1..Len(old) /\ old[n].status = "QUARANTINED"
  BY DEF DocumentsInv, TablesInOrder, Expire
<1>2. old \in Seq(Versions) /\ old[n] \in Versions
  BY <1>1 DEF DocumentInOrder
<1>3. versions'[d] = [old EXCEPT ![n] = new] /\ \A e \in Docs \ {d} : versions'[e] = versions[e]
  BY <1>1 DEF Expire, DocumentsInv, TablesInOrder
<1>4. new.status = old[n].status /\ new.scan = old[n].scan
  BY <1>2 DEF Versions
<1> HIDE DEF new
<1>5. /\ Len(versions'[d]) = Len(old) /\ versions'[d][n] = new
      /\ \A m \in 1..Len(old) : m # n => versions'[d][m] = old[m]
  <2> HIDE DEF old
  <2> QED  BY <1>1, <1>2, <1>3
<1>6. \A m \in 1..Len(old) : RowAccepted(old[m], versions'[d][m])
  BY <1>1, <1>4, <1>5 DEF RowAccepted, DocumentInOrder
<1>7. VersionGuard(d)
  BY <1>5, <1>6, RowsAccepted
<1> QED
  BY <1>3, <1>7, UntouchedAccepted

\* What a transaction writes of documents passes their trigger.
LEMMA VersionsAccepted ==
  ASSUME IInv, DocumentsInv, NEW t \in Tx, Commit(t)
  PROVE  \A d \in Docs : VersionGuard(d)
<1> DEFINE c == tx[t].command
<1>1. Typed /\ ~Waiting(t) /\ Running(t)
  BY DEF IInv, Commit
<1>2. c \in Commands
  BY <1>1 DEF Typed, Shaped, Running, Idle
<1>3. \/ CreateDocument(c) \/ SupersedeDocument(c) \/ CompleteUpload(c)
      \/ ReviewVersion(c) \/ UNCHANGED versions
  BY DEF Commit, RecordEvidence, FinalizeInspection
<1>4. CASE CreateDocument(c)
  <2>1. c.doc \in Docs /\ ~Drafted(c.doc)
    BY <1>2, <1>4, CommandsOfDocuments DEF CreateDocument
  <2>2. versions[c.doc] = <<>>
    BY <2>1 DEF DocumentsInv, TablesInOrder, DocumentInOrder, Drafted
  <2>3. /\ versions'[c.doc] = <<NewVersion>>
        /\ \A e \in Docs \ {c.doc} : versions'[e] = versions[e]
    BY <1>4, <2>1 DEF CreateDocument, DocumentsInv, TablesInOrder
  <2>4. versions'[c.doc] = Append(versions[c.doc], NewVersion)
    BY <2>2, <2>3
  <2> QED  BY <2>1, <2>3, <2>4, InsertAccepted, UntouchedAccepted
<1>5. CASE SupersedeDocument(c)
  <2>1. c.doc \in Docs
    BY <1>2, <1>5, CommandsOfDocuments DEF SupersedeDocument
  <2>2. /\ versions'[c.doc] = Append(versions[c.doc], NewVersion)
        /\ \A e \in Docs \ {c.doc} : versions'[e] = versions[e]
    BY <1>5, <2>1 DEF SupersedeDocument, DocumentsInv, TablesInOrder
  <2> QED  BY <2>1, <2>2, InsertAccepted, UntouchedAccepted
<1>6. CASE CompleteUpload(c)
  BY <1>1, <1>6, UploadAccepted
<1>7. CASE ReviewVersion(c)
  BY <1>1, <1>7, ReviewAccepted
<1>8. CASE UNCHANGED versions
  BY <1>8, UntouchedAccepted
<1> QED
  BY <1>3, <1>4, <1>5, <1>6, <1>7, <1>8

\* What a transaction writes of a report passes its trigger: what the check
\* has found allowed is still so.
LEMMA ReportAccepted ==
  ASSUME IInv, NEW t \in Tx, Commit(t)
  PROVE  \A x \in Ncrs : NcrGuard(x)
<1> DEFINE c == tx[t].command
<1>1. Shaped(tx[t]) /\ ncr \in [Ncrs -> Reports]
  BY DEF IInv, Typed
<1>2. ASSUME Reporting(t) PROVE StillAllowed(t) /\ c.ncr \in Ncrs
  <2>1. tx[t].pos >= 2 /\ c.ncr \in Ncrs
    BY <1>1, <1>2, PlaceInPlan DEF Commit, Shaped
  <2>2. Decided(t)
    BY <1>1, <1>2, <2>1 DEF Decided, Shaped
  <2> QED
    BY <2>1, <2>2 DEF IInv, DecisionsStand
<1>3. \/ UNCHANGED ncr
      \/ CreateNcr(c, tx[t].noted)
      \/ TransitionNcr(c)
      \/ SubmitSupplierResponse(c, tx[t].noted)
  BY DEF Commit
<1>4. ASSUME NEW x \in Ncrs, ncr'[x] = ncr[x] PROVE NcrGuard(x)
  BY <1>4 DEF NcrGuard
<1>5. CASE UNCHANGED ncr
  BY <1>4, <1>5
<1>6. CASE CreateNcr(c, tx[t].noted)
  <2>1. ~Reported(c.ncr) /\ \A x \in Ncrs \ {c.ncr} : ncr'[x] = ncr[x]
    BY <1>1, <1>6 DEF CreateNcr
  <2>2. ASSUME NEW x \in Ncrs PROVE NcrGuard(x)
    <3>1. CASE x = c.ncr
      BY <2>1, <3>1 DEF NcrGuard
    <3>2. CASE x # c.ncr
      BY <1>4, <2>1, <3>2
    <3> QED  BY <3>1, <3>2
  <2> QED  BY <2>2
<1>7. CASE TransitionNcr(c)
  <2> DEFINE y == c.ncr
             target == NcrTarget(c.op)
  <2>1. y \in Ncrs /\ CanTransitionNcr(ncr[y].status, target)
    BY <1>2, <1>7 DEF TransitionNcr, Reporting, Operations, StillAllowed
  <2>2. ncr' = [ncr EXCEPT ![y].status = target, ![y].version = ncr[y].version + 1]
    BY <1>7 DEF TransitionNcr
  <2>3. \A x \in Ncrs \ {y} : ncr'[x] = ncr[x]
    BY <1>1, <2>2
  <2>4. ncr'[y].status = target /\ ncr'[y].number = ncr[y].number
    BY <1>1, <2>1, <2>2 DEF Reports
  <2>5. NcrGuard(y)
    BY <2>1, <2>4 DEF NcrGuard, CanTransitionNcr
  <2>6. ASSUME NEW x \in Ncrs PROVE NcrGuard(x)
    BY <1>4, <2>3, <2>5
  <2> QED  BY <2>6
<1>8. CASE SubmitSupplierResponse(c, tx[t].noted)
  <2> DEFINE y == c.ncr
             status == RespondedStatus(ncr[y].status)
  <2>1. y \in Ncrs /\ ncr[y].status \in {"ISSUED", "SUPPLIER_RESPONDED"}
    BY <1>2, <1>8 DEF SubmitSupplierResponse, Reporting, Operations, StillAllowed
  <2>2. ncr' = [ncr EXCEPT ![y].status = status, ![y].responses = tx[t].noted,
                           ![y].version = ncr[y].version + 1]
    BY <1>8 DEF SubmitSupplierResponse
  <2>3. status = "SUPPLIER_RESPONDED"
    BY <2>1 DEF RespondedStatus
  <2>4. \A x \in Ncrs \ {y} : ncr'[x] = ncr[x]
    BY <1>1, <2>2
  <2>5. ncr'[y].status = status /\ ncr'[y].number = ncr[y].number
    BY <1>1, <2>1, <2>2 DEF Reports
  <2>6. NcrGuard(y)
    BY <2>1, <2>3, <2>5 DEF NcrGuard
  <2>7. ASSUME NEW x \in Ncrs PROVE NcrGuard(x)
    BY <1>4, <2>4, <2>6
  <2> QED  BY <2>7
<1> QED
  BY <1>3, <1>5, <1>6, <1>7, <1>8

\* Every step is one the triggers accept.
LEMMA AllAccepted ==
  IInv /\ DocumentsInv /\ [Next]_vars
    => (\A d \in Docs : VersionGuard(d)) /\ (\A x \in Ncrs : NcrGuard(x))
<1> SUFFICES ASSUME IInv, DocumentsInv, [Next]_vars
             PROVE  (\A d \in Docs : VersionGuard(d)) /\ (\A x \in Ncrs : NcrGuard(x))
  OBVIOUS
<1> DEFINE Accepted == (\A d \in Docs : VersionGuard(d)) /\ (\A x \in Ncrs : NcrGuard(x))
<1>1. ASSUME UNCHANGED ncr PROVE \A x \in Ncrs : NcrGuard(x)
  BY <1>1 DEF NcrGuard
<1>2. ASSUME UNCHANGED <<versions, ncr>> PROVE Accepted
  BY <1>1, <1>2, UntouchedAccepted
<1>3. ASSUME NEW t \in Tx, Commit(t) PROVE Accepted
  BY <1>3, VersionsAccepted, ReportAccepted
<1>4. ASSUME NEW t \in Tx, \/ \E c \in Commands : Begin(t, c)
                           \/ TakeLock(t) \/ CheckUnderLocks(t) \/ Abort(t)
      PROVE  Accepted
  <2>1. UNCHANGED <<versions, ncr>>
    BY <1>4 DEF Begin, TakeLock, CheckUnderLocks, Abort, rows
  <2> QED  BY <1>2, <2>1
<1>5. ASSUME NEW d \in Docs, NEW n \in 1..MaxVersions, Expire(d, n) PROVE Accepted
  <2>1. UNCHANGED ncr
    BY <1>5 DEF Expire
  <2> QED  BY <1>1, <1>5, <2>1, ExpiryAccepted
<1>6. ASSUME CloseProject \/ RemoveSupplier \/ UNCHANGED vars PROVE Accepted
  <2>1. UNCHANGED <<versions, ncr>>
    BY <1>6 DEF CloseProject, RemoveSupplier, vars, rows
  <2> QED  BY <1>2, <2>1
<1> HIDE DEF Accepted
<1>7. Accepted
  BY <1>3, <1>4, <1>5, <1>6, Zenon DEF Next
<1> QED
  BY <1>7 DEF Accepted

\* The triggers of document_versions and ncrs never refuse what the handlers
\* have decided under their locks.
THEOREM TriggersNeverRefuse == Spec => TriggersAccept
<1>1. IInv /\ DocumentsInv /\ [Next]_vars
        => [(\A d \in Docs : VersionGuard(d)) /\ (\A x \in Ncrs : NcrGuard(x))]_vars
  BY AllAccepted
<1> QED
  BY <1>1, ReportsStand, DocumentsStand, PTL DEF Spec, TriggersAccept

=============================================================================
