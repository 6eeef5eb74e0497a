--------------------------- MODULE ReadinessWorker ---------------------------
(***************************************************************************)
(* The readiness loops of apps/worker (readiness-processor.ts, main.ts):   *)
(* triggers append an event to the outbox for every change of a project,   *)
(* event loops claim all events of one project and recalculate it, and a   *)
(* sweep recalculates every project from time to time.                     *)
(*                                                                         *)
(* A recalculation is one SERIALIZABLE transaction.  It sees the rows as   *)
(* they were at its first statement, which is the one that waits for the   *)
(* project's advisory lock, so it is two steps here: Begin, which reads,   *)
(* and Commit.  What runs between getting the lock and committing is not   *)
(* visible to anybody, so the lock adds nothing to Commit being one step.  *)
(* API commands are READ COMMITTED and take no part in the detection of    *)
(* conflicts between serializable transactions.                            *)
(***************************************************************************)
EXTENDS ReadinessCalculator, Sequences

CONSTANTS
  Initial,      \* the rows the projects have at first, a set of sequences of rows:
                \* projects are numbered in the order the sweep takes them
  MostProjects, \* length of the longest of them
  Changing,     \* the rows that commands turn into one another
  Loops,        \* event loops, one per worker process
  Events,       \* 1..m, ids in the order of creation
  MaxAttempts,  \* attempts after which an event is given up (5 in the code)
  MaxTries,     \* tries of one recalculation (3 in the code)
  MaxTrouble    \* bound on changes, new days, kills, failed statements and
                \* overslept claims together

Sweep == "sweep"
NoClaim == "nobody"

ASSUME ReadinessAssumption ==
  /\ \A first \in Initial :
       Len(first) \in 1..MostProjects /\ DOMAIN first = 1..Len(first)
  /\ \A tables \in Changing \cup UNION {Range(first) : first \in Initial} :
       RowsTyped(tables)
  /\ MostProjects \in Nat
  /\ Sweep \notin Loops /\ NoClaim \notin Loops
  /\ IsFiniteSet(Events) /\ Events \subseteq Nat
  /\ MaxAttempts \in Nat \ {0}
  /\ MaxTries \in Nat \ {0}

Processes == Loops \cup {Sweep}

VARIABLES
  rows,      \* what the database holds about each project
  today,     \* the current date
  outbox,    \* the readiness events
  batches,   \* the snapshot batches of each project, oldest first
  process,   \* where each loop is
  overtaken, \* projects whose last comparison overlapped a batch being written
  faults     \* how often something happened besides announced changes

readinessVars == <<rows, today, outbox, batches, process, overtaken, faults>>

\* Unborn events have the status "NONE".
NoEvent == [project |-> 0, status |-> "NONE", attempts |-> 0, claim |-> NoClaim,
            stale |-> FALSE]

Resting == [at |-> "idle", project |-> 0, attempts |-> 0, tries |-> 0, date |-> 0,
            rows |-> NoRows, known |-> 0, mine |-> {}, passed |-> FALSE]

\* A process that has chosen its project.
Starting(p, attempts) ==
  [at |-> "begin", project |-> p, attempts |-> attempts, tries |-> 0, date |-> today,
   rows |-> NoRows, known |-> 0, mine |-> {}, passed |-> FALSE]

(***************************************************************************)
(* Snapshot batches.                                                       *)
(***************************************************************************)
Projects == DOMAIN rows

Latest(p) == batches[p][Len(batches[p])]

\* The hash of the latest batch a recalculation could see is the new one's.
\* Mutant: any earlier batch with the hash will do.
SameAsAny(read, p) ==
  \E n \in 1..read.known : batches[p][n].source = read.rows.source
                           /\ batches[p][n].date = read.date

\* Mutant: a batch of an earlier day will do.
SameSource(read, p) ==
  read.known > 0 /\ batches[p][read.known].source = read.rows.source

SameAsLatest(read, p) ==
  /\ read.known > 0
  /\ batches[p][read.known].source = read.rows.source
  /\ batches[p][read.known].date = read.date

\* One snapshot for the project and one for every work package of its lines.
Batch(source, date) ==
  [source |-> source, date |-> date,
   project |-> CalculateReadiness(ProjectScope(source, date)),
   packages |-> {<<w, CalculateReadiness(PackageScope(source, date, w))>> :
                   w \in WorkPackages(source)}]

(***************************************************************************)
(* Changes of the database by others.  What goes into a calculation is     *)
(* announced by triggers, certificate definitions included; only what      *)
(* items and units are called is not.                                      *)
(***************************************************************************)
Announced(tables) == [tables EXCEPT !.names = {}]

\* Bounds what happens to the loops, in whatever combination.
Trouble == Cardinality({e \in Events : outbox[e].status # "NONE"}) + faults

Unborn == {e \in Events : outbox[e].status = "NONE"}

Enqueue(p) == LET e == Min(Unborn) IN
  outbox' = [outbox EXCEPT ![e] = [NoEvent EXCEPT !.project = p, !.status = "PENDING"]]

ChangeRows(p, tables) ==
  /\ Trouble < MaxTrouble /\ Unborn # {}
  /\ rows[p].tables \in Changing
  /\ Announced(tables) # Announced(rows[p].tables)
  /\ rows' = [rows EXCEPT ![p] = Read(tables)]
  /\ Enqueue(p)
  /\ UNCHANGED <<today, batches, process, overtaken, faults>>

\* An item gets another name or code, or its unit another code.
Rename(p, tables) ==
  /\ Trouble < MaxTrouble
  /\ rows[p].tables \in Changing
  /\ tables # rows[p].tables
  /\ Announced(tables) = Announced(rows[p].tables)
  /\ rows' = [rows EXCEPT ![p] = Read(tables)]
  /\ faults' = faults + 1
  /\ UNCHANGED <<today, outbox, batches, process, overtaken>>

NextDay ==
  /\ Trouble < MaxTrouble
  /\ \E p \in Projects : rows[p].tables \in Changing
  /\ today' = today + 1
  /\ faults' = faults + 1
  /\ UNCHANGED <<rows, outbox, batches, process, overtaken>>

(***************************************************************************)
(* claim: the oldest claimable event chooses the project; all its pending  *)
(* events come along, also those whose retry is not due yet, and those of  *)
(* stale claims, however often they were tried.  How long a retry waits is *)
(* left open: an event that was tried before may be due or not.            *)
(***************************************************************************)
StaleClaim(e) == outbox[e].status = "PROCESSING" /\ outbox[e].stale

Retry(e) == outbox[e].status = "PENDING" /\ outbox[e].attempts > 0

Claimable ==
  {e \in Events : \/ outbox[e].status = "PENDING" /\ outbox[e].attempts < MaxAttempts
                  \/ StaleClaim(e)}

Candidates == {e \in Claimable : \A older \in Claimable : older < e => Retry(older)}

\* Mutant: stale claims are left alone.
CoalescedFresh(p) ==
  {e \in Events : outbox[e].project = p
                  /\ outbox[e].status = "PENDING" /\ outbox[e].attempts < MaxAttempts}

Coalesced(p) ==
  {e \in Events : outbox[e].project = p
                  /\ \/ outbox[e].status = "PENDING" /\ outbox[e].attempts < MaxAttempts
                     \/ StaleClaim(e)}

Claim(w) ==
  /\ process[w].at = "idle"
  /\ \E candidate \in Candidates : LET p == outbox[candidate].project IN
       /\ outbox' = [e \in Events |->
            IF e \in Coalesced(p)
            THEN [outbox[e] EXCEPT !.status = "PROCESSING", !.attempts = @ + 1, !.claim = w,
                                   !.stale = FALSE]
            ELSE outbox[e]]
       /\ process' = [process EXCEPT ![w] = Starting(p, outbox[candidate].attempts + 1)]
  /\ UNCHANGED <<rows, today, batches, overtaken, faults>>

\* The guard of completeEvents and fail: the claim is still this loop's.
Held(w) == {e \in Events : outbox[e].claim = w /\ outbox[e].status = "PROCESSING"}

(***************************************************************************)
(* recalculateOnce.                                                        *)
(***************************************************************************)
Begin(x) ==
  LET old == process[x] IN
  /\ old.at = "begin"
  /\ process' = [process EXCEPT ![x] =
       [at |-> "commit", project |-> old.project, attempts |-> old.attempts,
        tries |-> old.tries + 1, date |-> old.date, rows |-> rows[old.project],
        known |-> Len(batches[old.project]), mine |-> Held(x), passed |-> FALSE]]
  /\ UNCHANGED <<rows, today, outbox, batches, overtaken, faults>>

Overlapped(x) == process[x].known # Len(batches[process[x].project])

Compare(x) == SameAsLatest(process[x], process[x].project)

\* The sweep takes the projects that have released revisions (the list is read
\* when it starts, here one by one).
Scheduled(p) == DOMAIN rows[p].tables.needs # {}

SweepFrom(p) ==
  LET next == {q \in Projects : q >= p /\ Scheduled(q)} IN
  IF next = {} THEN Resting ELSE Starting(Min(next), 0)

\* Where the program goes after a recalculation: an event loop rests, the
\* sweep takes the next project.
After(x) == IF x = Sweep THEN SweepFrom(process[x].project + 1) ELSE Resting

\* An error ends the event loop's cycle through fail, and the whole sweep.
AfterError(x) == IF x = Sweep THEN Resting ELSE [process[x] EXCEPT !.at = "fail"]

CompleteEvents(x) ==
  outbox' = [e \in Events |-> IF e \in process[x].mine
                              THEN [outbox[e] EXCEPT !.status = "PROCESSED"]
                              ELSE outbox[e]]

\* Two serializable transactions that both read the batches and both add
\* one, or a claim that was taken over since it was read, cannot commit.
MustRetry(x) ==
  \/ process[x].mine # Held(x)
  \/ Overlapped(x) /\ ~Compare(x)

Skip(x) ==
  LET p == process[x].project IN
  /\ process[x].at = "commit"
  /\ ~process[x].rows.refused
  /\ Compare(x)
  /\ ~MustRetry(x)
  /\ CompleteEvents(x)
  /\ overtaken' = IF Overlapped(x) THEN overtaken \cup {p} ELSE overtaken
  /\ process' = [y \in Processes |->
       IF y = x THEN After(x)
       ELSE IF process[y].at = "commit" /\ process[y].project = p
       THEN [process[y] EXCEPT !.passed = TRUE]
       ELSE process[y]]
  /\ UNCHANGED <<rows, today, batches, faults>>

WriteBatch(x) ==
  LET p == process[x].project IN
  /\ process[x].at = "commit"
  /\ ~process[x].rows.refused
  /\ ~Compare(x)
  /\ ~MustRetry(x)
  /\ batches' = [batches EXCEPT ![p] =
                   Append(@, Batch(process[x].rows.source, process[x].date))]
  /\ CompleteEvents(x)
  /\ overtaken' = IF process[x].passed THEN overtaken \cup {p} ELSE overtaken \ {p}
  /\ process' = [process EXCEPT ![x] = After(x)]
  /\ UNCHANGED <<rows, today, faults>>

\* A conflict is possible, though not certain, whenever another transaction
\* added a batch meanwhile; it is retried with what can be seen then.
Conflict(x) ==
  /\ process[x].at = "commit"
  /\ ~process[x].rows.refused
  /\ MustRetry(x) \/ Overlapped(x)
  /\ process' = [process EXCEPT ![x] =
       IF process[x].tries < MaxTries THEN [process[x] EXCEPT !.at = "begin"]
       ELSE AfterError(x)]
  /\ UNCHANGED <<rows, today, outbox, batches, overtaken, faults>>

\* The calculation throws.
Throw(x) ==
  /\ process[x].at = "commit"
  /\ process[x].rows.refused
  /\ process' = [process EXCEPT ![x] = AfterError(x)]
  /\ UNCHANGED <<rows, today, outbox, batches, overtaken, faults>>

\* fail looks at the attempts of the event that was claimed first, and
\* treats every event of the claim alike.
Fail(w) ==
  /\ process[w].at = "fail"
  /\ outbox' = [e \in Events |->
       IF e \notin Held(w) THEN outbox[e]
       ELSE IF process[w].attempts >= MaxAttempts THEN [outbox[e] EXCEPT !.status = "FAILED"]
       ELSE [outbox[e] EXCEPT !.status = "PENDING", !.claim = NoClaim]]
  /\ process' = [process EXCEPT ![w] = Resting]
  /\ UNCHANGED <<rows, today, batches, overtaken, faults>>

\* Every five minutes, unless the last sweep is still at it.
StartSweep ==
  /\ process[Sweep].at = "idle"
  /\ process' = [process EXCEPT ![Sweep] = SweepFrom(1)]
  /\ UNCHANGED <<rows, today, outbox, batches, overtaken, faults>>

(***************************************************************************)
(* Faults.                                                                 *)
(***************************************************************************)
\* A worker is still at it after five minutes.
Oversleep(w) ==
  /\ Trouble < MaxTrouble
  /\ \E e \in Held(w) : ~outbox[e].stale
  /\ outbox' = [e \in Events |-> IF e \in Held(w) THEN [outbox[e] EXCEPT !.stale = TRUE]
                                 ELSE outbox[e]]
  /\ faults' = faults + 1
  /\ UNCHANGED <<rows, today, batches, process, overtaken>>

\* Killed, or the database cannot be reached for fail either: the claim
\* stays as it is until it is stale, which a restarted worker waits for.
Die(w) ==
  /\ Trouble < MaxTrouble
  /\ process[w].at # "idle"
  /\ process' = [process EXCEPT ![w] = Resting]
  /\ outbox' = [e \in Events |-> IF e \in Held(w)
                                 THEN [outbox[e] EXCEPT !.claim = NoClaim, !.stale = TRUE]
                                 ELSE outbox[e]]
  /\ faults' = faults + 1
  /\ UNCHANGED <<rows, today, batches, overtaken>>

\* A statement of the transaction fails with an error that is not retried.
StatementFails(x) ==
  /\ Trouble < MaxTrouble
  /\ process[x].at = "commit"
  /\ process' = [process EXCEPT ![x] = AfterError(x)]
  /\ faults' = faults + 1
  /\ UNCHANGED <<rows, today, outbox, batches, overtaken>>

-----------------------------------------------------------------------------
\* Projects whose rows still change have been calculated today; the others
\* come from before there were snapshots and wait for the sweep.
ReadinessInit ==
  /\ \E first \in Initial : rows = [p \in DOMAIN first |-> Read(first[p])]
  /\ today = 0
  /\ outbox = [e \in Events |-> NoEvent]
  /\ batches = [p \in Projects |->
                  IF rows[p].tables \in Changing /\ ~rows[p].refused
                  THEN <<Batch(rows[p].source, today)>> ELSE <<>>]
  /\ process = [x \in Processes |-> Resting]
  /\ overtaken = {}
  /\ faults = 0

Recalculate(x) == Begin(x) \/ Skip(x) \/ WriteBatch(x) \/ Conflict(x) \/ Throw(x)

LoopStep(w) == Claim(w) \/ Recalculate(w) \/ Fail(w)

SweepStep == StartSweep \/ Recalculate(Sweep)

Others ==
  \/ \E p \in Projects, tables \in Changing :
       ChangeRows(p, tables) \/ Rename(p, tables)
  \/ NextDay

Faults ==
  \/ \E w \in Loops : Oversleep(w) \/ Die(w)
  \/ \E x \in Processes : StatementFails(x)

ReadinessNext ==
  \/ Others \/ Faults \/ SweepStep
  \/ \E w \in Loops : LoopStep(w)

\* The timers of main.ts fire for ever.
Fairness ==
  /\ WF_readinessVars(SweepStep)
  /\ \A w \in Loops : WF_readinessVars(LoopStep(w))

ReadinessSpec == ReadinessInit /\ [][ReadinessNext]_readinessVars /\ Fairness

-----------------------------------------------------------------------------
(***************************************************************************)
(* Properties.                                                             *)
(***************************************************************************)
Calculable(p) == ~rows[p].refused

Lines(source) == {[line EXCEPT !.itemName = ""] : line \in source.lines}

\* Once every event of a project is processed, its latest batch tells of
\* everything it is calculated from, but for what items are called.  The one
\* exception: a recalculation found nothing new while another one was just
\* writing something else, because it compared what it had read before it
\* waited for the project's lock.
ProcessedMeansKnown ==
  \A p \in Projects :
    (/\ batches[p] # <<>>
     /\ Calculable(p)
     /\ \A e \in Events : outbox[e].project = p => outbox[e].status = "PROCESSED")
      => \/ /\ Lines(Latest(p).source) = Lines(rows[p].source)
            /\ Latest(p).source.projectNcrs = rows[p].source.projectNcrs
         \/ p \in overtaken

\* Some stock allocated to the need is missing.
ShortOf(tables, n) ==
  SumOver({a \in DOMAIN tables.allocations :
             tables.allocations[a].need = n /\ tables.allocations[a].status # "RELEASED"},
          LAMBDA a : tables.allocations[a].quantity) < tables.needs[n].required

LinesFor(tables, n) == {s \in DOMAIN tables.supply : n \in NeedsOf(tables.supply[s])}

SupplierLate(tables, n) ==
  \E s \in LinesFor(tables, n) :
    Confirmed(tables.supply[s])
      /\ SelectLatestCommitmentDate(tables.supply[s].commitments) > tables.needs[n].due

ReportedOpen(tables, abouts) ==
  \E x \in DOMAIN tables.ncrs : tables.ncrs[x].about \in abouts
                               /\ tables.ncrs[x].status \in {"ISSUED", "SUPPLIER_RESPONDED"}

CertifiedStock(tables) ==
  SumOver(Touching(tables), LAMBDA s :
    SumOver(DOMAIN tables.supply[s].lots, LAMBDA k : tables.supply[s].lots[k].certified))

RequiredStock(tables) == SumOver(DOMAIN tables.needs, LAMBDA n : tables.needs[n].required)

GoodNews(tables, date, status) ==
  LET needs == DOMAIN tables.needs IN
  /\ status \in {"GREEN", "COMPLETE"} =>
       /\ ~ReportedOpen(tables, Touching(tables) \cup {0})
       /\ \A n \in needs :
            /\ ~SupplierLate(tables, n)
            /\ ShortOf(tables, n) =>
                 tables.needs[n].criticality = "LOW" /\ tables.needs[n].due - date > 30
  /\ status = "COMPLETE" => needs # {} /\ CertifiedStock(tables) >= RequiredStock(tables)
  /\ status # "RED" =>
       \A n \in needs : tables.needs[n].criticality = "CRITICAL" =>
         /\ ~SupplierLate(tables, n)
         /\ ~ReportedOpen(tables, LinesFor(tables, n))
         /\ ShortOf(tables, n) => tables.needs[n].due > date

\* What a status promises, told of the rows themselves.  GREEN and COMPLETE:
\* only low priority needs due in more than thirty days are short, no
\* supplier is late and no report is open about the project or what serves
\* it.  COMPLETE: there is certified stock for all needs together, however
\* they share supply lines and lots.  Anything but RED: no critical need is
\* short on its day, waits for a late supplier or has an open report.
GoodNewsIsTrue ==
  [][\A p \in Projects : batches'[p] # batches[p] /\ rows[p].tables \notin Changing =>
       LET latest == batches'[p][Len(batches'[p])]
       IN GoodNews(rows[p].tables, latest.date, latest.project.status)]_readinessVars

SnapshotIsCurrent(p) ==
  p \in {q \in Projects : /\ batches[q] # <<>>
                         /\ Latest(q).source = rows[q].source
                         /\ Latest(q).date = today}

\* Every change shows in the end, announced or not, as long as the project
\* and those the sweep takes before can be calculated: one project it cannot
\* calculate ends the sweep, and the ones behind it are not swept.
SnapshotsCatchUp ==
  \A p \in 1..MostProjects :
    <>[](p \in Projects /\ \A q \in Projects : q <= p => Scheduled(q) /\ Calculable(q))
      => <>[]SnapshotIsCurrent(p)

\* No event is claimed for ever, whatever becomes of the workers: it ends as
\* processed, as failed, or pending with its attempts used up.  The last one
\* is no end that was meant: fail looks at the attempts of one event of the
\* claim and returns the others, which no claim takes any more.
EventsEnd ==
  \A e \in Events : outbox[e].status = "PENDING" ~>
    \/ outbox[e].status \in {"PROCESSED", "FAILED"}
    \/ outbox[e].status = "PENDING" /\ outbox[e].attempts >= MaxAttempts

=============================================================================
