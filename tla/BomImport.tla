------------------------------ MODULE BomImport -------------------------------
(***************************************************************************)
(* One import of a bill of materials, from the upload of its file to the   *)
(* draft revision it is confirmed into: BomsService and BomsRepository of  *)
(* the API, the import loop of apps/worker/src/main.ts and                 *)
(* bom-import-processor.ts.  Several worker processes share the event that *)
(* asks for the file to be parsed.  The event's row and a Redis key keep   *)
(* them apart; nothing a worker writes afterwards looks at either again.   *)
(*                                                                         *)
(* Every call of the database, the object storage or Redis is a step.  Of  *)
(* the clock the model keeps that the Redis key lives one minute, a claim  *)
(* five, and a retry waits a few seconds.  Rows are named by what they     *)
(* were matched to: the item master changes between two parses.            *)
(***************************************************************************)
EXTENDS Integers, Sequences, FiniteSets, Functions

CONSTANTS
  Workers,       \* worker processes
  Clean,         \* rows without an error the file can be matched to
  MaxAttempts,   \* the five of claim and fail
  Faults,        \* what may go wrong
  MaxFaults      \* bound on how often

Faulty == "faulty"      \* rows with errors, or no rows
NoRows == "no rows"

FaultKinds ==
  {"crash",      \* a process is killed
   "database",   \* a call of the database throws and has no effect
   "reply",      \* a transaction commits, but its caller sees it throw
   "storage",    \* the object storage does not answer
   "redis",      \* a call of Redis throws, with or without its effect
   "overlap"}    \* a worker is slower than the clock allows for

ASSUME ImportAssumption ==
  /\ Clean \cap {Faulty, NoRows} = {}
  /\ MaxAttempts \in Nat \ {0}
  /\ Faults \subseteq FaultKinds
  /\ MaxFaults \in Nat

VARIABLES
  upload,        \* what the request that uploads the file is doing
  object,        \* the file in the object storage
  import,        \* the rows of bom_imports, bom_import_rows and stored_files
  event,         \* the row of outbox_events
  drafts,        \* the rows of each revision created from the import
  locked,        \* the Redis key is set
  worker,        \* what each process is doing
  faults         \* how often each kind of fault has happened

importVars == <<upload, object, import, event, drafts, locked, worker, faults>>
api == <<upload, object, drafts>>

NoImport == [status |-> "NONE", rows |-> NoRows, file |-> "NONE"]
NoEvent == [status |-> "NONE", attempts |-> 0, stale |-> FALSE, waits |-> FALSE]
Resting == [pc |-> "idle", claim |-> 0, rows |-> NoRows, rejected |-> FALSE]

FaultsSoFar == SumFunction(faults)

Fault(kind) ==
  /\ kind \in Faults /\ FaultsSoFar < MaxFaults
  /\ faults' = [faults EXCEPT ![kind] = @ + 1]

\* A fault of one of these kinds has happened.
Suffered(kinds) == \E kind \in kinds : faults[kind] > 0

ImportInit ==
  /\ upload = "none"
  /\ object = "none"
  /\ import = NoImport
  /\ event = NoEvent
  /\ drafts = << >>
  /\ locked = FALSE
  /\ worker = [w \in Workers |-> Resting]
  /\ faults = [kind \in FaultKinds |-> 0]

-----------------------------------------------------------------------------
(***************************************************************************)
(* The API: createImport and confirmImport.                                *)
(***************************************************************************)
\* The parser accepts the file or it does not.
Put ==
  /\ upload = "none"
  /\ upload' = "stored"
  /\ object' \in {"readable", "malformed"}
  /\ UNCHANGED <<import, event, drafts, locked, worker, faults>>

Created ==
  /\ import' = [status |-> "QUEUED", rows |-> NoRows, file |-> "QUARANTINED"]
  /\ event' = [NoEvent EXCEPT !.status = "PENDING"]

\* Import, file and event are one transaction.
CreateImport ==
  /\ upload = "stored"
  /\ \/ Created /\ upload' = "done" /\ UNCHANGED faults
     \/ Created /\ upload' = "removing" /\ Fault("reply")
     \/ UNCHANGED <<import, event>> /\ upload' = "removing" /\ Fault("database")
  /\ UNCHANGED <<object, drafts, locked, worker>>

\* Whatever createImport threw, the file is taken back; an error in doing so
\* is ignored.
RemoveFile ==
  /\ upload = "removing"
  /\ upload' = "done"
  /\ \/ object' = "none" /\ UNCHANGED faults
     \/ UNCHANGED object /\ Fault("storage")
  /\ UNCHANGED <<import, event, drafts, locked, worker>>

CrashUpload ==
  /\ upload \in {"stored", "removing"}
  /\ Fault("crash")
  /\ upload' = "done"
  /\ UNCHANGED <<object, import, event, drafts, locked, worker>>

\* Mutant: there is no unique index on sourceImportId.
UniqueNever == TRUE

\* The unique index on sourceImportId.
Unique == drafts = << >>

\* One transaction under the lock of the import's row, for which every write
\* of a worker waits.  A user may never confirm, and the project or an item
\* may stand in the way, so nothing makes this happen.
Confirm ==
  /\ import.status = "READY"
  /\ import.rows \in Clean
  /\ Unique
  /\ import' = [import EXCEPT !.status = "CONFIRMED"]
  /\ drafts' = Append(drafts, import.rows)
  /\ UNCHANGED <<upload, object, event, locked, worker, faults>>

-----------------------------------------------------------------------------
(***************************************************************************)
(* The worker: processBomImport.                                           *)
(***************************************************************************)
At(w, pc) == worker[w].pc = pc

\* The worker goes on to another place of its program.
Goes(w, pc) == worker' = [worker EXCEPT ![w].pc = pc]

\* An error the caller of process never sees.
Fails(w) == Goes(w, "failing")

Rests(w) == worker' = [worker EXCEPT ![w] = Resting]

\* Mutant: a claim that was never given back stays.
ClaimableFresh ==
  event.status = "PENDING" /\ ~event.waits /\ event.attempts < MaxAttempts

Claimable ==
  \/ event.status = "PENDING" /\ ~event.waits /\ event.attempts < MaxAttempts
  \/ event.status = "PROCESSING" /\ event.stale

\* One transaction under the lock of the event's row.
Claim(w) ==
  /\ At(w, "idle") /\ Claimable
  /\ event' = [event EXCEPT !.status = "PROCESSING", !.attempts = @ + 1, !.stale = FALSE]
  /\ \/ /\ worker' = [worker EXCEPT ![w].pc = "locking", ![w].claim = event.attempts + 1]
        /\ UNCHANGED faults
     \/ UNCHANGED worker /\ Fault("reply")
  /\ UNCHANGED <<api, import, locked>>

\* An error here ends the round: the event stays claimed.
LockImport(w) ==
  /\ At(w, "locking")
  /\ \/ ~locked /\ locked' = TRUE /\ Goes(w, "reading") /\ UNCHANGED faults
     \/ locked /\ Goes(w, "yielding") /\ UNCHANGED <<locked, faults>>
     \/ locked' \in {locked, TRUE} /\ Rests(w) /\ Fault("redis")
  /\ UNCHANGED <<api, import, event>>

\* Somebody has the key: the event is given back, due at once.
Yield(w) ==
  /\ At(w, "yielding")
  /\ Rests(w)
  /\ \/ /\ event' = [event EXCEPT !.status = "PENDING", !.stale = FALSE]
        /\ UNCHANGED faults \/ Fault("reply")
     \/ UNCHANGED event /\ Fault("database")
  /\ UNCHANGED <<api, import, locked>>

\* process reads the import and looks at its status once.
Read(w) ==
  /\ At(w, "reading")
  /\ \/ import.status = "CONFIRMED" /\ Goes(w, "skipping") /\ UNCHANGED faults
     \/ import.status # "CONFIRMED" /\ Goes(w, "starting") /\ UNCHANGED faults
     \/ Fails(w) /\ Fault("database")
  /\ UNCHANGED <<api, import, event, locked>>

Skip(w) ==
  /\ At(w, "skipping")
  /\ \/ event' = [event EXCEPT !.status = "PROCESSED"] /\ Goes(w, "unlocking") /\ UNCHANGED faults
     \/ event' = [event EXCEPT !.status = "PROCESSED"] /\ Fails(w) /\ Fault("reply")
     \/ UNCHANGED event /\ Fails(w) /\ Fault("database")
  /\ UNCHANGED <<api, import, locked>>

Start(w) ==
  /\ At(w, "starting")
  /\ \/ import' = [import EXCEPT !.status = "PARSING"] /\ Goes(w, "fetching") /\ UNCHANGED faults
     \/ import' = [import EXCEPT !.status = "PARSING"] /\ Fails(w) /\ Fault("reply")
     \/ UNCHANGED import /\ Fails(w) /\ Fault("database")
  /\ UNCHANGED <<api, event, locked>>

\* The object is fetched and parsed, and its rows are matched to the items
\* of this moment.  Only a malformed file is an ImportFileError.
Fetch(w) ==
  /\ At(w, "fetching")
  /\ \/ /\ object = "readable"
        /\ \E rows \in Clean \cup {Faulty} :
             worker' = [worker EXCEPT ![w].pc = "storing", ![w].rows = rows]
        /\ UNCHANGED faults
     \/ /\ object = "malformed"
        /\ worker' = [worker EXCEPT ![w].pc = "failing", ![w].rejected = TRUE]
        /\ UNCHANGED faults
     \/ object = "none" /\ Fails(w) /\ UNCHANGED faults
     \/ Fails(w) /\ (Fault("storage") \/ Fault("database"))
  /\ UNCHANGED <<api, import, event, locked>>

Parsed(rows) == [status |-> "READY", rows |-> rows, file |-> "VALIDATED"]

\* Mutant: the event is not completed with the rows.
StoredRowsOnly(w) ==
  /\ import' = Parsed(worker[w].rows)
  /\ UNCHANGED event

\* Rows, import, file and event are one transaction.
Stored(w) ==
  /\ import' = Parsed(worker[w].rows)
  /\ event' = [event EXCEPT !.status = "PROCESSED"]

Store(w) ==
  /\ At(w, "storing")
  /\ \/ Stored(w) /\ Goes(w, "unlocking") /\ UNCHANGED faults
     \/ Stored(w) /\ Fails(w) /\ Fault("reply")
     \/ UNCHANGED <<import, event>> /\ Fails(w) /\ Fault("database")
  /\ UNCHANGED <<api, locked>>

LastAttempt(w) == worker[w].claim >= MaxAttempts

IsTerminal(w) == worker[w].rejected \/ LastAttempt(w)

\* Mutant: the import is left as it is.
GivenUpEvent(w) ==
  IF IsTerminal(w)
  THEN /\ import' = [import EXCEPT !.status = "FAILED", !.file = "REJECTED"]
       /\ event' = [event EXCEPT !.status = "FAILED"]
  ELSE /\ UNCHANGED import
       /\ event' = [event EXCEPT !.status = "PENDING", !.waits = TRUE, !.stale = FALSE]

\* One transaction, whatever became of the import and the event.
GivenUp(w) ==
  IF IsTerminal(w)
  THEN /\ import' = [import EXCEPT !.status = "FAILED", !.file = "REJECTED"]
       /\ event' = [event EXCEPT !.status = "FAILED"]
  ELSE /\ import' = [import EXCEPT !.status = "QUEUED"]
       /\ event' = [event EXCEPT !.status = "PENDING", !.waits = TRUE, !.stale = FALSE]

\* When fail itself throws, the finally still removes the key.
Fail(w) ==
  /\ At(w, "failing")
  /\ Goes(w, "unlocking")
  /\ \/ GivenUp(w) /\ UNCHANGED faults
     \/ GivenUp(w) /\ Fault("reply")
     \/ UNCHANGED <<import, event>> /\ Fault("database")
  /\ UNCHANGED <<api, locked>>

\* The key goes, whoever has set it.
Unlock(w) ==
  /\ At(w, "unlocking")
  /\ Rests(w)
  /\ \/ locked' = FALSE /\ UNCHANGED faults
     \/ locked' \in {locked, FALSE} /\ Fault("redis")
  /\ UNCHANGED <<api, import, event>>

-----------------------------------------------------------------------------
(***************************************************************************)
(* The clock and crashes.                                                  *)
(***************************************************************************)
Crash(w) ==
  /\ ~At(w, "idle")
  /\ Fault("crash")
  /\ Rests(w)
  /\ UNCHANGED <<api, import, event, locked>>

AllRest == \A w \in Workers : At(w, "idle")

\* The wait after a failed attempt.  It is longer than the worker needs to
\* remove its key.
RetryDue ==
  /\ event.waits
  /\ \/ AllRest /\ UNCHANGED faults
     \/ ~AllRest /\ Fault("overlap")
  /\ event' = [event EXCEPT !.waits = FALSE]
  /\ UNCHANGED <<api, import, locked, worker>>

\* Five minutes after a claim: the key of its worker is gone by then, and so
\* is the worker.
ClaimExpires ==
  /\ event.status = "PROCESSING" /\ ~event.stale
  /\ \/ AllRest /\ ~locked /\ UNCHANGED faults
     \/ ~AllRest /\ Fault("overlap")
  /\ event' = [event EXCEPT !.stale = TRUE]
  /\ UNCHANGED <<api, import, locked, worker>>

LockExpires ==
  /\ locked
  /\ locked' = FALSE
  /\ UNCHANGED <<api, import, event, worker, faults>>

Step(w) ==
  \/ Claim(w)
  \/ LockImport(w)
  \/ Yield(w)
  \/ Read(w)
  \/ Skip(w)
  \/ Start(w)
  \/ Fetch(w)
  \/ Store(w)
  \/ Fail(w)
  \/ Unlock(w)

ImportNext ==
  \/ Put
  \/ CreateImport
  \/ RemoveFile
  \/ CrashUpload
  \/ Confirm
  \/ RetryDue
  \/ ClaimExpires
  \/ LockExpires
  \/ \E w \in Workers : Step(w) \/ Crash(w)

\* A process that is not killed goes on, its timer starts a round every
\* second, and time passes.  Requests may stop at any point.
Fairness ==
  /\ \A w \in Workers : WF_importVars(Step(w))
  /\ WF_importVars(RetryDue) /\ WF_importVars(ClaimExpires) /\ WF_importVars(LockExpires)

ImportSpec == ImportInit /\ [][ImportNext]_importVars

FairSpec == ImportSpec /\ Fairness

-----------------------------------------------------------------------------
(***************************************************************************)
(* Properties.                                                             *)
(***************************************************************************)
\* An import makes one draft revision however often it is parsed again and
\* becomes READY after it was confirmed: confirmImport itself only looks at
\* the status, which process and fail overwrite.
AtMostOneDraft == Len(drafts) <= 1

\* What was confirmed is not parsed again and keeps the rows its draft was
\* made from, unless a worker overslept its claim or took a transaction that
\* committed for one that had failed.
ConfirmedIsFinal ==
  [][import.status = "CONFIRMED" =>
       import' = import \/ Suffered({"overlap", "reply"})]_importVars

StoriesAgree ==
  /\ event.status = "NONE" => import = NoImport
  /\ event.status = "PENDING" => import.status = "QUEUED"
  /\ event.status = "PROCESSING" => import.status \in {"QUEUED", "PARSING"}
  /\ event.status = "PROCESSED" =>
       import.status \in {"READY", "CONFIRMED"} /\ import.file = "VALIDATED"
  /\ event.status = "FAILED" => import.status = "FAILED" /\ import.file = "REJECTED"

\* Import, file and event tell the same story whichever call fails or which
\* process dies: a parsed or rejected import is never parsed again for its
\* event, and one to be parsed has an event that asks for it.
ImportMatchesEvent == Suffered({"overlap"}) \/ StoriesAgree

OneAtWork == \A v, w \in Workers : At(v, "idle") \/ At(w, "idle") \/ v = w

\* While a worker is at the file no other is, from its claim to the removal
\* of its key: the event's row alone sees to that.
OneWorkerParses == Suffered({"overlap"}) \/ OneAtWork

Stranded == event.status = "PENDING" /\ event.attempts >= MaxAttempts

\* Every import is parsed or given up in the end, unless a late worker has
\* written over its state or a key outlived its round: then every worker that
\* finds the key uses up an attempt, and nothing takes the event up again.
ImportsSettle ==
  import.status \in {"QUEUED", "PARSING"} ~>
    \/ import.status \in {"READY", "FAILED", "CONFIRMED"}
    \/ Stranded /\ Suffered({"crash", "redis"})
    \/ Suffered({"overlap"})

=============================================================================
