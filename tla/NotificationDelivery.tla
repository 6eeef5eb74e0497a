------------------------ MODULE NotificationDelivery -------------------------
(***************************************************************************)
(* The worker's notification processor: apps/worker/src/                   *)
(* notification-processor.ts.  One outbox event, the e-mail deliveries it  *)
(* leads to and the worker processes that claim it.  A worker prepares the *)
(* deliveries, sends them one by one and settles the event; each of its    *)
(* database calls is a step of its own, and between any two of them        *)
(* another worker may take its steps, or this one may stop for good.       *)
(*                                                                         *)
(* A claim is named by its lockedAt time; claims of one event are told     *)
(* apart by the attempt they are, which is what identifies them here.  Of  *)
(* the clock the model keeps whether an availableAt has come and whether a *)
(* claim is older than five minutes.                                       *)
(***************************************************************************)
EXTENDS Integers, FiniteSets, Functions

CONSTANTS
  Workers,       \* worker processes
  Deliveries,    \* recipients that may want an e-mail
  MaxAttempts,   \* MAX_ATTEMPTS
  SmtpSettings,  \* values SMTP_ENABLED has when a worker starts
  Faults,        \* what may go wrong
  MaxFaults      \* bound on how often

NoDelivery == "none"

FaultKinds ==
  {"crash",      \* a worker is killed
   "database",   \* a call of the database throws
   "reply",      \* the server accepts a message, its reply is lost
   "overlap"}    \* a claim grows old while its worker is at it

ASSUME DeliveryAssumption ==
  /\ NoDelivery \notin Deliveries
  /\ MaxAttempts \in Nat \ {0}
  /\ SmtpSettings \subseteq BOOLEAN /\ SmtpSettings # {}
  /\ Faults \subseteq FaultKinds
  /\ MaxFaults \in Nat

VARIABLES
  event,         \* the row of outbox_events
  delivery,      \* the rows of notification_email_deliveries
  accepted,      \* how often the mail server accepted each message
  worker,        \* what each process is doing
  faults         \* how often each kind of fault has happened

vars == <<event, delivery, accepted, worker, faults>>

Missing == "NONE"
Final == {"SENT", "SKIPPED", "DEAD_LETTER"}
Unsettled == {d \in Deliveries : delivery[d].status \in {"PENDING", "PROCESSING"}}

NewEvent ==
  [status |-> "PENDING", attempts |-> 0, lockedAt |-> 0, stale |-> FALSE, waits |-> "no"]

NewDelivery == [status |-> Missing, attempts |-> 0, due |-> TRUE]

\* A process that waits for its next poll.
Resting(smtp) ==
  [pc |-> "idle", claim |-> 0, todo |-> {}, at |-> NoDelivery, attempts |-> 0,
   verdict |-> Missing, smtp |-> smtp]

FaultsSoFar == SumFunction(faults)

Fault(kind) ==
  /\ kind \in Faults /\ FaultsSoFar < MaxFaults
  /\ faults' = [faults EXCEPT ![kind] = @ + 1]

\* A fault of one of these kinds has happened.
Suffered(kinds) == \E kind \in kinds : faults[kind] > 0

Init ==
  /\ event = NewEvent
  /\ delivery = [d \in Deliveries |-> NewDelivery]
  /\ accepted = [d \in Deliveries |-> 0]
  /\ worker \in [Workers -> {Resting(smtp) : smtp \in SmtpSettings}]
  /\ faults = [kind \in FaultKinds |-> 0]

At(w, pc) == worker[w].pc = pc

\* The worker goes on to another place of its program.
Goes(w, pc) == worker' = [worker EXCEPT ![w].pc = pc]

\* It is done with the delivery it was at.
NextDelivery(w, d) ==
  worker' = [worker EXCEPT ![w].pc = "delivering", ![w].todo = @ \ {d}, ![w].at = NoDelivery]

Rests(w) == worker' = [worker EXCEPT ![w] = Resting(@.smtp)]

-----------------------------------------------------------------------------
(***************************************************************************)
(* claim.                                                                  *)
(***************************************************************************)
\* The event's availableAt has come: its own backoff, or that of the first
\* of the deliveries it was put back for.
Available ==
  \/ event.waits = "no"
  \/ event.waits = "delivery" /\ (Unsettled = {} \/ \E d \in Unsettled : delivery[d].due)

\* Mutant: claims that are never given back stay.
ClaimableFresh == event.status = "PENDING" /\ Available /\ event.attempts < MaxAttempts

Claimable ==
  \/ event.status = "PENDING" /\ Available /\ event.attempts < MaxAttempts
  \/ event.status = "PROCESSING" /\ event.stale

Claim(w) ==
  /\ At(w, "idle")
  /\ Claimable
  /\ event' = [event EXCEPT !.status = "PROCESSING", !.attempts = @ + 1,
                            !.lockedAt = event.attempts + 1, !.stale = FALSE, !.waits = "no"]
  /\ worker' = [worker EXCEPT ![w].pc = "preparing", ![w].claim = event.attempts + 1]
  /\ UNCHANGED <<delivery, accepted, faults>>

\* Mutant: a worker does not look at its claim.
HoldsAlways(w) == TRUE

\* The claim a worker has is the one the event records.
Holds(w) == event.status = "PROCESSING" /\ event.lockedAt = worker[w].claim

-----------------------------------------------------------------------------
(***************************************************************************)
(* prepare.  The recipients are those the project has now.                 *)
(***************************************************************************)
Prepare(w) ==
  /\ At(w, "preparing")
  /\ UNCHANGED <<event, accepted, faults>>
  /\ IF Holds(w)
       THEN \E recipients \in SUBSET Deliveries :
              /\ delivery' = [d \in Deliveries |->
                   IF d \in recipients /\ delivery[d].status = Missing
                     THEN [delivery[d] EXCEPT
                             !.status = IF worker[w].smtp THEN "PENDING" ELSE "SKIPPED"]
                     ELSE delivery[d]]
              /\ worker' = [worker EXCEPT
                   ![w].pc = "delivering",
                   ![w].todo = {d \in recipients : delivery'[d].status # "SKIPPED"}]
       ELSE Goes(w, "failing") /\ UNCHANGED delivery

-----------------------------------------------------------------------------
(***************************************************************************)
(* deliver.  The delivery's row is read without a lock; what is written    *)
(* next rests on what was read.                                            *)
(***************************************************************************)
\* Mutant: a delivery somebody was sending is tried again.
SeesRetry(status) == IF status = "PROCESSING" THEN "taking"
                     ELSE IF status = "PENDING" THEN "taking" ELSE "delivering"

Sees(status) == IF status = "PROCESSING" THEN "ambiguous"
                ELSE IF status = "PENDING" THEN "taking" ELSE "delivering"

Look(w, d) ==
  /\ At(w, "delivering") /\ d \in worker[w].todo
  /\ LET next == Sees(delivery[d].status) IN
       IF next = "delivering" \/ (next = "taking" /\ ~delivery[d].due)
         THEN NextDelivery(w, d)
         ELSE worker' = [worker EXCEPT ![w].pc = next, ![w].at = d]
  /\ UNCHANGED <<event, delivery, accepted, faults>>

\* Nobody knows whether the message was sent.
DeadLetterAmbiguous(w) ==
  LET d == worker[w].at IN
  /\ At(w, "ambiguous")
  /\ delivery' = [delivery EXCEPT ![d].status = "DEAD_LETTER"]
  /\ NextDelivery(w, d)
  /\ UNCHANGED <<event, accepted, faults>>

Take(w) ==
  LET d == worker[w].at IN
  /\ At(w, "taking")
  /\ delivery' = [delivery EXCEPT ![d].status = "PROCESSING", ![d].attempts = @ + 1]
  /\ worker' = [worker EXCEPT ![w].pc = IF worker[w].smtp THEN "sending" ELSE "skipping",
                              ![w].attempts = delivery[d].attempts + 1]
  /\ UNCHANGED <<event, accepted, faults>>

Skip(w) ==
  LET d == worker[w].at IN
  /\ At(w, "skipping")
  /\ delivery' = [delivery EXCEPT ![d].status = "SKIPPED"]
  /\ NextDelivery(w, d)
  /\ UNCHANGED <<event, accepted, faults>>

Send(w) ==
  /\ At(w, "sending")
  /\ UNCHANGED <<event, delivery>>
  /\ \/ /\ accepted' = [accepted EXCEPT ![worker[w].at] = @ + 1]
        /\ \/ Goes(w, "recording") /\ UNCHANGED faults
           \/ Fault("reply") /\ Goes(w, "excusing")
     \/ Goes(w, "excusing") /\ UNCHANGED <<accepted, faults>>

\* The row is updated only while it is PROCESSING; otherwise the update
\* throws, and is handled as a failure to send.
RecordSent(w) ==
  LET d == worker[w].at IN
  /\ At(w, "recording")
  /\ IF delivery[d].status = "PROCESSING"
       THEN delivery' = [delivery EXCEPT ![d].status = "SENT"] /\ NextDelivery(w, d)
       ELSE UNCHANGED delivery /\ Goes(w, "excusing")
  /\ UNCHANGED <<event, accepted, faults>>

GivesUp(w) == worker[w].attempts >= MaxAttempts

RecordFailure(w) ==
  LET d == worker[w].at IN
  /\ At(w, "excusing")
  /\ IF delivery[d].status = "PROCESSING"
       THEN /\ delivery' = [delivery EXCEPT
                 ![d].status = IF GivesUp(w) THEN "DEAD_LETTER" ELSE "PENDING",
                 ![d].due = IF GivesUp(w) THEN @ ELSE FALSE]
            /\ NextDelivery(w, d)
       ELSE Goes(w, "failing") /\ UNCHANGED delivery
  /\ UNCHANGED <<event, accepted, faults>>

-----------------------------------------------------------------------------
(***************************************************************************)
(* finish and failEvent: the event is released by the worker whose claim   *)
(* it is, and by nobody else.                                              *)
(***************************************************************************)
\* Mutant: deliveries that wait for a retry are overlooked.
VerdictHasty ==
  IF \E d \in Deliveries : delivery[d].status = "DEAD_LETTER" THEN "DEAD_LETTER"
  ELSE "PROCESSED"

Verdict ==
  IF \E d \in Deliveries : delivery[d].status = "DEAD_LETTER" THEN "DEAD_LETTER"
  ELSE IF Unsettled # {} THEN "PENDING"
  ELSE "PROCESSED"

Survey(w) ==
  /\ At(w, "delivering") /\ worker[w].todo = {}
  /\ worker' = [worker EXCEPT ![w].pc = "finishing", ![w].verdict = Verdict]
  /\ UNCHANGED <<event, delivery, accepted, faults>>

Released(status, waits) ==
  [event EXCEPT !.status = status, !.lockedAt = 0, !.stale = FALSE, !.waits = waits]

Finish(w) ==
  LET verdict == worker[w].verdict IN
  /\ At(w, "finishing")
  /\ event' = IF Holds(w)
                THEN Released(verdict, IF verdict = "PENDING" THEN "delivery" ELSE "no")
                ELSE event
  /\ Rests(w)
  /\ UNCHANGED <<delivery, accepted, faults>>

Failure(w) ==
  IF worker[w].claim >= MaxAttempts THEN Released("DEAD_LETTER", "no")
                                    ELSE Released("PENDING", "backoff")

FailEvent(w) ==
  /\ At(w, "failing")
  /\ event' = IF Holds(w) THEN Failure(w) ELSE event
  /\ Rests(w)
  /\ UNCHANGED <<delivery, accepted, faults>>

Work(w) ==
  \/ Claim(w) \/ Prepare(w)
  \/ \E d \in Deliveries : Look(w, d)
  \/ DeadLetterAmbiguous(w) \/ Take(w) \/ Skip(w) \/ Send(w)
  \/ RecordSent(w) \/ RecordFailure(w)
  \/ Survey(w) \/ Finish(w) \/ FailEvent(w)

-----------------------------------------------------------------------------
(***************************************************************************)
(* What goes wrong, and the clock.                                         *)
(***************************************************************************)
\* A call of the database throws: the update that records a sent message
\* is inside the try of its handler, the others end the processing; when
\* failEvent itself throws, the event keeps its claim.
DatabaseError(w) ==
  /\ Fault("database")
  /\ \/ At(w, "recording") /\ Goes(w, "excusing")
     \/ worker[w].pc \in {"preparing", "delivering", "ambiguous", "taking", "skipping",
                          "excusing", "finishing"} /\ Goes(w, "failing")
     \/ At(w, "failing") /\ Rests(w)
  /\ UNCHANGED <<event, delivery, accepted>>

\* The process is killed and started again, with the settings of that day.
Crash(w) ==
  /\ Fault("crash")
  /\ ~At(w, "idle")
  /\ \E smtp \in SmtpSettings : worker' = [worker EXCEPT ![w] = Resting(smtp)]
  /\ UNCHANGED <<event, delivery, accepted>>

Abandoned == \A w \in Workers : At(w, "idle") \/ worker[w].claim # event.lockedAt

\* Five minutes have passed since the claim.  Nothing renews it, so its
\* worker may still be at it.
Expire ==
  /\ event.status = "PROCESSING" /\ ~event.stale
  /\ (Abandoned /\ UNCHANGED faults) \/ (~Abandoned /\ Fault("overlap"))
  /\ event' = [event EXCEPT !.stale = TRUE]
  /\ UNCHANGED <<delivery, accepted, worker>>

EventDue ==
  /\ event.waits = "backoff"
  /\ event' = [event EXCEPT !.waits = "no"]
  /\ UNCHANGED <<delivery, accepted, worker, faults>>

DeliveryDue(d) ==
  /\ ~delivery[d].due
  /\ delivery' = [delivery EXCEPT ![d].due = TRUE]
  /\ UNCHANGED <<event, accepted, worker, faults>>

Time == Expire \/ EventDue \/ \E d \in Deliveries : DeliveryDue(d)

Next ==
  \/ \E w \in Workers : Work(w) \/ DatabaseError(w) \/ Crash(w)
  \/ Time

Spec == Init /\ [][Next]_vars

\* A process goes on with what it does as long as it is not killed: every
\* call returns or throws, and the poll comes every half second.  The clock
\* does not stop.
FairSpec ==
  Spec /\ (\A w \in Workers : WF_vars(Work(w))) /\ WF_vars(Expire) /\ WF_vars(EventDue)
       /\ (\A d \in Deliveries : WF_vars(DeliveryDue(d)))

-----------------------------------------------------------------------------
(***************************************************************************)
(* Properties.                                                             *)
(***************************************************************************)
\* As long as no claim has grown old under its worker, no two workers are at
\* the same event, however often they are killed or fail: the claim is what
\* keeps them apart.
OneWorkerPerEvent ==
  Suffered({"overlap"}) \/ \A v, w \in Workers : ~At(v, "idle") /\ ~At(w, "idle") => v = w

\* An event is PROCESSED only when each of its deliveries has come to an
\* end, and DEAD_LETTER only when one of them did or its attempts ran out.
SettledWithItsDeliveries ==
  \/ Suffered({"overlap"})
  \/ /\ event.status = "PROCESSED" =>
          \A d \in Deliveries : delivery[d].status \in {Missing, "SENT", "SKIPPED"}
     /\ event.status = "DEAD_LETTER" =>
          \/ event.attempts >= MaxAttempts
          \/ \E d \in Deliveries : delivery[d].status = "DEAD_LETTER"

\* The mail server accepts a message at most once: nothing that may have been
\* sent is sent again.
NeverSentTwice == \A d \in Deliveries : accepted[d] <= 1

\* However often workers are killed, and whichever attempts fail, nothing is
\* sent twice; only a lost reply, a lost record or a claim that grows old
\* under its worker lead to that.
AcceptedOnce == Suffered({"reply", "database", "overlap"}) \/ NeverSentTwice

\* An event that is settled stays so, whatever workers with old claims do.
SettledIsFinal ==
  [][event.status \in {"PROCESSED", "DEAD_LETTER"} => event' = event]_vars

\* An event whose attempts are used up has been settled.
NoneStranded == event.status = "PENDING" => event.attempts < MaxAttempts

\* A claim does not last: the event is settled or put back, also when the
\* worker that made the claim is killed.
ClaimsEnd == event.status = "PROCESSING" ~> event.status # "PROCESSING"

=============================================================================
