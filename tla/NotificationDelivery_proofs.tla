---------------------- MODULE NotificationDelivery_proofs ----------------------
(***************************************************************************)
(* A settled event stays settled, was settled with its deliveries, and no  *)
(* message is accepted twice, for any number of workers, deliveries,       *)
(* attempts and faults.                                                    *)
(*                                                                         *)
(* The first needs no more than that only a PENDING event waits.  The      *)
(* others rest on the claim: until a claim grows old under its worker, who *)
(* is at work has the claim the event records and is the only one, so what *)
(* a worker has read of the deliveries is still so when it writes.         *)
(***************************************************************************)
EXTENDS NotificationDelivery, TLAPS

Places == {"idle", "preparing", "delivering", "ambiguous", "taking", "skipping",
           "sending", "recording", "excusing", "finishing", "failing"}

AtDelivery == {"ambiguous", "taking", "skipping", "sending", "recording", "excusing"}

Events ==
  [status : {"PENDING", "PROCESSING", "PROCESSED", "DEAD_LETTER"},
   attempts : Nat, lockedAt : Nat, stale : BOOLEAN, waits : {"no", "delivery", "backoff"}]

Rows ==
  [status : Final \cup {Missing, "PENDING", "PROCESSING"}, attempts : Nat, due : BOOLEAN]

Verdicts == {"PENDING", "PROCESSED", "DEAD_LETTER"}

Rounds ==
  [pc : Places, claim : Nat, todo : SUBSET Deliveries, at : Deliveries \cup {NoDelivery},
   attempts : Nat, verdict : Verdicts \cup {Missing}, smtp : BOOLEAN]

\* A worker that works on a delivery has one, and one that is about to
\* settle the event has decided how.
Aimed(round) ==
  /\ round.pc \in AtDelivery => round.at \in Deliveries
  /\ round.pc = "finishing" => round.verdict \in Verdicts

Typed ==
  /\ faults \in [FaultKinds -> Nat]
  /\ event \in Events
  /\ delivery \in [Deliveries -> Rows]
  /\ accepted \in [Deliveries -> Nat]
  /\ worker \in [Workers -> Rounds]
  /\ \A w \in Workers : Aimed(worker[w])

-----------------------------------------------------------------------------
(***************************************************************************)
(* Types, action by action.                                                *)
(***************************************************************************)
LEMMA FaultIsTyped ==
  ASSUME Typed, NEW kind \in FaultKinds, Fault(kind)
  PROVE  faults' \in [FaultKinds -> Nat]
BY DEF Typed, Fault, FaultKinds

\* A worker moves from one round to the next, and nobody else does.
Moves(w, round) ==
  /\ round \in Rounds /\ Aimed(round)
  /\ worker'[w] = round
  /\ worker' \in [Workers -> Rounds]
  /\ \A v \in Workers \ {w} : worker'[v] = worker[v]

\* A worker that moves to another place of its program stays well-formed.
LEMMA MovesTyped ==
  ASSUME Typed, NEW w \in Workers, NEW round \in Rounds, Aimed(round),
         worker' = [worker EXCEPT ![w] = round]
  PROVE  Moves(w, round)
BY DEF Typed, Moves

\* After such a move every worker is well-formed.
LEMMA MovedIsAimed ==
  ASSUME Typed, NEW w \in Workers, NEW round, Moves(w, round)
  PROVE  worker' \in [Workers -> Rounds] /\ \A v \in Workers : Aimed(worker[v])'
<1>1. ASSUME NEW v \in Workers PROVE Aimed(worker'[v])
  BY DEF Typed, Moves
<1> QED
  BY <1>1 DEF Moves, Aimed

\* The rounds the actions lead to.
Went(w, pc) == [worker[w] EXCEPT !.pc = pc]
Done(w, d) == [worker[w] EXCEPT !.pc = "delivering", !.todo = @ \ {d}, !.at = NoDelivery]

\* A worker that only changes its place makes such a move.
LEMMA GoesMoves ==
  ASSUME Typed, NEW w \in Workers, NEW pc \in Places, Goes(w, pc),
         pc \in AtDelivery => worker[w].at \in Deliveries, pc # "finishing"
  PROVE  Moves(w, Went(w, pc))
<1>1. Went(w, pc) \in Rounds /\ Aimed(Went(w, pc))
  BY DEF Typed, Went, Rounds, Aimed
<1>2. worker' = [worker EXCEPT ![w] = Went(w, pc)]
  BY DEF Goes, Went
<1> QED
  BY <1>1, <1>2, MovesTyped

\* So does one that goes on to its next delivery, or to rest.
LEMMA NextDeliveryMoves ==
  ASSUME Typed, NEW w \in Workers, NEW d, NextDelivery(w, d)
  PROVE  Moves(w, Done(w, d))
<1>1. Done(w, d) \in Rounds /\ Aimed(Done(w, d))
  <2>1. worker[w] \in Rounds
    BY DEF Typed
  <2>2. "delivering" \in Places /\ "delivering" \notin AtDelivery
    BY DEF Places, AtDelivery
  <2> QED
    BY <2>1, <2>2 DEF Done, Rounds, Aimed
<1>2. worker' = [worker EXCEPT ![w] = Done(w, d)]
  BY DEF NextDelivery, Done
<1> QED
  BY <1>1, <1>2, MovesTyped

\* A worker at rest is well-formed.
LEMMA RestingIsRound ==
  ASSUME NEW smtp \in BOOLEAN
  PROVE  Resting(smtp) \in Rounds /\ Aimed(Resting(smtp)) /\ Resting(smtp).pc = "idle"
BY DEF Resting, Rounds, Aimed, Places, AtDelivery

\* A worker that goes to rest makes such a move.
LEMMA RestsMoves ==
  ASSUME Typed, NEW w \in Workers, Rests(w)
  PROVE  Moves(w, Resting(worker[w].smtp)) /\ Resting(worker[w].smtp).pc = "idle"
<1>1. worker[w].smtp \in BOOLEAN
  BY DEF Typed, Rounds
<1>2. worker' = [worker EXCEPT ![w] = Resting(worker[w].smtp)]
  BY DEF Rests
<1> QED
  BY <1>1, <1>2, RestingIsRound, MovesTyped

\* Such a move, with rows of their types, keeps the types.
LEMMA MovesKeepTypes ==
  ASSUME Typed, NEW w \in Workers, NEW round, Moves(w, round),
         faults' \in [FaultKinds -> Nat], event' \in Events,
         delivery' \in [Deliveries -> Rows], accepted' \in [Deliveries -> Nat]
  PROVE  Typed'
BY MovedIsAimed DEF Typed

\* A worker goes on in its round, with its claim, or leaves it.
Proceeds(w, places) ==
  /\ Typed'
  /\ worker'[w].pc \in places
  /\ worker'[w].claim = worker[w].claim
  /\ \A v \in Workers \ {w} : worker'[v] = worker[v]

Leaves(w) ==
  /\ Typed'
  /\ worker'[w].pc = "idle"
  /\ \A v \in Workers \ {w} : worker'[v] = worker[v]

\* A worker that changes its place keeps the delivery it is at.
LEMMA WentProceeds ==
  ASSUME Typed, NEW w \in Workers, NEW pc \in Places, Moves(w, Went(w, pc)),
         Typed', NEW places, pc \in places
  PROVE  Proceeds(w, places) /\ worker'[w].at = worker[w].at
BY DEF Typed, Rounds, Moves, Went, Proceeds

\* A worker that is done with a delivery goes on with the next one.
LEMMA DoneProceeds ==
  ASSUME Typed, NEW w \in Workers, NEW d, Moves(w, Done(w, d)),
         Typed', NEW places, "delivering" \in places
  PROVE  Proceeds(w, places)
BY DEF Typed, Rounds, Moves, Done, Proceeds

\* A worker that comes to rest has left the event.
LEMMA RestingLeaves ==
  ASSUME NEW w \in Workers, NEW round, Moves(w, round), round.pc = "idle", Typed'
  PROVE  Leaves(w)
BY DEF Moves, Leaves

\* The row of a delivery with another status.
LEMMA StatusIsTyped ==
  ASSUME Typed, NEW d \in Deliveries,
         NEW status \in Final \cup {Missing, "PENDING", "PROCESSING"},
         delivery' = [delivery EXCEPT ![d].status = status]
  PROVE  /\ delivery' \in [Deliveries -> Rows]
         /\ delivery'[d].status = status
         /\ \A e \in Deliveries \ {d} : delivery'[e] = delivery[e]
BY DEF Typed, Rows

Claiming(w) == [worker[w] EXCEPT !.pc = "preparing", !.claim = event.attempts + 1]

\* Types, step by step, with what each step says of the worker's next place.
LEMMA ClaimTyped ==
  ASSUME Typed, NEW w \in Workers, Claim(w)
  PROVE  /\ Moves(w, Claiming(w)) /\ Typed'
         /\ event'.status = "PROCESSING" /\ ~event'.stale /\ event'.waits = "no"
         /\ event'.lockedAt = event.attempts + 1 /\ event'.attempts = event.attempts + 1
         /\ worker'[w].pc = "preparing" /\ worker'[w].claim = event.attempts + 1
<1>1. event.attempts + 1 \in Nat
  BY DEF Typed, Events
<1>2. Claiming(w) \in Rounds /\ Aimed(Claiming(w)) /\ Claiming(w).pc = "preparing"
      /\ Claiming(w).claim = event.attempts + 1
  BY <1>1 DEF Typed, Claiming, Rounds, Aimed, Places, AtDelivery
<1>3. worker' = [worker EXCEPT ![w] = Claiming(w)]
  BY DEF Claim, Claiming
<1>4. Moves(w, Claiming(w))
  BY <1>2, <1>3, MovesTyped
<1>5. /\ event' \in Events
      /\ event'.status = "PROCESSING" /\ ~event'.stale /\ event'.waits = "no"
      /\ event'.lockedAt = event.attempts + 1 /\ event'.attempts = event.attempts + 1
  BY <1>1 DEF Typed, Events, Claim
<1>6. delivery' \in [Deliveries -> Rows] /\ accepted' \in [Deliveries -> Nat]
      /\ faults' \in [FaultKinds -> Nat]
  BY DEF Typed, Claim
<1> QED
  BY <1>2, <1>4, <1>5, <1>6, MovesKeepTypes DEF Moves

\* prepare writes rows of deliveries that were missing, and fails or goes on.
LEMMA PrepareTyped ==
  ASSUME Typed, NEW w \in Workers, Prepare(w)
  PROVE  Proceeds(w, {"delivering", "failing"})
<1>1. event' \in Events /\ accepted' \in [Deliveries -> Nat] /\ faults' \in [FaultKinds -> Nat]
  BY DEF Typed, Prepare
<1>2. CASE ~Holds(w)
  <2>1. Goes(w, "failing") /\ delivery' \in [Deliveries -> Rows]
    BY <1>2 DEF Prepare, Typed
  <2>2. Moves(w, Went(w, "failing"))
    BY <2>1, GoesMoves DEF Places, AtDelivery
  <2>3. Typed'
    BY <1>1, <2>1, <2>2, MovesKeepTypes
  <2> QED
    BY <2>2, <2>3, WentProceeds DEF Places
<1>3. CASE Holds(w)
  <2>1. PICK recipients \in SUBSET Deliveries :
          /\ delivery' = [d \in Deliveries |->
               IF d \in recipients /\ delivery[d].status = Missing
                 THEN [delivery[d] EXCEPT
                         !.status = IF worker[w].smtp THEN "PENDING" ELSE "SKIPPED"]
                 ELSE delivery[d]]
          /\ worker' = [worker EXCEPT
               ![w].pc = "delivering",
               ![w].todo = {d \in recipients : delivery'[d].status # "SKIPPED"}]
    BY <1>3 DEF Prepare
  <2>2. delivery' \in [Deliveries -> Rows]
    BY <2>1 DEF Typed, Rows, Final
  <2> DEFINE todo == {d \in recipients : delivery'[d].status # "SKIPPED"}
             round == [worker[w] EXCEPT !.pc = "delivering", !.todo = todo]
  <2>3. todo \in SUBSET Deliveries
    OBVIOUS
  <2> HIDE DEF todo
  <2>4. round \in Rounds /\ Aimed(round) /\ round.pc = "delivering"
        /\ round.claim = worker[w].claim
    <3>1. worker[w] \in Rounds
      BY DEF Typed
    <3>2. "delivering" \in Places /\ "delivering" \notin AtDelivery
      BY DEF Places, AtDelivery
    <3> QED
      BY <2>3, <3>1, <3>2 DEF Rounds, Aimed
  <2>5. worker' = [worker EXCEPT ![w] = round]
    BY <2>1 DEF todo
  <2> HIDE DEF round
  <2>6. Moves(w, round)
    BY <2>4, <2>5, MovesTyped
  <2>7. Typed'
    BY <1>1, <2>2, <2>6, MovesKeepTypes
  <2> QED
    BY <2>4, <2>6, <2>7 DEF Moves, Proceeds
<1> QED
  BY <1>2, <1>3

\* What a worker has seen of the delivery it turns to.
Saw(w) ==
  /\ worker'[w].pc = "ambiguous" => delivery[worker'[w].at].status = "PROCESSING"
  /\ worker'[w].pc = "taking" => delivery[worker'[w].at].status = "PENDING"

\* A look at a delivery leads to one of the ways to treat it.
LEMMA LookTyped ==
  ASSUME Typed, NEW w \in Workers, NEW d \in Deliveries, Look(w, d)
  PROVE  Proceeds(w, {"delivering", "ambiguous", "taking"}) /\ Saw(w)
<1>1. event' \in Events /\ accepted' \in [Deliveries -> Nat] /\ faults' \in [FaultKinds -> Nat]
      /\ delivery' \in [Deliveries -> Rows]
  BY DEF Typed, Look
<1>2. CASE NextDelivery(w, d)
  <2>1. Moves(w, Done(w, d)) /\ Typed'
    BY <1>1, <1>2, NextDeliveryMoves, MovesKeepTypes
  <2>2. worker'[w].pc = "delivering"
    BY <2>1 DEF Moves, Done, Typed, Rounds
  <2> QED
    BY <2>1, <2>2, DoneProceeds DEF Saw
<1>3. ASSUME NEW next \in {"ambiguous", "taking"}, next = Sees(delivery[d].status),
             worker' = [worker EXCEPT ![w].pc = next, ![w].at = d]
      PROVE  Proceeds(w, {"delivering", "ambiguous", "taking"}) /\ Saw(w)
  <2> DEFINE round == [worker[w] EXCEPT !.pc = next, !.at = d]
  <2>1. round \in Rounds /\ Aimed(round) /\ round.pc = next /\ round.at = d
        /\ round.claim = worker[w].claim
    BY <1>3 DEF Typed, Rounds, Aimed, Places, AtDelivery
  <2>2. worker' = [worker EXCEPT ![w] = round]
    BY <1>3
  <2> HIDE DEF round
  <2>3. Moves(w, round) /\ Typed'
    BY <1>1, <2>1, <2>2, MovesTyped, MovesKeepTypes
  <2>4. worker'[w] = round /\ Proceeds(w, {"delivering", "ambiguous", "taking"})
    BY <2>1, <2>3 DEF Moves, Proceeds
  <2> QED
    BY <1>3, <2>1, <2>4 DEF Sees, Saw
<1> QED
  BY <1>2, <1>3 DEF Look, Sees

\* An ambiguous delivery is dead-lettered.
LEMMA DeadLetterAmbiguousTyped ==
  ASSUME Typed, NEW w \in Workers, DeadLetterAmbiguous(w)
  PROVE  /\ Proceeds(w, {"delivering"})
         /\ delivery'[worker[w].at].status = "DEAD_LETTER"
         /\ \A e \in Deliveries \ {worker[w].at} : delivery'[e] = delivery[e]
<1> DEFINE d == worker[w].at
<1>1. d \in Deliveries
  BY DEF Typed, Aimed, DeadLetterAmbiguous, At, AtDelivery
<1>2. Moves(w, Done(w, d))
  BY NextDeliveryMoves DEF DeadLetterAmbiguous
<1>3. /\ delivery' \in [Deliveries -> Rows] /\ delivery'[d].status = "DEAD_LETTER"
      /\ \A e \in Deliveries \ {d} : delivery'[e] = delivery[e]
  BY <1>1, StatusIsTyped DEF DeadLetterAmbiguous, Final
<1>4. Typed'
  BY <1>2, <1>3, MovesKeepTypes DEF Typed, DeadLetterAmbiguous
<1> QED
  BY <1>2, <1>3, <1>4, DoneProceeds

\* Taking a delivery counts an attempt.
LEMMA TakeTyped ==
  ASSUME Typed, NEW w \in Workers, Take(w)
  PROVE  /\ Proceeds(w, {"sending", "skipping"})
         /\ worker'[w].at = worker[w].at
         /\ delivery'[worker[w].at].status = "PROCESSING"
         /\ \A e \in Deliveries \ {worker[w].at} : delivery'[e] = delivery[e]
<1> DEFINE d == worker[w].at
           pc == IF worker[w].smtp THEN "sending" ELSE "skipping"
           round == [worker[w] EXCEPT !.pc = pc, !.attempts = delivery[d].attempts + 1]
<1>1. d \in Deliveries
  BY DEF Typed, Aimed, Take, At, AtDelivery
<1>2. delivery[d].attempts + 1 \in Nat
  BY <1>1 DEF Typed, Rows
<1>3. delivery' = [delivery EXCEPT
        ![d] = [delivery[d] EXCEPT !.status = "PROCESSING", !.attempts = delivery[d].attempts + 1]]
  BY DEF Take
<1>4. /\ delivery' \in [Deliveries -> Rows] /\ delivery'[d].status = "PROCESSING"
      /\ \A e \in Deliveries \ {d} : delivery'[e] = delivery[e]
  BY <1>1, <1>2, <1>3 DEF Typed, Rows
<1>5. round \in Rounds /\ Aimed(round) /\ round.pc \in {"sending", "skipping"}
      /\ round.claim = worker[w].claim /\ round.at = d
  BY <1>1, <1>2 DEF Typed, Rounds, Aimed, Places, AtDelivery
<1>6. worker' = [worker EXCEPT ![w] = round]
  BY DEF Take
<1> HIDE DEF round
<1>7. Moves(w, round)
  BY <1>5, <1>6, MovesTyped
<1>8. Typed'
  BY <1>4, <1>7, MovesKeepTypes DEF Typed, Take
<1> QED
  BY <1>4, <1>5, <1>7, <1>8 DEF Moves, Proceeds

\* A delivery to a recipient who no longer wants it is skipped.
LEMMA SkipTyped ==
  ASSUME Typed, NEW w \in Workers, Skip(w)
  PROVE  /\ Proceeds(w, {"delivering"})
         /\ delivery'[worker[w].at].status = "SKIPPED"
         /\ \A e \in Deliveries \ {worker[w].at} : delivery'[e] = delivery[e]
<1> DEFINE d == worker[w].at
<1>1. d \in Deliveries
  BY DEF Typed, Aimed, Skip, At, AtDelivery
<1>2. Moves(w, Done(w, d))
  BY NextDeliveryMoves DEF Skip
<1>3. /\ delivery' \in [Deliveries -> Rows] /\ delivery'[d].status = "SKIPPED"
      /\ \A e \in Deliveries \ {d} : delivery'[e] = delivery[e]
  BY <1>1, StatusIsTyped DEF Skip, Final
<1>4. Typed'
  BY <1>2, <1>3, MovesKeepTypes DEF Typed, Skip
<1> QED
  BY <1>2, <1>3, <1>4, DoneProceeds

\* A message that is sent is accepted, refused or lost.
LEMMA SendTyped ==
  ASSUME Typed, NEW w \in Workers, Send(w)
  PROVE  /\ Proceeds(w, {"recording", "excusing"})
         /\ worker'[w].at = worker[w].at
<1>1. faults' \in [FaultKinds -> Nat]
  BY FaultIsTyped DEF Send, FaultKinds, Typed
<1>2. PICK pc \in {"recording", "excusing"} : Goes(w, pc)
  BY DEF Send
<1>3. worker[w].at \in Deliveries
  BY DEF Typed, Aimed, Send, At, AtDelivery
<1>4. Moves(w, Went(w, pc))
  BY <1>2, <1>3, GoesMoves DEF Places
<1>5. accepted' \in [Deliveries -> Nat]
  <2>1. accepted[worker[w].at] + 1 \in Nat
    BY <1>3 DEF Typed
  <2> QED
    BY <2>1 DEF Send, Typed
<1>6. Typed'
  BY <1>1, <1>4, <1>5, MovesKeepTypes DEF Typed, Send
<1> QED
  BY <1>4, <1>6, WentProceeds DEF Places

\* Recording that a message was sent.
LEMMA RecordSentTyped ==
  ASSUME Typed, NEW w \in Workers, RecordSent(w)
  PROVE  /\ Proceeds(w, {"delivering", "excusing"})
         /\ delivery[worker[w].at].status = "PROCESSING" =>
              /\ worker'[w].pc = "delivering"
              /\ delivery'[worker[w].at].status = "SENT"
              /\ \A e \in Deliveries \ {worker[w].at} : delivery'[e] = delivery[e]
<1> DEFINE d == worker[w].at
<1>1. d \in Deliveries
  BY DEF Typed, Aimed, RecordSent, At, AtDelivery
<1>2. CASE delivery[d].status = "PROCESSING"
  <2>1. Moves(w, Done(w, d))
    BY <1>2, NextDeliveryMoves DEF RecordSent
  <2>2. /\ delivery' \in [Deliveries -> Rows] /\ delivery'[d].status = "SENT"
        /\ \A e \in Deliveries \ {d} : delivery'[e] = delivery[e]
    BY <1>1, <1>2, StatusIsTyped DEF RecordSent, Final
  <2>3. Typed'
    BY <2>1, <2>2, MovesKeepTypes DEF Typed, RecordSent
  <2>4. Proceeds(w, {"delivering"})
    BY <2>1, <2>3, DoneProceeds
  <2> QED
    BY <2>2, <2>4 DEF Proceeds
<1>3. CASE delivery[d].status # "PROCESSING"
  <2>1. Moves(w, Went(w, "excusing"))
    BY <1>1, <1>3, GoesMoves DEF RecordSent, Places
  <2>2. Typed'
    BY <1>3, <2>1, MovesKeepTypes DEF Typed, RecordSent
  <2> QED
    BY <1>3, <2>1, <2>2, WentProceeds DEF Places
<1> QED
  BY <1>2, <1>3

\* Recording that a message was not sent.
LEMMA RecordFailureTyped ==
  ASSUME Typed, NEW w \in Workers, RecordFailure(w)
  PROVE  /\ Proceeds(w, {"delivering", "failing"})
         /\ delivery[worker[w].at].status = "PROCESSING" =>
              /\ delivery'[worker[w].at].status \in {"PENDING", "DEAD_LETTER"}
              /\ \A e \in Deliveries \ {worker[w].at} : delivery'[e] = delivery[e]
         /\ delivery[worker[w].at].status # "PROCESSING" => delivery' = delivery
<1> DEFINE d == worker[w].at
<1>1. d \in Deliveries
  BY DEF Typed, Aimed, RecordFailure, At, AtDelivery
<1>2. CASE delivery[d].status = "PROCESSING"
  <2> DEFINE row == [delivery[d] EXCEPT !.status = IF GivesUp(w) THEN "DEAD_LETTER" ELSE "PENDING",
                                        !.due = IF GivesUp(w) THEN @ ELSE FALSE]
  <2>1. Moves(w, Done(w, d))
    BY <1>2, NextDeliveryMoves DEF RecordFailure
  <2>2. delivery' = [delivery EXCEPT ![d] = row]
    BY <1>2 DEF RecordFailure
  <2>3. row \in Rows /\ row.status \in {"PENDING", "DEAD_LETTER"}
    <3>1. CASE GivesUp(w)
      BY <1>1, <3>1 DEF Typed, Rows, Final
    <3>2. CASE ~GivesUp(w)
      BY <1>1, <3>2 DEF Typed, Rows, Final
    <3> QED
      BY <3>1, <3>2
  <2> HIDE DEF row
  <2>4. /\ delivery' \in [Deliveries -> Rows] /\ delivery'[d] = row
        /\ \A e \in Deliveries \ {d} : delivery'[e] = delivery[e]
    BY <1>1, <2>2, <2>3 DEF Typed
  <2>5. Typed'
    BY <2>1, <2>4, MovesKeepTypes DEF Typed, RecordFailure
  <2> QED
    BY <1>2, <2>1, <2>3, <2>4, <2>5, DoneProceeds
<1>3. CASE delivery[d].status # "PROCESSING"
  <2>1. Moves(w, Went(w, "failing"))
    BY <1>3, GoesMoves DEF RecordFailure, Places, AtDelivery
  <2>2. Typed' /\ delivery' = delivery
    BY <1>3, <2>1, MovesKeepTypes DEF Typed, RecordFailure
  <2> QED
    BY <1>3, <2>1, <2>2, WentProceeds DEF Places
<1> QED
  BY <1>2, <1>3

\* The survey of the deliveries comes to a verdict.
LEMMA SurveyTyped ==
  ASSUME Typed, NEW w \in Workers, Survey(w)
  PROVE  Proceeds(w, {"finishing"}) /\ worker'[w].verdict = Verdict
<1> DEFINE round == [worker[w] EXCEPT !.pc = "finishing", !.verdict = Verdict]
<1>1. Verdict \in Verdicts
  BY DEF Verdict, Verdicts
<1>2. round \in Rounds /\ Aimed(round) /\ round.pc = "finishing" /\ round.verdict = Verdict
      /\ round.claim = worker[w].claim
  BY <1>1 DEF Typed, Rounds, Aimed, Places, AtDelivery
<1>3. worker' = [worker EXCEPT ![w] = round]
  BY DEF Survey
<1> HIDE DEF round
<1>4. Moves(w, round)
  BY <1>2, <1>3, MovesTyped
<1>5. Typed'
  BY <1>4, MovesKeepTypes DEF Typed, Survey
<1> QED
  BY <1>2, <1>4, <1>5 DEF Moves, Proceeds

\* An event that is released has no claim left on it.
LEMMA ReleasedIsTyped ==
  ASSUME Typed, NEW status \in Verdicts, NEW waits \in {"no", "delivery", "backoff"}
  PROVE  /\ Released(status, waits) \in Events
         /\ Released(status, waits).status = status
         /\ Released(status, waits).attempts = event.attempts
         /\ ~Released(status, waits).stale
         /\ Released(status, waits).waits = waits
BY DEF Typed, Events, Verdicts, Released

\* The event is given back in one of the ways the worker may decide for.
GivenBack(w, verdict) ==
  IF Holds(w)
  THEN /\ event'.status = verdict /\ event'.attempts = event.attempts /\ ~event'.stale
       /\ event'.waits # "no" => event'.status = "PENDING"
  ELSE event' = event

\* Writing the verdict.
LEMMA FinishTyped ==
  ASSUME Typed, NEW w \in Workers, Finish(w)
  PROVE  Leaves(w) /\ GivenBack(w, worker[w].verdict)
<1> DEFINE verdict == worker[w].verdict
           waits == IF verdict = "PENDING" THEN "delivery" ELSE "no"
<1>1. verdict \in Verdicts
  BY DEF Typed, Aimed, Finish, At
<1>2. event' = IF Holds(w) THEN Released(verdict, waits) ELSE event
  BY DEF Finish
<1>3. waits \in {"no", "delivery", "backoff"} /\ (waits # "no" => verdict = "PENDING")
  OBVIOUS
<1> HIDE DEF waits
<1>4. event' \in Events /\ GivenBack(w, verdict)
  BY <1>1, <1>2, <1>3, ReleasedIsTyped DEF Typed, GivenBack
<1>5. Moves(w, Resting(worker[w].smtp)) /\ Resting(worker[w].smtp).pc = "idle"
  BY RestsMoves DEF Finish
<1>6. Typed'
  BY <1>4, <1>5, MovesKeepTypes DEF Typed, Finish
<1> QED
  BY <1>4, <1>5, <1>6, RestingLeaves

\* Writing that the event failed.
LEMMA FailEventTyped ==
  ASSUME Typed, NEW w \in Workers, FailEvent(w)
  PROVE  /\ Leaves(w)
         /\ GivenBack(w, IF worker[w].claim >= MaxAttempts THEN "DEAD_LETTER" ELSE "PENDING")
<1> DEFINE last == worker[w].claim >= MaxAttempts
           status == IF last THEN "DEAD_LETTER" ELSE "PENDING"
           waits == IF last THEN "no" ELSE "backoff"
<1>1. event' = IF Holds(w) THEN Released(status, waits) ELSE event
  BY DEF FailEvent, Failure
<1>2. status \in Verdicts /\ waits \in {"no", "delivery", "backoff"}
      /\ (waits # "no" => status = "PENDING")
  BY DEF Verdicts
<1> HIDE DEF waits, status, last
<1>3. event' \in Events /\ GivenBack(w, status)
  BY <1>1, <1>2, ReleasedIsTyped DEF Typed, GivenBack
<1>4. Moves(w, Resting(worker[w].smtp)) /\ Resting(worker[w].smtp).pc = "idle"
  BY RestsMoves DEF FailEvent
<1>5. Typed'
  BY <1>3, <1>4, MovesKeepTypes DEF Typed, FailEvent
<1> QED
  BY <1>3, <1>4, <1>5, RestingLeaves DEF status, last

\* A statement that fails sends its worker to excuse, to fail or to rest.
LEMMA DatabaseErrorTyped ==
  ASSUME Typed, NEW w \in Workers, DatabaseError(w)
  PROVE  ~At(w, "idle") /\ (Proceeds(w, {"excusing", "failing"}) \/ Leaves(w))
<1>1. faults' \in [FaultKinds -> Nat]
  BY FaultIsTyped DEF DatabaseError, FaultKinds
<1>2. event' \in Events /\ delivery' \in [Deliveries -> Rows] /\ accepted' \in [Deliveries -> Nat]
  BY DEF Typed, DatabaseError
<1>3. ~At(w, "idle")
  BY DEF DatabaseError, At
<1>4. CASE At(w, "recording") /\ Goes(w, "excusing")
  <2>1. worker[w].at \in Deliveries
    BY <1>4 DEF Typed, Aimed, At, AtDelivery
  <2>2. Moves(w, Went(w, "excusing"))
    BY <1>4, <2>1, GoesMoves DEF Places
  <2> QED
    BY <1>1, <1>2, <1>3, <2>2, MovesKeepTypes, WentProceeds DEF Places
<1>5. CASE Goes(w, "failing")
  <2>1. Moves(w, Went(w, "failing"))
    BY <1>5, GoesMoves DEF Places, AtDelivery
  <2> QED
    BY <1>1, <1>2, <1>3, <2>1, MovesKeepTypes, WentProceeds DEF Places
<1>6. CASE Rests(w)
  <2>1. Moves(w, Resting(worker[w].smtp)) /\ Resting(worker[w].smtp).pc = "idle"
    BY <1>6, RestsMoves
  <2> QED
    BY <1>1, <1>2, <1>3, <2>1, MovesKeepTypes, RestingLeaves
<1> QED
  BY <1>4, <1>5, <1>6 DEF DatabaseError

\* A worker that is killed.
LEMMA CrashTyped ==
  ASSUME Typed, NEW w \in Workers, Crash(w)
  PROVE  ~At(w, "idle") /\ Leaves(w)
<1>1. faults' \in [FaultKinds -> Nat]
  BY FaultIsTyped DEF Crash, FaultKinds
<1>2. event' \in Events /\ delivery' \in [Deliveries -> Rows] /\ accepted' \in [Deliveries -> Nat]
  BY DEF Typed, Crash
<1>3. PICK smtp \in SmtpSettings : worker' = [worker EXCEPT ![w] = Resting(smtp)]
  BY DEF Crash
<1>4. smtp \in BOOLEAN
  BY DeliveryAssumption
<1>5. Moves(w, Resting(smtp)) /\ Resting(smtp).pc = "idle"
  BY <1>3, <1>4, RestingIsRound, MovesTyped
<1> QED
  BY <1>1, <1>2, <1>5, MovesKeepTypes, RestingLeaves DEF Crash

\* The clock changes no status.
Passes ==
  /\ Typed' /\ UNCHANGED <<accepted, worker>>
  /\ event'.status = event.status /\ event'.attempts = event.attempts
  /\ event'.lockedAt = event.lockedAt
  /\ event'.waits \in {event.waits, "no"}
  /\ \A d \in Deliveries : delivery'[d].status = delivery[d].status

\* Time that passes changes no worker.
LEMMA TimeTyped == ASSUME Typed, Time PROVE Passes
<1>1. CASE Expire
  <2>1. faults' \in [FaultKinds -> Nat]
    BY <1>1, FaultIsTyped DEF Expire, FaultKinds, Typed
  <2>2. event' \in Events
    BY <1>1 DEF Typed, Events, Expire
  <2> QED
    BY <1>1, <2>1, <2>2 DEF Typed, Events, Expire, Passes
<1>2. CASE EventDue
  <2>1. event' \in Events
    BY <1>2 DEF Typed, Events, EventDue
  <2> QED
    BY <1>2, <2>1 DEF Typed, Events, EventDue, Passes
<1>3. ASSUME NEW d \in Deliveries, DeliveryDue(d)
      PROVE  Passes
  <2>1. delivery' = [delivery EXCEPT ![d] = [delivery[d] EXCEPT !.due = TRUE]]
    BY <1>3 DEF DeliveryDue
  <2>2. [delivery[d] EXCEPT !.due = TRUE] \in Rows
        /\ [delivery[d] EXCEPT !.due = TRUE].status = delivery[d].status
    BY DEF Typed, Rows
  <2>3. delivery' \in [Deliveries -> Rows]
        /\ \A e \in Deliveries : delivery'[e].status = delivery[e].status
    BY <2>1, <2>2 DEF Typed
  <2> QED
    BY <1>3, <2>3 DEF Typed, DeliveryDue, Passes
<1> QED
  BY <1>1, <1>2, <1>3 DEF Time

-----------------------------------------------------------------------------
(***************************************************************************)
(* A settled event stays as it is.                                         *)
(***************************************************************************)
OnlyPendingWaits == event.waits # "no" => event.status = "PENDING"

\* What a worker's step does to the event, whatever else it does.
LEMMA WorkOnEvent ==
  ASSUME Typed, NEW w \in Workers, Work(w) \/ DatabaseError(w) \/ Crash(w)
  PROVE  /\ Typed'
         /\ \/ event' = event
            \/ Claim(w)
            \/ Finish(w) /\ GivenBack(w, worker[w].verdict)
            \/ /\ FailEvent(w)
               /\ GivenBack(w, IF worker[w].claim >= MaxAttempts THEN "DEAD_LETTER" ELSE "PENDING")
<1>1. CASE Claim(w)
  BY <1>1, ClaimTyped
<1>2. CASE Finish(w) \/ FailEvent(w)
  BY <1>2, FinishTyped, FailEventTyped DEF Leaves
<1>3. CASE DatabaseError(w) \/ Crash(w)
  BY <1>3, DatabaseErrorTyped, CrashTyped DEF Leaves, Proceeds, DatabaseError, Crash
<1>4. CASE Prepare(w) \/ \E d \in Deliveries : Look(w, d)
  BY <1>4, PrepareTyped, LookTyped DEF Proceeds, Prepare, Look
<1>5. CASE DeadLetterAmbiguous(w) \/ Take(w) \/ Skip(w) \/ Send(w)
  BY <1>5, DeadLetterAmbiguousTyped, TakeTyped, SkipTyped, SendTyped
     DEF Proceeds, DeadLetterAmbiguous, Take, Skip, Send
<1>6. CASE RecordSent(w) \/ RecordFailure(w) \/ Survey(w)
  BY <1>6, RecordSentTyped, RecordFailureTyped, SurveyTyped
     DEF Proceeds, RecordSent, RecordFailure, Survey
<1> QED
  BY <1>1, <1>2, <1>3, <1>4, <1>5, <1>6 DEF Work

\* The initial states are well-formed.
THEOREM InitTyped == Init => Typed
<1> SUFFICES ASSUME Init PROVE Typed
  OBVIOUS
<1>1. event \in Events /\ delivery \in [Deliveries -> Rows] /\ accepted \in [Deliveries -> Nat]
  BY DEF Init, NewEvent, NewDelivery, Events, Rows
<1>2. faults \in [FaultKinds -> Nat]
  BY DEF Init
<1>3. worker \in [Workers -> Rounds] /\ \A w \in Workers : Aimed(worker[w])
  <2>1. \A w \in Workers : worker[w] \in Rounds /\ Aimed(worker[w])
    BY DeliveryAssumption, RestingIsRound DEF Init
  <2> QED
    BY <2>1 DEF Init
<1> QED
  BY <1>1, <1>2, <1>3 DEF Typed

\* Every step keeps the types.
LEMMA NextTyped == Typed /\ [Next]_vars => Typed'
<1> SUFFICES ASSUME Typed, [Next]_vars PROVE Typed'
  OBVIOUS
<1>1. CASE UNCHANGED vars
  BY <1>1 DEF vars, Typed, Aimed
<1>2. CASE Next
  BY <1>2, WorkOnEvent, TimeTyped DEF Next, Passes
<1> QED
  BY <1>1, <1>2

\* Only an event that is PENDING waits.
LEMMA WaitsStay == ASSUME Typed, OnlyPendingWaits, [Next]_vars PROVE OnlyPendingWaits'
<1>1. CASE UNCHANGED vars
  BY <1>1 DEF vars, OnlyPendingWaits
<1>2. CASE Time
  BY <1>2, TimeTyped DEF OnlyPendingWaits, Passes
<1>3. ASSUME NEW w \in Workers, Work(w) \/ DatabaseError(w) \/ Crash(w)
      PROVE  OnlyPendingWaits'
  BY <1>3, WorkOnEvent, ClaimTyped DEF OnlyPendingWaits, GivenBack
<1> QED
  BY <1>1, <1>2, <1>3 DEF Next

\* An event that is settled stays so, whatever workers with old claims do
\* and whatever goes wrong.
THEOREM SettledStays == Spec => SettledIsFinal
<1> DEFINE J == Typed /\ OnlyPendingWaits
<1>1. Init => J
  BY InitTyped DEF Init, NewEvent, OnlyPendingWaits
<1>2. J /\ [Next]_vars => J'
  BY NextTyped, WaitsStay
<1>3. J /\ [Next]_vars => [event.status \in {"PROCESSED", "DEAD_LETTER"} => event' = event]_vars
  <2> SUFFICES ASSUME J, Next, event.status \in {"PROCESSED", "DEAD_LETTER"}
               PROVE  event' = event
    OBVIOUS
  <2>1. CASE Time
    BY <2>1 DEF Time, Expire, EventDue, DeliveryDue, OnlyPendingWaits
  <2>2. ASSUME NEW w \in Workers, Work(w) \/ DatabaseError(w) \/ Crash(w)
        PROVE  event' = event
    BY <2>2, WorkOnEvent DEF GivenBack, Holds, Claim, Claimable, Typed, Events
  <2> QED
    BY <2>1, <2>2 DEF Next
<1> QED
  BY <1>1, <1>2, <1>3, PTL DEF Spec, SettledIsFinal

-----------------------------------------------------------------------------
(***************************************************************************)
(* The claim keeps workers apart, and the event is settled with its        *)
(* deliveries.                                                             *)
(***************************************************************************)
AllRest == \A w \in Workers : At(w, "idle")

OneAtWork == \A v, w \in Workers : ~At(v, "idle") /\ ~At(w, "idle") => v = w

\* A worker that is not at rest has the claim the event records.
ClaimIsHeld ==
  /\ event.stale => event.status = "PROCESSING"
  /\ event.status = "PROCESSING" => event.lockedAt = event.attempts
  /\ \A w \in Workers : ~At(w, "idle") =>
       /\ event.status = "PROCESSING" /\ ~event.stale
       /\ worker[w].claim = event.attempts

AllEnded == \A d \in Deliveries : delivery[d].status \in {Missing, "SENT", "SKIPPED"}

SomeDead == \E d \in Deliveries : delivery[d].status = "DEAD_LETTER"

SettledRight ==
  /\ event.status = "PROCESSED" => AllEnded
  /\ event.status = "DEAD_LETTER" => event.attempts >= MaxAttempts \/ SomeDead

VerdictRight(w) ==
  At(w, "finishing") =>
    /\ worker[w].verdict = "PROCESSED" => AllEnded
    /\ worker[w].verdict = "DEAD_LETTER" => SomeDead

InTime ==
  /\ ClaimIsHeld
  /\ OneAtWork
  /\ SettledRight
  /\ \A w \in Workers : VerdictRight(w)

Late == Suffered({"overlap"})

IInv == Typed /\ (Late \/ InTime)

\* Faults are only ever counted up.
LEMMA FaultsGrow ==
  ASSUME Typed, NEW kind \in FaultKinds, Fault(kind)
  PROVE  /\ Late => Late'
         /\ kind = "overlap" => Late'
BY DEF Typed, Fault, Late, Suffered, FaultKinds

\* Every step counts at most one fault.
LEMMA StepFaults ==
  ASSUME [Next]_vars
  PROVE  UNCHANGED faults \/ \E kind \in FaultKinds : Fault(kind)
<1>1. CASE Time \/ UNCHANGED vars
  BY <1>1 DEF Time, Expire, EventDue, DeliveryDue, FaultKinds, vars
<1>2. ASSUME NEW w \in Workers, Work(w) \/ DatabaseError(w) \/ Crash(w)
      PROVE  UNCHANGED faults \/ \E kind \in FaultKinds : Fault(kind)
  BY <1>2 DEF Work, DatabaseError, Crash, Claim, Prepare, Look, DeadLetterAmbiguous, Take, Skip,
              Send, RecordSent, RecordFailure, Survey, Finish, FailEvent, FaultKinds
<1> QED
  BY <1>1, <1>2 DEF Next

\* A claim that has grown old under its worker stays counted.
LEMMA LateStays == ASSUME Typed, [Next]_vars PROVE Late => Late'
BY StepFaults, FaultsGrow DEF Late, Suffered

\* Where one is at work, all others rest.
LEMMA OthersRest ==
  ASSUME OneAtWork, NEW w \in Workers, ~At(w, "idle")
  PROVE  \A v \in Workers \ {w} : At(v, "idle")
BY DEF OneAtWork

\* While all but one rest, what is to be shown of the workers is to be shown
\* of that one.
LEMMA OneMoves ==
  ASSUME NEW w \in Workers,
         \A v \in Workers \ {w} : At(v, "idle") /\ worker'[v] = worker[v],
         event'.stale => event'.status = "PROCESSING",
         event'.status = "PROCESSING" => event'.lockedAt = event'.attempts,
         worker'[w].pc # "idle" =>
            /\ event'.status = "PROCESSING" /\ ~event'.stale
            /\ worker'[w].claim = event'.attempts,
         SettledRight', VerdictRight(w)'
  PROVE  InTime'
<1>1. \A v \in Workers \ {w} : At(v, "idle")'
  BY DEF At
<1>2. \A v \in Workers \ {w} : VerdictRight(v)'
  BY <1>1 DEF VerdictRight, At
<1>3. OneAtWork'
  BY <1>1 DEF OneAtWork
<1>4. ClaimIsHeld'
  BY <1>1 DEF ClaimIsHeld, At
<1> QED
  BY <1>2, <1>3, <1>4 DEF InTime

\* An event is settled as its deliveries say.
LEMMA VerdictIsRight ==
  ASSUME Typed
  PROVE  (Verdict = "PROCESSED" => AllEnded) /\ (Verdict = "DEAD_LETTER" => SomeDead)
<1>1. \A d \in Deliveries : delivery[d].status \in Final \cup {Missing, "PENDING", "PROCESSING"}
  BY DEF Typed, Rows
<1> QED
  BY <1>1 DEF Verdict, AllEnded, SomeDead, Unsettled, Final

\* A worker's step inside its round.
LEMMA ProceedingKeeps ==
  ASSUME Typed, InTime, NEW w \in Workers, ~At(w, "idle"), NEW places, "idle" \notin places,
         Proceeds(w, places), event' = event, VerdictRight(w)'
  PROVE  InTime'
<1>1. event.status = "PROCESSING" /\ ~event.stale /\ worker[w].claim = event.attempts
      /\ event.lockedAt = event.attempts
  BY DEF InTime, ClaimIsHeld
<1>2. \A v \in Workers \ {w} : At(v, "idle") /\ worker'[v] = worker[v]
  BY OthersRest DEF InTime, Proceeds
<1>3. SettledRight'
  BY <1>1 DEF SettledRight
<1> QED
  BY <1>1, <1>2, <1>3, OneMoves DEF Proceeds

\* A worker's last step, with the claim or without giving it back.
LEMMA LeavingKeeps ==
  ASSUME Typed, InTime, NEW w \in Workers, ~At(w, "idle"), Leaves(w),
         event'.stale => event'.status = "PROCESSING",
         event'.status = "PROCESSING" => event'.lockedAt = event'.attempts,
         SettledRight'
  PROVE  InTime'
<1>1. \A v \in Workers \ {w} : At(v, "idle") /\ worker'[v] = worker[v]
  BY OthersRest DEF InTime, Leaves
<1>2. worker'[w].pc = "idle" /\ VerdictRight(w)'
  BY DEF Leaves, VerdictRight, At
<1> QED
  BY <1>1, <1>2, OneMoves

\* The guarantees in time, step by step.
LEMMA ClaimInTime ==
  ASSUME Typed, InTime, NEW w \in Workers, Claim(w)
  PROVE  InTime'
<1>1. AllRest
  BY DEF Claim, Claimable, InTime, ClaimIsHeld, AllRest
<1>2. /\ event'.status = "PROCESSING" /\ ~event'.stale
      /\ event'.lockedAt = event'.attempts /\ worker'[w].claim = event'.attempts
      /\ worker'[w].pc = "preparing"
      /\ \A v \in Workers \ {w} : worker'[v] = worker[v]
  BY ClaimTyped DEF Moves
<1>3. SettledRight' /\ VerdictRight(w)'
  BY <1>2 DEF SettledRight, VerdictRight, At
<1> QED
  BY <1>1, <1>2, <1>3, OneMoves DEF AllRest

\* A step within a round, before the verdict, keeps the claims in time.
LEMMA InsideInTime ==
  ASSUME Typed, InTime, NEW w \in Workers,
         \/ Prepare(w) \/ (\E d \in Deliveries : Look(w, d)) \/ DeadLetterAmbiguous(w)
         \/ Take(w) \/ Skip(w) \/ Send(w) \/ RecordSent(w) \/ RecordFailure(w)
  PROVE  InTime'
<1> DEFINE places == Places \ {"idle", "finishing"}
<1>1. Proceeds(w, places) /\ event' = event /\ ~At(w, "idle")
  <2>1. CASE Prepare(w) \/ \E d \in Deliveries : Look(w, d)
    BY <2>1, PrepareTyped, LookTyped DEF Proceeds, Prepare, Look, At, Places
  <2>2. CASE DeadLetterAmbiguous(w) \/ Take(w) \/ Skip(w) \/ Send(w)
    BY <2>2, DeadLetterAmbiguousTyped, TakeTyped, SkipTyped, SendTyped
       DEF Proceeds, DeadLetterAmbiguous, Take, Skip, Send, At, Places
  <2>3. CASE RecordSent(w) \/ RecordFailure(w)
    BY <2>3, RecordSentTyped, RecordFailureTyped DEF Proceeds, RecordSent, RecordFailure, At, Places
  <2> QED
    BY <2>1, <2>2, <2>3
<1>2. VerdictRight(w)'
  BY <1>1 DEF VerdictRight, Proceeds, At
<1> QED
  BY <1>1, <1>2, ProceedingKeeps

\* So does the survey, whose verdict is that of the deliveries.
LEMMA SurveyInTime ==
  ASSUME Typed, InTime, NEW w \in Workers, Survey(w)
  PROVE  InTime'
<1>1. Proceeds(w, {"finishing"}) /\ worker'[w].verdict = Verdict /\ event' = event
      /\ ~At(w, "idle") /\ delivery' = delivery
  BY SurveyTyped DEF Survey, At
<1>2. VerdictRight(w)'
  BY <1>1, VerdictIsRight DEF VerdictRight, AllEnded, SomeDead
<1> QED
  BY <1>1, <1>2, ProceedingKeeps

\* So does the writing of the verdict.
LEMMA FinishInTime ==
  ASSUME Typed, InTime, NEW w \in Workers, Finish(w)
  PROVE  InTime'
<1> DEFINE verdict == worker[w].verdict
<1>1. ~At(w, "idle") /\ At(w, "finishing") /\ delivery' = delivery
  BY DEF Finish, At
<1>2. Leaves(w) /\ GivenBack(w, verdict) /\ verdict \in Verdicts
  BY <1>1, FinishTyped DEF Typed, Aimed, At
<1>3. Holds(w)
  BY <1>1 DEF Holds, InTime, ClaimIsHeld
<1>4. event'.status = verdict /\ ~event'.stale
  BY <1>2, <1>3 DEF GivenBack
<1>5. SettledRight'
  BY <1>1, <1>4 DEF SettledRight, InTime, VerdictRight, AllEnded, SomeDead
<1> QED
  BY <1>1, <1>2, <1>4, <1>5, LeavingKeeps DEF Verdicts

\* So does the writing of a failure.
LEMMA FailEventInTime ==
  ASSUME Typed, InTime, NEW w \in Workers, FailEvent(w)
  PROVE  InTime'
<1> DEFINE status == IF worker[w].claim >= MaxAttempts THEN "DEAD_LETTER" ELSE "PENDING"
<1>1. ~At(w, "idle") /\ Leaves(w) /\ GivenBack(w, status)
  BY FailEventTyped DEF FailEvent, At
<1>2. Holds(w) /\ worker[w].claim = event.attempts
  BY <1>1 DEF Holds, InTime, ClaimIsHeld
<1>3. event'.status = status /\ event'.attempts = event.attempts /\ ~event'.stale
  BY <1>1, <1>2 DEF GivenBack
<1>4. SettledRight'
  BY <1>2, <1>3 DEF SettledRight
<1> QED
  BY <1>1, <1>3, <1>4, LeavingKeeps

\* So does a statement that fails, and a worker that is killed.
LEMMA FaultInTime ==
  ASSUME Typed, InTime, NEW w \in Workers, DatabaseError(w) \/ Crash(w)
  PROVE  InTime'
<1>1. event' = event /\ ~At(w, "idle") /\ (Proceeds(w, {"excusing", "failing"}) \/ Leaves(w))
  BY DatabaseErrorTyped, CrashTyped DEF DatabaseError, Crash
<1>2. event.status = "PROCESSING" /\ event.lockedAt = event.attempts
  BY <1>1 DEF InTime, ClaimIsHeld
<1>3. CASE Proceeds(w, {"excusing", "failing"})
  <2>1. VerdictRight(w)'
    BY <1>3 DEF VerdictRight, Proceeds, At
  <2> QED
    BY <1>1, <1>3, <2>1, ProceedingKeeps
<1>4. CASE Leaves(w)
  <2>1. SettledRight'
    BY <1>1, <1>2 DEF SettledRight
  <2> QED
    BY <1>1, <1>2, <1>4, <2>1, LeavingKeeps
<1> QED
  BY <1>1, <1>3, <1>4

\* A claim that grows old has no worker, unless the fault is counted.
LEMMA TimeInTime == ASSUME Typed, InTime, Time PROVE InTime' \/ Late'
<1>1. Passes
  BY TimeTyped
<1>2. SettledRight' /\ \A w \in Workers : VerdictRight(w)'
  BY <1>1 DEF Passes, InTime, SettledRight, VerdictRight, AllEnded, SomeDead, At
<1>3. OneAtWork'
  BY <1>1 DEF Passes, InTime, OneAtWork, At
<1>4. CASE event'.stale = event.stale
  <2>1. ClaimIsHeld'
    BY <1>1, <1>4 DEF Passes, InTime, ClaimIsHeld, At
  <2> QED
    BY <1>2, <1>3, <2>1 DEF InTime
<1>5. CASE Expire /\ Abandoned
  <2>1. AllRest /\ event.status = "PROCESSING"
    BY <1>5 DEF Expire, Abandoned, AllRest, InTime, ClaimIsHeld
  <2>2. ClaimIsHeld'
    BY <1>1, <2>1 DEF Passes, InTime, ClaimIsHeld, AllRest, At
  <2> QED
    BY <1>2, <1>3, <2>2 DEF InTime
<1>6. CASE Expire /\ ~Abandoned
  BY <1>6, FaultsGrow DEF Expire, FaultKinds
<1> QED
  BY <1>4, <1>5, <1>6 DEF Time, EventDue, DeliveryDue, Typed, Events

\* Every step keeps the invariant.
THEOREM NextHolds == IInv /\ [Next]_vars => IInv'
<1> SUFFICES ASSUME IInv, [Next]_vars PROVE Late' \/ InTime'
  BY NextTyped DEF IInv
<1>1. CASE Late
  BY <1>1, LateStays DEF IInv
<1>2. CASE InTime /\ UNCHANGED vars
  BY <1>2 DEF vars, InTime, ClaimIsHeld, OneAtWork, SettledRight, VerdictRight, AllEnded, SomeDead, At
<1>3. CASE InTime /\ Time
  BY <1>3, TimeInTime DEF IInv
<1>4. ASSUME InTime, NEW w \in Workers, Work(w) \/ DatabaseError(w) \/ Crash(w) PROVE InTime'
  BY <1>4, ClaimInTime, InsideInTime, SurveyInTime, FinishInTime, FailEventInTime, FaultInTime
     DEF IInv, Work
<1> QED
  BY <1>1, <1>2, <1>3, <1>4 DEF Next, IInv

\* The inductive invariant holds at the beginning.
THEOREM InitHolds == Init => IInv
<1> SUFFICES ASSUME Init PROVE Typed /\ InTime
  BY DEF IInv
<1>1. AllRest
  BY DEF Init, AllRest, At, Resting
<1>2. event = NewEvent
  BY DEF Init
<1> QED
  BY <1>1, <1>2, InitTyped DEF NewEvent, InTime, ClaimIsHeld, OneAtWork, SettledRight, VerdictRight,
                           AllRest, At

\* The invariant holds of every behaviour.
THEOREM Invariance == Spec => []IInv
BY InitHolds, NextHolds, PTL DEF Spec

\* As long as no claim grows old under its worker, no two workers are at the
\* event, however often they are killed or fail.
THEOREM WorkersAreApart == Spec => []OneWorkerPerEvent
<1>1. IInv => OneWorkerPerEvent
  BY DEF IInv, InTime, Late, OneWorkerPerEvent, OneAtWork
<1> QED
  BY <1>1, Invariance, PTL

\* An event is settled with its deliveries, for any number of workers,
\* recipients and attempts.
THEOREM SettledRightly == Spec => []SettledWithItsDeliveries
<1>1. IInv => SettledWithItsDeliveries
  BY DEF IInv, InTime, Late, SettledWithItsDeliveries, SettledRight, AllEnded, SomeDead
<1> QED
  BY <1>1, Invariance, PTL

-----------------------------------------------------------------------------
(***************************************************************************)
(* No message is accepted twice.                                           *)
(***************************************************************************)
\* A message that was accepted is one that will not be taken again.
AcceptedStays ==
  \A d \in Deliveries :
    /\ accepted[d] \in {0, 1}
    /\ accepted[d] = 1 => delivery[d].status \in {"PROCESSING", "SENT", "DEAD_LETTER"}

\* What a worker knows of the delivery it is at.
WorkerKnows(w) ==
  LET d == worker[w].at IN
  /\ At(w, "taking") => delivery[d].status = "PENDING"
  /\ worker[w].pc \in {"sending", "skipping", "excusing"} =>
       delivery[d].status = "PROCESSING" /\ accepted[d] = 0
  /\ worker[w].pc \in {"recording", "ambiguous"} => delivery[d].status = "PROCESSING"

Known == AcceptedStays /\ \A w \in Workers : WorkerKnows(w)

Lost == Suffered({"reply", "database", "overlap"})

\* A message lost or late once stays counted.
LEMMA LostGrows ==
  ASSUME Typed, NEW kind \in FaultKinds, Fault(kind)
  PROVE  /\ Lost => Lost'
         /\ kind \in {"reply", "database", "overlap"} => Lost'
BY DEF Typed, Fault, Lost, Suffered, FaultKinds

\* A message once lost or late stays counted.
LEMMA LostStays == ASSUME Typed, [Next]_vars PROVE Lost => Lost'
BY StepFaults, LostGrows DEF Lost, Suffered

\* What a worker that does not rest does to what is known.
LEMMA KnownAfter ==
  ASSUME InTime, Known, NEW w \in Workers, ~At(w, "idle"),
         \A v \in Workers \ {w} : worker'[v] = worker[v],
         AcceptedStays', WorkerKnows(w)'
  PROVE  Known'
<1>1. \A v \in Workers \ {w} : At(v, "idle")'
  BY OthersRest DEF InTime, At
<1>2. \A v \in Workers \ {w} : WorkerKnows(v)'
  BY <1>1 DEF WorkerKnows, At
<1> QED
  BY <1>2 DEF Known

\* What is known of a message the server may have accepted, step by step.
LEMMA ClaimKnown == ASSUME Typed, InTime, Known, NEW w \in Workers, Claim(w) PROVE Known'
<1>1. AllRest
  BY DEF Claim, Claimable, InTime, ClaimIsHeld, AllRest
<1>2. worker'[w].pc = "preparing" /\ \A v \in Workers \ {w} : worker'[v] = worker[v]
  BY ClaimTyped DEF Moves
<1>3. UNCHANGED <<delivery, accepted>>
  BY DEF Claim
<1>4. \A v \in Workers : WorkerKnows(v)'
  BY <1>1, <1>2 DEF AllRest, At, WorkerKnows
<1> QED
  BY <1>3, <1>4 DEF Known, AcceptedStays

\* prepare writes new deliveries only.
LEMMA PrepareKnown == ASSUME Typed, InTime, Known, NEW w \in Workers, Prepare(w) PROVE Known'
<1>1. Proceeds(w, {"delivering", "failing"}) /\ ~At(w, "idle") /\ accepted' = accepted
  BY PrepareTyped DEF Prepare, At
<1>2. WorkerKnows(w)'
  BY <1>1 DEF Proceeds, WorkerKnows, At
<1>3. \A d \in Deliveries : delivery[d].status # Missing => delivery'[d] = delivery[d]
  BY DEF Prepare
<1>4. AcceptedStays'
  BY <1>1, <1>3 DEF Known, AcceptedStays, Missing
<1> QED
  BY <1>1, <1>2, <1>4, KnownAfter DEF Proceeds

\* A look at a delivery writes nothing.
LEMMA LookKnown ==
  ASSUME Typed, InTime, Known, NEW w \in Workers, NEW d \in Deliveries, Look(w, d)
  PROVE  Known'
<1>1. Proceeds(w, {"delivering", "ambiguous", "taking"}) /\ Saw(w) /\ ~At(w, "idle")
      /\ UNCHANGED <<delivery, accepted>>
  BY LookTyped DEF Look, At
<1>2. WorkerKnows(w)'
  BY <1>1 DEF Proceeds, Saw, WorkerKnows, At
<1>3. AcceptedStays'
  BY <1>1 DEF Known, AcceptedStays
<1> QED
  BY <1>1, <1>2, <1>3, KnownAfter DEF Proceeds

\* A worker that turns away from a delivery whose row it has written.
LEMMA TurnKnown ==
  ASSUME Typed, InTime, Known, NEW w \in Workers, ~At(w, "idle"), Proceeds(w, {"delivering"}),
         worker[w].at \in Deliveries,
         accepted' = accepted,
         \A e \in Deliveries \ {worker[w].at} : delivery'[e] = delivery[e],
         \/ delivery'[worker[w].at].status \in {"SENT", "DEAD_LETTER"}
         \/ accepted[worker[w].at] = 0
  PROVE  Known'
<1>1. AcceptedStays'
  BY DEF Known, AcceptedStays
<1>2. WorkerKnows(w)'
  BY DEF Proceeds, WorkerKnows, At
<1> QED
  BY <1>1, <1>2, KnownAfter DEF Proceeds

\* An ambiguous delivery was in flight when it is dead-lettered.
LEMMA DeadLetterAmbiguousKnown ==
  ASSUME Typed, InTime, Known, NEW w \in Workers, DeadLetterAmbiguous(w)
  PROVE  Known'
<1>1. ~At(w, "idle") /\ worker[w].at \in Deliveries /\ accepted' = accepted
  BY DEF DeadLetterAmbiguous, At, Typed, Aimed, AtDelivery
<1> QED
  BY <1>1, DeadLetterAmbiguousTyped, TurnKnown

\* A delivery that is skipped was not sent.
LEMMA SkipKnown == ASSUME Typed, InTime, Known, NEW w \in Workers, Skip(w) PROVE Known'
<1>1. ~At(w, "idle") /\ worker[w].at \in Deliveries /\ accepted' = accepted
  BY DEF Skip, At, Typed, Aimed, AtDelivery
<1>2. accepted[worker[w].at] = 0
  BY DEF Skip, At, Known, WorkerKnows
<1> QED
  BY <1>1, <1>2, SkipTyped, TurnKnown

\* A delivery recorded as sent was in flight.
LEMMA RecordSentKnown ==
  ASSUME Typed, InTime, Known, NEW w \in Workers, RecordSent(w)
  PROVE  Known'
<1>1. ~At(w, "idle") /\ worker[w].at \in Deliveries /\ accepted' = accepted
  BY DEF RecordSent, At, Typed, Aimed, AtDelivery
<1>2. delivery[worker[w].at].status = "PROCESSING"
  BY DEF RecordSent, At, Known, WorkerKnows
<1>3. Proceeds(w, {"delivering"})
  BY <1>2, RecordSentTyped DEF Proceeds
<1> QED
  BY <1>1, <1>2, <1>3, RecordSentTyped, TurnKnown

\* A failure is recorded of a message that was not accepted.
LEMMA RecordFailureKnown ==
  ASSUME Typed, InTime, Known, NEW w \in Workers, RecordFailure(w)
  PROVE  Known'
<1>1. ~At(w, "idle") /\ worker[w].at \in Deliveries /\ accepted' = accepted
  BY DEF RecordFailure, At, Typed, Aimed, AtDelivery
<1>2. delivery[worker[w].at].status = "PROCESSING" /\ accepted[worker[w].at] = 0
  BY DEF RecordFailure, At, Known, WorkerKnows
<1>3. Proceeds(w, {"delivering", "failing"})
      /\ \A e \in Deliveries \ {worker[w].at} : delivery'[e] = delivery[e]
  BY <1>2, RecordFailureTyped
<1>4. AcceptedStays'
  BY <1>1, <1>2, <1>3 DEF Known, AcceptedStays
<1>5. WorkerKnows(w)'
  BY <1>3 DEF Proceeds, WorkerKnows, At
<1> QED
  BY <1>1, <1>3, <1>4, <1>5, KnownAfter DEF Proceeds

\* A delivery that is taken was not sent before.
LEMMA TakeKnown == ASSUME Typed, InTime, Known, NEW w \in Workers, Take(w) PROVE Known'
<1>1. ~At(w, "idle") /\ worker[w].at \in Deliveries /\ accepted' = accepted
  BY DEF Take, At, Typed, Aimed, AtDelivery
<1>2. accepted[worker[w].at] = 0
  BY <1>1 DEF Take, At, Known, WorkerKnows, AcceptedStays
<1>3. /\ Proceeds(w, {"sending", "skipping"}) /\ worker'[w].at = worker[w].at
      /\ delivery'[worker[w].at].status = "PROCESSING"
      /\ \A e \in Deliveries \ {worker[w].at} : delivery'[e] = delivery[e]
  BY TakeTyped
<1>4. AcceptedStays'
  BY <1>1, <1>2, <1>3 DEF Known, AcceptedStays
<1>5. WorkerKnows(w)'
  BY <1>1, <1>2, <1>3 DEF Proceeds, WorkerKnows, At
<1> QED
  BY <1>1, <1>3, <1>4, <1>5, KnownAfter DEF Proceeds

\* The one message of a delivery is sent by the worker that took it.
LEMMA SendKnown ==
  ASSUME Typed, InTime, Known, NEW w \in Workers, Send(w)
  PROVE  Known' \/ Lost'
<1>1. ~At(w, "idle") /\ worker[w].at \in Deliveries /\ delivery' = delivery
  BY DEF Send, At, Typed, Aimed, AtDelivery
<1>2. delivery[worker[w].at].status = "PROCESSING" /\ accepted[worker[w].at] = 0
  BY DEF Send, At, Known, WorkerKnows
<1>3. Proceeds(w, {"recording", "excusing"}) /\ worker'[w].at = worker[w].at
  BY SendTyped
<1>4. CASE Fault("reply")
  BY <1>4, LostGrows DEF FaultKinds
<1>5. CASE accepted' = [accepted EXCEPT ![worker[w].at] = @ + 1] /\ Goes(w, "recording")
  <2>1. worker'[w].pc = "recording"
    BY <1>5 DEF Goes, Typed, Rounds
  <2>2. AcceptedStays'
    BY <1>1, <1>2, <1>5 DEF Known, AcceptedStays, Typed
  <2>3. WorkerKnows(w)'
    BY <1>1, <1>2, <1>3, <2>1 DEF WorkerKnows, At
  <2> QED
    BY <1>1, <1>3, <2>2, <2>3, KnownAfter DEF Proceeds
<1>6. CASE accepted' = accepted
  <2>1. AcceptedStays'
    BY <1>1, <1>6 DEF Known, AcceptedStays
  <2>2. WorkerKnows(w)'
    BY <1>1, <1>2, <1>3, <1>6 DEF Proceeds, WorkerKnows, At
  <2> QED
    BY <1>1, <1>3, <2>1, <2>2, KnownAfter DEF Proceeds
<1> QED
  BY <1>4, <1>5, <1>6 DEF Send

\* The steps that touch neither deliveries nor the mail server.
LEMMA LeavingKnown ==
  ASSUME Typed, InTime, Known, NEW w \in Workers,
         Survey(w) \/ Finish(w) \/ FailEvent(w) \/ Crash(w)
  PROVE  Known'
<1>1. ~At(w, "idle") /\ UNCHANGED <<delivery, accepted>>
  BY DEF Survey, Finish, FailEvent, Crash, At
<1>2. Proceeds(w, {"finishing"}) \/ Leaves(w)
  BY SurveyTyped, FinishTyped, FailEventTyped, CrashTyped
<1>3. AcceptedStays'
  BY <1>1 DEF Known, AcceptedStays
<1>4. WorkerKnows(w)'
  BY <1>2 DEF Proceeds, Leaves, WorkerKnows, At
<1> QED
  BY <1>1, <1>2, <1>3, <1>4, KnownAfter DEF Proceeds, Leaves

\* It stays known until a reply or a record is lost.
LEMMA KnownStays ==
  ASSUME IInv, Known, ~Lost, [Next]_vars
  PROVE  Known' \/ Lost'
<1>1. Typed /\ InTime
  BY DEF IInv, Late, Lost, Suffered
<1>2. CASE UNCHANGED vars
  BY <1>2 DEF vars, Known, AcceptedStays, WorkerKnows, At
<1>3. CASE Time
  <2>1. UNCHANGED <<accepted, worker>>
        /\ \A d \in Deliveries : delivery'[d].status = delivery[d].status
    BY <1>1, <1>3, TimeTyped DEF Passes
  <2>2. AcceptedStays'
    BY <2>1 DEF Known, AcceptedStays
  <2>3. \A w \in Workers : worker[w].pc \in AtDelivery => worker[w].at \in Deliveries
    BY <1>1 DEF Typed, Aimed
  <2>4. \A w \in Workers : WorkerKnows(w)'
    BY <2>1, <2>3 DEF Known, WorkerKnows, At, AtDelivery
  <2> QED
    BY <2>2, <2>4 DEF Known
<1>4. ASSUME NEW w \in Workers, DatabaseError(w) PROVE Lost'
  BY <1>1, <1>4, LostGrows DEF DatabaseError, FaultKinds
<1>5. ASSUME NEW w \in Workers, Work(w) \/ Crash(w) PROVE Known' \/ Lost'
  BY <1>1, <1>5, ClaimKnown, PrepareKnown, LookKnown, DeadLetterAmbiguousKnown, TakeKnown,
     SkipKnown, SendKnown, RecordSentKnown, RecordFailureKnown, LeavingKnown DEF Work
<1> QED
  BY <1>2, <1>3, <1>4, <1>5 DEF Next

\* Nothing is accepted twice by the mail server, unless its reply or the
\* record of it is lost or a claim grows old under its worker; how often
\* workers are killed does not matter.
THEOREM SentOnce == Spec => []AcceptedOnce
<1> DEFINE J == IInv /\ (Lost \/ Known)
<1>1. Init => J
  BY InitHolds DEF Init, Known, AcceptedStays, WorkerKnows, At, Resting
<1>2. J /\ [Next]_vars => J'
  BY NextHolds, KnownStays, LostStays DEF IInv
<1>3. J => AcceptedOnce
  BY DEF Lost, Known, AcceptedStays, AcceptedOnce, NeverSentTwice
<1> QED
  BY <1>1, <1>2, <1>3, PTL DEF Spec
=============================================================================
