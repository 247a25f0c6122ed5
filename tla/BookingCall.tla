----------------------------- MODULE BookingCall -----------------------------
(***************************************************************************)
(* One booking across two processes: the worker of the API asks the        *)
(* browser sidecar to book once and reads its stream of stages and, last,  *)
(* its result; it keeps the stages and the outcome in the attempt's row.   *)
(* The sidecar works on when nobody reads, the stream may break, either    *)
(* process may be killed, and others write the rows meanwhile.             *)
(***************************************************************************)
EXTENDS Integers, Sequences

CONSTANT MaxVersion  \* credential versions

VARIABLES
  sidecar,     \* its lifespan
  sidecarTask, \* run_once in the sidecar: where it is, the stages told, what it returns
  pressed,     \* history: the booking button may have been pressed
  stream,      \* frames on their way to the worker
  booking,     \* the worker: where it is, the stages it got, the result it will write
  row,         \* the ReservationAttempt
  owner        \* account and watch: the credential version, the attempt's watch is RESERVING

bookingVars == <<sidecar, sidecarTask, pressed, stream, booking, row, owner>>

Stages == 1 .. 4  \* session ready, target rechecked, seat selected, reservation requested
Outcomes == {"PAYMENT_REQUIRED", "AUTH_REQUIRED", "ACTION_REQUIRED", "PROVIDER_BLOCKED", "UNAVAILABLE", "FAILED"}
NoPublic == [outcome |-> "FAILED", clicked |-> FALSE, evidence |-> 0, unknown |-> FALSE, deferred |-> FALSE]
Repeatable == {"FAILED", "NOT_AVAILABLE", "AUTH_REQUIRED", "PROVIDER_BLOCKED", "RELEASED"}

\* The claim of the attempt is committed before the call.
BookingInit ==
  /\ sidecar \in {"up", "unready"} /\ pressed = FALSE /\ stream = <<>>
  /\ sidecarTask = [at |-> "none", told |-> 0, answer |-> NoPublic]
  /\ booking = [at |-> "claimed", got |-> 0, outcome |-> "none"]
  /\ row = [outcome |-> "PENDING", stages |-> 0, version |-> 1]
  /\ owner = [version |-> 1, reserving |-> TRUE]

CallGoes(there) == booking' = [booking EXCEPT !.at = there]
CallEnds(outcome) == booking' = [booking EXCEPT !.at = "ended", !.outcome = outcome]
Booked == UNCHANGED <<sidecar, sidecarTask, pressed>>
Rows == UNCHANGED <<row, owner>>

-----------------------------------------------------------------------------
(* The sidecar.                                                             *)

Tell(frame) == stream' = IF booking.at = "reading" \/ booking.at = "recording" THEN Append(stream, frame) ELSE stream
Progress(n) == [stage |-> n, answer |-> NoPublic]
Terminal(answer) == [stage |-> 0, answer |-> answer]
TaskTells(n) == sidecarTask' = [sidecarTask EXCEPT !.told = n, !.at = "running"] /\ Tell(Progress(n))
TaskReturns(answer) == sidecarTask' = [sidecarTask EXCEPT !.at = "over", !.answer = answer] /\ Tell(Terminal(answer))
TaskStep == UNCHANGED <<sidecar, booking, row, owner>>

\* reserve_once of the actor: the session, the train, the seat.
ReachesStage ==
  /\ sidecarTask.at = "running" /\ sidecarTask.told < 3 /\ TaskTells(sidecarTask.told + 1)
  /\ UNCHANGED pressed /\ TaskStep

\* The booking button: the click is sent, and it returns or it raises.
PressBooking ==
  /\ sidecarTask.at = "running" /\ sidecarTask.told = 3 /\ ~pressed
  /\ sidecarTask' = [sidecarTask EXCEPT !.at = "pressing"] /\ pressed' = TRUE
  /\ UNCHANGED stream /\ TaskStep
PressReturns == sidecarTask.at = "pressing" /\ TaskTells(4) /\ UNCHANGED pressed /\ TaskStep
Evidence == [NoPublic EXCEPT !.evidence = sidecarTask.told, !.clicked = sidecarTask.told = 4]
PressRaises == sidecarTask.at = "pressing" /\ TaskReturns([Evidence EXCEPT !.unknown = TRUE]) /\ UNCHANGED pressed /\ TaskStep

\* What can be returned after which stage; a timeout, a protected page or a broken
\* browser are results as well, with the stages reached and the clicks made.
MayReturn(outcome) ==
  \/ outcome \in {"AUTH_REQUIRED", "PROVIDER_BLOCKED", "FAILED"}
  \/ outcome = "UNAVAILABLE" /\ sidecarTask.told \in {2, 3}
  \/ outcome \in {"ACTION_REQUIRED", "PAYMENT_REQUIRED"} /\ sidecarTask.told >= 3
ActorReturns ==
  /\ sidecarTask.at = "running"
  /\ \E outcome \in Outcomes : MayReturn(outcome) /\ TaskReturns([Evidence EXCEPT !.outcome = outcome])
  /\ UNCHANGED pressed /\ TaskStep

\* deferred_reservation_result: a hold was found, at the start or in a login on the
\* way.  After the press the actor makes it a failure with its stages.
ActorDefers ==
  /\ sidecarTask.at = "running"
  /\ TaskReturns(IF sidecarTask.told = 4 THEN Evidence ELSE [NoPublic EXCEPT !.deferred = TRUE])
  /\ UNCHANGED pressed /\ TaskStep

\* failed_reservation_result: the client raised, at last when it left its browser
\* after the booking, or its result does not fit the contract.
TaskBreaks ==
  /\ sidecarTask.at = "running" /\ TaskReturns(NoPublic) /\ UNCHANGED pressed /\ TaskStep

\* lifespan: not ready any more, the tasks are awaited, then the browser is closed.
ShutDown ==
  /\ sidecar \in {"up", "unready"} /\ sidecar' = "closing"
  /\ UNCHANGED <<sidecarTask, pressed, stream, booking, row, owner>>
Closed ==
  /\ sidecar = "closing" /\ sidecarTask.at \in {"none", "over"} /\ sidecar' = "closed"
  /\ UNCHANGED <<sidecarTask, pressed, stream, booking, row, owner>>
SidecarKilled ==
  /\ sidecar # "closed" /\ sidecar' = "closed"
  /\ sidecarTask' = [sidecarTask EXCEPT !.at = IF @ = "none" THEN @ ELSE "over"]
  /\ UNCHANGED <<pressed, stream, booking, row, owner>>
\* ReadinessGate: a probe succeeds, and that stays so.
Readies ==
  /\ sidecar = "unready" /\ sidecar' = "up"
  /\ UNCHANGED <<sidecarTask, pressed, stream, booking, row, owner>>

-----------------------------------------------------------------------------
(* The client of the sidecar and the adapter.                               *)

\* Not sent: the shape is not supported, or a hold is known already.
Unsent ==
  /\ booking.at = "claimed"
  /\ CallEnds("FAILED") \/ CallGoes("deferred")
  /\ UNCHANGED stream /\ Booked /\ Rows

\* reserve_once_stream answers and begins the job.
BeginStream ==
  /\ booking.at = "claimed" /\ sidecar = "up" /\ sidecarTask.at = "none"
  /\ CallGoes("reading") /\ sidecarTask' = [sidecarTask EXCEPT !.at = "running"]
  /\ UNCHANGED <<sidecar, pressed, stream>> /\ Rows
\* 503 while it is not ready; 401 and 422 are no server errors.
StreamRefused ==
  /\ booking.at = "claimed"
  /\ \/ sidecar # "up" /\ CallEnds("UNKNOWN")
     \/ CallEnds("FAILED")
  /\ UNCHANGED stream /\ Booked /\ Rows

\* A timeout, a transport error or a stream without a result.  The request may
\* have reached the sidecar even if no answer came.
\* Mutant of StreamBreaks: a broken stream is a failed call.
StreamFails ==
  booking.at = "reading" /\ CallEnds("FAILED") /\ stream' = <<>> /\ Booked /\ Rows
StreamBreaks ==
  /\ booking.at \in {"claimed", "reading"}
  /\ CallEnds("UNKNOWN") /\ stream' = <<>>
  /\ sidecarTask' \in {sidecarTask} \union
       (IF booking.at = "claimed" /\ sidecar = "up" /\ sidecarTask.at = "none" THEN {[sidecarTask EXCEPT !.at = "running"]} ELSE {})
  /\ UNCHANGED <<sidecar, pressed>> /\ Rows

\* project_reservation_result.
Projected(answer) ==
  IF answer.outcome = "PAYMENT_REQUIRED" THEN {"PAYMENT_REQUIRED"}
  ELSE IF answer.outcome = "ACTION_REQUIRED" \/ answer.clicked \/ answer.evidence = 4 \/ answer.unknown
       THEN {"UNKNOWN"}
  ELSE IF answer.outcome = "UNAVAILABLE" THEN {"NOT_AVAILABLE", "UNKNOWN"}  \* it may be several targets
  ELSE {answer.outcome}

Agrees(answer) == booking.got = answer.evidence

\* reserve_with_progress: stages in their order, the result last.
ReadStage ==
  /\ booking.at = "reading" /\ stream # <<>> /\ Head(stream).stage # 0
  /\ IF Head(stream).stage = booking.got + 1
     THEN booking' = [booking EXCEPT !.at = "recording", !.got = @ + 1]
     ELSE CallEnds("UNKNOWN")
  /\ stream' = Tail(stream) /\ Booked /\ Rows
ReadResult ==
  /\ booking.at = "reading" /\ stream # <<>> /\ Head(stream).stage = 0
  /\ LET answer == Head(stream).answer IN
       IF ~Agrees(answer) THEN CallEnds("UNKNOWN")
       ELSE IF answer.deferred THEN CallGoes("deferred")
       ELSE \E outcome \in Projected(answer) : CallEnds(outcome)
  /\ stream' = Tail(stream) /\ Booked /\ Rows

-----------------------------------------------------------------------------
(* The rows.                                                                *)

\* record_reservation_progress, which may also fail; the call goes on.
\* Mutant of StillPending: only the credential is looked at.
StillOurs == owner.version = row.version
StillPending == owner.version = row.version /\ owner.reserving /\ row.outcome = "PENDING"
MovesForward(stages) == booking.got > stages
RecordProgress ==
  /\ booking.at = "recording" /\ CallGoes("reading")
  /\ row' = [row EXCEPT !.stages = IF StillPending /\ MovesForward(@) THEN booking.got ELSE @]
  /\ UNCHANGED <<stream, owner>> /\ Booked
RecordFails == booking.at = "recording" /\ CallGoes("reading") /\ UNCHANGED stream /\ Booked /\ Rows

\* release_unadmitted_claim: a claim that never began is taken back.
ReleaseClaim ==
  /\ booking.at = "deferred"
  /\ IF booking.got = 0 /\ StillPending /\ row.stages = 0
     THEN /\ row' = [row EXCEPT !.outcome = "RELEASED"] /\ owner' = [owner EXCEPT !.reserving = FALSE]
          /\ CallGoes("written")
     ELSE CallEnds("UNKNOWN") /\ Rows
  /\ UNCHANGED stream /\ Booked

\* The transaction of the result: it belongs to the credential that made the call,
\* and a watch that went on leaves the attempt unknown.
WriteResult ==
  /\ booking.at = "ended" /\ CallGoes("written")
  /\ IF owner.version # row.version \/ row.outcome # "PENDING" THEN Rows
     ELSE /\ row' = [row EXCEPT !.outcome = IF owner.reserving THEN booking.outcome ELSE "UNKNOWN", !.stages = booking.got]
          /\ owner' = [owner EXCEPT !.reserving = FALSE]
  /\ UNCHANGED stream /\ Booked
WriteFails == booking.at = "ended" /\ CallGoes("dead") /\ UNCHANGED stream /\ Booked /\ Rows

\* The worker is killed, and the sidecar notices nothing.
WorkerKilled ==
  /\ booking.at \notin {"written", "dead"} /\ CallGoes("dead") /\ stream' = <<>> /\ Booked /\ Rows
\* recover_stale_reservation_attempts, once the attempt is old enough.
RecoverStale ==
  /\ row.outcome = "PENDING" /\ row' = [row EXCEPT !.outcome = "UNKNOWN"]
  /\ owner' = [owner EXCEPT !.reserving = FALSE] /\ UNCHANGED <<stream, booking>> /\ Booked
\* The user logs in anew, or ends the watch.
AccountChanges ==
  /\ owner.version < MaxVersion /\ owner' = [owner EXCEPT !.version = @ + 1]
  /\ UNCHANGED <<stream, booking, row>> /\ Booked
WatchLeaves ==
  /\ owner.reserving /\ owner' = [owner EXCEPT !.reserving = FALSE]
  /\ UNCHANGED <<stream, booking, row>> /\ Booked

BookingNext ==
  \/ ReachesStage \/ PressBooking \/ PressReturns \/ PressRaises
  \/ ActorReturns \/ ActorDefers \/ TaskBreaks
  \/ ShutDown \/ Closed \/ SidecarKilled \/ Readies
  \/ Unsent \/ BeginStream \/ StreamRefused \/ StreamBreaks \/ ReadStage \/ ReadResult
  \/ RecordProgress \/ RecordFails \/ ReleaseClaim \/ WriteResult \/ WriteFails
  \/ WorkerKilled \/ RecoverStale \/ AccountChanges \/ WatchLeaves

BookingSpec == BookingInit /\ [][BookingNext]_bookingVars

-----------------------------------------------------------------------------
\* An attempt whose outcome lets the watch try again never reached the booking
\* button and will not: not later, by a task nobody listens to, either.
PressIsNeverForgotten == row.outcome \in Repeatable => ~pressed

\* The stages of an attempt are those the sidecar went through, in its order, and
\* stand when the attempt is decided.
StagesAreHistory == [][row'.stages <= sidecarTask.told /\ (row.outcome # "PENDING" => row' = row)]_bookingVars
=============================================================================
