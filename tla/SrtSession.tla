------------------------------ MODULE SrtSession ------------------------------
(***************************************************************************)
(* SrtReservationExecutor: one logged-in SRT session in the sidecar, and   *)
(* the jobs that use it one after another in threads: to book once, to     *)
(* read the reservations, to verify a login, to log in ahead.  A worker    *)
(* that waits for one may give up before it ends; the thread goes on.      *)
(***************************************************************************)
EXTENDS Integers, FiniteSets

CONSTANTS
  SrtJobs,     \* bound: calls of the workers
  SrtVersions  \* bound: credential versions, from 1 on

VARIABLES
  srtActor,   \* the state of the session, and the credential it is logged in with
  srtJobs,    \* each call, its thread, and what the thread returns
  srtLogin,   \* the credential in the database
  bookings,   \* history: jobs whose booking was sent to SRT
  said        \* what each caller was left with

srtVars == <<srtActor, srtJobs, srtLogin, bookings, said>>

NoSession == 0
NewJob == [op |-> "none", version |-> 0, at |-> "none", again |-> FALSE, answer |-> "none"]
SrtInit ==
  /\ srtActor = [state |-> "COLD", session |-> NoSession] /\ srtLogin = 1
  /\ srtJobs = [j \in SrtJobs |-> NewJob] /\ bookings = {} /\ said = [j \in SrtJobs |-> "none"]

JobIs(j, there) == srtJobs' = [srtJobs EXCEPT ![j].at = there]
JobReturns(j, answer) == srtJobs' = [srtJobs EXCEPT ![j].at = "returned", ![j].answer = answer]
Session(state, session) == srtActor' = [state |-> state, session |-> session]
Lost(state) == Session(state, NoSession)
OtherSide == UNCHANGED <<srtLogin, said>>

-----------------------------------------------------------------------------
(* The adapter and the client.                                              *)

\* A booking and a reading belong to the credential version of their attempt, and
\* are not sent with another one.
NotSent(op) == CASE op = "reserve" -> "AUTH_REQUIRED" [] op = "confirm" -> "inconclusive"
Request(j, op, version) ==
  /\ srtJobs[j].op = "none" /\ version <= srtLogin
  /\ op \in {"verify", "prewarm"} => version = srtLogin
  /\ srtJobs' = [srtJobs EXCEPT ![j] =
       [op |-> op, version |-> version, at |-> IF version = srtLogin THEN "sent" ELSE "over",
        again |-> FALSE, answer |-> "none"]]
  /\ said' = [said EXCEPT ![j] = IF version # srtLogin THEN NotSent(op) ELSE @]
  /\ UNCHANGED <<srtActor, srtLogin, bookings>>

\* A status other than 200, a broken connection, a timeout: nothing is known.
CallIsLost(j) ==
  /\ srtJobs[j].op # "none" /\ said[j] = "none" /\ said' = [said EXCEPT ![j] = "UNKNOWN"]
  /\ UNCHANGED <<srtActor, srtJobs, srtLogin, bookings>>
CallAnswers(j) ==
  /\ srtJobs[j].at = "returned" /\ JobIs(j, "over")
  /\ said' = [said EXCEPT ![j] = IF @ = "none" THEN srtJobs[j].answer ELSE @]
  /\ UNCHANGED <<srtActor, srtLogin, bookings>>
\* The request may arrive after its caller has left.
RequestArrives(j) ==
  /\ srtJobs[j].at = "sent" /\ JobIs(j, "queued") /\ UNCHANGED <<srtActor, bookings>> /\ OtherSide

-----------------------------------------------------------------------------
(* The threads; the lock lets one of them in.                               *)

Inside == {"client", "login", "act", "booking", "booked"}

\* verify_credentials never trusts a session that is there.
EnterLock(j) ==
  /\ srtJobs[j].at = "queued" /\ \A o \in SrtJobs : srtJobs[o].at \notin Inside
  /\ JobIs(j, "client") /\ UNCHANGED bookings /\ OtherSide
  /\ IF srtJobs[j].op = "verify" /\ srtActor.session # NoSession THEN Lost("STALE")
     ELSE UNCHANGED srtActor

\* _client_for: the session of this credential while it is fresh, or a new one.
SessionIsGood(j) == srtActor.state = "READY" /\ srtActor.session = srtJobs[j].version
HasClient(j) ==
  IF srtJobs[j].op \in {"verify", "prewarm"} THEN JobReturns(j, "authenticated") ELSE JobIs(j, "act")
ReuseSession(j) ==
  /\ srtJobs[j].at = "client" /\ SessionIsGood(j) /\ HasClient(j)
  /\ UNCHANGED <<srtActor, bookings>> /\ OtherSide
BeginLogin(j) ==
  /\ srtJobs[j].at = "client" /\ JobIs(j, "login") /\ Lost("AUTHENTICATING")
  /\ UNCHANGED bookings /\ OtherSide

\* What a failure before the booking means for the caller.
FailureAs(j, state) ==
  CASE srtJobs[j].op = "confirm" /\ state = "STALE" -> "inconclusive"
    [] state = "AUTH_REQUIRED" -> "AUTH_REQUIRED"
    [] state = "BLOCKED" -> "PROVIDER_BLOCKED"
    [] OTHER -> "FAILED"
LoginSucceeds(j) ==
  /\ srtJobs[j].at = "login" /\ HasClient(j) /\ Session("READY", srtJobs[j].version)
  /\ UNCHANGED bookings /\ OtherSide
LoginFails(j) ==
  /\ srtJobs[j].at = "login"
  /\ \E state \in {"AUTH_REQUIRED", "BLOCKED", "STALE"} :
       Lost(state) /\ JobReturns(j, FailureAs(j, state))
  /\ UNCHANGED bookings /\ OtherSide

\* _search_exact, and again after one new login.
Found(j) ==
  /\ srtJobs[j].at = "act" /\ srtJobs[j].op = "reserve"
  /\ \/ \E answer \in {"NOT_AVAILABLE", "UNKNOWN"} : JobReturns(j, answer)
     \/ JobIs(j, "booking")
  /\ UNCHANGED <<srtActor, bookings>> /\ OtherSide
SearchLosesLogin(j) ==
  /\ srtJobs[j].at = "act" /\ srtJobs[j].op = "reserve" /\ UNCHANGED bookings /\ OtherSide
  /\ IF srtJobs[j].again THEN Lost("AUTH_REQUIRED") /\ JobReturns(j, "AUTH_REQUIRED")
     ELSE Lost("AUTHENTICATING") /\ srtJobs' = [srtJobs EXCEPT ![j].at = "login", ![j].again = TRUE]
SearchBreaks(j) ==
  /\ srtJobs[j].at = "act" /\ srtJobs[j].op = "reserve" /\ UNCHANGED bookings /\ OtherSide
  /\ \E state \in {"BLOCKED", "STALE"} : Lost(state) /\ JobReturns(j, FailureAs(j, state))

\* The booking is sent once, and what goes wrong after that is unknown.
Book(j) ==
  /\ srtJobs[j].at = "booking" /\ JobIs(j, "booked") /\ bookings' = bookings \union {j}
  /\ UNCHANGED srtActor /\ OtherSide
BookingAnswers(j) ==
  /\ srtJobs[j].at = "booked" /\ UNCHANGED <<srtActor, bookings>> /\ OtherSide
  /\ \E answer \in {"PAYMENT_REQUIRED", "UNKNOWN"} : JobReturns(j, answer)
\* Mutant of BookingLosesSession: a lost login asks for a login, as before the booking.
BookingAsksForLogin(j) ==
  /\ srtJobs[j].at = "booked" /\ UNCHANGED bookings /\ OtherSide
  /\ \E state \in {"AUTH_REQUIRED", "BLOCKED"} : Lost(state) /\ JobReturns(j, FailureAs(j, state))
BookingLosesSession(j) ==
  /\ srtJobs[j].at = "booked" /\ UNCHANGED bookings /\ OtherSide
  /\ \E state \in {"AUTH_REQUIRED", "BLOCKED"} : Lost(state) /\ JobReturns(j, "UNKNOWN")

\* _confirm_reservation_sync: read, normalised, or a failure that keeps the client
\* but not the trust in it.
ReadList(j) ==
  /\ srtJobs[j].at = "act" /\ srtJobs[j].op = "confirm" /\ UNCHANGED bookings /\ OtherSide
  /\ \/ UNCHANGED srtActor /\ JobReturns(j, "evidence")
     \/ Session("STALE", srtActor.session) /\ JobReturns(j, "inconclusive")
     \/ \E state \in {"AUTH_REQUIRED", "BLOCKED"} :
          Lost(state) /\ JobReturns(j, FailureAs(j, state))

-----------------------------------------------------------------------------
\* The sidecar dies with its threads; the user saves a new credential.
SrtKilled ==
  /\ Lost("COLD")
  /\ srtJobs' = [j \in SrtJobs |-> IF srtJobs[j].at \in {"none", "sent"} THEN srtJobs[j]
                                  ELSE [srtJobs[j] EXCEPT !.at = "over"]]
  /\ UNCHANGED bookings /\ OtherSide
CredentialChanges ==
  /\ srtLogin + 1 \in SrtVersions /\ srtLogin' = srtLogin + 1
  /\ UNCHANGED <<srtActor, srtJobs, bookings, said>>

SrtNext ==
  \/ \E j \in SrtJobs, op \in {"reserve", "confirm", "verify", "prewarm"}, version \in SrtVersions :
       Request(j, op, version)
  \/ \E j \in SrtJobs : CallIsLost(j) \/ CallAnswers(j) \/ RequestArrives(j)
  \/ \E j \in SrtJobs :
       EnterLock(j) \/ ReuseSession(j) \/ BeginLogin(j) \/ LoginSucceeds(j) \/ LoginFails(j)
  \/ \E j \in SrtJobs : Found(j) \/ SearchLosesLogin(j) \/ SearchBreaks(j)
  \/ \E j \in SrtJobs : Book(j) \/ BookingAnswers(j) \/ BookingLosesSession(j) \/ ReadList(j)
  \/ SrtKilled \/ CredentialChanges

SrtSpec == SrtInit /\ [][SrtNext]_srtVars

-----------------------------------------------------------------------------
\* A caller that was told to try again (after a login, a pause, or at once) was told
\* so of a booking that was never sent and never will be, not even by a thread it
\* stopped waiting for; and SRT gets a booking only over a session of the credential
\* the attempt was claimed with.
SrtRetryIsSafe ==
  \A j \in SrtJobs :
    /\ said[j] \in {"AUTH_REQUIRED", "PROVIDER_BLOCKED", "FAILED", "NOT_AVAILABLE"} => j \notin bookings
    /\ srtJobs[j].at = "booking" => SessionIsGood(j)
=============================================================================
