-------------------------- MODULE SrtSession_proofs --------------------------
(***************************************************************************)
(* Proofs about SrtSession, for any number of calls and credentials, and   *)
(* about SrtReads, for any number of reads and calls at the provider, and  *)
(* about ProviderSessions, the manager of the account's login session.     *)
(***************************************************************************)
EXTENDS SrtSession, SrtReads, ProviderSessions, TLAPS

Ops == {"none", "reserve", "confirm", "verify", "prewarm"}
Places == {"none", "sent", "queued", "returned", "over"} \union Inside
RetryAnswers == {"AUTH_REQUIRED", "PROVIDER_BLOCKED", "FAILED", "NOT_AVAILABLE"}
SrtAnswers ==
  RetryAnswers \union {"none", "UNKNOWN", "PAYMENT_REQUIRED", "authenticated", "evidence",
                        "inconclusive"}
JobRecords == [op : Ops, version : SrtVersions \union {0}, at : Places, again : BOOLEAN, answer : SrtAnswers]

SrtTypeOK ==
  /\ srtJobs \in [SrtJobs -> JobRecords]
  /\ said \in [SrtJobs -> SrtAnswers]
  /\ bookings \subseteq SrtJobs

(* What the lock of the executor is for.                                    *)
OneInside ==
  \A i, j \in SrtJobs : srtJobs[i].at \in Inside /\ srtJobs[j].at \in Inside => i = j

(* A thread past the login holds the session of its own credential.         *)
SessionIsOwn ==
  \A j \in SrtJobs : srtJobs[j].at \in {"act", "booking", "booked"} => SessionIsGood(j)

(* Where a call whose booking was sent may be, and what it may return; a    *)
(* caller that may try again has a call that is over.                       *)
BookingsAreLate ==
  \A j \in SrtJobs :
    /\ srtJobs[j].op = "none" => srtJobs[j].at = "none"
    /\ j \in bookings => srtJobs[j].at \in {"booked", "returned", "over"}
    /\ srtJobs[j].at = "returned" /\ srtJobs[j].answer \in RetryAnswers => j \notin bookings
    /\ said[j] \in RetryAnswers => srtJobs[j].at = "over" /\ j \notin bookings

SrtInv == SrtTypeOK /\ OneInside /\ SessionIsOwn /\ BookingsAreLate

(* Nothing has been asked, and nobody is logged in.                         *)
LEMMA SrtStart == SrtInit => SrtInv
<1> SUFFICES ASSUME SrtInit PROVE SrtInv
  OBVIOUS
<1>1. NewJob \in JobRecords /\ \A j \in SrtJobs : srtJobs[j] = NewJob
  BY DEF SrtInit, NewJob, JobRecords, Ops, Places, SrtAnswers
<1>2. SrtTypeOK
  BY <1>1 DEF SrtInit, SrtTypeOK, SrtAnswers
<1>3. OneInside /\ SessionIsOwn
  BY <1>1 DEF OneInside, SessionIsOwn, SessionIsGood, Inside, NewJob
<1>4. BookingsAreLate
  BY <1>1 DEF SrtInit, BookingsAreLate, NewJob, RetryAnswers
<1>5. QED
  BY <1>2, <1>3, <1>4 DEF SrtInv

(* A failure is told by one of a few answers.                               *)
LEMMA FailuresAreTold ==
  ASSUME NEW j \in SrtJobs, NEW state
  PROVE  FailureAs(j, state) \in SrtAnswers
  BY DEF FailureAs, SrtAnswers, RetryAnswers

(* A step of a thread under the lock: it stays there, with the session of   *)
(* its credential once it is past the login, or it returns; a booking that  *)
(* was sent is followed by an answer that tells nobody to try again.        *)
LEMMA LockedStep ==
  ASSUME SrtInv, NEW j \in SrtJobs, srtJobs[j].at \in Inside,
         UNCHANGED said,
         NEW job \in JobRecords, srtJobs' = [srtJobs EXCEPT ![j] = job],
         job.op = srtJobs[j].op, job.at \in Inside \union {"returned"},
         job.at \in {"act", "booking", "booked"} =>
           srtActor'.state = "READY" /\ srtActor'.session = job.version,
         bookings' \subseteq SrtJobs, bookings' \ {j} = bookings \ {j},
         j \in bookings' => job.at \in {"booked", "returned"},
         j \in bookings' /\ job.at = "returned" => job.answer \notin RetryAnswers
  PROVE  SrtInv'
<1> USE DEF SrtInv
<1>1. \A i \in SrtJobs : srtJobs'[i] = IF i = j THEN job ELSE srtJobs[i]
  BY DEF SrtTypeOK
<1>2. SrtTypeOK'
  BY DEF SrtTypeOK
<1>3. \A i \in SrtJobs : i # j => srtJobs[i].at \notin Inside
  BY DEF OneInside
<1>4. OneInside'
  BY <1>1, <1>3 DEF OneInside
<1>5. SessionIsOwn'
  BY <1>1, <1>3 DEF SessionIsOwn, SessionIsGood, Inside
<1>6. BookingsAreLate'
  <2> SUFFICES ASSUME NEW i \in SrtJobs
               PROVE  /\ srtJobs'[i].op = "none" => srtJobs'[i].at = "none"
                      /\ i \in bookings' => srtJobs'[i].at \in {"booked", "returned", "over"}
                      /\ srtJobs'[i].at = "returned" /\ srtJobs'[i].answer \in RetryAnswers
                           => i \notin bookings'
                      /\ said'[i] \in RetryAnswers => srtJobs'[i].at = "over" /\ i \notin bookings'
    BY DEF BookingsAreLate
  <2>1. CASE i = j
    <3>1. srtJobs[j].op # "none" /\ said[j] \notin RetryAnswers
      BY DEF BookingsAreLate, Inside
    <3>2. QED
      BY <1>1, <2>1, <3>1
  <2>2. CASE i # j
    BY <1>1, <2>2 DEF BookingsAreLate
  <2>3. QED
    BY <2>1, <2>2
<1>7. QED
  BY <1>2, <1>4, <1>5, <1>6

(* A step outside the lock that leaves the session and the bookings alone.  *)
LEMMA OutsideStep ==
  ASSUME SrtInv, NEW j \in SrtJobs, UNCHANGED <<srtActor, bookings>>,
         srtJobs[j].at \in {"none", "sent", "returned"},
         NEW job \in JobRecords, srtJobs' = [srtJobs EXCEPT ![j] = job],
         job.op # "none", job.at \in {"sent", "queued", "over"},
         j \in bookings => job.at = "over",
         NEW answer \in SrtAnswers, said' = [said EXCEPT ![j] = answer],
         answer \in RetryAnswers => job.at = "over" /\ j \notin bookings
  PROVE  SrtInv'
<1> USE DEF SrtInv
<1>1. \A i \in SrtJobs : /\ srtJobs'[i] = IF i = j THEN job ELSE srtJobs[i]
                         /\ said'[i] = IF i = j THEN answer ELSE said[i]
  BY DEF SrtTypeOK
<1>2. SrtTypeOK'
  BY DEF SrtTypeOK
<1>3. OneInside'
  BY <1>1 DEF OneInside, Inside
<1>4. SessionIsOwn'
  BY <1>1 DEF SessionIsOwn, SessionIsGood
<1>5. BookingsAreLate'
  BY <1>1 DEF BookingsAreLate
<1>6. QED
  BY <1>2, <1>3, <1>4, <1>5

(* The calls of the workers, and what they are left with.                   *)
LEMMA CallSteps ==
  ASSUME SrtInv, NEW j \in SrtJobs,
         \/ \E op \in {"reserve", "confirm", "verify", "prewarm"}, version \in SrtVersions :
              Request(j, op, version)
         \/ CallIsLost(j) \/ CallAnswers(j) \/ RequestArrives(j)
  PROVE  SrtInv'
<1> USE DEF SrtInv
<1>1. ASSUME NEW op \in {"reserve", "confirm", "verify", "prewarm"}, NEW version \in SrtVersions,
             Request(j, op, version)
      PROVE  SrtInv'
  <2> DEFINE job == [op |-> op, version |-> version,
                     at |-> IF version = srtLogin THEN "sent" ELSE "over",
                     again |-> FALSE, answer |-> "none"]
             answer == IF version # srtLogin THEN NotSent(op) ELSE said[j]
  <2>1. srtJobs[j].at = "none" /\ j \notin bookings /\ said[j] \notin RetryAnswers
    BY <1>1 DEF Request, BookingsAreLate
  <2>2. job \in JobRecords
    BY DEF JobRecords, Ops, Places, SrtAnswers
  <2>3. srtJobs' = [srtJobs EXCEPT ![j] = job] /\ said' = [said EXCEPT ![j] = answer]
    BY <1>1 DEF Request
  <2>4. version # srtLogin => op \in {"reserve", "confirm"}
    BY <1>1 DEF Request
  <2>5. answer \in SrtAnswers /\ (answer \in RetryAnswers => job.at = "over")
    BY <2>1, <2>4 DEF NotSent, SrtTypeOK, SrtAnswers, RetryAnswers
  <2>6. UNCHANGED <<srtActor, bookings>> /\ job.op # "none" /\ job.at \in {"sent", "over"}
    BY <1>1 DEF Request
  <2> HIDE DEF job, answer
  <2>7. QED
    BY <2>1, <2>2, <2>3, <2>5, <2>6, OutsideStep
<1>2. CASE CallIsLost(j)
  <2>1. SrtTypeOK' /\ OneInside' /\ SessionIsOwn'
    BY <1>2 DEF CallIsLost, SrtTypeOK, OneInside, SessionIsOwn, SessionIsGood, SrtAnswers
  <2>2. BookingsAreLate'
    BY <1>2 DEF CallIsLost, BookingsAreLate, SrtTypeOK, RetryAnswers
  <2>3. QED
    BY <2>1, <2>2
<1>3. CASE CallAnswers(j)
  <2> DEFINE job == [srtJobs[j] EXCEPT !.at = "over"]
             answer == IF said[j] = "none" THEN srtJobs[j].answer ELSE said[j]
  <2>1. srtJobs[j].at = "returned" /\ srtJobs[j].op # "none"
    BY <1>3 DEF CallAnswers, BookingsAreLate
  <2>2. job \in JobRecords /\ job.at = "over" /\ job.op = srtJobs[j].op
    BY DEF JobRecords, Places, SrtTypeOK
  <2>3. /\ srtJobs' = [srtJobs EXCEPT ![j] = job] /\ said' = [said EXCEPT ![j] = answer]
        /\ UNCHANGED <<srtActor, bookings>>
    BY <1>3 DEF CallAnswers, JobIs, SrtTypeOK
  <2>4. answer \in SrtAnswers /\ (answer \in RetryAnswers => j \notin bookings)
    BY <2>1 DEF BookingsAreLate, SrtTypeOK, JobRecords
  <2> HIDE DEF job, answer
  <2>5. QED
    BY <2>1, <2>2, <2>3, <2>4, OutsideStep
<1>4. CASE RequestArrives(j)
  <2> DEFINE job == [srtJobs[j] EXCEPT !.at = "queued"]
  <2>1. /\ srtJobs[j].at = "sent" /\ srtJobs[j].op # "none"
        /\ j \notin bookings /\ said[j] \notin RetryAnswers
    BY <1>4 DEF RequestArrives, BookingsAreLate
  <2>2. job \in JobRecords /\ job.at = "queued" /\ job.op = srtJobs[j].op
    BY DEF JobRecords, Places, SrtTypeOK
  <2>3. /\ srtJobs' = [srtJobs EXCEPT ![j] = job] /\ said' = [said EXCEPT ![j] = said[j]]
        /\ UNCHANGED <<srtActor, bookings>> /\ said[j] \in SrtAnswers
    BY <1>4 DEF RequestArrives, JobIs, OtherSide, SrtTypeOK
  <2> HIDE DEF job
  <2>4. QED
    BY <2>1, <2>2, <2>3, OutsideStep
<1>5. QED
  BY <1>1, <1>2, <1>3, <1>4

(* A thread enters the lock when no other thread is inside.                 *)
LEMMA EnterStep ==
  ASSUME SrtInv, NEW j \in SrtJobs, EnterLock(j)
  PROVE  SrtInv'
<1> USE DEF SrtInv
<1> DEFINE job == [srtJobs[j] EXCEPT !.at = "client"]
<1>1. \A i \in SrtJobs : srtJobs'[i] = IF i = j THEN job ELSE srtJobs[i]
  BY DEF EnterLock, JobIs, SrtTypeOK
<1>2. SrtTypeOK'
  BY DEF EnterLock, JobIs, OtherSide, SrtTypeOK, JobRecords, Places, Inside
<1>3. \A i \in SrtJobs : srtJobs[i].at \notin Inside
  BY DEF EnterLock
<1>4. OneInside'
  BY <1>1, <1>3 DEF OneInside
<1>5. SessionIsOwn'
  BY <1>1, <1>3, SrtTypeOK DEF SessionIsOwn, SessionIsGood, Inside, SrtTypeOK, JobRecords
<1>6. BookingsAreLate'
  <2>1. srtJobs[j].at = "queued" /\ UNCHANGED <<bookings, said>>
    BY DEF EnterLock, OtherSide
  <2>2. job.op = srtJobs[j].op /\ job.at = "client"
    BY DEF SrtTypeOK, JobRecords
  <2>3. QED
    BY <1>1, <2>1, <2>2 DEF BookingsAreLate
<1>7. QED
  BY <1>2, <1>4, <1>5, <1>6

(* A thread under the lock goes on without having booked.                   *)
LEMMA GoesOnInside ==
  ASSUME SrtInv, NEW j \in SrtJobs, srtJobs[j].at \in Inside \ {"booking", "booked"},
         NEW there \in Inside \ {"booked"}, JobIs(j, there), UNCHANGED <<bookings, said>>,
         there \in {"act", "booking"} =>
           srtActor'.state = "READY" /\ srtActor'.session = srtJobs[j].version
  PROVE  SrtInv'
<1> DEFINE job == [srtJobs[j] EXCEPT !.at = there]
<1>1. srtJobs[j] \in JobRecords /\ bookings \subseteq SrtJobs
  BY DEF SrtInv, SrtTypeOK
<1>2. job \in JobRecords /\ job.at = there /\ job.op = srtJobs[j].op
      /\ job.version = srtJobs[j].version
  BY <1>1 DEF JobRecords, Places
<1>3. srtJobs' = [srtJobs EXCEPT ![j] = job]
  BY DEF JobIs
<1>4. j \notin bookings
  BY DEF SrtInv, BookingsAreLate, Inside
<1>5. srtJobs[j].at \in Inside /\ there \notin {"booked", "returned"}
  BY DEF Inside
<1> HIDE DEF job
<1>6. QED
  BY <1>1, <1>2, <1>3, <1>4, <1>5, LockedStep

(* A thread under the lock returns.                                         *)
LEMMA ReturnsFromInside ==
  ASSUME SrtInv, NEW j \in SrtJobs, srtJobs[j].at \in Inside,
         NEW answer \in SrtAnswers, JobReturns(j, answer), UNCHANGED <<bookings, said>>,
         srtJobs[j].at = "booked" => answer \notin RetryAnswers
  PROVE  SrtInv'
<1> DEFINE job == [srtJobs[j] EXCEPT !.at = "returned", !.answer = answer]
<1>1. srtJobs[j] \in JobRecords /\ bookings \subseteq SrtJobs
  BY DEF SrtInv, SrtTypeOK
<1>2. job \in JobRecords /\ job.at = "returned" /\ job.op = srtJobs[j].op
      /\ job.answer = answer
  BY <1>1 DEF JobRecords, Places
<1>3. srtJobs' = [srtJobs EXCEPT ![j] = job]
  <2>1. [srtJobs EXCEPT ![j].at = "returned", ![j].answer = answer]
          = [srtJobs EXCEPT ![j] = [@ EXCEPT !.at = "returned", !.answer = answer]]
    BY <1>1 DEF SrtInv, SrtTypeOK, JobRecords
  <2>2. QED
    BY <2>1 DEF JobReturns
<1>4. j \in bookings => srtJobs[j].at = "booked"
  BY DEF SrtInv, BookingsAreLate, Inside
<1> HIDE DEF job
<1>5. QED
  BY <1>1, <1>2, <1>3, <1>4, LockedStep

(* A thread that has a client goes on with its session, or returns.         *)
LEMMA ClientIsThere ==
  ASSUME SrtInv, NEW j \in SrtJobs, srtJobs[j].at \in {"client", "login"}, HasClient(j),
         UNCHANGED <<bookings, said>>,
         srtActor'.state = "READY" /\ srtActor'.session = srtJobs[j].version
  PROVE  SrtInv'
<1>1. srtJobs[j].at \in Inside \ {"booking", "booked"}
  BY DEF Inside
<1>2. CASE JobIs(j, "act")
  BY <1>1, <1>2, GoesOnInside DEF Inside
<1>3. CASE JobReturns(j, "authenticated")
  BY <1>1, <1>3, ReturnsFromInside DEF SrtAnswers
<1>4. QED
  BY <1>2, <1>3 DEF HasClient

(* The login of a thread under the lock.                                    *)
LEMMA LoginSteps ==
  ASSUME SrtInv, NEW j \in SrtJobs,
         ReuseSession(j) \/ BeginLogin(j) \/ LoginSucceeds(j) \/ LoginFails(j)
  PROVE  SrtInv'
<1>1. CASE ReuseSession(j)
  BY <1>1, ClientIsThere DEF ReuseSession, OtherSide, SessionIsGood
<1>2. CASE BeginLogin(j)
  BY <1>2, GoesOnInside DEF BeginLogin, OtherSide, Inside
<1>3. CASE LoginSucceeds(j)
  BY <1>3, ClientIsThere DEF LoginSucceeds, OtherSide, Session
<1>4. CASE LoginFails(j)
  <2>1. PICK state : JobReturns(j, FailureAs(j, state))
    BY <1>4 DEF LoginFails
  <2>2. QED
    BY <1>4, <2>1, FailuresAreTold, ReturnsFromInside DEF LoginFails, OtherSide, Inside
<1>5. QED
  BY <1>1, <1>2, <1>3, <1>4

(* The search before a booking, and the reading of the reservations.        *)
LEMMA ActSteps ==
  ASSUME SrtInv, NEW j \in SrtJobs,
         Found(j) \/ SearchLosesLogin(j) \/ SearchBreaks(j) \/ ReadList(j)
  PROVE  SrtInv'
<1>1. /\ srtJobs[j].at = "act" /\ srtJobs[j].at \in Inside \ {"booking", "booked"}
      /\ UNCHANGED <<bookings, said>>
  BY DEF Found, SearchLosesLogin, SearchBreaks, ReadList, OtherSide, Inside
<1>2. ASSUME NEW answer \in SrtAnswers, JobReturns(j, answer)
      PROVE  SrtInv'
  BY <1>1, <1>2, ReturnsFromInside
<1>3. CASE Found(j)
  <2>1. CASE JobIs(j, "booking")
    <3>1. srtActor'.state = "READY" /\ srtActor'.session = srtJobs[j].version
      BY <1>1, <1>3 DEF Found, SrtInv, SessionIsOwn, SessionIsGood
    <3>2. QED
      BY <1>1, <2>1, <3>1, GoesOnInside DEF Inside
  <2>2. QED
    BY <1>2, <1>3, <2>1 DEF Found, SrtAnswers, RetryAnswers
<1>4. CASE SearchLosesLogin(j)
  <2>1. CASE srtJobs[j].again
    BY <1>2, <1>4, <2>1 DEF SearchLosesLogin, SrtAnswers, RetryAnswers
  <2>2. CASE ~ srtJobs[j].again
    <3> DEFINE job == [srtJobs[j] EXCEPT !.at = "login", !.again = TRUE]
    <3>1. srtJobs[j] \in JobRecords /\ bookings \subseteq SrtJobs
      BY DEF SrtInv, SrtTypeOK
    <3>2. job \in JobRecords /\ job.at = "login" /\ job.op = srtJobs[j].op
      BY <3>1 DEF JobRecords, Places, Inside
    <3>3. srtJobs' = [srtJobs EXCEPT ![j] = job]
      <4>1. [srtJobs EXCEPT ![j].at = "login", ![j].again = TRUE]
              = [srtJobs EXCEPT ![j] = [@ EXCEPT !.at = "login", !.again = TRUE]]
        BY <3>1 DEF SrtInv, SrtTypeOK, JobRecords
      <4>2. QED
        BY <1>4, <2>2, <4>1 DEF SearchLosesLogin
    <3>4. j \notin bookings /\ srtJobs[j].at \in Inside /\ job.at \in Inside
      BY <1>1, <3>2 DEF SrtInv, BookingsAreLate, Inside
    <3> HIDE DEF job
    <3>5. QED
      BY <1>1, <3>1, <3>2, <3>3, <3>4, LockedStep
  <2>3. QED
    BY <2>1, <2>2
<1>5. CASE SearchBreaks(j)
  BY <1>2, <1>5, FailuresAreTold DEF SearchBreaks
<1>6. CASE ReadList(j)
  BY <1>2, <1>6, FailuresAreTold DEF ReadList, SrtAnswers
<1>7. QED
  BY <1>3, <1>4, <1>5, <1>6

(* The booking, sent once, and what it is answered with.                    *)
LEMMA BookSteps ==
  ASSUME SrtInv, NEW j \in SrtJobs,
         Book(j) \/ BookingAnswers(j) \/ BookingLosesSession(j)
  PROVE  SrtInv'
<1>1. CASE Book(j)
  <2> DEFINE job == [srtJobs[j] EXCEPT !.at = "booked"]
  <2>1. srtJobs[j] \in JobRecords /\ bookings \subseteq SrtJobs
    BY DEF SrtInv, SrtTypeOK
  <2>2. job \in JobRecords /\ job.at = "booked" /\ job.op = srtJobs[j].op
        /\ job.version = srtJobs[j].version
    BY <2>1 DEF JobRecords, Places, Inside
  <2>3. srtJobs' = [srtJobs EXCEPT ![j] = job]
    BY <1>1 DEF Book, JobIs
  <2>4. srtActor'.state = "READY" /\ srtActor'.session = srtJobs[j].version
    BY <1>1 DEF Book, SrtInv, SessionIsOwn, SessionIsGood
  <2>5. /\ srtJobs[j].at \in Inside /\ job.at \in Inside /\ UNCHANGED said
        /\ bookings' = bookings \union {j}
    BY <1>1, <2>2 DEF Book, OtherSide, Inside
  <2> HIDE DEF job
  <2>6. QED
    BY <2>1, <2>2, <2>3, <2>4, <2>5, LockedStep
<1>2. CASE BookingAnswers(j) \/ BookingLosesSession(j)
  <2>1. PICK answer \in {"PAYMENT_REQUIRED", "UNKNOWN"} : JobReturns(j, answer)
    BY <1>2 DEF BookingAnswers, BookingLosesSession
  <2>2. srtJobs[j].at \in Inside /\ UNCHANGED <<bookings, said>>
    BY <1>2 DEF BookingAnswers, BookingLosesSession, OtherSide, Inside
  <2>3. answer \in SrtAnswers /\ answer \notin RetryAnswers
    BY DEF SrtAnswers, RetryAnswers
  <2>4. QED
    BY <2>1, <2>2, <2>3, ReturnsFromInside
<1>3. QED
  BY <1>1, <1>2

(* The sidecar dies: no thread is left, and no session.                     *)
LEMMA KilledStep == SrtInv /\ SrtKilled => SrtInv'
<1> SUFFICES ASSUME SrtInv, SrtKilled PROVE SrtInv'
  OBVIOUS
<1> USE DEF SrtInv
<1>1. \A i \in SrtJobs :
        srtJobs'[i] = IF srtJobs[i].at \in {"none", "sent"} THEN srtJobs[i]
                      ELSE [srtJobs[i] EXCEPT !.at = "over"]
  BY DEF SrtKilled
<1>2. \A i \in SrtJobs :
        /\ srtJobs'[i] \in JobRecords /\ srtJobs'[i].op = srtJobs[i].op
        /\ srtJobs'[i].at = IF srtJobs[i].at \in {"none", "sent"} THEN srtJobs[i].at ELSE "over"
  <2> SUFFICES ASSUME NEW i \in SrtJobs
               PROVE  /\ srtJobs'[i] \in JobRecords /\ srtJobs'[i].op = srtJobs[i].op
                      /\ srtJobs'[i].at = IF srtJobs[i].at \in {"none", "sent"} THEN srtJobs[i].at ELSE "over"
    OBVIOUS
  <2>1. srtJobs[i] \in JobRecords
    BY DEF SrtTypeOK
  <2>2. CASE srtJobs[i].at \in {"none", "sent"}
    BY <1>1, <2>1, <2>2
  <2>3. CASE srtJobs[i].at \notin {"none", "sent"}
    <3>1. srtJobs'[i] = [srtJobs[i] EXCEPT !.at = "over"] /\ "over" \in Places
      BY <1>1, <2>3 DEF Places
    <3> QED
      BY <2>1, <2>3, <3>1 DEF JobRecords
  <2> QED
    BY <2>2, <2>3
<1>3. SrtTypeOK'
  BY <1>2 DEF SrtKilled, SrtTypeOK, OtherSide
<1>4. OneInside' /\ SessionIsOwn'
  BY <1>2 DEF OneInside, SessionIsOwn, SessionIsGood, Inside
<1>5. BookingsAreLate'
  BY <1>2 DEF SrtKilled, OtherSide, BookingsAreLate
<1>6. QED
  BY <1>3, <1>4, <1>5

(* Every step keeps the invariant.                                          *)
LEMMA SrtStep == SrtInv /\ [SrtNext]_srtVars => SrtInv'
<1> SUFFICES ASSUME SrtInv, [SrtNext]_srtVars PROVE SrtInv'
  OBVIOUS
<1>1. CASE SrtKilled
  BY <1>1, KilledStep
<1>2. CASE CredentialChanges \/ UNCHANGED srtVars
  <2>1. UNCHANGED <<srtActor, srtJobs, bookings, said>>
    BY <1>2 DEF CredentialChanges, srtVars
  <2>2. QED
    BY <2>1 DEF SrtInv, SrtTypeOK, OneInside, SessionIsOwn, SessionIsGood, BookingsAreLate
<1>3. ASSUME NEW j \in SrtJobs,
             EnterLock(j) \/ ReuseSession(j) \/ BeginLogin(j) \/ LoginSucceeds(j) \/ LoginFails(j)
      PROVE  SrtInv'
  BY <1>3, EnterStep, LoginSteps
<1>4. ASSUME NEW j \in SrtJobs,
             Found(j) \/ SearchLosesLogin(j) \/ SearchBreaks(j)
      PROVE  SrtInv'
  BY <1>4, ActSteps
<1>5. ASSUME NEW j \in SrtJobs,
             Book(j) \/ BookingAnswers(j) \/ BookingLosesSession(j) \/ ReadList(j)
      PROVE  SrtInv'
  BY <1>5, ActSteps, BookSteps
<1>6. ASSUME NEW j \in SrtJobs,
             \/ \E op \in {"reserve", "confirm", "verify", "prewarm"}, version \in SrtVersions :
                  Request(j, op, version)
             \/ CallIsLost(j) \/ CallAnswers(j) \/ RequestArrives(j)
      PROVE  SrtInv'
  BY <1>6, CallSteps
<1>7. QED
  BY <1>1, <1>2, <1>3, <1>4, <1>5, <1>6 DEF SrtNext

(* A caller of the SRT sidecar that may try again was told so of a booking  *)
(* that was not sent and will not be (SrtReservationExecutor), for any      *)
(* number of calls and of changes of the credential.                        *)
THEOREM SrtRetryIsAlwaysSafe == SrtSpec => []SrtRetryIsSafe
<1>1. SrtInv => SrtRetryIsSafe
  BY DEF SrtInv, BookingsAreLate, SessionIsOwn, SrtRetryIsSafe, RetryAnswers
<1>2. QED
  BY SrtStart, SrtStep, <1>1, PTL DEF SrtSpec

-----------------------------------------------------------------------------
(* SrtReads.                                                                *)

PendingPlaces == {"unused", "registering", "pending", "over"}
Phases == {"none", "registered", "active", "awaiting", "terminal"}
HandlerPlaces == {"none", "arrived", "waiting", "ended", "over"}
Busy == {"arrived", "waiting", "ended"}
LookupRecords ==
  [at : {"free", "queued", "running", "done"}, batch : Batches \union {NoLookup},
   waiters : SUBSET AllReads, asked : SUBSET AllReads, good : BOOLEAN]

(* The types of what the reads depend on.                                   *)
ReadsTypeOK ==
  /\ reader \in {"working", "draining", "left", "fenced"}
  /\ pending \in [Reads -> [at : PendingPlaces, instance : Nat]]
  /\ sentReads \subseteq Reads
  /\ instance \in Nat
  /\ registry \in [Reads -> Phases]
  /\ handlers \in [AllReads -> HandlerPlaces]
  /\ lookups \in [Lookups -> LookupRecords]
  /\ sharedLookup \in [Batches -> Lookups \union {NoLookup}]

(* A read that has not been announced is nowhere, and its place in the     *)
(* registry is one of the process that took it.                             *)
AnnouncedFirst ==
  \A c \in Reads :
    /\ pending[c].at \in {"unused", "registering"} => registry[c] = "none" /\ c \notin sentReads
    /\ pending[c].at = "pending" /\ registry[c] # "none" => pending[c].instance = instance

(* A read whose handler may still ask the provider, or whose provider call  *)
(* may still run, is polled; and so is one that may still be begun.         *)
PolledWhileAsking ==
  \A c \in Reads :
    /\ c \in sentReads /\ registry[c] = "registered" => pending[c].at = "pending"
    /\ handlers[c] \in Busy => registry[c] = "active"
    /\ Linked(c) => registry[c] \in {"active", "awaiting"}
    /\ registry[c] = "active" \/ Linked(c) => pending[c].at = "pending"

(* A handler waits for one provider call at a time.                         *)
WaitersWait ==
  \A c \in Reads, l \in Lookups : c \in lookups[l].waiters =>
    /\ handlers[c] = "waiting"
    /\ \A k \in Lookups : c \in lookups[k].waiters => k = l

LeftUnpolled == reader = "left" => Unpolled = {}

ReadsInv == ReadsTypeOK /\ AnnouncedFirst /\ PolledWhileAsking /\ WaitersWait /\ LeftUnpolled

(* Nothing was read yet.                                                    *)
LEMMA ReadsStart == ReadsInit => ReadsInv
<1> SUFFICES ASSUME ReadsInit PROVE ReadsInv
  OBVIOUS
<1>1. FreeLookup \in LookupRecords
  BY DEF FreeLookup, LookupRecords
<1>2. ReadsTypeOK
  BY <1>1 DEF ReadsInit, ReadsTypeOK, PendingPlaces, Phases, HandlerPlaces
<1>3. \A c \in AllReads : ~Linked(c)
  BY DEF ReadsInit, Linked, FreeLookup
<1>4. AnnouncedFirst /\ PolledWhileAsking /\ WaitersWait /\ LeftUnpolled
  BY <1>3 DEF ReadsInit, AnnouncedFirst, PolledWhileAsking, WaitersWait, LeftUnpolled, Busy, AllReads,
              FreeLookup
<1>5. QED
  BY <1>2, <1>4 DEF ReadsInv

(* The steps of the client and of the registry leave the provider calls.    *)
LEMMA LinksStay ==
  ASSUME UNCHANGED lookups, NEW c
  PROVE  Linked(c)' <=> Linked(c)
BY DEF Linked

ClientStep ==
  \/ \E c \in Reads : Announce(c) \/ AnnounceArrives(c) \/ AnnounceFails(c) \/ ReadIsLost(c)
  \/ \E c \in Reads : PollEnds(c)
  \/ DrainReads \/ Drained \/ FencedOff

(* What the client does with its connections and its own threads.           *)
LEMMA ClientKeepsReads ==
  ASSUME ReadsInv, ClientStep
  PROVE  ReadsInv'
<1> USE DEF ReadsInv, ReadsTypeOK
<1>0. UNCHANGED <<lookups, instance, handlers, sharedLookup>>
  BY DEF ClientStep, Announce, AnnounceArrives, AnnounceFails, ReadIsLost, PollEnds, DrainReads,
         Drained, FencedOff, Source
<1>1. \A c \in Reads : Linked(c)' <=> Linked(c)
  BY <1>0, LinksStay
<1> WaitersWait'
  BY <1>0 DEF WaitersWait
<1>2. CASE \E c \in Reads : Announce(c)
  <2> PICK c \in Reads : Announce(c)
    BY <1>2
  <2>1. pending' = [pending EXCEPT ![c].at = "registering"] /\ UNCHANGED <<reader, sentReads, registry>>
    BY DEF Announce, PendingIs
  <2>2. ReadsTypeOK'
    BY <1>0, <2>1 DEF PendingPlaces
  <2>3. AnnouncedFirst' /\ PolledWhileAsking' /\ LeftUnpolled'
    BY <1>0, <1>1, <2>1 DEF AnnouncedFirst, PolledWhileAsking, LeftUnpolled, Unpolled, Announce
  <2> QED
    BY <2>2, <2>3
<1>3. CASE \E c \in Reads : AnnounceArrives(c)
  <2> PICK c \in Reads : AnnounceArrives(c)
    BY <1>3
  <2>1. /\ pending[c].at = "registering" /\ registry[c] = "none" /\ UNCHANGED reader
        /\ registry' = [registry EXCEPT ![c] = "registered"]
    BY DEF AnnounceArrives
  <2>2. CASE /\ pending' = [pending EXCEPT ![c] = [at |-> "pending", instance |-> instance]]
             /\ sentReads' = sentReads \union {c}
    <3>1. ReadsTypeOK'
      BY <1>0, <2>1, <2>2 DEF PendingPlaces, Phases
    <3>2. AnnouncedFirst' /\ PolledWhileAsking' /\ LeftUnpolled'
      BY <1>0, <1>1, <2>1, <2>2 DEF AnnouncedFirst, PolledWhileAsking, LeftUnpolled, Unpolled
    <3> QED
      BY <3>1, <3>2
  <2>3. CASE pending' = [pending EXCEPT ![c].at = "over"] /\ UNCHANGED sentReads
    <3>1. ReadsTypeOK'
      BY <1>0, <2>1, <2>3 DEF PendingPlaces, Phases
    <3>2. AnnouncedFirst' /\ PolledWhileAsking' /\ LeftUnpolled'
      BY <1>0, <1>1, <2>1, <2>3 DEF AnnouncedFirst, PolledWhileAsking, LeftUnpolled, Unpolled
    <3> QED
      BY <3>1, <3>2
  <2> QED
    BY <2>2, <2>3 DEF AnnounceArrives, PendingIs
<1>4. CASE \E c \in Reads : AnnounceFails(c)
  <2> PICK c \in Reads : AnnounceFails(c)
    BY <1>4
  <2>1. /\ pending[c].at = "registering" /\ UNCHANGED <<reader, sentReads, registry>>
        /\ pending' = [pending EXCEPT ![c].at = "over"]
    BY DEF AnnounceFails, PendingIs
  <2>2. ReadsTypeOK'
    BY <1>0, <2>1 DEF PendingPlaces
  <2>3. AnnouncedFirst' /\ PolledWhileAsking' /\ LeftUnpolled'
    BY <1>0, <1>1, <2>1 DEF AnnouncedFirst, PolledWhileAsking, LeftUnpolled, Unpolled
  <2> QED
    BY <2>2, <2>3
<1>5. CASE \E c \in Reads : ReadIsLost(c)
  <2>1. sentReads' \subseteq sentReads /\ UNCHANGED <<reader, pending, registry>>
    BY <1>5 DEF ReadIsLost
  <2>2. AnnouncedFirst' /\ PolledWhileAsking' /\ LeftUnpolled'
    BY <1>0, <1>1, <2>1 DEF AnnouncedFirst, PolledWhileAsking, LeftUnpolled, Unpolled
  <2> QED
    BY <1>0, <2>1, <2>2
<1>6. CASE \E c \in Reads : PollEnds(c)
  <2> PICK c \in Reads : PollEnds(c)
    BY <1>6
  <2>1. /\ pending[c].at = "pending" /\ UNCHANGED <<reader, sentReads>>
        /\ pending' = [pending EXCEPT ![c].at = "over"]
        /\ registry' = [registry EXCEPT ![c] = IF pending[c].instance = instance THEN "terminal" ELSE @]
        /\ pending[c].instance # instance \/ IsOver(c)
    BY DEF PollEnds, PendingIs
  <2>2. ReadsTypeOK'
    BY <1>0, <2>1 DEF PendingPlaces, Phases
  <2>3. registry[c] = "none" \/ (registry'[c] = "terminal" /\ ~Linked(c) /\ handlers[c] \notin Busy)
    BY <2>1 DEF AnnouncedFirst, PolledWhileAsking, IsOver
  <2>4. AnnouncedFirst' /\ PolledWhileAsking' /\ LeftUnpolled'
    BY <1>0, <1>1, <2>1, <2>3 DEF AnnouncedFirst, PolledWhileAsking, LeftUnpolled, Unpolled
  <2> QED
    BY <2>2, <2>4
<1>7. CASE DrainReads \/ Drained \/ FencedOff
  <2>1. /\ UNCHANGED <<pending, sentReads, registry>> /\ reader' \in {"draining", "left", "fenced"}
        /\ reader' = "left" => Unpolled = {}
    BY <1>7 DEF DrainReads, Drained, FencedOff
  <2>2. AnnouncedFirst' /\ PolledWhileAsking' /\ LeftUnpolled'
    BY <1>0, <1>1, <2>1 DEF AnnouncedFirst, PolledWhileAsking, LeftUnpolled, Unpolled
  <2> QED
    BY <1>0, <2>1, <2>2
<1> QED
  BY <1>2, <1>3, <1>4, <1>5, <1>6, <1>7 DEF ClientStep

RegistryStep ==
  \/ \E c \in Reads : ReadArrives(c) \/ AnnouncementExpires(c) \/ TombstoneGoes(c)
  \/ \E c \in OtherReads : OtherArrives(c)
  \/ \E c \in AllReads : HandlerEnds(c)

(* What the sidecar does with the reads it keeps by their number.           *)
LEMMA RegistryKeepsReads ==
  ASSUME ReadsInv, RegistryStep
  PROVE  ReadsInv'
<1> USE DEF ReadsInv, ReadsTypeOK
<1>0. UNCHANGED <<reader, pending, lookups, instance, sharedLookup>>
  BY DEF RegistryStep, ReadArrives, AnnouncementExpires, TombstoneGoes, OtherArrives, HandlerEnds,
         ReaderSide, Source
<1>1. \A c \in Reads : Linked(c)' <=> Linked(c)
  BY <1>0, LinksStay
<1>2. LeftUnpolled'
  BY <1>0 DEF LeftUnpolled, Unpolled
<1>3. Reads \subseteq AllReads
  BY DEF AllReads
<1> WaitersWait'
  <2>1. \A c \in Reads : handlers[c] = "waiting" => handlers'[c] = "waiting"
    BY <1>3, ReadsAssumption
       DEF RegistryStep, ReadArrives, AnnouncementExpires, TombstoneGoes, OtherArrives, HandlerEnds,
           PolledWhileAsking, Busy, AllReads
  <2> QED
    BY <1>0, <2>1 DEF WaitersWait
<1>4. CASE \E c \in Reads : ReadArrives(c)
  <2> PICK c \in Reads : ReadArrives(c)
    BY <1>4
  <2>1. c \in sentReads /\ sentReads' = sentReads \ {c}
    BY DEF ReadArrives
  <2>2. CASE /\ registry[c] = "registered" /\ registry' = [registry EXCEPT ![c] = "active"]
             /\ handlers' = [handlers EXCEPT ![c] = "arrived"]
    <3>1. ReadsTypeOK'
      BY <1>0, <1>3, <2>1, <2>2 DEF Phases, HandlerPlaces
    <3>2. AnnouncedFirst' /\ PolledWhileAsking'
      BY <1>0, <1>1, <1>3, <2>1, <2>2 DEF AnnouncedFirst, PolledWhileAsking, Busy
    <3> QED
      BY <1>2, <3>1, <3>2
  <2>3. CASE UNCHANGED <<registry, handlers>>
    <3>1. AnnouncedFirst' /\ PolledWhileAsking'
      BY <1>0, <1>1, <1>3, <2>1, <2>3 DEF AnnouncedFirst, PolledWhileAsking, Busy
    <3> QED
      BY <1>0, <1>2, <2>1, <2>3, <3>1
  <2> QED
    BY <2>2, <2>3 DEF ReadArrives
<1>5. CASE \E c \in Reads : AnnouncementExpires(c) \/ TombstoneGoes(c)
  <2> PICK c \in Reads : AnnouncementExpires(c) \/ TombstoneGoes(c)
    BY <1>5
  <2>1. /\ UNCHANGED <<handlers, sentReads>>
        /\ \/ registry[c] = "registered" /\ registry' = [registry EXCEPT ![c] = "terminal"]
           \/ registry[c] = "terminal" /\ registry' = [registry EXCEPT ![c] = "none"]
    BY DEF AnnouncementExpires, TombstoneGoes, ReaderSide
  <2>2. ReadsTypeOK'
    BY <1>0, <2>1 DEF Phases
  <2>3. AnnouncedFirst' /\ PolledWhileAsking'
    BY <1>0, <1>1, <2>1 DEF AnnouncedFirst, PolledWhileAsking, Busy
  <2> QED
    BY <1>2, <2>2, <2>3
<1>6. CASE \E c \in OtherReads : OtherArrives(c)
  <2> PICK c \in OtherReads : OtherArrives(c)
    BY <1>6
  <2>1. handlers' = [handlers EXCEPT ![c] = "arrived"] /\ UNCHANGED <<registry, sentReads>> /\ c \in AllReads
    BY DEF OtherArrives, ReaderSide, AllReads
  <2>2. \A d \in Reads : handlers'[d] = handlers[d]
    BY <1>3, <2>1, ReadsAssumption
  <2>3. ReadsTypeOK'
    BY <1>0, <2>1 DEF HandlerPlaces
  <2>4. AnnouncedFirst' /\ PolledWhileAsking'
    BY <1>0, <1>1, <2>1, <2>2 DEF AnnouncedFirst, PolledWhileAsking, Busy
  <2> QED
    BY <1>2, <2>3, <2>4
<1>7. CASE \E c \in AllReads : HandlerEnds(c)
  <2> PICK c \in AllReads : HandlerEnds(c)
    BY <1>7
  <2>1. /\ handlers[c] = "ended" /\ handlers' = [handlers EXCEPT ![c] = "over"]
        /\ registry' = [r \in Reads |-> IF r = c /\ registry[r] = "active" THEN "awaiting" ELSE registry[r]]
        /\ UNCHANGED sentReads
    BY DEF HandlerEnds, ReaderSide
  <2>2. ReadsTypeOK'
    BY <1>0, <2>1 DEF Phases, HandlerPlaces
  <2>3. AnnouncedFirst' /\ PolledWhileAsking'
    BY <1>0, <1>1, <1>3, <2>1 DEF AnnouncedFirst, PolledWhileAsking, Busy
  <2> QED
    BY <1>2, <2>2, <2>3
<1> QED
  BY <1>4, <1>5, <1>6, <1>7 DEF RegistryStep

(* What the steps of the source have in common: a handler stays in what it  *)
(* is doing, and only one that has just arrived gets a provider call.       *)
SourceStep ==
  /\ UNCHANGED <<reader, pending, sentReads, instance, registry>>
  /\ ReadsTypeOK' /\ WaitersWait'
  /\ \A c \in Reads : handlers'[c] \in Busy => handlers[c] \in Busy
  /\ \A c \in Reads : Linked(c)' => Linked(c) \/ handlers[c] = "arrived"

(* What the provider answers to the threads that ask it.                    *)
LEMMA SourceKeepsReads ==
  ASSUME ReadsInv, SourceStep
  PROVE  ReadsInv'
<1>1. AnnouncedFirst' /\ LeftUnpolled'
  BY DEF ReadsInv, SourceStep, AnnouncedFirst, LeftUnpolled, Unpolled
<1>2. PolledWhileAsking'
  BY DEF ReadsInv, SourceStep, PolledWhileAsking, Busy
<1> QED
  BY <1>1, <1>2 DEF ReadsInv, SourceStep

(* A read asks: it may join a provider call, or be the first of one.        *)
LEMMA LookUpIsSourceStep ==
  ASSUME ReadsInv, NEW c \in AllReads, NEW b \in Batches, LookUp(c, b)
  PROVE  SourceStep
<1> USE DEF ReadsInv, ReadsTypeOK
<1>1. /\ handlers[c] = "arrived"
      /\ UNCHANGED <<reader, pending, sentReads, instance, registry>>
  BY DEF LookUp, ReaderSide
<1>2. Reads \subseteq AllReads
  BY DEF AllReads
<1>3. \A k \in Lookups, d \in Reads : c = d => d \notin lookups[k].waiters
  BY <1>1 DEF WaitersWait
<1>4. CASE HandlerIs(c, "ended") /\ UNCHANGED <<lookups, sharedLookup>>
  <2>1. ReadsTypeOK'
    BY <1>1, <1>4 DEF HandlerIs, HandlerPlaces
  <2>2. WaitersWait'
    BY <1>1, <1>2, <1>3, <1>4 DEF HandlerIs, WaitersWait
  <2>3. \A d \in Reads : Linked(d)' => Linked(d)
    BY <1>4, LinksStay
  <2> QED
    BY <1>1, <1>2, <1>4, <2>1, <2>2, <2>3 DEF SourceStep, HandlerIs, Busy
<1>5. ASSUME HandlerIs(c, "waiting"),
             sharedLookup' \in [Batches -> Lookups \union {NoLookup}],
             NEW l \in Lookups, NEW row \in LookupRecords, lookups' = [lookups EXCEPT ![l] = row],
             row.asked \subseteq lookups[l].asked \union {c}, row.waiters \subseteq lookups[l].waiters \union {c},
             row.asked = {c} \/ row.at = lookups[l].at
      PROVE  SourceStep
  <2>1. ReadsTypeOK'
    BY <1>1, <1>5 DEF HandlerIs, HandlerPlaces
  <2>2. WaitersWait'
    BY <1>1, <1>2, <1>3, <1>5 DEF HandlerIs, WaitersWait
  <2>3. \A d \in Reads : Linked(d)' => Linked(d) \/ d = c
    BY <1>5 DEF Linked
  <2> QED
    BY <1>1, <1>2, <1>5, <2>1, <2>2, <2>3 DEF SourceStep, HandlerIs, Busy
<1>6. CASE /\ HandlerIs(c, "waiting") /\ sharedLookup[b] # NoLookup
           /\ JoinLookup(c, sharedLookup[b]) /\ UNCHANGED sharedLookup
  <2> PICK l \in Lookups : l = sharedLookup[b]
    BY <1>6
  <2> DEFINE row == [lookups[l] EXCEPT !.waiters = @ \union {c}, !.asked = @ \union {c}]
  <2>1. lookups' = [lookups EXCEPT ![l] = row]
    BY <1>6 DEF JoinLookup
  <2>2. lookups[l] \in LookupRecords
    OBVIOUS
  <2>3. /\ row \in LookupRecords /\ row.at = lookups[l].at
        /\ row.asked = lookups[l].asked \union {c} /\ row.waiters = lookups[l].waiters \union {c}
    BY <2>2 DEF LookupRecords
  <2> HIDE DEF row
  <2> QED
    BY <1>5, <1>6, <2>1, <2>3
<1>7. CASE HandlerIs(c, "waiting") /\ \E l \in Lookups :
             /\ lookups[l].at = "free" /\ sharedLookup' = [sharedLookup EXCEPT ![b] = l]
             /\ lookups' = [lookups EXCEPT ![l] =
                  [FreeLookup EXCEPT !.at = "queued", !.batch = b, !.waiters = {c}, !.asked = {c}]]
  <2> PICK l \in Lookups :
             /\ lookups[l].at = "free" /\ sharedLookup' = [sharedLookup EXCEPT ![b] = l]
             /\ lookups' = [lookups EXCEPT ![l] =
                  [FreeLookup EXCEPT !.at = "queued", !.batch = b, !.waiters = {c}, !.asked = {c}]]
    BY <1>7
  <2> DEFINE row == [FreeLookup EXCEPT !.at = "queued", !.batch = b, !.waiters = {c}, !.asked = {c}]
  <2>1. FreeLookup \in LookupRecords
    BY DEF LookupRecords, FreeLookup
  <2>2. row \in LookupRecords /\ row.asked = {c} /\ row.waiters = {c}
    BY <2>1 DEF LookupRecords
  <2>3. lookups' = [lookups EXCEPT ![l] = row]
    OBVIOUS
  <2> HIDE DEF row
  <2>4. sharedLookup' \in [Batches -> Lookups \union {NoLookup}]
    OBVIOUS
  <2> QED
    BY <1>5, <1>7, <2>2, <2>3, <2>4
<1> QED
  BY <1>4, <1>6, <1>7 DEF LookUp

(* A step of one provider call: nobody asks for more, and what is over      *)
(* stays over.                                                              *)
LookupsOnly(l) ==
  /\ UNCHANGED <<reader, pending, sentReads, instance, registry>>
  /\ lookups' \in [Lookups -> LookupRecords]
  /\ sharedLookup' \in [Batches -> Lookups \union {NoLookup}]
  /\ \A k \in Lookups : k # l => lookups'[k] = lookups[k]
  /\ lookups'[l].asked \subseteq lookups[l].asked
  /\ lookups'[l].waiters \subseteq lookups[l].waiters
  /\ lookups'[l].at \in {"queued", "running"} => lookups[l].at \in {"queued", "running"}

(* A lookup that goes on by itself is a step of its source.                 *)
LEMMA LookupKeepsLinks ==
  ASSUME ReadsInv, NEW l \in Lookups, LookupsOnly(l), UNCHANGED handlers
  PROVE  SourceStep
<1>1. ReadsTypeOK'
  BY DEF ReadsInv, ReadsTypeOK, LookupsOnly
<1>2. WaitersWait'
  BY DEF ReadsInv, ReadsTypeOK, WaitersWait, LookupsOnly
<1>3. \A c \in Reads : Linked(c)' => Linked(c)
  BY DEF Linked, LookupsOnly
<1> QED
  BY <1>1, <1>2, <1>3 DEF SourceStep, LookupsOnly

(* What is shared stays a lookup when one of them is shared no longer.      *)
LEMMA SharedIsLookup ==
  ASSUME ReadsTypeOK, NEW l, NoLonger(l)
  PROVE  sharedLookup' \in [Batches -> Lookups \union {NoLookup}]
BY DEF ReadsTypeOK, NoLonger

(* One row of the provider calls is written.                                *)
LEMMA OneLookupWritten ==
  ASSUME ReadsTypeOK, NEW l \in Lookups, NEW row, lookups' = [lookups EXCEPT ![l] = row],
         row \in LookupRecords,
         row.asked \subseteq lookups[l].asked, row.waiters \subseteq lookups[l].waiters,
         row.at \in {"queued", "running"} => lookups[l].at \in {"queued", "running"},
         UNCHANGED <<reader, pending, sentReads, instance, registry>>,
         NoLonger(l) \/ UNCHANGED sharedLookup
  PROVE  LookupsOnly(l)
<1>1. sharedLookup' \in [Batches -> Lookups \union {NoLookup}]
  BY SharedIsLookup DEF ReadsTypeOK
<1> QED
  BY <1>1 DEF ReadsTypeOK, LookupsOnly

(* A handler stops waiting; the provider call may go on without it.         *)
LEMMA WaiterIsSourceStep ==
  ASSUME ReadsInv, NEW c \in AllReads, NEW l \in Lookups,
         WaiterLeaves(c, l) \/ WaiterResumes(c, l)
  PROVE  SourceStep
<1> USE DEF ReadsInv, ReadsTypeOK
<1>1. /\ UNCHANGED <<reader, pending, sentReads, instance, registry>>
      /\ c \in lookups[l].waiters
      /\ HandlerIs(c, "ended") /\ StopWaiting(c, l)
  BY DEF WaiterLeaves, WaiterResumes, ReaderSide
<1>2. lookups[l] \in LookupRecords
  OBVIOUS
<1>3. LookupsOnly(l) /\ c \notin lookups'[l].waiters
  <2>1. CASE lookups[l].waiters = {c} /\ lookups[l].at = "queued"
    <3> DEFINE row == [lookups[l] EXCEPT !.waiters = {}, !.at = "done"]
    <3>1. lookups' = [lookups EXCEPT ![l] = row] /\ NoLonger(l)
      BY <1>1, <2>1 DEF StopWaiting
    <3>2. row \in LookupRecords /\ row.asked = lookups[l].asked /\ row.waiters = {} /\ row.at = "done"
      BY <1>2 DEF LookupRecords
    <3> HIDE DEF row
    <3> QED
      BY <1>1, <3>1, <3>2, OneLookupWritten
  <2>2. CASE ~(lookups[l].waiters = {c} /\ lookups[l].at = "queued")
    <3> DEFINE row == [lookups[l] EXCEPT !.waiters = @ \ {c}]
    <3>1. lookups' = [lookups EXCEPT ![l] = row] /\ UNCHANGED sharedLookup
      BY <1>1, <2>2 DEF StopWaiting
    <3>2. /\ row \in LookupRecords /\ row.asked = lookups[l].asked
          /\ row.waiters = lookups[l].waiters \ {c} /\ row.at = lookups[l].at
      BY <1>2 DEF LookupRecords
    <3> HIDE DEF row
    <3> QED
      BY <1>1, <3>1, <3>2, OneLookupWritten
  <2> QED
    BY <2>1, <2>2
<1>4. ReadsTypeOK'
  BY <1>1, <1>3 DEF LookupsOnly, HandlerIs, HandlerPlaces
<1>5. WaitersWait'
  BY <1>1, <1>3 DEF WaitersWait, LookupsOnly, HandlerIs, AllReads
<1>6. \A d \in Reads : Linked(d)' => Linked(d)
  BY <1>3 DEF Linked, LookupsOnly
<1>7. \A d \in Reads : handlers'[d] \in Busy => handlers[d] \in Busy
  BY <1>1 DEF HandlerIs, WaitersWait, Busy, AllReads
<1> QED
  BY <1>1, <1>4, <1>5, <1>6, <1>7 DEF SourceStep

(* The gate and the thread.                                                 *)
LEMMA ThreadIsSourceStep ==
  ASSUME ReadsInv, NEW l \in Lookups, LookupRuns(l) \/ LookupReturns(l) \/ ForgetLookup(l)
  PROVE  SourceStep
<1> USE DEF ReadsInv, ReadsTypeOK
<1>1. UNCHANGED <<reader, pending, sentReads, instance, registry, handlers>>
  BY DEF LookupRuns, LookupReturns, ForgetLookup, ReaderSide
<1>2. lookups[l] \in LookupRecords
  OBVIOUS
<1>3. CASE LookupRuns(l)
  <2>1. CASE lookups' = [lookups EXCEPT ![l].at = "running"] /\ UNCHANGED sharedLookup
    <3> DEFINE row == [lookups[l] EXCEPT !.at = "running"]
    <3>1. lookups' = [lookups EXCEPT ![l] = row] /\ lookups[l].at = "queued"
      BY <1>3, <2>1 DEF LookupRuns
    <3>2. row \in LookupRecords /\ row.asked = lookups[l].asked /\ row.waiters = lookups[l].waiters
      BY <1>2 DEF LookupRecords
    <3> HIDE DEF row
    <3>3. LookupsOnly(l)
      BY <1>1, <2>1, <3>1, <3>2, OneLookupWritten
    <3> QED
      BY <1>1, <1>3, <3>3, LookupKeepsLinks DEF LookupRuns
  <2>2. CASE lookups' = [lookups EXCEPT ![l].at = "done", ![l].good = TRUE] /\ NoLonger(l)
    <3> DEFINE row == [lookups[l] EXCEPT !.at = "done", !.good = TRUE]
    <3>1. lookups' = [lookups EXCEPT ![l] = row]
      BY <2>2
    <3>2. /\ row \in LookupRecords /\ row.asked = lookups[l].asked /\ row.waiters = lookups[l].waiters
          /\ row.at = "done"
      BY <1>2 DEF LookupRecords
    <3> HIDE DEF row
    <3>3. LookupsOnly(l)
      BY <1>1, <2>2, <3>1, <3>2, OneLookupWritten
    <3> QED
      BY <1>1, <1>3, <3>3, LookupKeepsLinks DEF LookupRuns
  <2> QED
    BY <1>3, <2>1, <2>2 DEF LookupRuns
<1>4. CASE LookupReturns(l)
  <2> PICK good \in BOOLEAN : lookups' = [lookups EXCEPT ![l].at = "done", ![l].good = good]
    BY <1>4 DEF LookupReturns
  <2> DEFINE row == [lookups[l] EXCEPT !.at = "done", !.good = good]
  <2>1. lookups' = [lookups EXCEPT ![l] = row] /\ NoLonger(l)
    BY <1>4 DEF LookupReturns
  <2>2. /\ row \in LookupRecords /\ row.asked = lookups[l].asked /\ row.waiters = lookups[l].waiters
        /\ row.at = "done"
    BY <1>2 DEF LookupRecords
  <2> HIDE DEF row
  <2>3. LookupsOnly(l)
    BY <1>1, <2>1, <2>2, OneLookupWritten
  <2> QED
    BY <1>1, <2>3, LookupKeepsLinks
<1>5. CASE ForgetLookup(l)
  <2>1. FreeLookup \in LookupRecords /\ FreeLookup.asked = {} /\ FreeLookup.waiters = {} /\ FreeLookup.at = "free"
    BY DEF FreeLookup, LookupRecords
  <2>2. lookups' = [lookups EXCEPT ![l] = FreeLookup] /\ UNCHANGED sharedLookup
    BY <1>5 DEF ForgetLookup
  <2>3. LookupsOnly(l)
    BY <1>1, <2>1, <2>2, OneLookupWritten
  <2> QED
    BY <1>1, <2>2, <2>3, LookupKeepsLinks
<1> QED
  BY <1>3, <1>4, <1>5

(* The sidecar is killed: the next process knows of no read.                *)
LEMMA RestartKeepsReads ==
  ASSUME ReadsInv, SidecarRestarts
  PROVE  ReadsInv'
<1> USE DEF ReadsInv, ReadsTypeOK
<1>1. /\ UNCHANGED <<reader, pending, sentReads>> /\ instance' = instance + 1
      /\ registry' = [c \in Reads |-> "none"]
      /\ handlers' = [c \in AllReads |-> IF handlers[c] = "none" THEN "none" ELSE "over"]
      /\ lookups' = [l \in Lookups |-> FreeLookup]
      /\ sharedLookup' = [b \in Batches |-> NoLookup]
  BY DEF SidecarRestarts, ReaderSide
<1>2. FreeLookup \in LookupRecords /\ FreeLookup.asked = {} /\ FreeLookup.waiters = {} /\ FreeLookup.at = "free"
  BY DEF FreeLookup, LookupRecords
<1>3. ReadsTypeOK'
  BY <1>1, <1>2 DEF Phases, HandlerPlaces
<1>4. \A c \in Reads : ~Linked(c)'
  BY <1>1, <1>2 DEF Linked
<1>5. AnnouncedFirst' /\ PolledWhileAsking' /\ WaitersWait' /\ LeftUnpolled'
  BY <1>1, <1>2, <1>4
     DEF AnnouncedFirst, PolledWhileAsking, WaitersWait, LeftUnpolled, Unpolled, Busy, AllReads
<1> QED
  BY <1>3, <1>5

(* The invariant is inductive: one group of actions after the other.        *)
LEMMA ReadsStep == ReadsInv /\ [ReadsNext]_readVars => ReadsInv'
<1> SUFFICES ASSUME ReadsInv, [ReadsNext]_readVars PROVE ReadsInv'
  OBVIOUS
<1>1. CASE ClientStep
  BY <1>1, ClientKeepsReads
<1>2. CASE RegistryStep
  BY <1>2, RegistryKeepsReads
<1>3. CASE \E c \in AllReads, b \in Batches : LookUp(c, b)
  BY <1>3, LookUpIsSourceStep, SourceKeepsReads
<1>4. CASE \E c \in AllReads, l \in Lookups : WaiterLeaves(c, l) \/ WaiterResumes(c, l)
  BY <1>4, WaiterIsSourceStep, SourceKeepsReads
<1>5. CASE \E l \in Lookups : LookupRuns(l) \/ LookupReturns(l) \/ ForgetLookup(l)
  BY <1>5, ThreadIsSourceStep, SourceKeepsReads
<1>6. CASE CooldownEnds \/ (\E b \in Batches : BatchExpires(b)) \/ UNCHANGED readVars
  <2>1. /\ UNCHANGED <<reader, pending, sentReads, instance, registry, handlers, lookups, sharedLookup>>
    BY <1>6 DEF CooldownEnds, BatchExpires, ReaderSide, readVars
  <2>2. ReadsTypeOK' /\ WaitersWait'
    BY <2>1 DEF ReadsInv, ReadsTypeOK, WaitersWait
  <2>3. \A c \in Reads : Linked(c)' => Linked(c)
    BY <2>1, LinksStay
  <2>4. SourceStep
    BY <2>1, <2>2, <2>3 DEF SourceStep
  <2> QED
    BY <2>4, SourceKeepsReads
<1>7. CASE SidecarRestarts
  BY <1>7, RestartKeepsReads
<1> QED
  BY <1>1, <1>2, <1>3, <1>4, <1>5, <1>6, <1>7 DEF ReadsNext, ClientStep, RegistryStep

(* DrainedIsQuiet: a worker that has drained its client leaves no thread at *)
(* the provider that one of its reads asked for.                            *)
THEOREM DrainedStaysQuiet == ReadsSpec => []DrainedIsQuiet
<1>1. ReadsInv => DrainedIsQuiet
  <2> SUFFICES ASSUME ReadsInv, reader = "left", NEW l \in Lookups, lookups[l].at = "running",
                      NEW c \in lookups[l].asked
               PROVE  c \in OtherReads
    BY DEF DrainedIsQuiet
  <2>1. c \in AllReads
    BY DEF ReadsInv, ReadsTypeOK, LookupRecords
  <2>2. Linked(c)
    BY DEF Linked
  <2>3. c \notin Reads
    BY <2>2 DEF ReadsInv, LeftUnpolled, Unpolled, PolledWhileAsking
  <2> QED
    BY <2>1, <2>3 DEF AllReads
<1> QED
  BY <1>1, ReadsStart, ReadsStep, PTL DEF ReadsSpec

-----------------------------------------------------------------------------
(* The session manager.                                                     *)


SessionOutcomes == Answers \union {"none"}
HaltRecords == [version : Nat, rev : Nat]
AccountRecords ==
  [version : Nat, on : BOOLEAN, auth : {"not_checked", "authenticated", "auth_required", "provider_blocked"},
   rev : Nat, halt : HaltRecords]
Waits == {"none", "protection", "unanswered", "local", "rejection"}
ClockRecords == [version : Nat, wait : Waits, over : BOOLEAN]
CountRecords == [rev : Nat, started : Nat, verdicts : Nat]
RegistryRecords ==
  [clock : ClockRecords, unanswered : Nat, deferred : BOOLEAN, halted : HaltRecords, count : CountRecords]
ManagerPlaces ==
  {"idle", "restore", "restoring", "look", "clear", "clearToProbe", "ask", "asked", "answered", "persist"}
ManagerRecords == [at : ManagerPlaces, row : AccountRecords, recovers : BOOLEAN, answer : SessionOutcomes]
OfficialRecords ==
  {session \in [state : {"cold", "ready", "auth_required", "blocked", "stale", "authenticating"}, version : Nat,
                age : {"none", "fresh", "idle", "ending"}, by : {"none", "user", "booking", "manager", "nobody"}] :
     session.state = "ready" => session.age # "none"}
DebtRecords == [who : {"booking", "manager"}, durable : BOOLEAN, timed : BOOLEAN]

SessionsTypeOK ==
  /\ railAccount \in AccountRecords /\ prewarm \in RegistryRecords /\ manager \in ManagerRecords
  /\ official \in OfficialRecords /\ owed \subseteq DebtRecords
  /\ saving \in Nat /\ accountUse \in Nat

(* The revision tells the account apart; the manager's row is never ahead.  *)
RowIsOfItsRevision ==
  /\ railAccount.rev >= 1
  /\ railAccount.on => railAccount.version # 0
  /\ manager.at # "idle" => manager.row.version # 0
  /\ manager.row.rev <= railAccount.rev
  /\ manager.at # "idle" /\ railAccount.on /\ manager.row.rev = railAccount.rev =>
       manager.row.version = railAccount.version /\ manager.row.auth = railAccount.auth
  /\ manager.at \in {"look", "persist"} => manager.row.auth \notin Recoverable /\ ~manager.recovers
  /\ manager.at \notin {"idle"} /\ ~manager.recovers => manager.row.auth \notin Recoverable
  /\ manager.at \in {"restore", "restoring"} => manager.recovers /\ manager.row.auth \in Recoverable

Debts == {d \in owed : d.who = "manager"}
(* While the manager asks, it owes nothing; else the wait is running, or the *)
(* halt will start it.                                                      *)
AsksFree ==
  /\ manager.at \in {"ask", "asked", "answered", "clear", "clearToProbe"} => Debts = {}
  /\ Debts # {} => prewarm.unanswered = 0
  /\ Debts # {} /\ manager.at # "idle" => manager.row.rev = railAccount.rev

Running(a) ==
  /\ \A d \in Debts : d.timed
  /\ prewarm.clock = [version |-> a.version, wait |-> "protection", over |-> FALSE]
  /\ a.auth = "auth_required" => Count(prewarm, a.rev).started # 0
ClockLost == prewarm.clock = NoClock /\ \A d \in Debts : d.durable
WaitIsKept ==
  /\ railAccount.on /\ Debts # {} => Running(railAccount) \/ ClockLost
  /\ manager.at \in {"restore", "restoring", "look"} /\ Debts # {} =>
       Running(manager.row) \/ (ClockLost /\ ~manager.recovers /\ prewarm.halted = HaltFence(manager.row))
  /\ railAccount.on /\ (\E d \in Debts : d.durable) => railAccount.auth \notin Recoverable /\ Halted(railAccount)

SessionsInv == SessionsTypeOK /\ RowIsOfItsRevision /\ AsksFree /\ WaitIsKept

-----------------------------------------------------------------------------
(* What stands for nothing is of its type, and has nothing in it.           *)
LEMMA NoneAreRecords ==
  /\ NoHalt \in HaltRecords /\ NoClock \in ClockRecords /\ NoCount \in CountRecords
  /\ NoClock.version = 0 /\ NoClock.over = FALSE /\ NoClock.wait = "none"
  /\ FreshRegistry \in RegistryRecords /\ FreshRegistry.clock = NoClock /\ FreshRegistry.unanswered = 0
  /\ \A rev \in Nat : NoRailAccount(rev) \in AccountRecords /\ NoRailAccount(rev).rev = rev /\ ~NoRailAccount(rev).on
  /\ ManagerIdle \in ManagerRecords /\ ManagerIdle.at = "idle" /\ ManagerIdle.row.rev = 0
  /\ Cold \in OfficialRecords /\ Cold.state = "cold"
BY DEF NoHalt, HaltRecords, NoClock, ClockRecords, NoCount, CountRecords, FreshRegistry, RegistryRecords,
  NoRailAccount, AccountRecords, ManagerIdle, ManagerRecords, Waits, ManagerPlaces, SessionOutcomes, Cold, OfficialRecords

(* What ties a halt to a version and a revision is a record.                *)
LEMMA FencesAreRecords ==
  ASSUME NEW a \in AccountRecords PROVE HaltFence(a) \in HaltRecords
BY DEF HaltFence, AccountRecords, HaltRecords

(* The count of a revision is of that revision.                             *)
LEMMA CountOf ==
  ASSUME NEW reg \in RegistryRecords, NEW rev \in Nat
  PROVE  /\ Count(reg, rev) \in CountRecords /\ Count(reg, rev).rev = rev
         /\ reg.count.rev = rev => Count(reg, rev) = reg.count
<1>1. reg.count \in CountRecords BY DEF RegistryRecords
<1>2. [NoCount EXCEPT !.rev = rev] \in CountRecords /\ [NoCount EXCEPT !.rev = rev].rev = rev
  BY NoneAreRecords DEF CountRecords
<1> QED BY <1>1, <1>2 DEF Count

(* A start that is noted leaves the clock, and the count knows it.          *)
LEMMA StartedIs ==
  ASSUME NEW reg \in RegistryRecords, NEW rev \in Nat
  PROVE  /\ Started(reg, rev) \in RegistryRecords
         /\ Started(reg, rev).clock = reg.clock /\ Started(reg, rev).unanswered = reg.unanswered
         /\ Started(reg, rev).halted = reg.halted
         /\ Count(Started(reg, rev), rev).started # 0
<1> DEFINE c == Count(reg, rev)
          d == [c EXCEPT !.started = IF @ = 0 THEN 1 ELSE @]
<1>1. c \in CountRecords /\ c.rev = rev BY CountOf
<1> HIDE DEF c
<1>2. d \in CountRecords /\ d.rev = rev /\ d.started # 0 BY <1>1 DEF CountRecords
<1>3. Started(reg, rev) = [reg EXCEPT !.count = d] BY DEF Started, c
<1> HIDE DEF d
<1>4. /\ Started(reg, rev) \in RegistryRecords /\ Started(reg, rev).count = d
      /\ Started(reg, rev).clock = reg.clock /\ Started(reg, rev).unanswered = reg.unanswered
      /\ Started(reg, rev).halted = reg.halted
  BY <1>2, <1>3 DEF RegistryRecords
<1>5. Count(Started(reg, rev), rev) = d BY <1>2, <1>4, CountOf
<1> QED BY <1>2, <1>4, <1>5

(* A verdict that is counted leaves the clock and what was started.         *)
LEMMA AttemptedIs ==
  ASSUME NEW reg \in RegistryRecords, NEW rev \in Nat
  PROVE  /\ Attempted(reg, rev) \in RegistryRecords
         /\ Attempted(reg, rev).clock = reg.clock /\ Attempted(reg, rev).unanswered = reg.unanswered
         /\ Attempted(reg, rev).halted = reg.halted
         /\ Count(Attempted(reg, rev), rev).started = Count(reg, rev).started
<1> DEFINE c == Count(reg, rev)
          d == [c EXCEPT !.verdicts = IF @ < RecoveryAttempts THEN @ + 1 ELSE @]
<1>1. c \in CountRecords /\ c.rev = rev BY CountOf
<1>a. Attempted(reg, rev) = [reg EXCEPT !.count = d] BY DEF Attempted, c
<1> HIDE DEF c
<1>2. d \in CountRecords /\ d.rev = rev /\ d.started = c.started BY <1>1 DEF CountRecords
<1> HIDE DEF d
<1>4. /\ Attempted(reg, rev) \in RegistryRecords /\ Attempted(reg, rev).count = d
      /\ Attempted(reg, rev).clock = reg.clock /\ Attempted(reg, rev).unanswered = reg.unanswered
      /\ Attempted(reg, rev).halted = reg.halted
  BY <1>2, <1>a DEF RegistryRecords
<1>5. Count(Attempted(reg, rev), rev) = d BY <1>2, <1>4, CountOf
<1> QED BY <1>2, <1>4, <1>5 DEF c

(* An answer ends the pace of the submission that had none.                 *)
LEMMA SubmissionAnsweredIs ==
  ASSUME NEW reg \in RegistryRecords
  PROVE  /\ SubmissionAnswered(reg) \in RegistryRecords /\ SubmissionAnswered(reg).unanswered = 0
         /\ SubmissionAnswered(reg).halted = reg.halted /\ SubmissionAnswered(reg).count = reg.count
         /\ reg.unanswered = 0 => SubmissionAnswered(reg) = reg
<1>1. NoClock \in ClockRecords BY NoneAreRecords
<1> QED BY <1>1 DEF SubmissionAnswered, RegistryRecords

(* A submission without an answer leaves the halt and the count.            *)
LEMMA UnansweredIs ==
  ASSUME NEW reg \in RegistryRecords, NEW version \in Nat
  PROVE  /\ Unanswered(reg, version) \in RegistryRecords
         /\ Unanswered(reg, version).halted = reg.halted /\ Unanswered(reg, version).count = reg.count
<1>1. NoClock \in ClockRecords BY NoneAreRecords
<1> QED BY <1>1 DEF Unanswered, RegistryRecords

(* To forget the unanswered login of another version leaves the halt and    *)
(* the count.                                                               *)
LEMMA ForgottenIs ==
  ASSUME NEW reg \in RegistryRecords, NEW version \in Nat
  PROVE  /\ Forgotten(reg, version) \in RegistryRecords
         /\ Forgotten(reg, version).halted = reg.halted /\ Forgotten(reg, version).count = reg.count
         /\ reg.unanswered = 0 => Forgotten(reg, version) = reg
BY SubmissionAnsweredIs DEF Forgotten

(* A halt of the account that is taken over leaves the clock and the count. *)
LEMMA RehydratedIs ==
  ASSUME NEW reg \in RegistryRecords, railAccount \in AccountRecords
  PROVE  /\ Rehydrated(reg) \in RegistryRecords
         /\ Rehydrated(reg).clock = reg.clock /\ Rehydrated(reg).unanswered = reg.unanswered
         /\ Rehydrated(reg).count = reg.count
         /\ Halted(railAccount) => Rehydrated(reg).halted = HaltFence(railAccount)
<1>1. HaltFence(railAccount) \in HaltRecords BY FencesAreRecords
<1> QED BY <1>1 DEF Rehydrated, RegistryRecords

(* A clock that starts is all that changes.                                 *)
LEMMA ClockedIs ==
  ASSUME NEW reg \in RegistryRecords, NEW version \in Nat, NEW outcome
  PROVE  /\ Clocked(reg, version, outcome) \in RegistryRecords
         /\ Clocked(reg, version, outcome).clock =
              [version |-> version, wait |-> Wait(reg, version, outcome), over |-> FALSE]
         /\ Clocked(reg, version, outcome).unanswered = reg.unanswered
         /\ Clocked(reg, version, outcome).halted = reg.halted
         /\ Clocked(reg, version, outcome).count = reg.count
<1> DEFINE clock == [version |-> version, wait |-> Wait(reg, version, outcome), over |-> FALSE]
<1>1. clock \in ClockRecords BY DEF ClockRecords, Waits, Wait
<1>2. Clocked(reg, version, outcome) = [reg EXCEPT !.clock = clock] BY DEF Clocked
<1> HIDE DEF clock
<1>3. /\ [reg EXCEPT !.clock = clock] \in RegistryRecords /\ [reg EXCEPT !.clock = clock].clock = clock
      /\ [reg EXCEPT !.clock = clock].unanswered = reg.unanswered
      /\ [reg EXCEPT !.clock = clock].halted = reg.halted /\ [reg EXCEPT !.clock = clock].count = reg.count
  BY <1>1 DEF RegistryRecords
<1> QED BY <1>2, <1>3 DEF clock

(* After a protection verdict its wait begins at once; no outcome changes   *)
(* the count.                                                               *)
LEMMA FinishedIs ==
  ASSUME NEW reg \in RegistryRecords, NEW version \in Nat, NEW outcome \in SessionOutcomes \union {"not_checked"}
  PROVE  /\ Finished(reg, version, outcome) \in RegistryRecords
         /\ Finished(reg, version, outcome).count = reg.count
         /\ outcome = "provider_blocked" =>
              /\ Finished(reg, version, outcome).unanswered = 0
              /\ Finished(reg, version, outcome).clock =
                   [version |-> version, wait |-> "protection", over |-> FALSE]
<1> DEFINE f == Finished(reg, version, outcome)
<1>1. CASE outcome = "authenticated"
  <2>1. NoClock \in ClockRecords BY NoneAreRecords
  <2>2. f = [reg EXCEPT !.clock = NoClock, !.unanswered = 0] BY <1>1 DEF Finished
  <2> HIDE DEF f
  <2>3. f \in RegistryRecords /\ f.count = reg.count BY <2>1, <2>2 DEF RegistryRecords
  <2> QED BY <1>1, <2>3 DEF f
<1>2. CASE outcome = "none"
  BY <1>2 DEF Finished
<1>3. CASE outcome = "failed"
  <2>1. f = Clocked(reg, version, outcome) BY <1>3 DEF Finished
  <2> HIDE DEF f
  <2>2. f \in RegistryRecords /\ f.count = reg.count BY <2>1, ClockedIs
  <2> QED BY <1>3, <2>2 DEF f
<1>4. CASE outcome \notin {"authenticated", "none", "failed"}
  <2> DEFINE answered == SubmissionAnswered(reg)
  <2>1. f = Clocked(answered, version, outcome) BY <1>4 DEF Finished
  <2>2. answered \in RegistryRecords /\ answered.unanswered = 0 /\ answered.count = reg.count
    BY SubmissionAnsweredIs
  <2> HIDE DEF f, answered
  <2>3. /\ f \in RegistryRecords /\ f.count = reg.count /\ f.unanswered = 0
        /\ f.clock = [version |-> version, wait |-> Wait(answered, version, outcome), over |-> FALSE]
    BY <2>1, <2>2, ClockedIs
  <2>4. outcome = "provider_blocked" => Wait(answered, version, outcome) = "protection" BY DEF Wait
  <2> QED BY <2>3, <2>4 DEF f
<1> QED BY <1>1, <1>2, <1>3, <1>4

-----------------------------------------------------------------------------
(* The manager decides to ask, or goes idle.                                *)
LEMMA DecideIs ==
  ASSUME NEW reg \in RegistryRecords, manager \in ManagerRecords, Decide(reg)
  PROVE  /\ prewarm' \in RegistryRecords
         /\ manager' \in ManagerRecords
         /\ manager' = ManagerIdle \/ manager' = [manager EXCEPT !.at = "ask"]
<1>1. Mine \in Nat BY DEF Mine, ManagerRecords, AccountRecords
<1>2. Forgotten(reg, Mine) \in RegistryRecords BY <1>1, ForgottenIs
<1>3. Finished(reg, Mine, "provider_blocked") \in RegistryRecords
  BY <1>1, FinishedIs DEF SessionOutcomes, Answers
<1>4. ManagerIdle \in ManagerRecords BY NoneAreRecords
<1>5. [manager EXCEPT !.at = "ask"] \in ManagerRecords BY DEF ManagerRecords, ManagerPlaces
<1> QED BY <1>2, <1>3, <1>4, <1>5 DEF Decide, Goes, GoesIdle

(* What is owed stays owed by the same; only whether it is timed may        *)
(* change.                                                                  *)
LEMMA StillOwedIs ==
  ASSUME owed \subseteq DebtRecords
  PROVE  /\ StillOwed(owed) \subseteq DebtRecords
         /\ prewarm'.clock = prewarm.clock => StillOwed(owed) = owed
         /\ prewarm'.clock # prewarm.clock => \A d \in StillOwed(owed) : d.timed = TimedBy(prewarm'.clock)
         /\ \A d \in StillOwed(owed) : \E e \in owed : e.who = d.who /\ e.durable = d.durable
<1>1. CASE prewarm'.clock = prewarm.clock BY <1>1 DEF StillOwed
<1>2. CASE prewarm'.clock # prewarm.clock
  <2> DEFINE t == TimedBy(prewarm'.clock)
  <2>1. t \in BOOLEAN BY DEF TimedBy
  <2>2. StillOwed(owed) = {[d EXCEPT !.timed = t] : d \in owed} BY <1>2 DEF StillOwed
  <2> HIDE DEF t
  <2>3. \A d \in owed : LET e == [d EXCEPT !.timed = t]
                        IN e \in DebtRecords /\ e.timed = t /\ e.who = d.who /\ e.durable = d.durable
    BY <2>1 DEF DebtRecords
  <2>4. StillOwed(owed) \subseteq DebtRecords BY <2>2, <2>3
  <2>5. \A d \in StillOwed(owed) : d.timed = t BY <2>2, <2>3
  <2>6. \A d \in StillOwed(owed) : \E e \in owed : e.who = d.who /\ e.durable = d.durable BY <2>2, <2>3
  <2> QED BY <1>2, <2>4, <2>5, <2>6 DEF t
<1> QED BY <1>1, <1>2

(* A debt says who owes, and where its wait is kept.                        *)
LEMMA DebtsAreRecords ==
  /\ \A who \in {"booking", "manager"}, b, c \in BOOLEAN : Debt(who, b, c) \in DebtRecords
  /\ \A who \in {"booking", "manager"}, b, c \in BOOLEAN :
       Debt(who, b, c).who = who /\ Debt(who, b, c).durable = b /\ Debt(who, b, c).timed = c
BY DEF Debt, DebtRecords

(* A status that is written makes a new revision of the same version.       *)
LEMMA StatusWrittenIs ==
  ASSUME railAccount \in AccountRecords, NEW status \in {"authenticated", "auth_required", "provider_blocked"},
         StatusWritten(status)
  PROVE  /\ railAccount' \in AccountRecords
         /\ railAccount'.version = railAccount.version /\ railAccount'.on = railAccount.on
         /\ railAccount'.rev = railAccount.rev + 1
<1> DEFINE halt == IF status = "authenticated" THEN NoHalt ELSE railAccount.halt
<1>1. halt \in HaltRecords BY NoneAreRecords DEF AccountRecords
<1>2. railAccount' = [railAccount EXCEPT !.auth = status, !.rev = railAccount.rev + 1, !.halt = halt]
  BY DEF StatusWritten
<1> HIDE DEF halt
<1> DEFINE rev == railAccount.rev + 1
<1>3. railAccount' = [railAccount EXCEPT !.auth = status, !.rev = rev, !.halt = halt] BY <1>2
<1>4. rev \in Nat BY DEF AccountRecords
<1>5. status \in {"not_checked", "authenticated", "auth_required", "provider_blocked"} OBVIOUS
<1> HIDE DEF rev
<1>6. railAccount' \in AccountRecords BY <1>1, <1>3, <1>4, <1>5 DEF AccountRecords
<1>7. railAccount'.rev = rev BY <1>3 DEF AccountRecords
<1>8. railAccount'.version = railAccount.version /\ railAccount'.on = railAccount.on BY <1>3 DEF AccountRecords
<1> QED BY <1>6, <1>7, <1>8 DEF rev

(* No answer leaves the sidecar in a login, and a login is of who began it. *)
LEMMA OfficialSteps ==
  ASSUME official \in OfficialRecords, manager \in ManagerRecords
  PROVE  /\ \A answer \in Answers : After(answer) \in OfficialRecords /\ After(answer).state # "authenticating"
         /\ \A v \in Nat : Ready(v) \in OfficialRecords
         /\ \A by \in {"user", "booking", "manager"}, v \in Nat :
              LoginBegins(by, v) => official' \in OfficialRecords /\ official'.by = by
         /\ [official EXCEPT !.by = "nobody"] \in OfficialRecords
         /\ [official EXCEPT !.by = "nobody"].by = "nobody"
<1>1. \A v \in Nat : Ready(v) \in OfficialRecords /\ Ready(v).state # "authenticating" BY DEF Ready, OfficialRecords
<1>2. /\ [official EXCEPT !.state = "auth_required", !.by = "none"] \in OfficialRecords
      /\ [official EXCEPT !.state = "blocked", !.by = "none"] \in OfficialRecords
      /\ [official EXCEPT !.state = "stale", !.by = "none"] \in OfficialRecords
      /\ [official EXCEPT !.state = "auth_required", !.by = "none"].state = "auth_required"
      /\ [official EXCEPT !.state = "blocked", !.by = "none"].state = "blocked"
      /\ [official EXCEPT !.state = "stale", !.by = "none"].state = "stale"
  BY DEF OfficialRecords
<1>3. official.version \in Nat BY DEF OfficialRecords
<1>4. \A answer \in Answers : After(answer) \in OfficialRecords /\ After(answer).state # "authenticating"
  BY <1>1, <1>2, <1>3 DEF After, Answers
<1>5. \A by \in {"user", "booking", "manager"}, v \in Nat :
              LoginBegins(by, v) => official' \in OfficialRecords /\ official'.by = by
  BY DEF LoginBegins, OfficialRecords
<1>6. /\ [official EXCEPT !.by = "nobody"] \in OfficialRecords
      /\ [official EXCEPT !.by = "nobody"].by = "nobody"
  BY DEF OfficialRecords
<1> QED BY <1>1, <1>4, <1>5, <1>6

-----------------------------------------------------------------------------
(* Only a verified login is written down.                                   *)
LEMMA StatusAfterIs ==
  ASSUME railAccount \in AccountRecords, NEW outcome, StatusAfter(outcome)
  PROVE  /\ railAccount' \in AccountRecords
         /\ outcome = "authenticated" =>
              /\ railAccount'.version = railAccount.version /\ railAccount'.on = railAccount.on
              /\ railAccount'.rev = railAccount.rev + 1
         /\ outcome # "authenticated" => railAccount' = railAccount
         /\ outcome \in {"authenticated", "not_checked", "failed"}
<1>1. CASE outcome = "authenticated"
  <2>1. StatusWritten("authenticated") BY <1>1 DEF StatusAfter
  <2> QED BY <1>1, <2>1, StatusWrittenIs
<1>2. CASE outcome # "authenticated" BY <1>2 DEF StatusAfter
<1> QED BY <1>1, <1>2

(* A login of the recovery counts as started, and leaves the clock.         *)
LEMMA CountedIs ==
  ASSUME NEW reg \in RegistryRecords, NEW answer, manager \in ManagerRecords
  PROVE  /\ Counted(reg, answer) \in RegistryRecords
         /\ Counted(reg, answer).clock = reg.clock /\ Counted(reg, answer).unanswered = reg.unanswered
         /\ manager.recovers => Count(Counted(reg, answer), manager.row.rev).started # 0
<1> DEFINE rev == manager.row.rev
<1>1. rev \in Nat BY DEF ManagerRecords, AccountRecords
<1>2. manager.recovers \in BOOLEAN BY DEF ManagerRecords
<1>3. Counted(reg, answer) \in {reg, Started(reg, rev), Attempted(Started(reg, rev), rev), Attempted(reg, rev)} BY DEF Counted
<1>4. manager.recovers => Counted(reg, answer) \in {Started(reg, rev), Attempted(Started(reg, rev), rev)} BY DEF Counted
<1> DEFINE st == Started(reg, rev)
<1> HIDE DEF rev
<1>5. /\ st \in RegistryRecords /\ st.clock = reg.clock /\ st.unanswered = reg.unanswered
      /\ Count(st, rev).started # 0
  BY <1>1, StartedIs
<1> HIDE DEF st
<1>6. /\ Attempted(st, rev) \in RegistryRecords /\ Attempted(st, rev).clock = reg.clock
      /\ Attempted(st, rev).unanswered = reg.unanswered
      /\ Count(Attempted(st, rev), rev).started # 0
  BY <1>1, <1>5, AttemptedIs
<1>7. /\ Attempted(reg, rev) \in RegistryRecords /\ Attempted(reg, rev).clock = reg.clock
      /\ Attempted(reg, rev).unanswered = reg.unanswered
  BY <1>1, AttemptedIs
<1>8. /\ Counted(reg, answer) \in RegistryRecords
      /\ Counted(reg, answer).clock = reg.clock /\ Counted(reg, answer).unanswered = reg.unanswered
  BY <1>3, <1>5, <1>6, <1>7 DEF st
<1>9. manager.recovers => Count(Counted(reg, answer), rev).started # 0
  BY <1>4, <1>5, <1>6 DEF st
<1> QED BY <1>8, <1>9 DEF rev

(* After protection the wait for the manager's version runs, and a new debt *)
(* is timed by it.                                                          *)
LEMMA ConcludeIs ==
  ASSUME SessionsTypeOK, NEW answer \in SessionOutcomes \union {"not_checked"}, NEW kind,
         ConcludePrewarm(answer, kind)
  PROVE  /\ prewarm' \in RegistryRecords
         /\ answer = "provider_blocked" =>
              /\ prewarm'.unanswered = 0
              /\ prewarm'.clock = [version |-> Mine, wait |-> "protection", over |-> FALSE]
         /\ manager.recovers => Count(prewarm', manager.row.rev).started # 0
         /\ \/ manager' = ManagerIdle
            \/ ~manager.recovers /\ manager' = [manager EXCEPT !.at = "persist"]
         /\ manager' \in ManagerRecords
         /\ owed' \subseteq DebtRecords
         /\ \A d \in owed' : d.who = "manager" =>
              \/ \E e \in owed : e.who = "manager"
              \/ /\ answer = "provider_blocked" /\ railAccount.rev = manager.row.rev
                 /\ d.durable = FALSE /\ d.timed = TRUE
<1>t. /\ prewarm \in RegistryRecords /\ manager \in ManagerRecords /\ owed \subseteq DebtRecords
  BY DEF SessionsTypeOK
<1>m. Mine \in Nat /\ manager.row \in AccountRecords /\ manager.row.rev \in Nat
  BY <1>t DEF ManagerRecords, AccountRecords, Mine
<1> DEFINE noted == IF kind = "unanswered" THEN Unanswered(prewarm, Mine) ELSE SubmissionAnswered(prewarm)
           finished == Finished(noted, Mine, answer)
           ended == Counted(finished, answer)
<1>1. noted \in RegistryRecords BY <1>t, <1>m, UnansweredIs, SubmissionAnsweredIs
<1>c. /\ prewarm' = IF ProtectsRow(answer) THEN [ended EXCEPT !.halted = HaltFence(manager.row)] ELSE ended
      /\ IF ProtectsRow(answer) THEN Goes("persist") ELSE GoesIdle
      /\ owed' = IF answer = "authenticated" THEN {}
                 ELSE StillOwed(owed) \union
                      (IF answer = "provider_blocked" /\ railAccount.rev = manager.row.rev
                         THEN {Debt("manager", FALSE, TRUE)} ELSE {})
  BY DEF ConcludePrewarm
<1> HIDE DEF noted
<1>2. /\ finished \in RegistryRecords
      /\ answer = "provider_blocked" => finished.unanswered = 0
      /\ answer = "provider_blocked" => finished.clock = [version |-> Mine, wait |-> "protection", over |-> FALSE]
  BY <1>1, <1>m, FinishedIs
<1> HIDE DEF finished
<1>3. /\ ended \in RegistryRecords /\ ended.clock = finished.clock /\ ended.unanswered = finished.unanswered
      /\ manager.recovers => Count(ended, manager.row.rev).started # 0
  BY <1>2, <1>t, CountedIs
<1> HIDE DEF ended
<1>4. HaltFence(manager.row) \in HaltRecords BY <1>m, FencesAreRecords
<1> DEFINE halted == [ended EXCEPT !.halted = HaltFence(manager.row)]
<1>5. /\ halted \in RegistryRecords /\ halted.clock = ended.clock /\ halted.unanswered = ended.unanswered
      /\ halted.count = ended.count
  BY <1>3, <1>4 DEF RegistryRecords
<1> HIDE DEF halted
<1>6. prewarm' \in RegistryRecords /\ prewarm'.clock = finished.clock /\ prewarm'.unanswered = finished.unanswered
  BY <1>3, <1>5, <1>c DEF halted
<1>7. manager.recovers => Count(prewarm', manager.row.rev).started # 0
  BY <1>3, <1>c DEF ProtectsRow
<1>8. /\ \/ manager' = ManagerIdle
         \/ ~manager.recovers /\ manager' = [manager EXCEPT !.at = "persist"]
      /\ manager' \in ManagerRecords
  <2>1. CASE ProtectsRow(answer)
    <3>1. manager' = [manager EXCEPT !.at = "persist"] BY <2>1, <1>c DEF Goes
    <3>2. manager' \in ManagerRecords BY <3>1, <1>t DEF ManagerRecords, ManagerPlaces
    <3> QED BY <2>1, <3>1, <3>2 DEF ProtectsRow
  <2>2. CASE ~ProtectsRow(answer)
    BY <2>2, <1>c, NoneAreRecords DEF GoesIdle
  <2> QED BY <2>1, <2>2
<1>9. Debt("manager", FALSE, TRUE) \in DebtRecords /\ Debt("manager", FALSE, TRUE).durable = FALSE
      /\ Debt("manager", FALSE, TRUE).timed = TRUE
  BY DebtsAreRecords
<1>10. StillOwed(owed) \subseteq DebtRecords /\ \A d \in StillOwed(owed) : \E e \in owed : e.who = d.who
  BY <1>t, StillOwedIs
<1>11. owed' \subseteq DebtRecords BY <1>9, <1>10, <1>c
<1>12. \A d \in owed' : d.who = "manager" =>
              \/ \E e \in owed : e.who = "manager"
              \/ /\ answer = "provider_blocked" /\ railAccount.rev = manager.row.rev
                 /\ d.durable = FALSE /\ d.timed = TRUE
  <2> SUFFICES ASSUME NEW d \in owed', d.who = "manager"
      PROVE \/ \E e \in owed : e.who = "manager"
            \/ /\ answer = "provider_blocked" /\ railAccount.rev = manager.row.rev
               /\ d.durable = FALSE /\ d.timed = TRUE
    OBVIOUS
  <2>1. CASE d \in StillOwed(owed) BY <2>1, <1>10
  <2>2. CASE d \notin StillOwed(owed)
    <3>1. answer = "provider_blocked" /\ railAccount.rev = manager.row.rev /\ d = Debt("manager", FALSE, TRUE)
      BY <2>2, <1>c
    <3> QED BY <3>1, <1>9
  <2> QED BY <2>1, <2>2
<1> QED BY <1>2, <1>6, <1>7, <1>8, <1>11, <1>12

-----------------------------------------------------------------------------
(* The manager stays a manager, wherever it goes.                           *)
LEMMA ManagerGoes ==
  ASSUME manager \in ManagerRecords
  PROVE  /\ \A there \in ManagerPlaces :
              /\ [manager EXCEPT !.at = there] \in ManagerRecords
              /\ [manager EXCEPT !.at = there].at = there
              /\ [manager EXCEPT !.at = there].row = manager.row
              /\ [manager EXCEPT !.at = there].recovers = manager.recovers
         /\ \A answer \in SessionOutcomes :
              /\ [manager EXCEPT !.at = "answered", !.answer = answer] \in ManagerRecords
              /\ [manager EXCEPT !.at = "answered", !.answer = answer].at = "answered"
              /\ [manager EXCEPT !.at = "answered", !.answer = answer].row = manager.row
              /\ [manager EXCEPT !.at = "answered", !.answer = answer].recovers = manager.recovers
<1>1. "answered" \in ManagerPlaces BY DEF ManagerPlaces
<1> QED BY <1>1 DEF ManagerRecords

(* Every variable has its type at the start.                                *)
LEMMA SessionsStartTyped ==
  SessionsInit => SessionsTypeOK
<1> SUFFICES ASSUME SessionsInit PROVE SessionsTypeOK OBVIOUS
<1>1. railAccount \in AccountRecords BY NoneAreRecords DEF SessionsInit, AccountRecords
<1> QED BY <1>1, NoneAreRecords DEF SessionsInit, SessionsTypeOK

(* What the steps beside the manager do: nothing it relies on, or they write *)
(* the account and owe it a wait of their own, or none.                      *)
BesideStep ==
  \/ SessionAges \/ CooldownRunsOut
  \/ \E answer \in Answers : OrphanLoginEnds(answer)
  \/ BeginSaving \/ BeginBooking
  \/ \E answer \in Answers, on \in BOOLEAN : EndSaving(answer, on)
  \/ \E answer \in Answers : EndBooking(answer)

(* What goes on beside the manager leaves it, the clock and the count; a    *)
(* new revision owes the manager nothing.                                   *)
LEMMA BesideIs ==
  ASSUME SessionsTypeOK, BesideStep
  PROVE  /\ SessionsTypeOK'
         /\ manager' = manager
         /\ prewarm'.clock = prewarm.clock /\ prewarm'.unanswered = prewarm.unanswered
         /\ prewarm'.halted = prewarm.halted /\ prewarm'.count = prewarm.count
         /\ ~Submits
         /\ \/ railAccount' = railAccount /\ owed' = owed
            \/ /\ railAccount'.rev = railAccount.rev + 1
               /\ railAccount'.on => railAccount'.version # 0 \/ (railAccount.on /\ railAccount'.version = railAccount.version)
               /\ \A d \in owed' : d.who # "manager"
<1>t. /\ railAccount \in AccountRecords /\ prewarm \in RegistryRecords /\ manager \in ManagerRecords
      /\ official \in OfficialRecords /\ owed \subseteq DebtRecords
      /\ saving \in Nat /\ accountUse \in Nat
  BY DEF SessionsTypeOK
<1>v. railAccount.version \in Nat /\ railAccount.rev \in Nat BY <1>t DEF AccountRecords
<1>e. \A by, answer : LoginEnds(by, answer) /\ answer \in Answers =>
        official' \in OfficialRecords /\ official'.state # "authenticating"
  BY <1>t, OfficialSteps DEF LoginEnds
<1>a. ASSUME NEW on \in BOOLEAN, SaveAccount(on)
      PROVE  /\ railAccount' \in AccountRecords /\ owed' = {} /\ railAccount'.rev = railAccount.rev + 1
             /\ railAccount'.version = saving
  <2>1. railAccount' = [version |-> saving, on |-> on, auth |-> "authenticated",
                        rev |-> railAccount.rev + 1, halt |-> NoHalt] /\ owed' = {}
    BY <1>a DEF SaveAccount
  <2> QED BY <2>1, <1>t, <1>v, NoneAreRecords DEF AccountRecords
<1>1. CASE SessionAges
  <2>1. official.state = "ready" /\ official.age \in {"fresh", "idle", "ending"}
    BY <1>1, <1>t DEF SessionAges, OfficialRecords
  <2>2. /\ official.age = "fresh" => official' = [official EXCEPT !.age = "idle"]
        /\ official.age = "idle" => official' = [official EXCEPT !.age = "ending"]
        /\ official.age = "ending" => official' = [official EXCEPT !.state = "stale", !.age = "none"]
    BY <1>1 DEF SessionAges
  <2>3. official.age = "fresh" => official' \in OfficialRecords /\ official'.state # "authenticating"
    BY <2>1, <2>2, <1>t DEF OfficialRecords
  <2>4. official.age = "idle" => official' \in OfficialRecords /\ official'.state # "authenticating"
    BY <2>1, <2>2, <1>t DEF OfficialRecords
  <2>5. official.age = "ending" => official' \in OfficialRecords /\ official'.state # "authenticating"
    BY <2>1, <2>2, <1>t DEF OfficialRecords
  <2>6. UNCHANGED <<railAccount, prewarm, manager, saving, accountUse, owed>> BY <1>1 DEF SessionAges
  <2> QED BY <2>1, <2>3, <2>4, <2>5, <2>6, <1>t DEF SessionsTypeOK, Submits
<1>2. CASE CooldownRunsOut
  <2>1. prewarm' \in RegistryRecords /\ prewarm'.clock = prewarm.clock /\ prewarm'.unanswered = prewarm.unanswered
        /\ prewarm'.halted = prewarm.halted /\ prewarm'.count = prewarm.count
    BY <1>2, <1>t DEF CooldownRunsOut, RegistryRecords
  <2>2. UNCHANGED <<railAccount, official, manager, saving, accountUse, owed>> BY <1>2 DEF CooldownRunsOut
  <2> QED BY <2>1, <2>2, <1>t DEF SessionsTypeOK, Submits
<1>3. CASE \E answer \in Answers : OrphanLoginEnds(answer)
  <2>1. PICK answer \in Answers : OrphanLoginEnds(answer) BY <1>3
  <2>2. official' \in OfficialRecords /\ official'.state # "authenticating" BY <2>1, <1>e DEF OrphanLoginEnds
  <2>3. UNCHANGED <<railAccount, prewarm, manager, saving, accountUse, owed>> BY <2>1 DEF OrphanLoginEnds
  <2> QED BY <2>2, <2>3, <1>t DEF SessionsTypeOK, Submits
<1>4. CASE BeginSaving
  <2>1. official' \in OfficialRecords /\ official'.by = "user" BY <1>4, <1>t, <1>v, OfficialSteps DEF BeginSaving
  <2>2. UNCHANGED <<railAccount, prewarm, manager, accountUse, owed>> /\ saving' \in Nat BY <1>4, <1>v DEF BeginSaving
  <2> QED BY <2>1, <2>2, <1>t DEF SessionsTypeOK, Submits
<1>5. CASE BeginBooking
  <2>1. official' \in OfficialRecords /\ official'.by = "booking" BY <1>5, <1>t, <1>v, OfficialSteps DEF BeginBooking
  <2>2. UNCHANGED <<railAccount, prewarm, manager, saving, owed>> /\ accountUse' \in Nat BY <1>5, <1>v DEF BeginBooking
  <2> QED BY <2>1, <2>2, <1>t DEF SessionsTypeOK, Submits
<1>6. CASE \E answer \in Answers, on \in BOOLEAN : EndSaving(answer, on)
  <2>1. PICK answer \in Answers, on \in BOOLEAN : EndSaving(answer, on) BY <1>6
  <2>2. official' \in OfficialRecords /\ official'.state # "authenticating" BY <2>1, <1>e DEF EndSaving
  <2>3. UNCHANGED <<prewarm, manager, accountUse>> /\ saving' = 0 BY <2>1 DEF EndSaving
  <2>4. \/ railAccount' = railAccount /\ owed' = owed
        \/ SaveAccount(on) /\ saving = railAccount.version + 1
    BY <2>1 DEF EndSaving
  <2>5. CASE railAccount' = railAccount /\ owed' = owed
    BY <2>2, <2>3, <2>5, <1>t DEF SessionsTypeOK, Submits
  <2>6. CASE SaveAccount(on) /\ saving = railAccount.version + 1
    <3>1. /\ railAccount' \in AccountRecords /\ owed' = {} /\ railAccount'.rev = railAccount.rev + 1
          /\ railAccount'.version # 0
      BY <2>6, <1>a, <1>v
    <3> QED BY <2>2, <2>3, <3>1, <1>t DEF SessionsTypeOK, Submits
  <2> QED BY <2>4, <2>5, <2>6
<1>7. CASE \E answer \in Answers : EndBooking(answer)
  <2>1. PICK answer \in Answers : EndBooking(answer) BY <1>7
  <2>2. official' \in OfficialRecords /\ official'.state # "authenticating" BY <2>1, <1>e DEF EndBooking
  <2>3. UNCHANGED <<prewarm, manager, saving>> /\ accountUse' = 0 BY <2>1 DEF EndBooking
  <2>4. \/ railAccount' = railAccount /\ owed' = owed
        \/ /\ answer \in Recoverable /\ StatusWritten(answer)
           /\ owed' = IF answer = "provider_blocked" THEN {Debt("booking", TRUE, FALSE)} ELSE {}
    BY <2>1 DEF EndBooking, BookingReports
  <2>5. CASE railAccount' = railAccount /\ owed' = owed
    BY <2>2, <2>3, <2>5, <1>t DEF SessionsTypeOK, Submits
  <2>6. CASE /\ answer \in Recoverable /\ StatusWritten(answer)
             /\ owed' = IF answer = "provider_blocked" THEN {Debt("booking", TRUE, FALSE)} ELSE {}
    <3>1. /\ railAccount' \in AccountRecords /\ railAccount'.rev = railAccount.rev + 1
          /\ railAccount'.version = railAccount.version /\ railAccount'.on = railAccount.on
      BY <2>6, <1>t, StatusWrittenIs DEF Recoverable
    <3>2. owed' \subseteq DebtRecords /\ \A d \in owed' : d.who # "manager" BY <2>6, DebtsAreRecords
    <3> QED BY <2>2, <2>3, <3>1, <3>2, <1>t DEF SessionsTypeOK, Submits
  <2> QED BY <2>4, <2>5, <2>6
<1> QED BY <1>1, <1>2, <1>3, <1>4, <1>5, <1>6, <1>7 DEF BesideStep

-----------------------------------------------------------------------------
(* Who owes nothing may ask, and has nothing to wait for.                   *)
LEMMA NoDebtIsFree ==
  ASSUME Debts' = {} PROVE AsksFree' /\ WaitIsKept'
<1>1. AsksFree' BY DEF AsksFree
<1>2. WaitIsKept' BY DEF WaitIsKept
<1> QED BY <1>1, <1>2

(* What goes on beside the manager keeps the wait.                          *)
LEMMA BesideKeeps ==
  ASSUME SessionsInv, BesideStep PROVE SessionsInv'
<1> USE DEF SessionsInv
<1>1. /\ SessionsTypeOK' /\ manager' = manager
      /\ prewarm'.clock = prewarm.clock /\ prewarm'.unanswered = prewarm.unanswered
      /\ prewarm'.halted = prewarm.halted /\ prewarm'.count = prewarm.count
      /\ \/ railAccount' = railAccount /\ owed' = owed
         \/ /\ railAccount'.rev = railAccount.rev + 1
            /\ railAccount'.on => railAccount'.version # 0 \/ (railAccount.on /\ railAccount'.version = railAccount.version)
            /\ \A d \in owed' : d.who # "manager"
  BY BesideIs
<1>2. CASE railAccount' = railAccount /\ owed' = owed
  <2>1. RowIsOfItsRevision' BY <1>1, <1>2 DEF RowIsOfItsRevision
  <2>2. Debts' = Debts BY <1>2 DEF Debts
  <2>3. AsksFree' BY <1>1, <1>2, <2>2 DEF AsksFree
  <2>4. \A rev : Count(prewarm, rev)' = Count(prewarm, rev) BY <1>1 DEF Count
  <2>5. /\ Running(railAccount)' = Running(railAccount) /\ Running(manager.row)' = Running(manager.row)
        /\ ClockLost' = ClockLost
    BY <1>1, <1>2, <2>2, <2>4 DEF Running, ClockLost
  <2>6. WaitIsKept' BY <1>1, <1>2, <2>2, <2>5 DEF WaitIsKept
  <2> QED BY <1>1, <2>1, <2>3, <2>6
<1>3. CASE /\ railAccount'.rev = railAccount.rev + 1
           /\ railAccount'.on => railAccount'.version # 0 \/ (railAccount.on /\ railAccount'.version = railAccount.version)
           /\ \A d \in owed' : d.who # "manager"
  <2>1. RowIsOfItsRevision'
    <3>1. railAccount.rev \in Nat /\ manager.row.rev \in Nat
      BY DEF SessionsTypeOK, AccountRecords, ManagerRecords
    <3> QED BY <1>1, <1>3, <3>1 DEF RowIsOfItsRevision
  <2>2. Debts' = {} BY <1>3 DEF Debts
  <2> QED BY <1>1, <2>1, <2>2, NoDebtIsFree
<1> QED BY <1>1, <1>2, <1>3

(* A manager that goes on keeps the row it read.                            *)
LEMMA RowGoes ==
  ASSUME SessionsInv, railAccount' = railAccount, manager.at # "idle",
         manager'.row = manager.row, manager'.recovers = manager.recovers,
         manager'.at \in ManagerPlaces \ {"restore", "look"},
         manager'.at = "restoring" => manager.at = "restore",
         manager'.at = "persist" => ~manager.recovers
  PROVE  RowIsOfItsRevision'
BY DEF SessionsInv, RowIsOfItsRevision

(* A manager that is idle relies on no row.                                 *)
LEMMA RowIdle ==
  ASSUME SessionsInv, railAccount' = railAccount, manager' = ManagerIdle
  PROVE  RowIsOfItsRevision'
<1>1. railAccount.rev \in Nat BY DEF SessionsInv, SessionsTypeOK, AccountRecords
<1> QED BY <1>1, NoneAreRecords DEF SessionsInv, RowIsOfItsRevision

(* A manager that leaves with the clock as it was leaves the wait as it     *)
(* was.                                                                     *)
LEMMA IdleKeeps ==
  ASSUME SessionsInv, railAccount' = railAccount, manager' = ManagerIdle,
         prewarm'.clock = prewarm.clock, prewarm'.unanswered = prewarm.unanswered,
         Count(prewarm', railAccount.rev).started = 0 => Count(prewarm, railAccount.rev).started = 0,
         Debts' = Debts
  PROVE  RowIsOfItsRevision' /\ AsksFree' /\ WaitIsKept'
<1>1. RowIsOfItsRevision' BY RowIdle
<1>2. manager'.at = "idle" BY NoneAreRecords
<1>3. AsksFree' BY <1>2 DEF AsksFree, SessionsInv
<1>4. Running(railAccount) => Running(railAccount)'
  <2>1. Count(prewarm, railAccount.rev)' = Count(prewarm', railAccount.rev) BY DEF Count
  <2> QED BY <2>1 DEF Running
<1>5. ClockLost' = ClockLost BY DEF ClockLost
<1>6. WaitIsKept' BY <1>2, <1>4, <1>5 DEF WaitIsKept, SessionsInv
<1> QED BY <1>1, <1>3, <1>6

(* A decision of a manager that owes a wait never asks for a login.         *)
LEMMA DecideWaits ==
  ASSUME SessionsInv, manager.at \in {"restore", "look"}, Decide(prewarm), owed' = StillOwed(owed),
         railAccount' = railAccount
  PROVE  RowIsOfItsRevision' /\ AsksFree' /\ WaitIsKept'
<1>t. /\ railAccount \in AccountRecords /\ prewarm \in RegistryRecords /\ manager \in ManagerRecords
      /\ owed \subseteq DebtRecords
  BY DEF SessionsInv, SessionsTypeOK
<1>m. /\ Mine \in Nat /\ Mine = manager.row.version /\ manager.row \in AccountRecords
      /\ prewarm.clock \in ClockRecords
  BY <1>t DEF ManagerRecords, AccountRecords, Mine, RegistryRecords
<1>1. manager' \in ManagerRecords /\ (manager' = ManagerIdle \/ manager' = [manager EXCEPT !.at = "ask"])
  BY <1>t, DecideIs
<1>2. RowIsOfItsRevision'
  <2>1. CASE manager' = ManagerIdle BY <2>1, RowIdle
  <2>2. CASE manager' = [manager EXCEPT !.at = "ask"]
    <3>1. manager'.at = "ask" /\ manager'.row = manager.row /\ manager'.recovers = manager.recovers
      BY <2>2, <1>t, ManagerGoes DEF ManagerPlaces
    <3> QED BY <3>1, RowGoes DEF ManagerPlaces
  <2> QED BY <1>1, <2>1, <2>2
<1>3. CASE Debts = {}
  <2>1. Debts' = {} BY <1>3, <1>t, StillOwedIs DEF Debts
  <2> QED BY <1>2, <2>1, NoDebtIsFree
<1>4. CASE Debts # {} /\ Running(manager.row)
  <2>1. HasClock(prewarm, Mine) /\ ~prewarm.clock.over BY <1>4, <1>m DEF Running, HasClock
  <2>2. prewarm.unanswered = 0 /\ manager.row.rev = railAccount.rev BY <1>4 DEF SessionsInv, AsksFree
  <2>3. Forgotten(prewarm, Mine) = prewarm BY <2>2, <1>t, <1>m, ForgottenIs
  <2>4. ~Bypasses(prewarm)
    <3>1. manager.recovers => manager.row.auth \in Recoverable
      BY DEF SessionsInv, RowIsOfItsRevision
    <3> QED BY <3>1, <1>4 DEF Bypasses, Running, Recoverable
  <2>5. ~AdmitsPrewarm(prewarm, Mine, Bypasses(prewarm)) BY <2>1, <2>4 DEF AdmitsPrewarm
  <2>6. ~StartsWait(prewarm) BY <2>1 DEF StartsWait
  <2>7. prewarm' = prewarm /\ manager' = ManagerIdle
    BY <2>3, <2>5, <2>6 DEF Decide, GoesIdle
  <2>8. owed' = owed BY <2>7, <1>t, StillOwedIs
  <2>9. Debts' = Debts BY <2>8 DEF Debts
  <2> QED BY <2>7, <2>9, IdleKeeps
<1>5. CASE Debts # {} /\ ClockLost /\ ~manager.recovers /\ prewarm.halted = HaltFence(manager.row)
  <2>1. ~HasClock(prewarm, Mine)
    <3>1. Mine # 0 BY <1>m DEF SessionsInv, RowIsOfItsRevision
    <3>2. prewarm.clock.version = 0 BY <1>5, NoneAreRecords DEF ClockLost
    <3> QED BY <3>1, <3>2 DEF HasClock
  <2>2. StartsWait(prewarm) BY <2>1, <1>5 DEF StartsWait
  <2>3. prewarm' = Finished(prewarm, Mine, "provider_blocked") /\ manager' = ManagerIdle
    BY <2>2 DEF Decide, GoesIdle
  <2>4. prewarm'.unanswered = 0 /\ prewarm'.clock = [version |-> Mine, wait |-> "protection", over |-> FALSE]
    BY <2>3, <1>t, <1>m, FinishedIs DEF SessionOutcomes, Answers
  <2>5. prewarm'.clock # prewarm.clock BY <2>1, <2>4 DEF HasClock
  <2>6. TimedBy(prewarm'.clock) = TRUE BY <2>4 DEF TimedBy
  <2>7. /\ \A d \in owed' : d.timed
        /\ \A d \in owed' : \E e \in owed : e.who = d.who /\ e.durable = d.durable
    BY <2>5, <2>6, <1>t, StillOwedIs
  <2>8. manager'.at = "idle" BY <2>3, NoneAreRecords
  <2>9. AsksFree' BY <2>4, <2>8 DEF AsksFree
  <2>10. railAccount.on => railAccount.version = Mine /\ railAccount.auth \notin Recoverable
    <3>1. railAccount.rev = manager.row.rev BY <1>5 DEF SessionsInv, AsksFree
    <3> QED BY <3>1, <1>5, <1>m DEF SessionsInv, RowIsOfItsRevision
  <2>11. railAccount'.on => Running(railAccount)'
    BY <2>4, <2>7, <2>10 DEF Running, Debts, Recoverable
  <2>12. (\E d \in Debts' : d.durable) => \E d \in Debts : d.durable BY <2>7 DEF Debts
  <2>13. WaitIsKept' BY <2>8, <2>11, <2>12 DEF WaitIsKept, SessionsInv, Halted
  <2> QED BY <1>2, <2>9, <2>13
<1> QED BY <1>3, <1>4, <1>5 DEF SessionsInv, WaitIsKept

(* Without debts, whatever the manager decides is free.                     *)
LEMMA DecideFree ==
  ASSUME SessionsInv, manager.at # "idle", NEW reg \in RegistryRecords, Decide(reg), Debts' = {},
         railAccount' = railAccount
  PROVE  RowIsOfItsRevision' /\ AsksFree' /\ WaitIsKept'
<1>t. manager \in ManagerRecords BY DEF SessionsInv, SessionsTypeOK
<1>1. manager' = ManagerIdle \/ manager' = [manager EXCEPT !.at = "ask"] BY <1>t, DecideIs
<1>2. CASE manager' = ManagerIdle BY <1>2, RowIdle, NoDebtIsFree
<1>3. CASE manager' = [manager EXCEPT !.at = "ask"]
  <2>1. manager'.at = "ask" /\ manager'.row = manager.row /\ manager'.recovers = manager.recovers
    BY <1>3, <1>t, ManagerGoes DEF ManagerPlaces
  <2> QED BY <2>1, RowGoes, NoDebtIsFree DEF ManagerPlaces
<1> QED BY <1>1, <1>2, <1>3

-----------------------------------------------------------------------------
(* A clock that runs out pays the debts that it timed.                      *)
LEMMA ClockKeeps ==
  ASSUME SessionsInv, ClockRunsOut PROVE SessionsInv'
<1>t. SessionsTypeOK BY DEF SessionsInv
<1>1. /\ prewarm.clock # NoClock /\ ~prewarm.clock.over
      /\ prewarm' = [prewarm EXCEPT !.clock.over = TRUE]
      /\ owed' = IF TimedBy(prewarm.clock) THEN {d \in owed : ~d.timed} ELSE owed
      /\ UNCHANGED <<railAccount, official, manager, saving, accountUse>>
  BY DEF ClockRunsOut
<1> DEFINE clock == [prewarm.clock EXCEPT !.over = TRUE]
<1>2. clock \in ClockRecords BY <1>t DEF SessionsTypeOK, RegistryRecords, ClockRecords
<1>3. prewarm' = [prewarm EXCEPT !.clock = clock] BY <1>1
<1> HIDE DEF clock
<1>4. prewarm' \in RegistryRecords /\ prewarm'.unanswered = prewarm.unanswered
  BY <1>2, <1>3, <1>t DEF SessionsTypeOK, RegistryRecords
<1>5. SessionsTypeOK' BY <1>1, <1>4, <1>t DEF SessionsTypeOK
<1>6. RowIsOfItsRevision' BY <1>1 DEF SessionsInv, RowIsOfItsRevision
<1>7. Debts' \subseteq Debts BY <1>1 DEF Debts
<1>8. AsksFree' BY <1>1, <1>4, <1>7 DEF AsksFree, SessionsInv
<1>9. ~ClockLost BY <1>1 DEF ClockLost
<1>10. Running(railAccount) \/ Running(manager.row) => Debts' = {}
  <2>1. Running(railAccount) \/ Running(manager.row) => TimedBy(prewarm.clock) /\ \A d \in Debts : d.timed
    BY DEF Running, TimedBy
  <2> QED BY <2>1, <1>1 DEF Debts
<1>11. WaitIsKept' BY <1>1, <1>7, <1>9, <1>10 DEF WaitIsKept, SessionsInv, Halted
<1> QED BY <1>5, <1>6, <1>8, <1>11 DEF SessionsInv

(* Without an account no login is asked for.                                *)
LEMMA DeleteKeeps ==
  ASSUME SessionsInv, DeleteAccount PROVE SessionsInv'
<1>t. SessionsTypeOK BY DEF SessionsInv
<1>r. railAccount.rev \in Nat BY <1>t DEF SessionsTypeOK, AccountRecords
<1>1. /\ railAccount' \in AccountRecords /\ railAccount'.rev = railAccount.rev /\ ~railAccount'.on
      /\ UNCHANGED <<official, prewarm, manager, saving, accountUse, owed>>
  BY <1>r, NoneAreRecords DEF DeleteAccount
<1>2. SessionsTypeOK' BY <1>1, <1>t DEF SessionsTypeOK
<1>3. RowIsOfItsRevision' BY <1>1 DEF SessionsInv, RowIsOfItsRevision
<1>4. Debts' = Debts BY <1>1 DEF Debts
<1>5. AsksFree' BY <1>1, <1>4 DEF AsksFree, SessionsInv
<1>6. Running(manager.row)' = Running(manager.row) /\ ClockLost' = ClockLost BY <1>1, <1>4 DEF Running, ClockLost, Count
<1>7. WaitIsKept' BY <1>1, <1>4, <1>6 DEF WaitIsKept, SessionsInv
<1> QED BY <1>2, <1>3, <1>5, <1>7 DEF SessionsInv

(* The manager reads the account, and takes over its halt.                  *)
LEMMA LoadKeeps ==
  ASSUME SessionsInv, LoadAccount PROVE SessionsInv'
<1>t. SessionsTypeOK BY DEF SessionsInv
<1>f. /\ railAccount \in AccountRecords /\ prewarm \in RegistryRecords /\ owed \subseteq DebtRecords
      /\ railAccount.version \in Nat /\ railAccount.rev \in Nat /\ railAccount.on \in BOOLEAN
  BY <1>t DEF SessionsTypeOK, AccountRecords
<1>u. UNCHANGED <<railAccount, official, saving, accountUse>> /\ owed' = StillOwed(owed) /\ manager.at = "idle"
  BY DEF LoadAccount, ManagerElse
<1>o. owed' \subseteq DebtRecords BY <1>u, <1>f, StillOwedIs
<1>1. CASE ~railAccount.on
  <2>1. prewarm' = [FreshRegistry EXCEPT !.deferred = prewarm.deferred] /\ manager' = ManagerIdle
    BY <1>1 DEF LoadAccount, GoesIdle
  <2>2. prewarm.deferred \in BOOLEAN BY <1>f DEF RegistryRecords
  <2>3. prewarm' \in RegistryRecords /\ prewarm'.unanswered = 0
    BY <2>1, <2>2, NoneAreRecords DEF RegistryRecords
  <2>4. SessionsTypeOK' BY <2>1, <2>3, <1>o, <1>u, <1>t, NoneAreRecords DEF SessionsTypeOK
  <2>5. RowIsOfItsRevision' BY <2>1, <1>u, RowIdle
  <2>6. manager'.at = "idle" BY <2>1, NoneAreRecords
  <2>7. AsksFree' BY <2>3, <2>6 DEF AsksFree
  <2>8. WaitIsKept' BY <2>6, <1>1, <1>u DEF WaitIsKept
  <2> QED BY <2>4, <2>5, <2>7, <2>8 DEF SessionsInv
<1>2. CASE railAccount.on
  <2> DEFINE reg == Rehydrated(Forgotten(prewarm, railAccount.version))
             recovers == railAccount.auth \in Recoverable /\ MayRecover(reg, railAccount)
             place == IF recovers THEN "restore" ELSE IF railAccount.auth \in Recoverable THEN "idle" ELSE "look"
  <2>1. /\ prewarm' = reg
        /\ manager' = [at |-> place, row |-> railAccount, recovers |-> recovers, answer |-> "none"]
    BY <1>2 DEF LoadAccount
  <2>2. Forgotten(prewarm, railAccount.version) \in RegistryRecords
        /\ (prewarm.unanswered = 0 => Forgotten(prewarm, railAccount.version) = prewarm)
    BY <1>f, ForgottenIs
  <2>3. /\ reg \in RegistryRecords
        /\ prewarm.unanswered = 0 =>
             reg.clock = prewarm.clock /\ reg.unanswered = prewarm.unanswered /\ reg.count = prewarm.count
        /\ Halted(railAccount) => reg.halted = HaltFence(railAccount)
    BY <2>2, <1>f, RehydratedIs
  <2> HIDE DEF reg
  <2>4. recovers \in BOOLEAN /\ (recovers => railAccount.auth \in Recoverable) OBVIOUS
  <2>5. /\ place \in ManagerPlaces
        /\ place \in {"restore", "look", "idle"}
        /\ place = "restore" <=> recovers
        /\ place = "look" => railAccount.auth \notin Recoverable
        /\ ~recovers /\ railAccount.auth \in Recoverable => place = "idle"
    BY DEF ManagerPlaces
  <2> HIDE DEF recovers, place
  <2>6. /\ manager' \in ManagerRecords
        /\ manager'.at = place /\ manager'.row = railAccount /\ manager'.recovers = recovers
    BY <2>1, <2>4, <2>5, <1>f DEF ManagerRecords, SessionOutcomes
  <2>7. SessionsTypeOK' BY <2>1, <2>3, <2>6, <1>o, <1>u, <1>t DEF SessionsTypeOK
  <2>8. RowIsOfItsRevision'
    BY <2>4, <2>5, <2>6, <1>2, <1>u, <1>f DEF RowIsOfItsRevision, SessionsInv
  <2>9. CASE Debts = {}
    <3>1. Debts' = {} BY <2>9, <1>f, <1>u, StillOwedIs DEF Debts
    <3> QED BY <3>1, <2>7, <2>8, NoDebtIsFree DEF SessionsInv
  <2>10. CASE Debts # {}
    <3>1. prewarm.unanswered = 0 BY <2>10 DEF SessionsInv, AsksFree
    <3>2. prewarm'.clock = prewarm.clock /\ prewarm'.unanswered = 0 /\ prewarm'.count = prewarm.count
      BY <2>1, <2>3, <3>1
    <3>3. owed' = owed BY <3>2, <1>u, <1>f, StillOwedIs
    <3>4. Debts' = Debts BY <3>3 DEF Debts
    <3>5. AsksFree' BY <3>2, <2>5, <2>6, <1>u DEF AsksFree
    <3>6. Running(railAccount)' = Running(railAccount) /\ ClockLost' = ClockLost
      BY <3>2, <3>4, <1>u DEF Running, ClockLost, Count
    <3>7. Running(manager.row)' = Running(railAccount)
      BY <3>2, <3>4, <2>6 DEF Running, Count
    <3>8. ClockLost => railAccount.auth \notin Recoverable /\ Halted(railAccount)
      BY <2>10, <1>2 DEF ClockLost, SessionsInv, WaitIsKept
    <3>9. ClockLost => ~recovers /\ prewarm'.halted = HaltFence(railAccount) BY <3>8, <2>1, <2>3, <2>4
    <3>10. HaltFence(manager.row)' = HaltFence(railAccount) BY <2>6 DEF HaltFence
    <3>11. WaitIsKept'
      BY <3>4, <3>6, <3>7, <3>9, <3>10, <2>6, <2>10, <1>2, <1>u DEF WaitIsKept, SessionsInv, Halted
    <3> QED BY <3>5, <3>11, <2>7, <2>8 DEF SessionsInv
  <2> QED BY <2>9, <2>10
<1> QED BY <1>1, <1>2

(* The manager finds a session, or goes to restore one.                     *)
LEMMA FindKeeps ==
  ASSUME SessionsInv, FindSession PROVE SessionsInv'
<1>t. SessionsTypeOK BY DEF SessionsInv
<1>f. prewarm \in RegistryRecords /\ owed \subseteq DebtRecords /\ manager \in ManagerRecords
  BY <1>t DEF SessionsTypeOK
<1>u. /\ UNCHANGED <<railAccount, official, saving, accountUse>> /\ owed' = StillOwed(owed)
      /\ manager.at = "restore"
  BY DEF FindSession, ManagerElse
<1>o. owed' \subseteq DebtRecords BY <1>u, <1>f, StillOwedIs
<1>1. CASE prewarm' = prewarm /\ Goes("restoring")
  <2>1. /\ manager' \in ManagerRecords /\ manager'.at = "restoring"
        /\ manager'.row = manager.row /\ manager'.recovers = manager.recovers
    BY <1>1, <1>f, ManagerGoes DEF Goes, ManagerPlaces
  <2>2. SessionsTypeOK' BY <2>1, <1>1, <1>u, <1>o, <1>t DEF SessionsTypeOK
  <2>3. RowIsOfItsRevision' BY <2>1, <1>u, RowGoes DEF ManagerPlaces
  <2>4. owed' = owed BY <1>1, <1>u, <1>f, StillOwedIs
  <2>5. Debts' = Debts BY <2>4 DEF Debts
  <2>6. AsksFree' BY <2>1, <2>5, <1>1, <1>u DEF AsksFree, SessionsInv
  <2>7. /\ Running(railAccount)' = Running(railAccount) /\ Running(manager.row)' = Running(manager.row)
        /\ ClockLost' = ClockLost
    BY <2>1, <2>5, <1>1, <1>u DEF Running, ClockLost, Count
  <2>8. WaitIsKept' BY <2>1, <2>5, <2>7, <1>1, <1>u DEF WaitIsKept, SessionsInv, Halted
  <2> QED BY <2>2, <2>3, <2>6, <2>8 DEF SessionsInv
<1>2. CASE Decide(prewarm)
  <2>1. prewarm' \in RegistryRecords /\ manager' \in ManagerRecords BY <1>2, <1>f, DecideIs
  <2>2. SessionsTypeOK' BY <2>1, <1>u, <1>o, <1>t DEF SessionsTypeOK
  <2> QED BY <2>2, <1>2, <1>u, DecideWaits DEF SessionsInv
<1> QED BY <1>1, <1>2 DEF FindSession

(* A session that is there is written down, or the write fails.             *)
LEMMA RestoreKeeps ==
  ASSUME SessionsInv, NEW outcome, RestoreSession(outcome) PROVE SessionsInv'
<1>t. SessionsTypeOK BY DEF SessionsInv
<1>f. /\ railAccount \in AccountRecords /\ prewarm \in RegistryRecords /\ owed \subseteq DebtRecords
      /\ manager \in ManagerRecords /\ manager.row.rev \in Nat /\ manager.row.version \in Nat
      /\ railAccount.rev \in Nat
  BY <1>t DEF SessionsTypeOK, ManagerRecords, AccountRecords
<1>u. /\ UNCHANGED <<official, saving, accountUse>> /\ manager.at = "restoring" /\ manager' = ManagerIdle
      /\ StatusAfter(outcome)
      /\ owed' = IF outcome = "authenticated" THEN {} ELSE StillOwed(owed)
  BY DEF RestoreSession, ManagerElse, GoesIdle
<1>s. /\ railAccount' \in AccountRecords
      /\ outcome = "authenticated" =>
           /\ railAccount'.version = railAccount.version /\ railAccount'.on = railAccount.on
           /\ railAccount'.rev = railAccount.rev + 1
      /\ outcome # "authenticated" => railAccount' = railAccount
  BY <1>f, <1>u, StatusAfterIs
<1> DEFINE rev == manager.row.rev
           answered == SubmissionAnswered(prewarm)
           started == Started(answered, rev)
<1>p. prewarm' = Attempted(started, rev) BY DEF RestoreSession
<1>1. answered \in RegistryRecords /\ (prewarm.unanswered = 0 => answered = prewarm)
  BY <1>f, SubmissionAnsweredIs
<1> HIDE DEF answered
<1>2. /\ started \in RegistryRecords /\ started.clock = answered.clock
      /\ started.unanswered = answered.unanswered /\ Count(started, rev).started # 0
  BY <1>1, <1>f, StartedIs
<1> HIDE DEF started
<1>3. /\ prewarm' \in RegistryRecords /\ prewarm'.clock = answered.clock
      /\ prewarm'.unanswered = answered.unanswered /\ Count(prewarm', rev).started # 0
  BY <1>2, <1>f, <1>p, AttemptedIs
<1>4. owed' \subseteq DebtRecords BY <1>u, <1>f, StillOwedIs
<1>5. SessionsTypeOK' BY <1>3, <1>4, <1>s, <1>u, <1>t, NoneAreRecords DEF SessionsTypeOK
<1>6. CASE outcome = "authenticated"
  <2>1. Debts' = {} BY <1>6, <1>u DEF Debts
  <2>2. RowIsOfItsRevision'
    BY <1>6, <1>s, <1>u, <1>f, NoneAreRecords DEF RowIsOfItsRevision, SessionsInv
  <2> QED BY <2>1, <2>2, <1>5, NoDebtIsFree DEF SessionsInv
<1>7. CASE outcome # "authenticated" /\ Debts = {}
  <2>1. Debts' = {} BY <1>7, <1>u, <1>f, StillOwedIs DEF Debts
  <2>2. RowIsOfItsRevision' BY <1>7, <1>s, <1>u, RowIdle
  <2> QED BY <2>1, <2>2, <1>5, NoDebtIsFree DEF SessionsInv
<1>8. CASE outcome # "authenticated" /\ Debts # {}
  <2>1. prewarm.unanswered = 0 /\ rev = railAccount.rev BY <1>8, <1>u DEF SessionsInv, AsksFree
  <2>2. prewarm'.clock = prewarm.clock /\ prewarm'.unanswered = prewarm.unanswered
        /\ Count(prewarm', railAccount.rev).started # 0
    BY <2>1, <1>1, <1>3
  <2>3. owed' = owed BY <2>2, <1>8, <1>u, <1>f, StillOwedIs
  <2>4. Debts' = Debts BY <2>3 DEF Debts
  <2> QED BY <2>2, <2>4, <1>5, <1>8, <1>s, <1>u, IdleKeeps DEF SessionsInv
<1> QED BY <1>6, <1>7, <1>8

(* The manager looks at the session of the sidecar, and decides or goes     *)
(* idle.                                                                    *)
LEMMA LookKeeps ==
  ASSUME SessionsInv, NEW demand \in BOOLEAN, LookAtSession(demand) PROVE SessionsInv'
<1>t. SessionsTypeOK BY DEF SessionsInv
<1>f. /\ prewarm \in RegistryRecords /\ owed \subseteq DebtRecords
      /\ manager \in ManagerRecords /\ Mine \in Nat /\ Mine = manager.row.version
  BY <1>t DEF SessionsTypeOK, ManagerRecords, AccountRecords, Mine
<1>u. UNCHANGED <<railAccount, official, saving, accountUse>> /\ manager.at = "look"
  BY DEF LookAtSession, ManagerElse
<1>d. ASSUME NEW reg \in RegistryRecords, Decide(reg), owed' \subseteq DebtRecords
      PROVE SessionsTypeOK'
  <2>1. prewarm' \in RegistryRecords /\ manager' \in ManagerRecords BY <1>d, <1>f, DecideIs
  <2> QED BY <2>1, <1>d, <1>u, <1>t DEF SessionsTypeOK
<1>1. CASE GoesIdle /\ UNCHANGED <<prewarm, owed>>
  <2>1. manager' = ManagerIdle BY <1>1 DEF GoesIdle
  <2>2. SessionsTypeOK' BY <2>1, <1>1, <1>u, <1>t, NoneAreRecords DEF SessionsTypeOK
  <2>3. Debts' = Debts BY <1>1 DEF Debts
  <2> QED BY <2>1, <2>2, <2>3, <1>1, <1>u, IdleKeeps DEF SessionsInv
<1>2. CASE Decide(prewarm) /\ owed' = StillOwed(owed)
  <2>1. owed' \subseteq DebtRecords BY <1>2, <1>f, StillOwedIs
  <2>2. SessionsTypeOK' BY <2>1, <1>2, <1>d, <1>f
  <2> QED BY <2>2, <1>2, <1>u, DecideWaits DEF SessionsInv
<1>3. CASE LookAtBlocked
  <2>o. owed' = StillOwed(owed) BY <1>3 DEF LookAtBlocked
  <2>1. CASE ~HasClock(prewarm, Mine)
    <3>1. prewarm' = Finished(prewarm, Mine, "provider_blocked") /\ manager' = ManagerIdle
      BY <2>1, <1>3 DEF LookAtBlocked, GoesIdle
    <3>2. /\ prewarm' \in RegistryRecords /\ prewarm'.unanswered = 0
          /\ prewarm'.clock = [version |-> Mine, wait |-> "protection", over |-> FALSE]
      BY <3>1, <1>f, FinishedIs DEF SessionOutcomes, Answers
    <3>3. owed' \subseteq DebtRecords BY <2>o, <1>f, StillOwedIs
    <3>4. SessionsTypeOK' BY <3>1, <3>2, <3>3, <1>u, <1>t, NoneAreRecords DEF SessionsTypeOK
    <3>5. RowIsOfItsRevision' BY <3>1, <1>u, RowIdle
    <3>6. manager'.at = "idle" BY <3>1, NoneAreRecords
    <3>7. AsksFree' BY <3>2, <3>6 DEF AsksFree
    <3>8. TimedBy(prewarm'.clock) = TRUE BY <3>2 DEF TimedBy
    <3>9. prewarm'.clock # prewarm.clock BY <3>2, <2>1 DEF HasClock
    <3>10. /\ \A d \in owed' : d.timed
           /\ \A d \in owed' : \E e \in owed : e.who = d.who /\ e.durable = d.durable
      BY <3>8, <3>9, <2>o, <1>f, StillOwedIs
    <3>11. /\ Debts' # {} => Debts # {}
           /\ (\E d \in Debts' : d.durable) => \E d \in Debts : d.durable
      BY <3>10 DEF Debts
    <3>12. railAccount.on /\ Debts # {} => railAccount.version = Mine /\ railAccount.auth \notin Recoverable
      <4>1. Debts # {} => railAccount.rev = manager.row.rev BY <1>u DEF SessionsInv, AsksFree
      <4> QED BY <4>1, <1>u, <1>f DEF SessionsInv, RowIsOfItsRevision
    <3>13. railAccount'.on /\ Debts' # {} => Running(railAccount)'
      BY <3>2, <3>10, <3>11, <3>12, <1>u DEF Running, Debts, Recoverable
    <3>14. WaitIsKept' BY <3>6, <3>11, <3>13, <1>u DEF WaitIsKept, SessionsInv, Halted
    <3> QED BY <3>4, <3>5, <3>7, <3>14 DEF SessionsInv
  <2>2. CASE HasClock(prewarm, Mine) /\ prewarm.clock.over
    BY <2>2, <2>o, <1>2, <1>3 DEF LookAtBlocked
  <2>3. CASE HasClock(prewarm, Mine) /\ ~prewarm.clock.over
    <3>1. GoesIdle /\ UNCHANGED prewarm BY <2>3, <1>3 DEF LookAtBlocked
    <3>2. owed' = owed BY <3>1, <2>o, <1>f, StillOwedIs
    <3> QED BY <3>1, <3>2, <1>1
  <2> QED BY <2>1, <2>2, <2>3
<1>4. CASE LookAtReady(demand)
  <2>1. owed' = {} BY <1>4 DEF LookAtReady
  <2>2. Debts' = {} BY <2>1 DEF Debts
  <2> DEFINE due == official.age = "idle"
             reg == IF due THEN Superseded(prewarm) ELSE ProvenNow(prewarm)
  <2>3. reg \in RegistryRecords
    <3>1. /\ [prewarm EXCEPT !.clock = NoClock, !.unanswered = 0] \in RegistryRecords
      BY <1>f, NoneAreRecords DEF RegistryRecords
    <3>2. \A r \in RegistryRecords : Superseded(r) \in RegistryRecords
      BY NoneAreRecords DEF Superseded, RegistryRecords
    <3> QED BY <3>1, <3>2, <1>f DEF ProvenNow
  <2>4. \/ Decide(reg)
        \/ prewarm' = reg /\ \E place \in {"clearToProbe", "clear"} : Goes(place)
        \/ prewarm' = reg /\ GoesIdle
    BY <1>4 DEF LookAtReady
  <2> HIDE DEF reg
  <2>5. CASE Decide(reg)
    <3>1. SessionsTypeOK' BY <2>1, <2>3, <2>5, <1>d
    <3> QED BY <3>1, <2>2, <2>3, <2>5, <1>u, DecideFree DEF SessionsInv
  <2>6. CASE prewarm' = reg /\ \E place \in {"clearToProbe", "clear"} : Goes(place)
    <3>1. PICK place \in {"clearToProbe", "clear"} : Goes(place) BY <2>6
    <3>2. /\ manager' \in ManagerRecords /\ manager'.at = place
          /\ manager'.row = manager.row /\ manager'.recovers = manager.recovers
      <4>1. place \in ManagerPlaces BY DEF ManagerPlaces
      <4>2. manager' = [manager EXCEPT !.at = place] BY <3>1 DEF Goes
      <4> QED BY ONLY <1>f, <4>1, <4>2, ManagerGoes
    <3>3. SessionsTypeOK' BY <3>2, <2>1, <2>3, <2>6, <1>u, <1>t DEF SessionsTypeOK
    <3>4. RowIsOfItsRevision' BY <3>2, <1>u, RowGoes DEF ManagerPlaces
    <3> QED BY <3>3, <3>4, <2>2, NoDebtIsFree DEF SessionsInv
  <2>7. CASE prewarm' = reg /\ GoesIdle
    <3>1. manager' = ManagerIdle BY <2>7 DEF GoesIdle
    <3>2. SessionsTypeOK' BY <3>1, <2>1, <2>3, <2>7, <1>u, <1>t, NoneAreRecords DEF SessionsTypeOK
    <3>3. RowIsOfItsRevision' BY <3>1, <1>u, RowIdle
    <3> QED BY <3>2, <3>3, <2>2, NoDebtIsFree DEF SessionsInv
  <2> QED BY <2>4, <2>5, <2>6, <2>7
<1> QED BY <1>1, <1>2, <1>3, <1>4 DEF LookAtSession

(* A halt is cleared only by a manager that owes nothing.                   *)
LEMMA ClearKeeps ==
  ASSUME SessionsInv, ClearHalt PROVE SessionsInv'
<1>t. SessionsTypeOK BY DEF SessionsInv
<1>f. /\ prewarm \in RegistryRecords /\ owed \subseteq DebtRecords /\ railAccount \in AccountRecords
      /\ manager \in ManagerRecords
  BY <1>t DEF SessionsTypeOK
<1>u. /\ UNCHANGED <<official, saving, accountUse>> /\ manager.at \in {"clear", "clearToProbe"}
      /\ owed' = StillOwed(owed)
      /\ railAccount' = railAccount \/ railAccount' = [railAccount EXCEPT !.halt = NoHalt]
      /\ Decide(prewarm) \/ (GoesIdle /\ UNCHANGED prewarm)
  BY DEF ClearHalt, ManagerElse
<1>1. /\ railAccount' \in AccountRecords /\ railAccount'.rev = railAccount.rev
      /\ railAccount'.version = railAccount.version /\ railAccount'.on = railAccount.on
      /\ railAccount'.auth = railAccount.auth
  BY <1>f, <1>u, NoneAreRecords DEF AccountRecords
<1>2. Debts = {} BY <1>u DEF SessionsInv, AsksFree
<1>3. owed' \subseteq DebtRecords /\ Debts' = {} BY <1>2, <1>u, <1>f, StillOwedIs DEF Debts
<1>4. /\ prewarm' \in RegistryRecords /\ manager' \in ManagerRecords
      /\ manager' = ManagerIdle \/ manager' = [manager EXCEPT !.at = "ask"]
  BY <1>u, <1>f, DecideIs, NoneAreRecords DEF GoesIdle
<1>5. SessionsTypeOK' BY <1>1, <1>3, <1>4, <1>u, <1>t DEF SessionsTypeOK
<1>6. CASE manager' = ManagerIdle
  <2>1. railAccount.rev \in Nat BY <1>f DEF AccountRecords
  <2>2. RowIsOfItsRevision' BY <2>1, <1>1, <1>6, NoneAreRecords DEF RowIsOfItsRevision, SessionsInv
  <2> QED BY <2>2, <1>3, <1>5, NoDebtIsFree DEF SessionsInv
<1>7. CASE manager' = [manager EXCEPT !.at = "ask"]
  <2>1. manager'.at = "ask" /\ manager'.row = manager.row /\ manager'.recovers = manager.recovers
    BY <1>7, <1>f, ManagerGoes DEF ManagerPlaces
  <2>2. RowIsOfItsRevision' BY <2>1, <1>1, <1>u DEF RowIsOfItsRevision, SessionsInv
  <2> QED BY <2>2, <1>3, <1>5, NoDebtIsFree DEF SessionsInv
<1> QED BY <1>4, <1>6, <1>7

(* The call of the manager, and the restart of the sidecar that answers it. *)
AskStep ==
  \/ AskProbe \/ AskLogin \/ AskDeferred \/ CallLost
  \/ \E answer \in Answers : LoginAnswers(answer)
  \/ ConcludeDeferred \/ SessionsSidecarRestarts

(* A login is asked for only by who owes nothing.                           *)
LEMMA AskKeeps ==
  ASSUME SessionsInv, AskStep PROVE SessionsInv'
<1>t. SessionsTypeOK BY DEF SessionsInv
<1>f. /\ prewarm \in RegistryRecords /\ official \in OfficialRecords
      /\ manager \in ManagerRecords /\ Mine \in Nat
  BY <1>t DEF SessionsTypeOK, ManagerRecords, AccountRecords, Mine
<1> DEFINE idle == /\ manager' = ManagerIdle /\ prewarm' = [prewarm EXCEPT !.deferred = TRUE]
           goes == /\ prewarm' = prewarm /\ manager.at \in {"ask", "asked"}
                   /\ \/ manager' = [manager EXCEPT !.at = "asked"]
                      \/ \E answer \in SessionOutcomes : manager' = [manager EXCEPT !.at = "answered", !.answer = answer]
           stays == prewarm' = prewarm /\ manager' = manager
<1>1. /\ UNCHANGED <<railAccount, owed>> /\ official' \in OfficialRecords
      /\ saving' \in {0, saving} /\ accountUse' \in {0, accountUse}
      /\ idle \/ goes \/ stays
  <2>1. CASE AskProbe
    <3>1. official' \in OfficialRecords BY <2>1, <1>f, OfficialSteps DEF AskProbe, Probed
    <3> QED BY <2>1, <3>1 DEF AskProbe, ManagerElse, SessionOutcomes, Answers
  <2>2. CASE AskLogin
    <3>1. official' \in OfficialRecords BY <2>2, <1>f, OfficialSteps DEF AskLogin
    <3> QED BY <2>2, <3>1 DEF AskLogin, ManagerElse, Goes
  <2>3. CASE AskDeferred
    BY <2>3, <1>f DEF AskDeferred, ManagerElse, GoesIdle
  <2>4. CASE CallLost
    <3>1. official' \in OfficialRecords BY <2>4, <1>f, OfficialSteps DEF CallLost
    <3> QED BY <2>4, <3>1 DEF CallLost, ManagerElse, SessionOutcomes, Answers
  <2>5. CASE \E answer \in Answers : LoginAnswers(answer)
    <3>1. PICK answer \in Answers : LoginAnswers(answer) BY <2>5
    <3>2. official' \in OfficialRecords BY <3>1, <1>f, OfficialSteps DEF LoginAnswers, LoginEnds
    <3> QED BY <3>1, <3>2 DEF LoginAnswers, ManagerElse, SessionOutcomes
  <2>6. CASE ConcludeDeferred
    BY <2>6, <1>f DEF ConcludeDeferred, ManagerElse, GoesIdle
  <2>7. CASE SessionsSidecarRestarts
    <3>1. official' \in OfficialRecords BY <2>7, NoneAreRecords DEF SessionsSidecarRestarts
    <3> QED BY <2>7, <3>1 DEF SessionsSidecarRestarts, SessionOutcomes, Answers
  <2> QED BY <2>1, <2>2, <2>3, <2>4, <2>5, <2>6, <2>7 DEF AskStep
<1> HIDE DEF idle, goes, stays
<1>n. saving' \in Nat /\ accountUse' \in Nat
  <2>1. saving \in Nat /\ accountUse \in Nat BY <1>t DEF SessionsTypeOK
  <2> QED BY <2>1, <1>1
<1>d. Debts' = Debts BY <1>1 DEF Debts
<1> USE DEF idle, goes, stays
<1>2. CASE idle
  <2>1. /\ prewarm' \in RegistryRecords /\ prewarm'.clock = prewarm.clock
        /\ prewarm'.unanswered = prewarm.unanswered /\ prewarm'.count = prewarm.count
    BY <1>2, <1>f DEF RegistryRecords
  <2>2. SessionsTypeOK' BY <2>1, <1>1, <1>2, <1>n, <1>t, NoneAreRecords DEF SessionsTypeOK
  <2>3. Count(prewarm', railAccount.rev) = Count(prewarm, railAccount.rev) BY <2>1 DEF Count
  <2> QED BY <2>1, <2>2, <2>3, <1>1, <1>2, <1>d, IdleKeeps DEF SessionsInv
<1>3. CASE goes
  <2>1. /\ manager' \in ManagerRecords /\ manager'.at \in {"asked", "answered"}
        /\ manager'.row = manager.row /\ manager'.recovers = manager.recovers
    <3>1. CASE manager' = [manager EXCEPT !.at = "asked"]
      BY <3>1, <1>f, ManagerGoes DEF ManagerPlaces
    <3>2. CASE \E answer \in SessionOutcomes : manager' = [manager EXCEPT !.at = "answered", !.answer = answer]
      <4>1. PICK answer \in SessionOutcomes : manager' = [manager EXCEPT !.at = "answered", !.answer = answer]
        BY <3>2
      <4> HIDE DEF goes
      <4> QED BY <4>1, <1>f, ManagerGoes
    <3> QED BY <3>1, <3>2, <1>3
  <2>2. SessionsTypeOK' BY <2>1, <1>1, <1>3, <1>n, <1>t DEF SessionsTypeOK
  <2>3. RowIsOfItsRevision' BY <2>1, <1>1, <1>3, RowGoes DEF ManagerPlaces
  <2>4. Debts' = {} BY <1>3, <1>d DEF SessionsInv, AsksFree
  <2> QED BY <2>2, <2>3, <2>4, NoDebtIsFree DEF SessionsInv
<1>4. CASE stays
  <2>1. SessionsTypeOK' BY <1>1, <1>4, <1>n, <1>t DEF SessionsTypeOK
  <2>2. RowIsOfItsRevision' BY <1>1, <1>4 DEF RowIsOfItsRevision, SessionsInv
  <2>3. AsksFree' BY <1>1, <1>4, <1>d DEF AsksFree, SessionsInv
  <2>4. /\ Running(railAccount)' = Running(railAccount) /\ Running(manager.row)' = Running(manager.row)
        /\ ClockLost' = ClockLost
    BY <1>1, <1>4, <1>d DEF Running, ClockLost, Count
  <2>5. WaitIsKept' BY <1>1, <1>4, <1>d, <2>4 DEF WaitIsKept, SessionsInv, Halted
  <2> QED BY <2>1, <2>2, <2>3, <2>5 DEF SessionsInv
<1> QED BY <1>1, <1>2, <1>3, <1>4

(* The answer is concluded: a protection starts the wait before anybody may *)
(* ask again.                                                               *)
LEMMA ConcludeKeeps ==
  ASSUME SessionsInv, ConcludeRefusal \/ \E outcome : ConcludeLogin(outcome) PROVE SessionsInv'
<1>t. SessionsTypeOK BY DEF SessionsInv
<1>f. /\ railAccount \in AccountRecords /\ manager \in ManagerRecords /\ manager.row \in AccountRecords
      /\ manager.answer \in SessionOutcomes /\ railAccount.rev \in Nat /\ manager.row.rev \in Nat
      /\ Mine = manager.row.version /\ manager.recovers \in BOOLEAN
  BY <1>t DEF SessionsTypeOK, ManagerRecords, AccountRecords, Mine
<1>1. PICK answer, kind :
        /\ answer \in SessionOutcomes \union {"not_checked"}
        /\ ConcludePrewarm(answer, kind) /\ UNCHANGED <<official, saving, accountUse>>
        /\ manager.at = "answered"
        /\ railAccount' \in AccountRecords
        /\ \/ railAccount' = railAccount
           \/ /\ answer = "authenticated"
              /\ railAccount'.version = railAccount.version /\ railAccount'.on = railAccount.on
              /\ railAccount'.rev = railAccount.rev + 1
  <2>1. CASE ConcludeRefusal
    <3>1. /\ ConcludePrewarm(IF manager.answer = "unanswered" THEN "failed" ELSE manager.answer, manager.answer)
          /\ UNCHANGED <<railAccount, official, saving, accountUse>> /\ manager.at = "answered"
      BY <2>1 DEF ConcludeRefusal, ManagerElse
    <3>2. (IF manager.answer = "unanswered" THEN "failed" ELSE manager.answer) \in SessionOutcomes
      BY <1>f DEF SessionOutcomes, Answers
    <3> QED BY <3>1, <3>2, <1>f
  <2>2. CASE \E outcome : ConcludeLogin(outcome)
    <3>1. PICK outcome : ConcludeLogin(outcome) BY <2>2
    <3>2. /\ StatusAfter(outcome) /\ ConcludePrewarm(outcome, outcome)
          /\ UNCHANGED <<official, saving, accountUse>> /\ manager.at = "answered"
      BY <3>1 DEF ConcludeLogin, ManagerElse
    <3>3. /\ outcome \in {"authenticated", "not_checked", "failed"}
          /\ railAccount' \in AccountRecords
          /\ outcome = "authenticated" =>
              /\ railAccount'.version = railAccount.version /\ railAccount'.on = railAccount.on
              /\ railAccount'.rev = railAccount.rev + 1
          /\ outcome # "authenticated" => railAccount' = railAccount
      BY <3>2, <1>f, StatusAfterIs
    <3> QED BY <3>2, <3>3 DEF SessionOutcomes, Answers
  <2> QED BY <2>1, <2>2
<1>2. /\ prewarm' \in RegistryRecords
      /\ answer = "provider_blocked" =>
           /\ prewarm'.unanswered = 0
           /\ prewarm'.clock = [version |-> Mine, wait |-> "protection", over |-> FALSE]
      /\ manager.recovers => Count(prewarm', manager.row.rev).started # 0
      /\ \/ manager' = ManagerIdle
         \/ ~manager.recovers /\ manager' = [manager EXCEPT !.at = "persist"]
      /\ manager' \in ManagerRecords
      /\ owed' \subseteq DebtRecords
      /\ \A d \in owed' : d.who = "manager" =>
           \/ \E e \in owed : e.who = "manager"
           \/ /\ answer = "provider_blocked" /\ railAccount.rev = manager.row.rev
              /\ d.durable = FALSE /\ d.timed = TRUE
  BY <1>1, <1>t, ConcludeIs
<1>3. SessionsTypeOK' BY <1>1, <1>2, <1>t DEF SessionsTypeOK
<1>4. manager'.at \in {"idle", "persist"} /\ (manager'.at # "idle" => manager'.row = manager.row)
  BY <1>2, <1>f, NoneAreRecords, ManagerGoes DEF ManagerPlaces
<1>5. RowIsOfItsRevision'
  <2>1. CASE manager' = ManagerIdle
    BY <2>1, <1>1, <1>f, NoneAreRecords DEF RowIsOfItsRevision, SessionsInv
  <2>2. CASE ~manager.recovers /\ manager' = [manager EXCEPT !.at = "persist"]
    <3>1. manager'.at = "persist" /\ manager'.row = manager.row /\ manager'.recovers = manager.recovers
      BY <2>2, <1>f, ManagerGoes DEF ManagerPlaces
    <3> QED BY <2>2, <3>1, <1>1, <1>f DEF RowIsOfItsRevision, SessionsInv
  <2> QED BY <1>2, <2>1, <2>2
<1>6. \A d \in Debts' : /\ answer = "provider_blocked" /\ railAccount.rev = manager.row.rev
                        /\ d.durable = FALSE /\ d.timed = TRUE
  <2>1. Debts = {} BY <1>1 DEF SessionsInv, AsksFree
  <2> QED BY <2>1, <1>2 DEF Debts
<1>7. CASE Debts' = {} BY <1>7, <1>3, <1>5, NoDebtIsFree DEF SessionsInv
<1>8. CASE Debts' # {}
  <2>1. /\ answer = "provider_blocked" /\ railAccount.rev = manager.row.rev
        /\ \A d \in Debts' : d.durable = FALSE /\ d.timed = TRUE
    BY <1>6, <1>8
  <2>2. railAccount' = railAccount BY <2>1, <1>1
  <2>3. AsksFree' BY <2>1, <2>2, <1>2, <1>4 DEF AsksFree
  <2>4. railAccount.on => /\ railAccount.version = Mine
                          /\ railAccount.auth = "auth_required" => manager.recovers
    BY <2>1, <1>1, <1>f DEF SessionsInv, RowIsOfItsRevision, Recoverable
  <2>5. railAccount'.on => Running(railAccount)'
    <3>1. Count(prewarm, railAccount.rev)' = Count(prewarm', manager.row.rev) BY <2>1, <2>2 DEF Count
    <3> QED BY <3>1, <2>1, <2>2, <2>4, <1>2 DEF Running
  <2>6. WaitIsKept' BY <2>1, <2>5, <1>4 DEF WaitIsKept
  <2> QED BY <2>3, <2>6, <1>3, <1>5 DEF SessionsInv
<1> QED BY <1>7, <1>8

(* The halt is written, so that a restart finds it.                         *)
LEMMA PersistKeeps ==
  ASSUME SessionsInv, PersistHalt PROVE SessionsInv'
<1>t. SessionsTypeOK BY DEF SessionsInv
<1>f. /\ railAccount \in AccountRecords /\ manager.row \in AccountRecords /\ owed \subseteq DebtRecords
      /\ railAccount.version \in Nat /\ railAccount.rev \in Nat
  BY <1>t DEF SessionsTypeOK, ManagerRecords, AccountRecords
<1>u. UNCHANGED <<official, prewarm, saving, accountUse>> /\ manager.at = "persist" /\ manager' = ManagerIdle
  BY DEF PersistHalt, ManagerElse, GoesIdle
<1>1. CASE UNCHANGED <<railAccount, owed>>
  <2>1. SessionsTypeOK' BY <1>1, <1>u, <1>t, NoneAreRecords DEF SessionsTypeOK
  <2>2. Debts' = Debts BY <1>1 DEF Debts
  <2> QED BY <2>1, <2>2, <1>1, <1>u, IdleKeeps DEF SessionsInv
<1>2. CASE /\ HaltFence(railAccount) = HaltFence(manager.row) /\ RecordsHalt
           /\ owed' = {[d EXCEPT !.durable = TRUE] : d \in owed}
  <2>1. HaltFence(manager.row) \in HaltRecords BY <1>f, FencesAreRecords
  <2> DEFINE fence == HaltFence(manager.row)
  <2>2. railAccount' = [railAccount EXCEPT !.halt = fence] BY <1>2 DEF RecordsHalt
  <2>3. fence = [version |-> railAccount.version, rev |-> railAccount.rev] /\ fence \in HaltRecords
    BY <2>1, <1>2 DEF HaltFence
  <2> HIDE DEF fence
  <2>4. /\ railAccount' \in AccountRecords /\ railAccount'.rev = railAccount.rev
        /\ railAccount'.version = railAccount.version /\ railAccount'.on = railAccount.on
        /\ railAccount'.auth = railAccount.auth /\ railAccount'.halt = fence
    BY <2>2, <2>3, <1>f DEF AccountRecords
  <2>5. railAccount.rev = manager.row.rev /\ railAccount.version = manager.row.version
    BY <1>2 DEF HaltFence
  <2>6. Halted(railAccount)'
    <3>1. HaltFence(railAccount)' = fence BY <2>3, <2>4 DEF HaltFence
    <3>2. fence # NoHalt BY <2>3, <1>f DEF NoHalt, SessionsInv, RowIsOfItsRevision
    <3> QED BY <3>1, <3>2, <2>4 DEF Halted
  <2>7. \A d \in owed : LET e == [d EXCEPT !.durable = TRUE]
                        IN e \in DebtRecords /\ e.durable = TRUE /\ e.who = d.who /\ e.timed = d.timed
    BY <1>f DEF DebtRecords
  <2>8. /\ owed' \subseteq DebtRecords /\ \A d \in owed' : d.durable
        /\ \A d \in owed' : \E e \in owed : e.who = d.who /\ e.timed = d.timed
    BY <2>7, <1>2
  <2>9. SessionsTypeOK' BY <2>4, <2>8, <1>u, <1>t, NoneAreRecords DEF SessionsTypeOK
  <2>10. manager'.at = "idle" /\ manager'.row.rev = 0 BY <1>u, NoneAreRecords
  <2>11. RowIsOfItsRevision' BY <2>4, <2>10, <1>f, <1>u, NoneAreRecords DEF RowIsOfItsRevision, SessionsInv
  <2>12. (Debts' # {} => Debts # {}) /\ \A d \in Debts' : d.durable /\ \E e \in Debts : e.timed = d.timed
    BY <2>8 DEF Debts
  <2>13. AsksFree' BY <2>10, <2>12, <1>u DEF AsksFree, SessionsInv
  <2>14. Running(railAccount) => Running(railAccount)'
    BY <2>4, <2>12, <1>u DEF Running, Count
  <2>15. ClockLost => ClockLost' BY <2>12, <1>u DEF ClockLost
  <2>16. railAccount.on => railAccount.auth \notin Recoverable
    BY <2>5, <1>u DEF SessionsInv, RowIsOfItsRevision
  <2>17. WaitIsKept' BY <2>4, <2>6, <2>10, <2>12, <2>14, <2>15, <2>16 DEF WaitIsKept, SessionsInv
  <2> QED BY <2>9, <2>11, <2>13, <2>17 DEF SessionsInv
<1> QED BY <1>1, <1>2 DEF PersistHalt

(* A restart loses the clock; the halt that was written starts it again.    *)
LEMMA RestartKeeps ==
  ASSUME SessionsInv, ApiRestarts PROVE SessionsInv'
<1>t. SessionsTypeOK BY DEF SessionsInv
<1>f. official \in OfficialRecords /\ owed \subseteq DebtRecords /\ manager \in ManagerRecords BY <1>t DEF SessionsTypeOK
<1>1. /\ prewarm' = FreshRegistry /\ manager' = ManagerIdle /\ saving' = 0
      /\ owed' = {[d EXCEPT !.timed = FALSE] : d \in {o \in owed : o.durable}}
      /\ official' = official \/ official' = [official EXCEPT !.by = "nobody"]
      /\ UNCHANGED <<railAccount, accountUse>>
  BY DEF ApiRestarts, GoesIdle
<1>2. official' \in OfficialRecords BY <1>1, <1>f, OfficialSteps
<1>3. \A d \in owed : LET e == [d EXCEPT !.timed = FALSE]
                      IN e \in DebtRecords /\ e.durable = d.durable /\ e.who = d.who
  BY <1>f DEF DebtRecords
<1>4. /\ owed' \subseteq DebtRecords
      /\ \A d \in owed' : d.durable /\ \E e \in owed : e.who = d.who /\ e.durable
  BY <1>1, <1>3
<1>5. SessionsTypeOK' BY <1>1, <1>2, <1>4, <1>t, NoneAreRecords DEF SessionsTypeOK
<1>6. RowIsOfItsRevision' BY <1>1, RowIdle
<1>7. manager'.at = "idle" /\ prewarm'.unanswered = 0 /\ prewarm'.clock = NoClock BY <1>1, NoneAreRecords
<1>8. AsksFree' BY <1>7 DEF AsksFree
<1>9. ClockLost' BY <1>4, <1>7 DEF ClockLost, Debts
<1>10. Debts' # {} => \E d \in Debts : d.durable BY <1>4 DEF Debts
<1>11. WaitIsKept' BY <1>1, <1>7, <1>9, <1>10 DEF WaitIsKept, SessionsInv, Halted
<1> QED BY <1>5, <1>6, <1>8, <1>11 DEF SessionsInv

-----------------------------------------------------------------------------
(* Nobody owes anything at the start.                                       *)
LEMMA SessionsStart ==
  SessionsInit => SessionsInv
<1> SUFFICES ASSUME SessionsInit PROVE SessionsInv OBVIOUS
<1>1. SessionsTypeOK BY SessionsStartTyped
<1>2. railAccount.rev = 1 /\ railAccount.version = 1 /\ manager.at = "idle" /\ manager.row.rev = 0 /\ Debts = {}
  BY NoneAreRecords DEF SessionsInit, Debts
<1>3. RowIsOfItsRevision BY <1>2 DEF RowIsOfItsRevision
<1>4. AsksFree /\ WaitIsKept BY <1>2 DEF AsksFree, WaitIsKept
<1> QED BY <1>1, <1>3, <1>4 DEF SessionsInv

(* The steps, grouped as the lemmas above take them.                        *)
LEMMA SessionsCases ==
  ASSUME SessionsNext
  PROVE  \/ BesideStep \/ ClockRunsOut \/ DeleteAccount \/ LoadAccount \/ FindSession \/ ClearHalt
         \/ (\E outcome : RestoreSession(outcome)) \/ (\E demand \in BOOLEAN : LookAtSession(demand))
         \/ AskStep \/ ConcludeRefusal \/ (\E outcome : ConcludeLogin(outcome)) \/ PersistHalt \/ ApiRestarts
BY DEF SessionsNext, BesideStep, AskStep, Demand

(* The invariant is inductive: one group of actions after the other.        *)
LEMMA SessionsStep ==
  SessionsInv /\ [SessionsNext]_sessionsVars => SessionsInv'
<1> SUFFICES ASSUME SessionsInv, [SessionsNext]_sessionsVars PROVE SessionsInv' OBVIOUS
<1>1. CASE SessionsNext
  <2>1. CASE BesideStep BY <2>1, BesideKeeps
  <2>2. CASE ClockRunsOut BY <2>2, ClockKeeps
  <2>3. CASE DeleteAccount BY <2>3, DeleteKeeps
  <2>4. CASE LoadAccount BY <2>4, LoadKeeps
  <2>5. CASE FindSession BY <2>5, FindKeeps
  <2>6. CASE ClearHalt BY <2>6, ClearKeeps
  <2>7. CASE \E outcome : RestoreSession(outcome) BY <2>7, RestoreKeeps
  <2>8. CASE \E demand \in BOOLEAN : LookAtSession(demand) BY <2>8, LookKeeps
  <2>9. CASE AskStep BY <2>9, AskKeeps
  <2>10. CASE ConcludeRefusal \/ (\E outcome : ConcludeLogin(outcome)) BY <2>10, ConcludeKeeps
  <2>11. CASE PersistHalt BY <2>11, PersistKeeps
  <2>12. CASE ApiRestarts BY <2>12, RestartKeeps
  <2> QED BY <1>1, SessionsCases, <2>1, <2>2, <2>3, <2>4, <2>5, <2>6, <2>7, <2>8, <2>9, <2>10, <2>11, <2>12
<1>2. CASE UNCHANGED sessionsVars
  <2>1. /\ railAccount' = railAccount /\ official' = official /\ prewarm' = prewarm /\ manager' = manager
        /\ saving' = saving /\ accountUse' = accountUse /\ owed' = owed
    BY <1>2 DEF sessionsVars
  <2> QED BY <2>1 DEF SessionsInv, SessionsTypeOK, RowIsOfItsRevision, AsksFree, WaitIsKept,
                      Running, ClockLost, Debts, Count, Halted, HaltFence
<1> QED BY <1>1, <1>2

(* Only the manager's own call starts a login of the manager.               *)
LEMMA OnlyAsksSubmit ==
  ASSUME SessionsInv, SessionsNext, Submits PROVE manager.at = "ask"
<1>t. SessionsTypeOK BY DEF SessionsInv
<1>f. official \in OfficialRecords /\ manager \in ManagerRecords BY <1>t DEF SessionsTypeOK
<1>s. official'.state = "authenticating" /\ official'.by = "manager" /\ official' # official BY DEF Submits
<1>1. CASE BesideStep BY <1>1, <1>t, BesideIs
<1>2. CASE AskProbe \/ AskLogin \/ AskDeferred BY <1>2 DEF AskProbe, AskLogin, AskDeferred
<1>3. CASE CallLost BY <1>3, <1>f, <1>s, OfficialSteps DEF CallLost
<1>4. CASE \E answer \in Answers : LoginAnswers(answer)
  BY <1>4, <1>f, <1>s, OfficialSteps DEF LoginAnswers, LoginEnds
<1>5. CASE SessionsSidecarRestarts BY <1>5, <1>s, NoneAreRecords DEF SessionsSidecarRestarts
<1>6. CASE ApiRestarts BY <1>6, <1>f, <1>s, OfficialSteps DEF ApiRestarts
<1>7. CASE \/ ClockRunsOut \/ DeleteAccount \/ LoadAccount \/ FindSession \/ ClearHalt
           \/ (\E outcome : RestoreSession(outcome)) \/ (\E demand \in BOOLEAN : LookAtSession(demand))
           \/ ConcludeRefusal \/ (\E outcome : ConcludeLogin(outcome)) \/ PersistHalt \/ ConcludeDeferred
  <2>1. official' = official
    BY <1>7 DEF ClockRunsOut, DeleteAccount, LoadAccount, FindSession, ClearHalt, RestoreSession, LookAtSession,
                ConcludeRefusal, ConcludeLogin, PersistHalt, ConcludeDeferred
  <2> QED BY <2>1, <1>s
<1> QED BY SessionsCases, <1>1, <1>2, <1>3, <1>4, <1>5, <1>6, <1>7 DEF AskStep

(* After a login of the manager met the protection of the provider, it sends *)
(* the same revision of the account no other login before a wait that began  *)
(* after the verdict is over; a restart of the API in between changes        *)
(* nothing, and no order of the manager's steps, the user's and the          *)
(* bookings', nor any failed write or lost call, does.                       *)
THEOREM ProtectionIsAlwaysWaitedOut ==
  SessionsSpec => ProtectionIsWaitedOut
<1>1. SessionsInv /\ [SessionsNext]_sessionsVars =>
        [Submits => ~(Owing("manager") /\ railAccount.rev = manager.row.rev)]_sessionsVars
  <2> SUFFICES ASSUME SessionsInv, SessionsNext, Submits PROVE ~Owing("manager")
    OBVIOUS
  <2>1. manager.at = "ask" BY OnlyAsksSubmit
  <2>2. Debts = {} BY <2>1 DEF SessionsInv, AsksFree
  <2> QED BY <2>2 DEF Debts, Owing
<1> QED BY <1>1, SessionsStart, SessionsStep, PTL DEF SessionsSpec, ProtectionIsWaitedOut
=============================================================================
