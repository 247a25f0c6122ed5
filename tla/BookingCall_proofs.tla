------------------------- MODULE BookingCall_proofs -------------------------
(***************************************************************************)
(* Proofs about one booking at the provider: BookingCall, the call and its *)
(* result, for any number of credential versions; ConfirmationReading, how *)
(* what became of the seat is read, for any number of other seats.         *)
(***************************************************************************)
EXTENDS BookingCall, ConfirmationReading, TLAPS

Answers == [outcome : Outcomes, clicked : BOOLEAN, evidence : 0 .. 4, unknown : BOOLEAN,
            deferred : BOOLEAN]
Frames == [stage : 0 .. 4, answer : Answers]
Results == Outcomes \union {"none", "UNKNOWN", "NOT_AVAILABLE"}
Listening == booking.at \in {"reading", "recording"}

TaskRecords == [at : {"none", "running", "pressing", "over"}, told : 0 .. 4, answer : Answers]
BookingRecords ==
  [at : {"claimed", "deferred", "reading", "recording", "ended", "written", "dead"},
   got : 0 .. 4, outcome : Results]
RowRecords == [outcome : Results \union {"PENDING", "RELEASED"}, stages : 0 .. 4, version : {1}]

BookingTypeOK ==
  /\ sidecarTask \in TaskRecords
  /\ pressed \in BOOLEAN
  /\ stream \in Seq(Frames)
  /\ booking \in BookingRecords
  /\ row \in RowRecords

(* Where the task is when the button was pressed.                           *)
PressIsKnown ==
  /\ booking.at = "claimed" => sidecarTask.at = "none" /\ stream = <<>>
  /\ sidecarTask.at = "none" => sidecarTask.told = 0 /\ booking.got = 0 /\ ~pressed /\ ~Listening
  /\ sidecarTask.at = "pressing" => sidecarTask.told = 3
  /\ pressed /\ sidecarTask.at = "running" => sidecarTask.told = 4

(* The stages of the worker and of the row are behind those of the task.    *)
StagesAreTold == booking.got <= sidecarTask.told /\ row.stages <= sidecarTask.told

(* An answer after the press tells of it, or does not agree with the stages. *)
Honest(answer) ==
  pressed => \/ answer.evidence # sidecarTask.told
             \/ ~answer.deferred /\ (answer.unknown \/ answer.evidence = 4)

(* The frames on their way are the stages the worker has not got, in their  *)
(* order, and last, when the task is over, its answer.                      *)
IsLastFrame(i) ==
  /\ i = Len(stream) /\ stream[i].stage = 0 /\ sidecarTask.at = "over"
  /\ booking.got + i - 1 = sidecarTask.told /\ Honest(stream[i].answer)
IsNextStage(i) == stream[i].stage = booking.got + i /\ stream[i].stage <= sidecarTask.told
FramesInOrder ==
  Listening =>
    /\ \A i \in 1 .. Len(stream) : IsNextStage(i) \/ IsLastFrame(i)
    /\ sidecarTask.at \in {"running", "pressing"} => booking.got + Len(stream) = sidecarTask.told

(* Nothing was pressed and nothing will be.                                 *)
NeverPresses == ~pressed /\ sidecarTask.at \in {"none", "over"} /\ booking.at # "claimed"
RepeatIsSafe ==
  /\ booking.at = "ended" /\ booking.outcome \in Repeatable => NeverPresses
  /\ booking.at = "deferred" => NeverPresses
  /\ row.outcome \in Repeatable => NeverPresses

BookingInv == BookingTypeOK /\ PressIsKnown /\ StagesAreTold /\ FramesInOrder /\ RepeatIsSafe

(* The call has not begun.                                                  *)
LEMMA BookingStart == BookingInit => BookingInv
<1> SUFFICES ASSUME BookingInit PROVE BookingInv
  OBVIOUS
<1>1. BookingTypeOK
  <2>1. NoPublic \in Answers
    BY DEF NoPublic, Answers, Outcomes
  <2>2. sidecarTask \in TaskRecords
    BY <2>1 DEF BookingInit, TaskRecords
  <2>3. booking \in BookingRecords /\ row \in RowRecords
    BY DEF BookingInit, BookingRecords, RowRecords, Results
  <2>4. pressed \in BOOLEAN
    BY DEF BookingInit
  <2>5. stream \in Seq(Frames)
    BY DEF BookingInit
  <2>6. QED
    BY <2>2, <2>3, <2>4, <2>5 DEF BookingTypeOK
<1>2. PressIsKnown /\ StagesAreTold /\ FramesInOrder /\ RepeatIsSafe
  BY DEF BookingInit, PressIsKnown, StagesAreTold, FramesInOrder, RepeatIsSafe, Listening, Repeatable
<1>3. QED
  BY <1>1, <1>2 DEF BookingInv

(* The fields of the answers the task may return.                           *)
LEMMA AnswersAreTyped ==
  ASSUME BookingTypeOK
  PROVE  /\ NoPublic \in Answers /\ NoPublic.evidence = 0 /\ ~NoPublic.deferred /\ ~NoPublic.unknown
         /\ Evidence \in Answers /\ Evidence.evidence = sidecarTask.told /\ ~Evidence.deferred
         /\ Evidence.outcome = "FAILED"
<1>1. NoPublic \in Answers /\ NoPublic.evidence = 0 /\ ~NoPublic.deferred /\ ~NoPublic.unknown
  BY DEF NoPublic, Answers, Outcomes
<1>2. sidecarTask.told \in 0 .. 4
  BY DEF BookingTypeOK, TaskRecords, BookingRecords, RowRecords
<1>3. Evidence \in Answers /\ Evidence.evidence = sidecarTask.told /\ ~Evidence.deferred
      /\ Evidence.outcome = "FAILED"
  BY <1>1, <1>2 DEF Evidence, Answers, NoPublic
<1>4. QED
  BY <1>1, <1>3

(* The task tells its next stage.                                           *)
LEMMA TellingStep ==
  ASSUME BookingInv, NEW n \in 1 .. 4, n = sidecarTask.told + 1, TaskTells(n), UNCHANGED pressed,
         TaskStep, sidecarTask.at = (IF n = 4 THEN "pressing" ELSE "running")
  PROVE  BookingInv'
<1> USE DEF BookingInv
<1>1. /\ sidecarTask'.told = n /\ sidecarTask'.at = "running"
      /\ sidecarTask' \in TaskRecords
  <2>1. sidecarTask \in TaskRecords /\ n \in 0 .. 4
    BY DEF BookingTypeOK
  <2>2. sidecarTask' = [sidecarTask EXCEPT !.told = n, !.at = "running"]
    BY DEF TaskTells
  <2>3. QED
    BY <2>1, <2>2 DEF TaskRecords
<1>2. Progress(n) \in Frames /\ Progress(n).stage = n
  BY AnswersAreTyped DEF Progress, Frames
<1>3. stream' = IF Listening THEN Append(stream, Progress(n)) ELSE stream
  BY DEF TaskTells, Tell, Listening
<1>4. BookingTypeOK'
  BY <1>1, <1>2, <1>3 DEF BookingTypeOK, TaskStep
<1>5. PressIsKnown'
  BY <1>1 DEF PressIsKnown, TaskStep, Listening, BookingTypeOK, TaskRecords, BookingRecords, RowRecords
<1>6. StagesAreTold'
  BY <1>1 DEF StagesAreTold, TaskStep, BookingTypeOK, TaskRecords, BookingRecords, RowRecords
<1>7. FramesInOrder'
  <2> SUFFICES ASSUME Listening'
               PROVE  /\ \A i \in 1 .. Len(stream') : IsNextStage(i)' \/ IsLastFrame(i)'
                      /\ booking'.got + Len(stream') = sidecarTask'.told
    BY DEF FramesInOrder
  <2>1. Listening /\ booking' = booking /\ stream' = Append(stream, Progress(n))
    BY <1>3 DEF TaskStep, Listening
  <2>2. booking.got + Len(stream) = sidecarTask.told
    BY <2>1 DEF FramesInOrder
  <2>3. \A i \in 1 .. Len(stream) : IsNextStage(i)
    BY <2>1 DEF FramesInOrder, IsLastFrame
  <2>4. stream \in Seq(Frames) /\ booking.got \in 0 .. 4 /\ sidecarTask.told \in 0 .. 4
    BY DEF BookingTypeOK, TaskRecords, BookingRecords, RowRecords
  <2>5. Len(stream') = Len(stream) + 1
    BY <1>2, <2>1, <2>4
  <2>6. \A i \in 1 .. Len(stream) : stream'[i] = stream[i]
    BY <1>2, <2>1, <2>4
  <2>7. stream'[Len(stream) + 1] = Progress(n)
    BY <1>2, <2>1, <2>4
  <2>8. \A i \in 1 .. Len(stream') : IsNextStage(i)'
    <3>1. ASSUME NEW i \in 1 .. Len(stream')
          PROVE  IsNextStage(i)'
      <4>1. CASE i \in 1 .. Len(stream)
        <5>1. stream[i].stage = booking.got + i /\ stream[i].stage <= sidecarTask.told
          BY <2>3, <4>1 DEF IsNextStage
        <5>2. stream'[i] = stream[i] /\ booking' = booking
          BY <2>1, <2>6, <4>1
        <5>3. i \in Int /\ sidecarTask'.told = sidecarTask.told + 1
          BY <1>1, <4>1
        <5>4. stream[i].stage <= sidecarTask.told + 1
          BY <2>4, <5>1, <5>3
        <5>5. QED
          BY <5>1, <5>2, <5>3, <5>4 DEF IsNextStage
      <4>2. CASE i = Len(stream) + 1
        BY <1>1, <1>2, <2>1, <2>2, <2>4, <2>7, <4>2 DEF IsNextStage
      <4>3. QED
        BY <2>4, <2>5, <4>1, <4>2
    <3>2. QED
      BY <3>1
  <2>9. QED
    BY <1>1, <2>1, <2>2, <2>4, <2>5, <2>8
<1>8. RepeatIsSafe'
  BY DEF RepeatIsSafe, NeverPresses, TaskStep
<1>9. QED
  BY <1>4, <1>5, <1>6, <1>7, <1>8

(* The task returns an answer that is honest about the press.               *)
LEMMA ReturningStep ==
  ASSUME BookingInv, NEW answer \in Answers, Honest(answer), TaskReturns(answer), UNCHANGED pressed,
         TaskStep, sidecarTask.at \in {"running", "pressing"}
  PROVE  BookingInv'
<1> USE DEF BookingInv
<1>1. /\ sidecarTask'.told = sidecarTask.told /\ sidecarTask'.at = "over"
      /\ sidecarTask' \in TaskRecords
  <2>1. sidecarTask \in TaskRecords
    BY DEF BookingTypeOK
  <2>2. sidecarTask' = [sidecarTask EXCEPT !.at = "over", !.answer = answer]
    BY DEF TaskReturns
  <2>3. QED
    BY <2>1, <2>2 DEF TaskRecords
<1>2. Terminal(answer) \in Frames /\ Terminal(answer).stage = 0 /\ Terminal(answer).answer = answer
  BY DEF Terminal, Frames
<1>3. stream' = IF Listening THEN Append(stream, Terminal(answer)) ELSE stream
  BY DEF TaskReturns, Tell, Listening
<1>4. BookingTypeOK'
  BY <1>1, <1>2, <1>3 DEF BookingTypeOK, TaskStep
<1>5. PressIsKnown'
  BY <1>1 DEF PressIsKnown, TaskStep, Listening, BookingTypeOK, TaskRecords, BookingRecords, RowRecords
<1>6. StagesAreTold'
  BY <1>1 DEF StagesAreTold, TaskStep, BookingTypeOK, TaskRecords, BookingRecords, RowRecords
<1>7. FramesInOrder'
  <2> SUFFICES ASSUME Listening'
               PROVE  \A i \in 1 .. Len(stream') : IsNextStage(i)' \/ IsLastFrame(i)'
    BY <1>1 DEF FramesInOrder
  <2>1. Listening /\ booking' = booking /\ stream' = Append(stream, Terminal(answer))
    BY <1>3 DEF TaskStep, Listening
  <2>2. booking.got + Len(stream) = sidecarTask.told
    BY <2>1 DEF FramesInOrder
  <2>3. \A i \in 1 .. Len(stream) : IsNextStage(i)
    BY <2>1 DEF FramesInOrder, IsLastFrame
  <2>4. stream \in Seq(Frames) /\ booking.got \in 0 .. 4 /\ sidecarTask.told \in 0 .. 4
    BY DEF BookingTypeOK, TaskRecords, BookingRecords, RowRecords
  <2>5. Len(stream') = Len(stream) + 1
    BY <1>2, <2>1, <2>4
  <2>6. \A i \in 1 .. Len(stream) : stream'[i] = stream[i]
    BY <1>2, <2>1, <2>4
  <2>7. stream'[Len(stream')] = Terminal(answer)
    BY <1>2, <2>1, <2>4, <2>5
  <2>8. Honest(answer)'
    BY <1>1 DEF Honest
  <2>9. \A i : i = Len(stream') => IsLastFrame(i)'
    BY <1>1, <1>2, <2>1, <2>2, <2>4, <2>5, <2>7, <2>8 DEF IsLastFrame, Honest
  <2>10. \A i \in 1 .. Len(stream) : IsNextStage(i)'
    BY <1>1, <2>1, <2>3, <2>6 DEF IsNextStage
  <2>11. QED
    BY <2>4, <2>5, <2>9, <2>10
<1>8. RepeatIsSafe'
  BY DEF RepeatIsSafe, NeverPresses, TaskStep
<1>9. QED
  BY <1>4, <1>5, <1>6, <1>7, <1>8

(* The sidecar's steps.                                                     *)
LEMMA SidecarSteps ==
  ASSUME BookingInv,
         \/ ReachesStage \/ PressBooking \/ PressReturns \/ PressRaises
         \/ ActorReturns \/ ActorDefers \/ TaskBreaks
         \/ ShutDown \/ Closed \/ SidecarKilled \/ Readies
  PROVE  BookingInv'
<1> USE DEF BookingInv
<1>1. CASE ReachesStage
  <2>1. sidecarTask.told + 1 \in 1 .. 4 /\ sidecarTask.told + 1 # 4
    BY <1>1 DEF ReachesStage, BookingTypeOK, TaskRecords
  <2>2. QED
    BY <1>1, <2>1, TellingStep DEF ReachesStage
<1>2. CASE PressReturns
  <2>1. sidecarTask.told + 1 = 4
    BY <1>2 DEF PressReturns, PressIsKnown
  <2>2. QED
    BY <1>2, <2>1, TellingStep DEF PressReturns
<1>3. CASE PressRaises
  <2> DEFINE answer == [Evidence EXCEPT !.unknown = TRUE]
  <2>1. answer \in Answers /\ answer.unknown /\ ~answer.deferred
    BY AnswersAreTyped DEF Answers
  <2>2. Honest(answer)
    BY <2>1 DEF Honest
  <2>3. TaskReturns(answer) /\ UNCHANGED pressed /\ TaskStep /\ sidecarTask.at = "pressing"
    BY <1>3 DEF PressRaises
  <2> HIDE DEF answer
  <2>4. QED
    BY <2>1, <2>2, <2>3, ReturningStep
<1>4. CASE ActorReturns
  <2>1. PICK outcome \in Outcomes : TaskReturns([Evidence EXCEPT !.outcome = outcome])
    BY <1>4 DEF ActorReturns
  <2> DEFINE answer == [Evidence EXCEPT !.outcome = outcome]
  <2>2. answer \in Answers /\ answer.evidence = sidecarTask.told /\ ~answer.deferred
    BY AnswersAreTyped DEF Answers
  <2>3. sidecarTask.at = "running" /\ UNCHANGED pressed /\ TaskStep
    BY <1>4 DEF ActorReturns
  <2>4. Honest(answer)
    BY <2>2, <2>3 DEF Honest, PressIsKnown
  <2>5. TaskReturns(answer)
    BY <2>1
  <2> HIDE DEF answer
  <2>6. QED
    BY <2>2, <2>3, <2>4, <2>5, ReturningStep
<1>5. CASE ActorDefers
  <2>1. sidecarTask.at = "running" /\ UNCHANGED pressed /\ TaskStep
    BY <1>5 DEF ActorDefers
  <2>2. CASE sidecarTask.told = 4
    <3>1. Honest(Evidence) /\ TaskReturns(Evidence)
      BY <1>5, <2>2, AnswersAreTyped DEF ActorDefers, Honest
    <3>2. QED
      BY <2>1, <3>1, AnswersAreTyped, ReturningStep
  <2>3. CASE sidecarTask.told # 4
    <3> DEFINE answer == [NoPublic EXCEPT !.deferred = TRUE]
    <3>1. answer \in Answers
      BY AnswersAreTyped DEF Answers
    <3>2. Honest(answer)
      BY <2>1, <2>3 DEF Honest, PressIsKnown
    <3>3. TaskReturns(answer)
      BY <1>5, <2>3 DEF ActorDefers
    <3> HIDE DEF answer
    <3>4. QED
      BY <2>1, <3>1, <3>2, <3>3, ReturningStep
  <2>4. QED
    BY <2>2, <2>3
<1>6. CASE TaskBreaks
  <2>1. sidecarTask.at = "running" /\ UNCHANGED pressed /\ TaskStep /\ TaskReturns(NoPublic)
    BY <1>6 DEF TaskBreaks
  <2>2. Honest(NoPublic)
    BY <2>1, AnswersAreTyped DEF Honest, PressIsKnown
  <2>3. QED
    BY <2>1, <2>2, AnswersAreTyped, ReturningStep
<1>7. CASE PressBooking
  <2>1. /\ sidecarTask.at = "running" /\ sidecarTask.told = 3 /\ sidecarTask'.at = "pressing"
        /\ sidecarTask'.told = 3 /\ sidecarTask' \in TaskRecords /\ pressed'
        /\ UNCHANGED <<stream, booking, row>>
    BY <1>7 DEF PressBooking, TaskStep, BookingTypeOK, TaskRecords
  <2>2. BookingTypeOK'
    BY <1>7, <2>1 DEF BookingTypeOK, PressBooking
  <2>3. PressIsKnown' /\ StagesAreTold' /\ RepeatIsSafe'
    BY <2>1 DEF PressIsKnown, StagesAreTold, RepeatIsSafe, NeverPresses
  <2>4. FramesInOrder'
    BY <2>1 DEF FramesInOrder, IsLastFrame, IsNextStage, Listening
  <2>5. QED
    BY <2>2, <2>3, <2>4
<1>8. CASE SidecarKilled
  <2>1. /\ sidecarTask'.at = IF sidecarTask.at = "none" THEN "none" ELSE "over"
        /\ sidecarTask'.told = sidecarTask.told /\ sidecarTask' \in TaskRecords
        /\ UNCHANGED <<pressed, stream, booking, row>>
    BY <1>8 DEF SidecarKilled, BookingTypeOK, TaskRecords
  <2>2. BookingTypeOK'
    BY <2>1 DEF BookingTypeOK
  <2>3. PressIsKnown' /\ StagesAreTold' /\ RepeatIsSafe'
    BY <2>1 DEF PressIsKnown, StagesAreTold, RepeatIsSafe, NeverPresses, Listening
  <2>4. FramesInOrder'
    BY <2>1 DEF FramesInOrder, IsLastFrame, IsNextStage, Listening, Honest
  <2>5. QED
    BY <2>2, <2>3, <2>4
<1>9. CASE ShutDown \/ Closed \/ Readies
  <2>1. UNCHANGED <<sidecarTask, pressed, stream, booking, row>>
    BY <1>9 DEF ShutDown, Closed, Readies
  <2>2. QED
    BY <2>1 DEF BookingTypeOK, PressIsKnown, StagesAreTold, FramesInOrder, RepeatIsSafe,
                NeverPresses, IsLastFrame, IsNextStage, Listening, Honest
<1>10. QED
  BY <1>1, <1>2, <1>3, <1>4, <1>5, <1>6, <1>7, <1>8, <1>9

(* The worker stops listening, without having the press forgotten.          *)
LEMMA LeavingStep ==
  ASSUME BookingInv, NEW there \in {"deferred", "ended", "written", "dead"},
         booking' \in BookingRecords, booking'.at = there, booking'.got = booking.got,
         UNCHANGED <<sidecarTask, pressed>>, stream' \in Seq(Frames),
         row' \in RowRecords, row'.stages <= sidecarTask.told,
         there = "ended" /\ booking'.outcome \in Repeatable => NeverPresses',
         there = "deferred" => NeverPresses',
         row'.outcome \in Repeatable => NeverPresses'
  PROVE  BookingInv'
<1> USE DEF BookingInv
<1>1. BookingTypeOK'
  BY DEF BookingTypeOK
<1>2. PressIsKnown' /\ StagesAreTold' /\ FramesInOrder'
  BY DEF PressIsKnown, StagesAreTold, FramesInOrder, Listening
<1>3. RepeatIsSafe'
  BY DEF RepeatIsSafe
<1>4. QED
  BY <1>1, <1>2, <1>3

(* What a call that ends makes of the worker's record.                      *)
LEMMA CallEnded ==
  ASSUME booking \in BookingRecords, NEW outcome \in Results, CallEnds(outcome)
  PROVE  /\ booking' \in BookingRecords /\ booking'.at = "ended" /\ booking'.got = booking.got
         /\ booking'.outcome = outcome
<1>1. booking' = [booking EXCEPT !.at = "ended", !.outcome = outcome]
  BY DEF CallEnds
<1>2. QED
  BY <1>1 DEF BookingRecords

(* And one that goes elsewhere.                                             *)
LEMMA CallGone ==
  ASSUME booking \in BookingRecords,
         NEW there \in {"deferred", "reading", "written", "dead"}, CallGoes(there)
  PROVE  /\ booking' \in BookingRecords /\ booking'.at = there /\ booking'.got = booking.got
         /\ booking'.outcome = booking.outcome
<1>1. booking' = [booking EXCEPT !.at = there]
  BY DEF CallGoes
<1>2. QED
  BY <1>1 DEF BookingRecords

(* The call that is not made, refused or broken off.                        *)
LEMMA UnmadeSteps ==
  ASSUME BookingInv, Unsent \/ StreamRefused \/ StreamBreaks \/ BeginStream
  PROVE  BookingInv'
<1> USE DEF BookingInv
<1>1. /\ booking \in BookingRecords /\ row \in RowRecords /\ stream \in Seq(Frames)
      /\ sidecarTask \in TaskRecords /\ row.stages <= sidecarTask.told
  BY DEF BookingTypeOK, StagesAreTold
<1>2. booking.at = "claimed" => ~pressed /\ sidecarTask.at = "none"
  BY DEF PressIsKnown
<1>3. row.outcome \in Repeatable => NeverPresses
  BY DEF RepeatIsSafe
<1>4. CASE Unsent
  <2>1. CASE CallEnds("FAILED")
    BY <1>1, <1>2, <1>3, <1>4, <2>1, CallEnded, LeavingStep
    DEF Unsent, Booked, Rows, NeverPresses, Results, Outcomes
  <2>2. CASE CallGoes("deferred")
    BY <1>1, <1>2, <1>3, <1>4, <2>2, CallGone, LeavingStep DEF Unsent, Booked, Rows, NeverPresses
  <2>3. QED
    BY <1>4, <2>1, <2>2 DEF Unsent
<1>5. CASE StreamRefused
  <2>1. PICK outcome \in {"UNKNOWN", "FAILED"} : CallEnds(outcome)
    BY <1>5 DEF StreamRefused
  <2>2. outcome \in Results
    BY DEF Results, Outcomes
  <2>3. /\ booking' \in BookingRecords /\ booking'.at = "ended" /\ booking'.got = booking.got
        /\ booking.at = "claimed" /\ UNCHANGED <<sidecarTask, pressed, stream, row>>
    BY <1>1, <1>5, <2>1, <2>2, CallEnded DEF StreamRefused, Booked, Rows
  <2>4. NeverPresses'
    BY <1>2, <2>3 DEF NeverPresses
  <2>5. QED
    BY <1>1, <2>3, <2>4, LeavingStep
<1>6. CASE StreamBreaks
  <2>1. /\ booking' \in BookingRecords /\ booking'.at = "ended" /\ booking'.got = booking.got
        /\ booking'.outcome = "UNKNOWN" /\ stream' = <<>> /\ UNCHANGED <<pressed, row>>
    BY <1>1, <1>6, CallEnded DEF StreamBreaks, Rows, Results
  <2>2. CASE sidecarTask' = sidecarTask
    BY <1>1, <1>3, <2>1, <2>2, LeavingStep DEF NeverPresses, Repeatable
  <2>3. CASE booking.at = "claimed" /\ sidecarTask' = [sidecarTask EXCEPT !.at = "running"]
    <3>1. /\ sidecarTask' \in TaskRecords /\ sidecarTask'.at = "running"
          /\ sidecarTask'.told = sidecarTask.told /\ ~pressed'
      BY <1>1, <1>2, <2>1, <2>3 DEF TaskRecords
    <3>2. BookingTypeOK'
      BY <1>1, <2>1, <3>1 DEF BookingTypeOK
    <3>3. PressIsKnown' /\ StagesAreTold' /\ FramesInOrder'
      BY <2>1, <3>1 DEF PressIsKnown, StagesAreTold, FramesInOrder, Listening
    <3>4. row'.outcome \notin Repeatable /\ booking'.outcome \notin Repeatable
      BY <1>3, <2>1, <2>3 DEF NeverPresses, Repeatable
    <3>5. RepeatIsSafe'
      BY <2>1, <3>4 DEF RepeatIsSafe
    <3>6. QED
      BY <3>2, <3>3, <3>5
  <2>4. QED
    BY <1>6, <2>2, <2>3 DEF StreamBreaks
<1>7. CASE BeginStream
  <2>1. /\ booking.at = "claimed" /\ booking' \in BookingRecords /\ booking'.at = "reading"
        /\ booking'.got = booking.got /\ UNCHANGED <<pressed, stream, row>>
    BY <1>1, <1>7, CallGone DEF BeginStream, Rows
  <2>2. /\ sidecarTask' \in TaskRecords /\ sidecarTask'.at = "running"
        /\ sidecarTask'.told = sidecarTask.told
    BY <1>1, <1>7 DEF BeginStream, TaskRecords
  <2>3. ~pressed /\ sidecarTask.told = 0 /\ booking.got = 0 /\ stream = <<>>
    BY <1>2, <2>1 DEF PressIsKnown
  <2>4. BookingTypeOK'
    BY <2>1, <2>2 DEF BookingTypeOK
  <2>5. PressIsKnown' /\ StagesAreTold'
    BY <2>1, <2>2, <2>3 DEF PressIsKnown, StagesAreTold
  <2>6. FramesInOrder'
    BY <2>1, <2>2, <2>3 DEF FramesInOrder
  <2>7. RepeatIsSafe'
    BY <1>3, <2>1 DEF RepeatIsSafe, NeverPresses
  <2>8. QED
    BY <2>4, <2>5, <2>6, <2>7
<1>8. QED
  BY <1>4, <1>5, <1>6, <1>7

(* The worker takes a stage from the stream.                                *)
LEMMA ReadStageStep ==
  ASSUME BookingInv, ReadStage
  PROVE  BookingInv'
<1> USE DEF BookingInv
<1>1. /\ booking \in BookingRecords /\ booking.got \in 0 .. 4 /\ row \in RowRecords
      /\ stream \in Seq(Frames) /\ sidecarTask \in TaskRecords
      /\ sidecarTask.told \in 0 .. 4 /\ row.stages <= sidecarTask.told
      /\ row.outcome \in Repeatable => NeverPresses
  BY DEF BookingTypeOK, BookingRecords, TaskRecords, StagesAreTold, RepeatIsSafe
<1>2. /\ booking.at = "reading" /\ stream # <<>> /\ stream[1].stage # 0
      /\ stream' = Tail(stream) /\ UNCHANGED <<sidecarTask, pressed, row>>
  BY DEF ReadStage, Booked, Rows
<1>3. /\ Len(stream) \in Nat \ {0} /\ stream[1] \in Frames /\ stream' \in Seq(Frames)
      /\ Len(stream') = Len(stream) - 1 /\ \A i \in 1 .. Len(stream') : stream'[i] = stream[i + 1]
  BY <1>1, <1>2
<1>4. stream[1].stage \in 1 .. 4
  BY <1>2, <1>3 DEF Frames
<1>5. CASE stream[1].stage = booking.got + 1
  <2>1. booking' = [booking EXCEPT !.at = "recording", !.got = booking.got + 1]
    BY <1>2, <1>5 DEF ReadStage
  <2>2. /\ booking' \in BookingRecords /\ booking'.at = "recording"
        /\ booking'.got = booking.got + 1
    <3>1. booking.got + 1 \in 0 .. 4
      BY <1>4, <1>5
    <3>2. QED
      BY <1>1, <2>1, <3>1 DEF BookingRecords
  <2>3. Listening /\ booking.got + 1 <= sidecarTask.told
    <3>1. Listening /\ 1 \in 1 .. Len(stream)
      BY <1>2, <1>3 DEF Listening
    <3>2. IsNextStage(1)
      BY <1>2, <3>1 DEF FramesInOrder, IsLastFrame
    <3>3. QED
      BY <3>1, <3>2 DEF IsNextStage
  <2>4. BookingTypeOK'
    BY <1>1, <1>2, <1>3, <2>2 DEF BookingTypeOK
  <2>5. PressIsKnown'
    BY <1>2, <2>2, <2>3 DEF PressIsKnown
  <2>6. StagesAreTold'
    BY <1>1, <1>2, <2>2, <2>3 DEF StagesAreTold
  <2>7. FramesInOrder'
    <3>1. ASSUME NEW i \in 1 .. Len(stream')
          PROVE  IsNextStage(i)' \/ IsLastFrame(i)'
      <4>1. i + 1 \in 1 .. Len(stream) /\ stream'[i] = stream[i + 1]
        BY <1>3, <3>1
      <4>2. IsNextStage(i + 1) \/ IsLastFrame(i + 1)
        BY <2>3, <4>1 DEF FramesInOrder
      <4>3. CASE IsNextStage(i + 1)
        BY <1>1, <1>2, <2>2, <3>1, <4>1, <4>3 DEF IsNextStage
      <4>4. CASE IsLastFrame(i + 1)
        <5>1. i = Len(stream') /\ stream'[i].stage = 0 /\ sidecarTask'.at = "over"
          <6>1. i + 1 = Len(stream) /\ stream[i + 1].stage = 0 /\ sidecarTask.at = "over"
            BY <4>4 DEF IsLastFrame
          <6>2. i \in Int
            BY <1>3, <3>1
          <6>3. i = Len(stream')
            BY <1>3, <6>1, <6>2
          <6>4. stream'[i].stage = 0
            BY <4>1, <6>1
          <6>5. QED
            BY <1>2, <6>1, <6>3, <6>4
        <5>2. booking'.got + i - 1 = sidecarTask'.told
          BY <1>1, <1>2, <2>2, <3>1, <4>4 DEF IsLastFrame
        <5>3. Honest(stream[i + 1].answer) /\ stream'[i].answer = stream[i + 1].answer
          BY <4>1, <4>4 DEF IsLastFrame
        <5>4. Honest(stream[i].answer)'
          BY <1>2, <5>3 DEF Honest
        <5>5. QED
          BY <5>1, <5>2, <5>4 DEF IsLastFrame
      <4>5. QED
        BY <4>2, <4>3, <4>4
    <3>2. sidecarTask'.at \in {"running", "pressing"} =>
            booking'.got + Len(stream') = sidecarTask'.told
      BY <1>1, <1>2, <1>3, <2>2, <2>3 DEF FramesInOrder
    <3>3. QED
      BY <3>1, <3>2 DEF FramesInOrder
  <2>8. RepeatIsSafe'
    BY <1>1, <1>2, <2>2 DEF RepeatIsSafe, NeverPresses
  <2>9. QED
    BY <2>4, <2>5, <2>6, <2>7, <2>8
<1>6. CASE stream[1].stage # booking.got + 1
  <2>1. CallEnds("UNKNOWN")
    BY <1>2, <1>6 DEF ReadStage
  <2>2. /\ booking' \in BookingRecords /\ booking'.at = "ended" /\ booking'.got = booking.got
        /\ booking'.outcome = "UNKNOWN"
    BY <1>1, <2>1, CallEnded DEF Results
  <2>3. QED
    BY <1>1, <1>2, <1>3, <2>2, LeavingStep DEF NeverPresses, Repeatable
<1>7. QED
  BY <1>5, <1>6

(* The worker takes the result: one that agrees with the stages it got      *)
(* tells of the press.                                                      *)
LEMMA ReadResultStep ==
  ASSUME BookingInv, ReadResult
  PROVE  BookingInv'
<1> USE DEF BookingInv
<1> DEFINE answer == stream[1].answer
<1>1. /\ booking \in BookingRecords /\ booking.got \in 0 .. 4 /\ row \in RowRecords
      /\ stream \in Seq(Frames) /\ sidecarTask \in TaskRecords
      /\ sidecarTask.told \in 0 .. 4 /\ row.stages <= sidecarTask.told
      /\ row.outcome \in Repeatable => NeverPresses
  BY DEF BookingTypeOK, BookingRecords, TaskRecords, StagesAreTold, RepeatIsSafe
<1>2. /\ booking.at = "reading" /\ stream # <<>> /\ stream[1].stage = 0
      /\ stream' = Tail(stream) /\ UNCHANGED <<sidecarTask, pressed, row>>
  BY DEF ReadResult, Booked, Rows
<1>3. Len(stream) \in Nat \ {0} /\ stream[1] \in Frames /\ stream' \in Seq(Frames)
  BY <1>1, <1>2
<1>4. answer \in Answers /\ answer.outcome \in Outcomes
  BY <1>3 DEF Frames, Answers
<1>5. IsLastFrame(1)
  BY <1>1, <1>2, <1>3 DEF FramesInOrder, IsNextStage, Listening
<1>6. booking.got = sidecarTask.told /\ sidecarTask.at = "over" /\ Honest(answer)
  BY <1>1, <1>5 DEF IsLastFrame
<1>7. CASE ~ Agrees(answer)
  <2>1. CallEnds("UNKNOWN")
    BY <1>7 DEF ReadResult
  <2>2. /\ booking' \in BookingRecords /\ booking'.at = "ended" /\ booking'.got = booking.got
        /\ booking'.outcome = "UNKNOWN"
    BY <1>1, <2>1, CallEnded DEF Results
  <2>3. QED
    BY <1>1, <1>2, <1>3, <2>2, LeavingStep DEF NeverPresses, Repeatable
<1>8. CASE Agrees(answer) /\ answer.deferred
  <2>1. CallGoes("deferred") /\ ~pressed
    BY <1>6, <1>8 DEF ReadResult, Agrees, Honest
  <2>2. booking' \in BookingRecords /\ booking'.at = "deferred" /\ booking'.got = booking.got
    BY <1>1, <2>1, CallGone
  <2>3. NeverPresses'
    BY <1>2, <1>6, <2>1, <2>2 DEF NeverPresses
  <2>4. QED
    BY <1>1, <1>2, <1>3, <2>2, <2>3, LeavingStep
<1>9. CASE Agrees(answer) /\ ~answer.deferred
  <2>1. PICK outcome \in Projected(answer) : CallEnds(outcome)
    BY <1>9 DEF ReadResult
  <2>2. outcome \in Results
    BY <1>4, <2>1 DEF Projected, Results
  <2>3. /\ booking' \in BookingRecords /\ booking'.at = "ended" /\ booking'.got = booking.got
        /\ booking'.outcome = outcome
    BY <1>1, <2>1, <2>2, CallEnded
  <2>4. outcome \in Repeatable => ~pressed
    BY <1>6, <1>9, <2>1 DEF Agrees, Honest, Projected, Repeatable
  <2>5. outcome \in Repeatable => NeverPresses'
    BY <1>2, <1>6, <2>3, <2>4 DEF NeverPresses
  <2>6. row'.outcome \in Repeatable => NeverPresses'
    BY <1>1, <1>2, <2>3 DEF NeverPresses
  <2>7. QED
    BY <1>1, <1>2, <1>3, <2>3, <2>5, <2>6, LeavingStep
<1>10. QED
  BY <1>7, <1>8, <1>9

(* The rows are written.                                                    *)
LEMMA RowSteps ==
  ASSUME BookingInv, ReleaseClaim \/ WriteResult \/ WriteFails \/ WorkerKilled
  PROVE  BookingInv'
<1> USE DEF BookingInv
<1>1. /\ booking \in BookingRecords /\ row \in RowRecords /\ stream \in Seq(Frames)
      /\ row.stages <= sidecarTask.told /\ booking.got <= sidecarTask.told
      /\ booking.got \in 0 .. 4 /\ booking.outcome \in Results
  BY DEF BookingTypeOK, StagesAreTold, BookingRecords
<1>2. row.outcome \in Repeatable => NeverPresses
  BY DEF RepeatIsSafe
<1>3. CASE WriteFails \/ WorkerKilled
  <2>1. /\ CallGoes("dead") /\ UNCHANGED <<sidecarTask, pressed, row>> /\ stream' \in Seq(Frames)
    <3>1. CASE WriteFails
      BY <1>1, <3>1 DEF WriteFails, Booked, Rows
    <3>2. CASE WorkerKilled
      <4>1. stream' = <<>> /\ <<>> \in Seq(Frames)
        BY <3>2 DEF WorkerKilled
      <4>2. QED
        BY <3>2, <4>1 DEF WorkerKilled, Booked, Rows
    <3>3. QED
      BY <1>3, <3>1, <3>2
  <2>2. booking' \in BookingRecords /\ booking'.at = "dead" /\ booking'.got = booking.got
    BY <1>1, <2>1, CallGone
  <2>3. QED
    BY <1>1, <1>2, <2>1, <2>2, LeavingStep DEF NeverPresses
<1>4. CASE ReleaseClaim
  <2>1. booking.at = "deferred" /\ NeverPresses /\ UNCHANGED <<stream, sidecarTask, pressed>>
    BY <1>4 DEF ReleaseClaim, Booked, RepeatIsSafe
  <2>2. CASE row' = [row EXCEPT !.outcome = "RELEASED"] /\ CallGoes("written")
    <3>1. row' \in RowRecords /\ row'.stages = row.stages
      BY <1>1, <2>2 DEF RowRecords
    <3>2. booking' \in BookingRecords /\ booking'.at = "written" /\ booking'.got = booking.got
      BY <1>1, <2>2, CallGone
    <3>3. NeverPresses'
      BY <2>1, <3>2 DEF NeverPresses
    <3>4. QED
      BY <1>1, <2>1, <3>1, <3>2, <3>3, LeavingStep
  <2>3. CASE UNCHANGED row /\ CallEnds("UNKNOWN")
    <3>1. /\ booking' \in BookingRecords /\ booking'.at = "ended" /\ booking'.got = booking.got
      BY <1>1, <2>3, CallEnded DEF Results
    <3>2. NeverPresses'
      BY <2>1, <3>1 DEF NeverPresses
    <3>3. QED
      BY <1>1, <2>1, <2>3, <3>1, <3>2, LeavingStep
  <2>4. QED
    BY <1>4, <2>2, <2>3 DEF ReleaseClaim, Rows
<1>5. CASE WriteResult
  <2>1. /\ booking.at = "ended" /\ CallGoes("written") /\ UNCHANGED <<stream, sidecarTask, pressed>>
    BY <1>5 DEF WriteResult, Booked
  <2>2. booking' \in BookingRecords /\ booking'.at = "written" /\ booking'.got = booking.got
    BY <1>1, <2>1, CallGone
  <2>3. NeverPresses => NeverPresses'
    BY <2>1, <2>2 DEF NeverPresses
  <2>4. CASE UNCHANGED row
    BY <1>1, <1>2, <2>1, <2>2, <2>3, <2>4, LeavingStep
  <2>5. ASSUME NEW outcome \in {booking.outcome, "UNKNOWN"},
               row' = [row EXCEPT !.outcome = outcome, !.stages = booking.got]
        PROVE  BookingInv'
    <3>1. outcome \in Results
      BY <1>1 DEF Results
    <3>2. row' \in RowRecords /\ row'.stages = booking.got /\ row'.outcome = outcome
      BY <1>1, <2>5, <3>1 DEF RowRecords
    <3>3. outcome \in Repeatable => NeverPresses
      BY <2>1 DEF RepeatIsSafe, Repeatable
    <3>4. QED
      BY <1>1, <2>1, <2>2, <2>3, <3>2, <3>3, LeavingStep
  <2>6. QED
    BY <1>5, <2>4, <2>5 DEF WriteResult, Rows
<1>6. QED
  BY <1>3, <1>4, <1>5

(* Progress is recorded, and others write the rows.                         *)
LEMMA OtherSteps ==
  ASSUME BookingInv,
         RecordProgress \/ RecordFails \/ RecoverStale \/ AccountChanges \/ WatchLeaves
  PROVE  BookingInv'
<1> USE DEF BookingInv
<1>1. /\ booking \in BookingRecords /\ row \in RowRecords
      /\ row.stages <= sidecarTask.told /\ booking.got <= sidecarTask.told
      /\ booking.got \in 0 .. 4
  BY DEF BookingTypeOK, StagesAreTold, BookingRecords
<1>2. /\ UNCHANGED <<stream, sidecarTask, pressed>>
      /\ row' \in RowRecords /\ row'.stages <= sidecarTask.told
      /\ row'.outcome \in Repeatable => row.outcome \in Repeatable
  <2>1. CASE RecordProgress
    <3>1. PICK n \in {row.stages, booking.got} : row' = [row EXCEPT !.stages = n]
      BY <2>1 DEF RecordProgress
    <3>2. row' \in RowRecords /\ row'.stages = n /\ row'.outcome = row.outcome
      BY <1>1, <3>1 DEF RowRecords
    <3>3. QED
      BY <1>1, <2>1, <3>2 DEF RecordProgress, Booked
  <2>2. CASE RecoverStale
    BY <1>1, <2>2 DEF RecoverStale, Booked, RowRecords, Results, Repeatable
  <2>3. CASE RecordFails \/ AccountChanges \/ WatchLeaves
    BY <1>1, <2>3 DEF RecordFails, AccountChanges, WatchLeaves, Booked, Rows
  <2>4. QED
    BY <2>1, <2>2, <2>3
<1>3. /\ booking' \in BookingRecords /\ booking'.got = booking.got
      /\ booking'.outcome = booking.outcome
      /\ \/ booking'.at = booking.at
         \/ booking.at = "recording" /\ booking'.at = "reading"
  <2>1. CASE RecordProgress \/ RecordFails
    BY <1>1, <2>1, CallGone DEF RecordProgress, RecordFails
  <2>2. CASE RecoverStale \/ AccountChanges \/ WatchLeaves
    BY <1>1, <2>2 DEF RecoverStale, AccountChanges, WatchLeaves
  <2>3. QED
    BY <2>1, <2>2
<1>4. BookingTypeOK'
  BY <1>2, <1>3 DEF BookingTypeOK
<1>5. PressIsKnown' /\ StagesAreTold'
  BY <1>1, <1>2, <1>3 DEF PressIsKnown, StagesAreTold, Listening
<1>6. FramesInOrder'
  BY <1>2, <1>3 DEF FramesInOrder, IsLastFrame, IsNextStage, Listening, Honest
<1>7. RepeatIsSafe'
  BY <1>2, <1>3 DEF RepeatIsSafe, NeverPresses
<1>8. QED
  BY <1>4, <1>5, <1>6, <1>7

(* Every step keeps the invariant.                                          *)
LEMMA BookingStep == BookingInv /\ [BookingNext]_bookingVars => BookingInv'
<1> SUFFICES ASSUME BookingInv, [BookingNext]_bookingVars PROVE BookingInv'
  OBVIOUS
<1>1. CASE UNCHANGED bookingVars
  BY <1>1 DEF bookingVars, BookingInv, BookingTypeOK, PressIsKnown, StagesAreTold, FramesInOrder,
              RepeatIsSafe, NeverPresses, IsLastFrame, IsNextStage, Listening, Honest
<1>2. CASE BookingNext
  BY <1>2, SidecarSteps, UnmadeSteps, ReadStageStep, ReadResultStep, RowSteps, OtherSteps
  DEF BookingNext
<1>3. QED
  BY <1>1, <1>2

(* An attempt that may be repeated never reached the booking button and     *)
(* never will (client.py, the adapter and the transactions of the result),  *)
(* however the stream breaks, whoever is killed and whoever writes the rows. *)
THEOREM PressIsNeverLost == BookingSpec => []PressIsNeverForgotten
<1>1. BookingInv => PressIsNeverForgotten
  BY DEF BookingInv, RepeatIsSafe, NeverPresses, PressIsNeverForgotten
<1>2. QED
  BY BookingStart, BookingStep, <1>1, PTL DEF BookingSpec

(* No step writes a row that is decided, or a stage the task did not reach. *)
LEMMA DecidedStays ==
  ASSUME BookingInv, [BookingNext]_bookingVars
  PROVE  row'.stages <= sidecarTask.told /\ (row.outcome # "PENDING" => row' = row)
<1>1. /\ row \in RowRecords /\ row.stages <= sidecarTask.told /\ booking.got <= sidecarTask.told
  BY DEF BookingInv, BookingTypeOK, StagesAreTold
<1>2. CASE RecordProgress
  <2>1. PICK n \in {row.stages, booking.got} : row' = [row EXCEPT !.stages = n]
    BY <1>2 DEF RecordProgress
  <2>2. row'.stages = n /\ (row.outcome # "PENDING" => n = row.stages)
    BY <1>1, <1>2, <2>1 DEF RecordProgress, StillPending, RowRecords
  <2>3. QED
    BY <1>1, <2>1, <2>2 DEF RowRecords
<1>3. CASE ReleaseClaim
  BY <1>1, <1>3 DEF ReleaseClaim, StillPending, Rows, RowRecords
<1>4. CASE WriteResult
  BY <1>1, <1>4 DEF WriteResult, Rows, RowRecords
<1>5. CASE RecoverStale
  BY <1>1, <1>5 DEF RecoverStale, RowRecords
<1>6. CASE UNCHANGED row
  BY <1>1, <1>6
<1>7. QED
  BY <1>2, <1>3, <1>4, <1>5, <1>6
  DEF BookingNext, bookingVars, ReachesStage, PressBooking, PressReturns, PressRaises, ActorReturns,
      ActorDefers, TaskBreaks, TaskStep, ShutDown, Closed, SidecarKilled, Readies, Unsent,
      BeginStream, StreamRefused, StreamBreaks, ReadStage, ReadResult, RecordFails, WriteFails,
      WorkerKilled, AccountChanges, WatchLeaves, Rows

(* A decided attempt is not decided again, and its stages are stages the    *)
(* sidecar told of (record_reservation_progress next to the transaction of  *)
(* the result and the recovery of stale claims).                            *)
THEOREM StagesStayHistory == BookingSpec => StagesAreHistory
<1>1. BookingInv /\ [BookingNext]_bookingVars =>
        [row'.stages <= sidecarTask.told /\ (row.outcome # "PENDING" => row' = row)]_bookingVars
  BY DecidedStays
<1>2. QED
  BY BookingStart, BookingStep, <1>1, PTL DEF BookingSpec, StagesAreHistory

-----------------------------------------------------------------------------
(* ConfirmationReading.                                                     *)

Shows == {"loading", "empty", "cards", "malformed", "blank", "login", "protected"}
There == {"none", "unpaid", "issued", "gone", "returned"}
Observed == {"missing", "deaf", "in_flight", "body_pending", "failed", "blocked", "rejected", "empty", "nonempty"}
Seens == {<<>>} \union (Shows \X SUBSET Items)
Looks ==
  [at : {"idle", "detail", "issued", "list", "look", "judge"}, broke : BOOLEAN, noTicket : BOOLEAN,
   stable : Seens, seen : Seens]
Lists ==
  [shows : Shows, cards : SUBSET Items, answer : {"none", "asked", "rows", "other"}, listed : SUBSET Items]
Verdicts ==
  [is : {"none", "hold", "paid", "not_found", "inconclusive", "blocked", "auth_required"},
   item : Items \union {NoItem}]

ConfirmationTypeOK ==
  /\ target \in Targets /\ account \in [Items -> There] /\ looks \in Looks /\ listPage \in Lists
  /\ listObserver \in Observed /\ verdict \in Verdicts /\ absences \in 0 .. 2

(* A deadline is on record for a hold that was made.                        *)
DeadlineIsOfAHold ==
  target.deadline => target.provider = "KORAIL" /\ account[Ours] # "none"

(* What the page and its observer tell of the list: that the seat is not on *)
(* it is so from then on, for a seat never becomes unpaid again.            *)
NotUnpaid == account[Ours] # "unpaid"
ListIsTold ==
  /\ listPage.answer = "rows" /\ Ours \notin listPage.listed => NotUnpaid
  /\ listPage.shows = "cards" => listPage.cards # {}
  /\ listPage.shows = "empty" => listPage.answer # "none"
  /\ listPage.answer # "none" => listObserver # "missing"
  /\ listObserver = "body_pending" => listPage.answer \in {"rows", "other"}
  /\ listObserver = "empty" => NotUnpaid
  /\ listObserver = "deaf" /\ listPage.shows = "empty" => NotUnpaid

(* What was seen may be older than the page, but not by an answer.          *)
SeenIsTold ==
  looks.at = "judge" =>
    /\ looks.seen \in Shows \X SUBSET Items
    /\ SeenThere = "cards" => looks.seen[2] # {}
    /\ SeenThere = "empty" => listPage.answer # "none"
    /\ SeenThere = "empty" /\ listObserver = "deaf" => NotUnpaid

(* One absence says that the seat is not unpaid, and the look at the tickets *)
(* after it that it is not issued either.                                   *)
AbsencesAreTrue ==
  /\ absences > 0 => FollowUp /\ NotUnpaid
  /\ absences > 0 /\ (absences = 2 \/ looks.noTicket \/ target.provider = "SRT")
       => account[Ours] \in {"none", "gone", "returned"}
  /\ looks.at # "idle" => absences < 2 /\ target.provider = "KORAIL"

ConfirmationInv ==
  /\ ConfirmationTypeOK /\ DeadlineIsOfAHold /\ ListIsTold /\ SeenIsTold /\ AbsencesAreTrue
  /\ ReadingsAreTrue


ReadingOutcomes == {"hold", "paid", "not_found", "inconclusive", "blocked", "auth_required"}

(* A reading ends.                                                          *)
LEMMA ConcludeKeeps ==
  ASSUME ConfirmationInv, NEW outcome \in ReadingOutcomes, NEW item \in Items \union {NoItem},
         Conclude(outcome, item),
         outcome = "paid" => account[Ours] \in {"issued", "returned"},
         outcome = "hold" /\ FollowUp /\ target.provider = "SRT" => item = Ours /\ account[Ours] # "none",
         outcome = "not_found" /\ FollowUp =>
           /\ NotUnpaid /\ absences < 2
           /\ absences > 0 \/ target.provider = "SRT" => account[Ours] \in {"none", "gone", "returned"}
  PROVE  ConfirmationInv'
<1> USE DEF ConfirmationInv, ConfirmationTypeOK
<1> DEFINE final == IF Accepted(outcome, item) THEN outcome ELSE "inconclusive"
           said == [is |-> final, item |-> IF final = "hold" THEN item ELSE NoItem]
<1>1. /\ verdict' = said
      /\ absences' = IF final = "not_found" /\ FollowUp THEN absences + 1 ELSE 0
      /\ looks' = NotReading /\ listPage' = BlankList /\ listObserver' = "missing"
      /\ UNCHANGED <<target, account>>
  BY DEF Conclude
<1>2. final \in ReadingOutcomes /\ (final = outcome \/ final = "inconclusive")
      /\ (final = "hold" => DeadlineAgrees(outcome, item))
  BY DEF ReadingOutcomes, Accepted
<1> HIDE DEF final
<1>3. said \in Verdicts /\ said.is = final /\ (final = "hold" => said.item = item)
  BY <1>2 DEF Verdicts, ReadingOutcomes
<1> HIDE DEF said
<1>4. NotReading \in Looks /\ NotReading.at = "idle" /\ NotReading.noTicket = FALSE
  BY DEF NotReading, Looks, Seens
<1>5. BlankList \in Lists /\ BlankList.shows = "loading" /\ BlankList.answer = "none"
  BY DEF BlankList, Lists, Shows
<1>6. absences' \in 0 .. 2
  BY <1>1, <1>2
<1>7. ConfirmationTypeOK'
  BY <1>1, <1>3, <1>4, <1>5, <1>6 DEF Observed
<1>8. DeadlineIsOfAHold' /\ ListIsTold' /\ SeenIsTold'
  BY <1>1, <1>4, <1>5 DEF DeadlineIsOfAHold, ListIsTold, SeenIsTold
<1>9. AbsencesAreTrue'
  BY <1>1, <1>2, <1>4 DEF AbsencesAreTrue, NotUnpaid, FollowUp
<1>10. ReadingsAreTrue'
  <2>1. verdict'.is = "paid" => account'[Ours] \in {"issued", "returned"}
    BY <1>1, <1>2, <1>3
  <2>2. absences' = 2 => account'[Ours] \notin {"unpaid", "issued"}
    BY <1>9 DEF AbsencesAreTrue
  <2>3. verdict'.is = "hold" /\ FollowUp /\ (target.provider = "SRT" \/ target.deadline)
          => verdict'.item = Ours /\ account'[Ours] # "none"
    BY <1>1, <1>2, <1>3 DEF DeadlineAgrees, DeadlineIsOfAHold
  <2> QED
    BY <1>1, <2>1, <2>2, <2>3 DEF ReadingsAreTrue, FollowUp
<1> QED
  BY <1>7, <1>8, <1>9, <1>10

(* A reading that ends without a verdict tells nothing of a seat.           *)
LEMMA RefusalKeeps ==
  ASSUME ConfirmationInv, NEW outcome \in {"inconclusive", "blocked", "auth_required"},
         Conclude(outcome, NoItem)
  PROVE  ConfirmationInv'
BY ConcludeKeeps DEF ReadingOutcomes

(* The account changes: what was given back or cancelled stays so.          *)
LEMMA AccountKeeps ==
  ASSUME ConfirmationInv, NEW i \in Items, Pays(i) \/ Cancels(i) \/ GivesBack(i) \/ BooksTwin(i)
  PROVE  ConfirmationInv'
<1> USE DEF ConfirmationInv, ConfirmationTypeOK
<1>1. PICK there \in There : account' = [account EXCEPT ![i] = there]
  BY DEF Pays, Cancels, GivesBack, BooksTwin, Becomes, There
<1>2. UNCHANGED <<target, looks, listPage, listObserver, verdict, absences>>
  BY DEF Pays, Cancels, GivesBack, BooksTwin, Becomes
<1>3. /\ account[Ours] # "unpaid" => account'[Ours] # "unpaid"
      /\ account[Ours] # "none" => account'[Ours] # "none"
      /\ account[Ours] \in {"none", "gone", "returned"} => account'[Ours] \in {"none", "gone", "returned"}
      /\ account[Ours] \in {"issued", "returned"} => account'[Ours] \in {"issued", "returned"}
  BY ConfirmationAssumption DEF Pays, Cancels, GivesBack, BooksTwin, Becomes, Items
<1>4. ConfirmationTypeOK'
  BY <1>1, <1>2
<1>5. DeadlineIsOfAHold' /\ ListIsTold' /\ SeenIsTold' /\ AbsencesAreTrue' /\ ReadingsAreTrue'
  BY <1>2, <1>3
    DEF DeadlineIsOfAHold, ListIsTold, SeenIsTold, SeenThere, AbsencesAreTrue, ReadingsAreTrue, NotUnpaid, FollowUp
<1> QED
  BY <1>4, <1>5

(* The reader goes on to another page.                                      *)
LEMMA LooksOn ==
  ASSUME ConfirmationInv, looks.at # "idle", NEW after \in Looks, looks' = after,
         after.at \notin {"idle", "judge"},
         after.noTicket => looks.noTicket \/ account[Ours] \notin {"issued", "returned"},
         UNCHANGED <<target, account, listPage, listObserver, verdict, absences>>
  PROVE  ConfirmationInv'
<1> USE DEF ConfirmationInv, ConfirmationTypeOK
<1>1. account[Ours] \in There
  BY DEF Items
<1>2. AbsencesAreTrue'
  BY <1>1 DEF AbsencesAreTrue, NotUnpaid, FollowUp, There
<1>3. ConfirmationTypeOK' /\ DeadlineIsOfAHold' /\ ListIsTold' /\ SeenIsTold' /\ ReadingsAreTrue'
  BY DEF DeadlineIsOfAHold, ListIsTold, SeenIsTold, ReadingsAreTrue, NotUnpaid, FollowUp
<1> QED
  BY <1>2, <1>3

(* The reading begins, logs in again, and asks for the detail and the       *)
(* tickets.                                                                 *)
LEMMA ReaderKeeps ==
  ASSUME ConfirmationInv, BeginReading \/ LogsInAgain \/ ReadDetail \/ ReadIssued \/ OpenList
  PROVE  ConfirmationInv'
<1> USE DEF ConfirmationInv, ConfirmationTypeOK
<1>1. looks \in Looks
  OBVIOUS
<1>2. ASSUME NEW there \in {"issued", "list"}, GoesTo(there) \/ BreaksTo(there), looks.at # "idle"
      PROVE  ConfirmationInv'
  <2>1. PICK broke \in BOOLEAN : looks' = [looks EXCEPT !.at = there, !.broke = broke]
    <3>1. [looks EXCEPT !.at = there] = [looks EXCEPT !.at = there, !.broke = looks.broke] /\ looks.broke \in BOOLEAN
      BY <1>1 DEF Looks
    <3> QED
      BY <1>2, <3>1 DEF GoesTo, BreaksTo
  <2> DEFINE after == [looks EXCEPT !.at = there, !.broke = broke]
  <2>2. after \in Looks /\ after.at = there /\ after.noTicket = looks.noTicket
    BY <1>1 DEF Looks
  <2>3. UNCHANGED <<target, account, listPage, listObserver, verdict, absences>>
    BY <1>2 DEF GoesTo, BreaksTo
  <2> HIDE DEF after
  <2>4. looks' = after
    BY <2>1 DEF after
  <2> QED
    BY <1>2, <2>2, <2>3, <2>4, LooksOn
<1>3. CASE BeginReading
  <2>1. CASE ConcludeAndKeep("inconclusive", NoItem)
    BY <2>1, RefusalKeeps DEF ConcludeAndKeep
  <2>2. CASE /\ looks' = [NotReading EXCEPT !.at = "detail"] /\ verdict' = NoVerdict
             /\ UNCHANGED <<target, account, session, listPage, listObserver, absences>>
    <3> DEFINE after == [NotReading EXCEPT !.at = "detail"]
    <3>1. NotReading \in Looks /\ NotReading.noTicket = FALSE
      BY DEF NotReading, Looks, Seens
    <3>2. after \in Looks /\ after.at = "detail" /\ after.noTicket = FALSE
      BY <3>1 DEF Looks
    <3> HIDE DEF after
    <3>3. looks' = after /\ absences < 2 /\ target.provider = "KORAIL"
      BY <1>3, <2>2 DEF BeginReading, after
    <3>4. verdict' \in Verdicts /\ verdict'.is = "none"
      BY <2>2 DEF NoVerdict, Verdicts
    <3>5. ConfirmationTypeOK'
      BY <2>2, <3>2, <3>3, <3>4
    <3>6. DeadlineIsOfAHold' /\ ListIsTold' /\ SeenIsTold' /\ AbsencesAreTrue' /\ ReadingsAreTrue'
      BY <2>2, <3>2, <3>3, <3>4
        DEF DeadlineIsOfAHold, ListIsTold, SeenIsTold, AbsencesAreTrue, ReadingsAreTrue, NotUnpaid, FollowUp
    <3> QED
      BY <3>5, <3>6
  <2> QED
    BY <1>3, <2>1, <2>2 DEF BeginReading
<1>4. CASE LogsInAgain
  BY <1>4
    DEF LogsInAgain, DeadlineIsOfAHold, ListIsTold, SeenIsTold, SeenThere, AbsencesAreTrue, ReadingsAreTrue,
        NotUnpaid, FollowUp
<1>5. CASE ReadDetail
  <2>1. CASE IsRefused
    BY <2>1, RefusalKeeps DEF IsRefused, ConcludeAndDrop
  <2>2. CASE BreaksTo(AfterDetail) \/ GoesTo(AfterDetail)
    BY <1>2, <1>5, <2>2 DEF AfterDetail, ReadDetail
  <2>3. CASE ~FollowUp /\ ConcludeAndKeep("hold", Ours)
    BY <2>3, ConcludeKeeps DEF ConcludeAndKeep, ReadingOutcomes, Items
  <2> QED
    BY <1>5, <2>1, <2>2, <2>3 DEF ReadDetail
<1>6. CASE ReadIssued
  <2>1. CASE IsRefused
    BY <2>1, RefusalKeeps DEF IsRefused, ConcludeAndDrop
  <2>2. CASE BreaksTo("list") \/ GoesTo("list")
    BY <1>2, <1>6, <2>2 DEF ReadIssued
  <2>3. CASE Ours \in Issued /\ ConcludeAndKeep("paid", Ours)
    BY <2>3, ConcludeKeeps DEF ConcludeAndKeep, ReadingOutcomes, Items, Issued
  <2>4. CASE /\ \A i \in Items : account[i] \notin {"issued", "returned"}
             /\ looks' = [looks EXCEPT !.at = "list", !.noTicket = TRUE]
             /\ UNCHANGED <<target, account, session, listPage, listObserver, verdict, absences>>
    <3> DEFINE after == [looks EXCEPT !.at = "list", !.noTicket = TRUE]
    <3>1. after \in Looks /\ after.at = "list"
      BY <1>1 DEF Looks
    <3>2. account[Ours] \notin {"issued", "returned"} /\ looks.at # "idle"
      BY <1>6, <2>4 DEF ReadIssued, Items
    <3> HIDE DEF after
    <3>3. looks' = after
      BY <2>4 DEF after
    <3> QED
      BY <2>4, <3>1, <3>2, <3>3, LooksOn
  <2> QED
    BY <1>6, <2>1, <2>2, <2>3, <2>4 DEF ReadIssued
<1>7. CASE OpenList
  <2> DEFINE after == [looks EXCEPT !.at = "look", !.stable = <<>>]
  <2>1. after \in Looks /\ after.at = "look" /\ after.noTicket = looks.noTicket
    BY <1>1 DEF Looks, Seens
  <2>2. /\ looks' = after /\ looks.at = "list" /\ listPage' = BlankList /\ listObserver' \in {"missing", "deaf"}
        /\ UNCHANGED <<target, account, verdict, absences>>
    BY <1>7 DEF OpenList
  <2> HIDE DEF after
  <2>3. BlankList \in Lists /\ BlankList.shows = "loading" /\ BlankList.answer = "none"
    BY DEF BlankList, Lists, Shows
  <2>4. ConfirmationTypeOK'
    BY <2>1, <2>2, <2>3 DEF Observed
  <2>5. DeadlineIsOfAHold' /\ ListIsTold' /\ SeenIsTold' /\ AbsencesAreTrue' /\ ReadingsAreTrue'
    BY <2>1, <2>2, <2>3
      DEF DeadlineIsOfAHold, ListIsTold, SeenIsTold, AbsencesAreTrue, ReadingsAreTrue, NotUnpaid, FollowUp
  <2> QED
    BY <2>4, <2>5
<1> QED
  BY <1>3, <1>4, <1>5, <1>6, <1>7

(* The page of the list changes, and what is heard of it.                   *)
LEMMA ListChanges ==
  ASSUME ConfirmationInv, ReaderStays, NEW after \in Lists, listPage' = after, listObserver' \in Observed,
         ListIsTold', after.answer = "none" => listPage.answer = "none",
         listObserver' = "deaf" => listObserver = "deaf"
  PROVE  ConfirmationInv'
<1> USE DEF ConfirmationInv, ConfirmationTypeOK
<1>1. ConfirmationTypeOK'
  BY DEF ReaderStays
<1>2. SeenIsTold'
  BY DEF ReaderStays, SeenIsTold, SeenThere, NotUnpaid
<1>3. DeadlineIsOfAHold' /\ AbsencesAreTrue' /\ ReadingsAreTrue'
  BY DEF ReaderStays, DeadlineIsOfAHold, AbsencesAreTrue, ReadingsAreTrue, NotUnpaid, FollowUp
<1> QED
  BY <1>1, <1>2, <1>3

(* The provider and the page move; the reader has looked at neither yet.    *)
LEMMA PageKeeps ==
  ASSUME ConfirmationInv,
         PageAsks \/ PageAsksAgain \/ ProviderLists \/ ProviderRefuses \/ PageFlashesEmpty \/ PageShows
  PROVE  ConfirmationInv'
<1> USE DEF ConfirmationInv, ConfirmationTypeOK
<1>1. /\ listPage \in Lists /\ listObserver \in Observed /\ ReaderStays /\ UNCHANGED account
  BY DEF PageAsks, PageAsksAgain, ProviderLists, ProviderRefuses, PageFlashesEmpty, PageShows, ReaderStays
<1>2. CASE PageAsks
  <2> DEFINE after == [listPage EXCEPT !.answer = "asked"]
  <2>1. after \in Lists /\ after.answer = "asked" /\ after.shows = listPage.shows /\ after.cards = listPage.cards
        /\ after.listed = listPage.listed
    BY <1>1 DEF Lists
  <2>2. listPage' = after
    BY <1>2 DEF PageAsks
  <2> HIDE DEF after
  <2>3. listObserver' = IF listObserver \in {"missing", "in_flight"} THEN "in_flight" ELSE listObserver
    BY <1>2 DEF PageAsks, Hears
  <2>4. listObserver' \in Observed /\ (listObserver' = "deaf" => listObserver = "deaf")
    BY <1>1, <2>3 DEF Observed
  <2>5. ListIsTold'
    BY <1>1, <1>2, <2>1, <2>2, <2>3 DEF ListIsTold, NotUnpaid, PageAsks
  <2> QED
    BY <1>1, <2>1, <2>2, <2>4, <2>5, ListChanges
<1>3. CASE PageAsksAgain
  <2>1. listPage' = listPage /\ listObserver' = "failed"
    BY <1>3 DEF PageAsksAgain
  <2>2. ListIsTold'
    BY <1>1, <2>1 DEF ListIsTold, NotUnpaid
  <2>3. listObserver' \in Observed
    BY <2>1 DEF Observed
  <2> QED
    BY <1>1, <2>1, <2>2, <2>3, ListChanges
<1>4. CASE ProviderLists
  <2> DEFINE after == [listPage EXCEPT !.answer = "rows", !.listed = Unpaid]
  <2>1. after \in Lists /\ after.answer = "rows" /\ after.shows = listPage.shows /\ after.cards = listPage.cards
        /\ after.listed = Unpaid
    BY <1>1 DEF Lists, Unpaid
  <2>2. listPage' = after /\ listPage.answer = "asked"
    BY <1>4 DEF ProviderLists
  <2> HIDE DEF after
  <2>3. listObserver' = IF listObserver \in {"missing", "in_flight"} THEN "body_pending" ELSE listObserver
    BY <1>4 DEF ProviderLists, Hears
  <2>4. listObserver' \in Observed /\ (listObserver' = "deaf" => listObserver = "deaf")
    BY <1>1, <2>3 DEF Observed
  <2>5. Ours \notin Unpaid => NotUnpaid
    BY DEF Unpaid, NotUnpaid, Items
  <2>6. ListIsTold'
    BY <1>1, <2>1, <2>2, <2>3, <2>5 DEF ListIsTold, NotUnpaid
  <2> QED
    BY <1>1, <2>1, <2>2, <2>4, <2>6, ListChanges
<1>5. CASE ProviderRefuses
  <2> DEFINE after == [listPage EXCEPT !.answer = "other"]
  <2>1. after \in Lists /\ after.answer = "other" /\ after.shows = listPage.shows /\ after.cards = listPage.cards
    BY <1>1 DEF Lists
  <2>2. listPage' = after /\ listPage.answer = "asked"
    BY <1>5 DEF ProviderRefuses
  <2> HIDE DEF after
  <2>3. PICK state \in {"body_pending", "failed", "blocked"} :
          listObserver' = IF listObserver \in {"missing", "in_flight"} THEN state ELSE listObserver
    BY <1>5 DEF ProviderRefuses, Hears
  <2>4. listObserver' \in Observed /\ (listObserver' = "deaf" => listObserver = "deaf")
    BY <1>1, <2>3 DEF Observed
  <2>5. ListIsTold'
    BY <1>1, <2>1, <2>2, <2>3 DEF ListIsTold, NotUnpaid
  <2> QED
    BY <1>1, <2>1, <2>2, <2>4, <2>5, ListChanges
<1>6. CASE PageFlashesEmpty
  <2> DEFINE after == [listPage EXCEPT !.shows = "empty"]
  <2>1. after \in Lists /\ after.answer = listPage.answer /\ after.shows = "empty" /\ after.listed = listPage.listed
    BY <1>1 DEF Lists, Shows
  <2>2. listPage' = after /\ listPage.answer # "none" /\ listObserver # "deaf" /\ listObserver' = listObserver
    BY <1>6 DEF PageFlashesEmpty
  <2> HIDE DEF after
  <2>3. ListIsTold'
    BY <1>1, <2>1, <2>2 DEF ListIsTold, NotUnpaid
  <2> QED
    BY <1>1, <2>1, <2>2, <2>3, ListChanges
<1>7. CASE PageShows
  <2>1. listObserver' = listObserver
    BY <1>7 DEF PageShows
  <2>2. ASSUME NEW cards \in SUBSET listPage.listed, listPage.answer = "rows",
               listPage' = [listPage EXCEPT !.cards = cards, !.shows =
                 IF listPage.listed # {} THEN IF cards = listPage.listed THEN "cards" ELSE "malformed" ELSE "empty"]
        PROVE  ConfirmationInv'
    <3> DEFINE shows == IF listPage.listed # {} THEN IF cards = listPage.listed THEN "cards" ELSE "malformed" ELSE "empty"
               after == [listPage EXCEPT !.cards = cards, !.shows = shows]
    <3>1. /\ shows \in Shows /\ (shows = "cards" => cards # {}) /\ (shows = "empty" => listPage.listed = {})
          /\ cards \in SUBSET Items
      BY <1>1 DEF Shows, Lists
    <3>2. listPage' = after
      BY <2>2
    <3> HIDE DEF shows
    <3>3. after \in Lists /\ after.answer = "rows" /\ after.shows = shows /\ after.cards = cards /\ after.listed = listPage.listed
      BY <1>1, <2>2, <3>1 DEF Lists
    <3> HIDE DEF after
    <3>4. ListIsTold'
      BY <1>1, <2>1, <2>2, <3>1, <3>2, <3>3 DEF ListIsTold, NotUnpaid
    <3> QED
      BY <1>1, <2>1, <3>2, <3>3, <3>4, ListChanges
  <2>3. ASSUME NEW there \in {"blank", "login", "protected"}, listPage.answer \in {"rows", "other"},
               listPage' = [listPage EXCEPT !.shows = there]
        PROVE  ConfirmationInv'
    <3> DEFINE after == [listPage EXCEPT !.shows = there]
    <3>1. after \in Lists /\ after.answer = listPage.answer /\ after.shows = there /\ after.listed = listPage.listed
      BY <1>1 DEF Lists, Shows
    <3>2. listPage' = after
      BY <2>3
    <3> HIDE DEF after
    <3>3. ListIsTold'
      BY <1>1, <2>1, <2>3, <3>1, <3>2 DEF ListIsTold, NotUnpaid
    <3> QED
      BY <1>1, <2>1, <2>3, <3>1, <3>2, <3>3, ListChanges
  <2> QED
    BY <1>7, <2>2, <2>3 DEF PageShows
<1> QED
  BY <1>2, <1>3, <1>4, <1>5, <1>6, <1>7

(* Every outcome of the rows: an absence is concluded only from a list that *)
(* is complete.                                                             *)
LEMMA ConcludesKeeps ==
  ASSUME ConfirmationInv, NEW complete \in BOOLEAN, NEW cards \in SUBSET Items, Concludes(complete, cards),
         target.provider = "KORAIL", looks.at # "idle",
         complete /\ cards = {} => NotUnpaid
  PROVE  ConfirmationInv'
<1> USE DEF ConfirmationInv, ConfirmationTypeOK
<1>1. CASE \E i \in cards : ConcludeAndKeep("hold", i)
  <2>1. PICK i \in cards : Conclude("hold", i)
    BY <1>1 DEF ConcludeAndKeep
  <2> QED
    BY <2>1, ConcludeKeeps DEF ReadingOutcomes
<1>2. CASE ConcludeAndKeep("inconclusive", NoItem) \/ ConcludeAndDrop("inconclusive")
  BY <1>2, RefusalKeeps DEF ConcludeAndKeep, ConcludeAndDrop
<1>3. CASE cards = {} /\ complete /\ AbsenceIsSafe /\ ConcludeAndKeep("not_found", NoItem)
  <2>1. Conclude("not_found", NoItem) /\ NotUnpaid
    BY <1>3 DEF ConcludeAndKeep
  <2>2. FollowUp => /\ absences < 2
                    /\ absences > 0 => account[Ours] \in {"none", "gone", "returned"}
    BY <1>3 DEF AbsenceIsSafe, AbsencesAreTrue
  <2> QED
    BY <2>1, <2>2, ConcludeKeeps DEF ReadingOutcomes
<1> QED
  BY <1>1, <1>2, <1>3 DEF Concludes

(* A look at the list is taken and judged, or the list is given up.         *)
LEMMA ListReaderKeeps ==
  ASSUME ConfirmationInv, TakeLook \/ Judge \/ ListTimesOut \/ PageBreaks
  PROVE  ConfirmationInv'
<1> USE DEF ConfirmationInv, ConfirmationTypeOK
<1>1. looks \in Looks /\ listPage \in Lists
  OBVIOUS
<1>2. CASE TakeLook
  <2> DEFINE seen == <<listPage.shows, listPage.cards>>
             after == [looks EXCEPT !.at = "judge", !.seen = seen]
  <2>1. /\ seen \in Seens /\ seen \in Shows \X SUBSET Items
        /\ seen[1] = listPage.shows /\ seen[2] = listPage.cards
    BY <1>1 DEF Lists, Seens
  <2>2. looks' = after
    BY <1>2 DEF TakeLook
  <2> HIDE DEF seen
  <2>3. after \in Looks /\ after.at = "judge" /\ after.seen = seen /\ after.noTicket = looks.noTicket
    BY <1>1, <2>1 DEF Looks
  <2> HIDE DEF after
  <2>4. looks.at = "look" /\ UNCHANGED <<target, account, listPage, listObserver, verdict, absences>>
    BY <1>2 DEF TakeLook
  <2>5. ConfirmationTypeOK'
    BY <2>2, <2>3, <2>4
  <2>6. SeenIsTold'
    BY <2>1, <2>2, <2>3, <2>4 DEF SeenIsTold, SeenThere, ListIsTold, NotUnpaid
  <2>7. DeadlineIsOfAHold' /\ ListIsTold' /\ AbsencesAreTrue' /\ ReadingsAreTrue'
    BY <2>2, <2>3, <2>4
      DEF DeadlineIsOfAHold, ListIsTold, AbsencesAreTrue, ReadingsAreTrue, NotUnpaid, FollowUp
  <2> QED
    BY <2>5, <2>6, <2>7
<1>3. CASE PageBreaks
  BY <1>3, RefusalKeeps DEF PageBreaks, ConcludeAndDrop
<1>4. ASSUME looks.at = "judge"
      PROVE  /\ looks.seen \in Shows \X SUBSET Items /\ looks.seen[2] \in SUBSET Items
             /\ target.provider = "KORAIL" /\ looks.at # "idle"
  BY <1>4 DEF SeenIsTold, AbsencesAreTrue
<1>5. CASE ListTimesOut
  BY <1>4, <1>5, ConcludesKeeps DEF ListTimesOut
<1>6. CASE Judge
  <2>1. looks.at = "judge"
    BY <1>6 DEF Judge
  <2>2. ASSUME NEW outcome \in {"inconclusive", "blocked", "auth_required"}, ConcludeAndDrop(outcome)
        PROVE  ConfirmationInv'
    BY <2>2, RefusalKeeps DEF ConcludeAndDrop
  <2>3. ASSUME NEW kept \in BOOLEAN, Fails(kept)
        PROVE  ConfirmationInv'
    BY <2>3, RefusalKeeps DEF Fails, ConcludeAndDrop, ConcludeAndKeep
  <2>4. ASSUME Concludes(FALSE, {})
        PROVE  ConfirmationInv'
    BY <1>4, <2>1, <2>4, ConcludesKeeps
  <2>5. ASSUME NEW state \in BodyStates
        PROVE  /\ state \in Observed /\ (state = "empty" => NotUnpaid)
               /\ state \in {"missing", "deaf", "body_pending"} => state = listObserver /\ state # "body_pending"
    <3>1. CASE listObserver # "body_pending"
      BY <2>5, <3>1 DEF BodyStates, ListIsTold
    <3>2. CASE listObserver = "body_pending" /\ listPage.answer = "other"
      BY <2>5, <3>2 DEF BodyStates, Observed
    <3>3. CASE listObserver = "body_pending" /\ listPage.answer = "rows"
      BY <2>5, <3>3 DEF BodyStates, Observed, ListIsTold
    <3> QED
      BY <3>1, <3>2, <3>3 DEF ListIsTold
  <2>6. ASSUME NEW state \in BodyStates, SeesAllOf(state), looks.seen[2] = {}
        PROVE  NotUnpaid
    BY <2>1, <2>5, <2>6 DEF SeesAllOf, SeenIsTold, ListIsTold, Heard
  <2>7. ASSUME NEW state \in BodyStates, SeesAllOf(state), Concludes(TRUE, looks.seen[2])
        PROVE  ConfirmationInv'
    BY <1>4, <2>1, <2>6, <2>7, ConcludesKeeps
  <2>8. ASSUME NEW state \in BodyStates,
               looks' = [looks EXCEPT !.at = "look", !.seen = <<>>,
                                      !.stable = IF SeesAllOf(state) THEN looks.seen ELSE <<>>],
               listObserver' = state, UNCHANGED <<target, account, session, listPage, verdict, absences>>
        PROVE  ConfirmationInv'
    <3> DEFINE stable == IF SeesAllOf(state) THEN looks.seen ELSE <<>>
               after == [looks EXCEPT !.at = "look", !.seen = <<>>, !.stable = stable]
    <3>1. stable \in Seens
      BY <1>1 DEF Looks, Seens
    <3>2. looks' = after
      BY <2>8
    <3> HIDE DEF stable
    <3>3. after \in Looks /\ after.at = "look" /\ after.noTicket = looks.noTicket
      BY <1>1, <3>1 DEF Looks, Seens
    <3> HIDE DEF after
    <3>4. ConfirmationTypeOK'
      BY <2>5, <2>8, <3>2, <3>3
    <3>5. ListIsTold'
      BY <2>5, <2>8 DEF ListIsTold, NotUnpaid
    <3>6. DeadlineIsOfAHold' /\ SeenIsTold' /\ AbsencesAreTrue' /\ ReadingsAreTrue'
      BY <2>1, <2>8, <3>2, <3>3
        DEF DeadlineIsOfAHold, SeenIsTold, AbsencesAreTrue, ReadingsAreTrue, NotUnpaid, FollowUp
    <3> QED
      BY <3>4, <3>5, <3>6
  <2> QED
    BY <1>6, <2>2, <2>3, <2>4, <2>7, <2>8 DEF Judge
<1> QED
  BY <1>2, <1>3, <1>5, <1>6

(* SRT tells the unpaid and the paid in one list: a seat on neither is not  *)
(* there.                                                                   *)
LEMMA SrtKeeps ==
  ASSUME ConfirmationInv, ReadSrt
  PROVE  ConfirmationInv'
<1> USE DEF ConfirmationInv, ConfirmationTypeOK
<1>1. target.provider = "SRT" /\ absences < 2
  BY DEF ReadSrt
<1>2. CASE \E outcome \in {"blocked", "auth_required", "inconclusive"} : ConcludeAndKeep(outcome, NoItem)
  BY <1>2, RefusalKeeps DEF ConcludeAndKeep
<1> DEFINE records == Unpaid \union Issued
           item == IF records = {} THEN NoItem ELSE CHOOSE i \in records : TRUE
<1>3. CASE Conclude(SrtOutcome(records), item)
  <2>1. records \in SUBSET Items /\ \A i \in Items : i \in records <=> account[i] \in {"unpaid", "issued"}
    BY DEF Unpaid, Issued
  <2>2. SrtOutcome(records) \in ReadingOutcomes /\ item \in Items \union {NoItem}
    BY <2>1 DEF SrtOutcome, ReadingOutcomes
  <2>3. SrtOutcome(records) = "paid" => account[Ours] \in {"issued", "returned"}
    <3>1. SrtOutcome(records) = "paid" => FollowUp /\ records = {Ours} /\ records \subseteq Issued
      BY DEF SrtOutcome
    <3> QED
      BY <3>1 DEF Issued
  <2>4. SrtOutcome(records) = "hold" /\ FollowUp => item = Ours /\ account[Ours] # "none"
    <3>1. SrtOutcome(records) = "hold" /\ FollowUp => records = {Ours}
      BY DEF SrtOutcome
    <3>2. records = {Ours} => item = Ours
      OBVIOUS
    <3>3. records = {Ours} => account[Ours] \in {"unpaid", "issued"}
      BY <2>1 DEF Items
    <3> QED
      BY <3>1, <3>2, <3>3
  <2>5. SrtOutcome(records) = "not_found" => account[Ours] \in {"none", "gone", "returned"}
    <3>1. SrtOutcome(records) = "not_found" => records = {}
      BY DEF SrtOutcome
    <3> QED
      BY <2>1, <3>1 DEF Items, There
  <2> HIDE DEF records, item
  <2>6. SrtOutcome(records) = "not_found" => NotUnpaid
    BY <2>5 DEF NotUnpaid
  <2> QED
    BY <1>1, <1>3, <2>2, <2>3, <2>4, <2>5, <2>6, ConcludeKeeps
<1> QED
  BY <1>2, <1>3 DEF ReadSrt, ConcludeAndKeep

(* No seat was looked for yet.                                              *)
LEMMA ConfirmationStart == ConfirmationInit => ConfirmationInv
<1> SUFFICES ASSUME ConfirmationInit PROVE ConfirmationInv
  OBVIOUS
<1> USE DEF ConfirmationInit
<1>1. NotReading \in Looks /\ NotReading.at = "idle" /\ NotReading.noTicket = FALSE
  BY DEF NotReading, Looks, Seens
<1>2. BlankList \in Lists /\ BlankList.shows = "loading" /\ BlankList.answer = "none"
  BY DEF BlankList, Lists, Shows
<1>3. NoVerdict \in Verdicts /\ NoVerdict.is = "none"
  BY DEF NoVerdict, Verdicts
<1>4. account \in [Items -> There]
  BY DEF There
<1>5. ConfirmationTypeOK
  BY <1>1, <1>2, <1>3, <1>4 DEF ConfirmationTypeOK, Observed
<1>6. DeadlineIsOfAHold
  BY DEF DeadlineIsOfAHold, Targets
<1>7. ListIsTold /\ SeenIsTold /\ AbsencesAreTrue /\ ReadingsAreTrue
  BY <1>1, <1>2, <1>3 DEF ListIsTold, SeenIsTold, AbsencesAreTrue, ReadingsAreTrue
<1> QED
  BY <1>5, <1>6, <1>7 DEF ConfirmationInv

(* The invariant is inductive: one group of actions after the other.        *)
LEMMA ConfirmationStep == ConfirmationInv /\ [ConfirmationNext]_confirmationVars => ConfirmationInv'
<1> SUFFICES ASSUME ConfirmationInv, [ConfirmationNext]_confirmationVars PROVE ConfirmationInv'
  OBVIOUS
<1>1. CASE \E i \in Items : Pays(i) \/ Cancels(i) \/ GivesBack(i) \/ BooksTwin(i)
  BY <1>1, AccountKeeps
<1>2. CASE BeginReading \/ LogsInAgain \/ ReadDetail \/ ReadIssued \/ OpenList
  BY <1>2, ReaderKeeps
<1>3. CASE PageAsks \/ PageAsksAgain \/ ProviderLists \/ ProviderRefuses \/ PageFlashesEmpty \/ PageShows
  BY <1>3, PageKeeps
<1>4. CASE TakeLook \/ Judge \/ ListTimesOut \/ PageBreaks
  BY <1>4, ListReaderKeeps
<1>5. CASE ReadSrt
  BY <1>5, SrtKeeps
<1>6. CASE UNCHANGED confirmationVars
  BY <1>6
    DEF confirmationVars, ConfirmationInv, ConfirmationTypeOK, DeadlineIsOfAHold, ListIsTold, SeenIsTold, SeenThere,
        AbsencesAreTrue, ReadingsAreTrue, NotUnpaid, FollowUp
<1> QED
  BY <1>1, <1>2, <1>3, <1>4, <1>5, <1>6 DEF ConfirmationNext

\* Whatever a reading tells - paid, held, or twice in a after not found - is so for the
\* seat that was asked for, however the account changes between the looks
\* (confirmation_reader.py, reservation_list_response.py, srt.py).
THEOREM ReadingsStayTrue == ConfirmationSpec => []ReadingsAreTrue
<1>1. ConfirmationInv => ReadingsAreTrue
  BY DEF ConfirmationInv
<1> QED
  BY <1>1, ConfirmationStart, ConfirmationStep, PTL DEF ConfirmationSpec
=============================================================================
