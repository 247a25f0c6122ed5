---------------------- MODULE ReservationDriver_proofs ----------------------
(***************************************************************************)
(* Proofs about what the KORAIL sidecar does in one browser.               *)
(* ReservationDriver, for every budget, settle time and pause: no property *)
(* depends on how long anything takes, so the invariant says nothing of    *)
(* the clocks.  BrowserTabs, for any number of tabs, searches and answers. *)
(* ResultPages, for any number of trains and of pages.  LoginSubmission,   *)
(* for any number of requests that the login page sends.                   *)
(***************************************************************************)
EXTENDS ReservationDriver, BrowserTabs, ResultPages, LoginSubmission, FiniteSetTheorems, WellFoundedInduction, TLAPS

-----------------------------------------------------------------------------
(* ReservationDriver.                                                       *)

Before == {"idle", "rows", "seat"}

(* What the proof needs to know of the attempt.                             *)
AttemptOK ==
  /\ {"login", "clicked", "kept"} \subseteq DOMAIN attempt
  /\ attempt.login \in BOOLEAN /\ attempt.clicked \in BOOLEAN
  /\ attempt.kept \in {"unchecked", "yes", "no"}

(* While the booking runs the attempt knows whether the button was pressed. *)
ClickIsKnown ==
  /\ presses \in 0 .. 1
  /\ place # "done" => (presses = 1 <=> attempt.clicked)
  /\ place \in Before \union {"button", "lost"} => ~attempt.clicked

(* Without a login nothing takes the page from the seat; after one the page *)
(* counts as showing it only when it was seen to.                           *)
SeatIsKnown ==
  /\ ~attempt.login => attempt.kept = "unchecked"
  /\ attempt.kept = "yes" => chosen
  /\ place \notin Before \union {"done"} /\ ~attempt.login => chosen
  /\ place = "button" => chosen

DriverInv == AttemptOK /\ ClickIsKnown /\ SeatIsKnown /\ PressIsTold

-----------------------------------------------------------------------------
(* A return with the attempt as it is tells of the press.                   *)
LEMMA ReturnTells ==
  ASSUME NEW outcome, NEW reason, DriverInv, place # "done", Returns(outcome, reason),
         UNCHANGED <<attempt, presses, chosen>>
  PROVE  DriverInv'
  BY DEF DriverInv, AttemptOK, ClickIsKnown, SeatIsKnown, PressIsTold, Returns, Move, Before

(* A step within the loop that leaves these fields of the attempt alone.    *)
LEMMA MovesOn ==
  ASSUME DriverInv, place \notin Before \union {"done"}, UNCHANGED <<presses, chosen, result>>,
         {"login", "clicked", "kept"} \subseteq DOMAIN attempt',
         attempt'.login = attempt.login, attempt'.clicked = attempt.clicked,
         attempt'.kept = attempt.kept,
         place' = place \/ place' \notin Before \union {"done", "button", "lost"}
  PROVE  DriverInv'
  BY DEF DriverInv, AttemptOK, ClickIsKnown, SeatIsKnown, PressIsTold, Before

(* The clocks and flags of the login page are not the fields above.         *)
LEMMA OtherFields ==
  ASSUME AttemptOK, NEW a, NEW b, NEW c
  PROVE  /\ LET x == [attempt EXCEPT !.away = a, !.failures = b, !.pause = c]
            IN /\ DOMAIN x = DOMAIN attempt /\ x.login = attempt.login
               /\ x.clicked = attempt.clicked /\ x.kept = attempt.kept
         /\ LET x == [attempt EXCEPT !.pause = c]
            IN /\ DOMAIN x = DOMAIN attempt /\ x.login = attempt.login
               /\ x.clicked = attempt.clicked /\ x.kept = attempt.kept
         /\ LET x == [[attempt EXCEPT !.away = a, !.failures = b, !.pause = c] EXCEPT !.route = a]
            IN /\ DOMAIN x = DOMAIN attempt /\ x.login = attempt.login
               /\ x.clicked = attempt.clicked /\ x.kept = attempt.kept
  BY DEF AttemptOK

-----------------------------------------------------------------------------
(* No attempt was made yet.                                                 *)
LEMMA DriverStarts == DriverInit => DriverInv
  BY DEF DriverInit, DriverInv, AttemptOK, ClickIsKnown, SeatIsKnown, PressIsTold, Before,
         FreshAttempt, NoResult

(* The invariant is about the variables of the driver only.                 *)
LEMMA DriverInvStutters == DriverInv /\ UNCHANGED driverVars => DriverInv'
  BY DEF driverVars, DriverInv, AttemptOK, ClickIsKnown, SeatIsKnown, PressIsTold, Before

(* The actions before the loop.                                             *)
LEMMA BeginKeeps ==
  ASSUME DriverInv, CallDriver \/ FindsRow \/ PressesSeat
  PROVE  DriverInv'
<1>1. CASE CallDriver
  BY <1>1 DEF CallDriver, Move, SameAttempt, DriverInv, AttemptOK, ClickIsKnown, SeatIsKnown,
              PressIsTold, Before
<1>2. ASSUME NEW outcome, NEW reason, place \in Before, DriverReturns(outcome, reason)
      PROVE  DriverInv'
  BY <1>2, ReturnTells DEF DriverReturns, SameAttempt, Before
<1>3. CASE FindsRow
  BY <1>2, <1>3 DEF FindsRow, Move, SameAttempt, DriverInv, AttemptOK, ClickIsKnown, SeatIsKnown,
                    PressIsTold, Before
<1>4. CASE PressesSeat
  <2>1. CASE \E outcome, reason \in {"UNAVAILABLE", "seat_control_not_unique", "seat_not_available"} :
               DriverReturns(outcome, reason)
    BY <1>2, <1>4, <2>1 DEF PressesSeat, Before
  <2>2. CASE /\ place' = "loop" /\ attempt' = FreshAttempt /\ chosen' = TRUE
             /\ UNCHANGED <<result, presses>>
    <3>1. place = "seat" /\ presses = 0
      BY <1>4 DEF PressesSeat, DriverInv, AttemptOK, ClickIsKnown, Before
    <3>2. AttemptOK' /\ ~attempt'.clicked /\ ~attempt'.login /\ attempt'.kept = "unchecked"
      BY <2>2 DEF AttemptOK, FreshAttempt
    <3>3. chosen' BY <2>2
    <3>q. QED
      BY <2>2, <3>1, <3>2, <3>3 DEF DriverInv, ClickIsKnown, SeatIsKnown, PressIsTold, Before
  <2>q. QED BY <1>4, <2>1, <2>2 DEF PressesSeat, Move
<1>q. QED BY <1>1, <1>3, <1>4

(* The head of the loop, the looks at the page and the login.               *)
LEMMA LookKeeps ==
  ASSUME DriverInv,
         \/ DriverTimesOut \/ Looks \/ SeesProtection \/ OffLoginRoute \/ SeesDetail
         \/ LoginRouteUnknown \/ LoginRouteKnown \/ LogsIn
  PROVE  DriverInv'
<1> USE DEF Before
<1>a. AttemptOK BY DEF DriverInv
<1>b. ASSUME NEW outcome, NEW reason, place # "done", DriverReturns(outcome, reason)
      PROVE  DriverInv'
  BY <1>b, ReturnTells DEF DriverReturns, SameAttempt
<1>1. CASE DriverTimesOut BY <1>1, <1>b DEF DriverTimesOut
<1>2. CASE Looks BY <1>2, <1>a, MovesOn DEF Looks, Move, SameAttempt, AttemptOK
<1>3. CASE SeesProtection BY <1>3, <1>b DEF SeesProtection
<1>4. CASE OffLoginRoute
  BY <1>4, <1>a, MovesOn, OtherFields DEF OffLoginRoute, BackHome, SamePage, Move, AttemptOK
<1>5. CASE SeesDetail BY <1>5, <1>b DEF SeesDetail
<1>6. CASE LoginRouteUnknown
  <2>1. /\ DOMAIN attempt' = DOMAIN attempt /\ attempt'.login = attempt.login
        /\ attempt'.clicked = attempt.clicked /\ attempt'.kept = attempt.kept
    BY <1>6, <1>a, OtherFields DEF LoginRouteUnknown, StaysAway
  <2>q. QED BY <1>6, <1>a, <2>1, MovesOn DEF LoginRouteUnknown, SamePage, Move, AttemptOK
<1>7. CASE LoginRouteKnown
  <2>1. /\ DOMAIN attempt' = DOMAIN attempt /\ attempt'.login = attempt.login
        /\ attempt'.clicked = attempt.clicked /\ attempt'.kept = attempt.kept
    BY <1>7, <1>a DEF LoginRouteKnown, BackHome, AttemptOK
  <2>2. PICK yes \in BOOLEAN : Move(IF yes THEN "shell" ELSE "login") BY <1>7 DEF LoginRouteKnown
  <2>q. QED BY <1>7, <1>a, <2>1, <2>2, MovesOn DEF LoginRouteKnown, SamePage, Move, AttemptOK
<1>8. CASE LogsIn
  <2>1. CASE DriverReturns("AUTH_REQUIRED", "authentication_required") BY <1>8, <2>1, <1>b DEF LogsIn
  <2>2. CASE ~DriverReturns("AUTH_REQUIRED", "authentication_required")
    <3>1. PICK confirmed \in BOOLEAN : attempt' = AfterLogin(confirmed) BY <1>8, <2>2 DEF LogsIn
    <3>2. /\ DOMAIN attempt' = DOMAIN attempt /\ attempt'.login = TRUE
          /\ attempt'.clicked = attempt.clicked /\ attempt'.kept = attempt.kept
      BY <1>a, <3>1 DEF AfterLogin, AttemptOK
    <3>3. /\ place = "login" /\ place' = "loop" /\ ~attempt.login
          /\ presses' = presses /\ result' = result
      BY <1>8, <2>2 DEF LogsIn, Move
    <3>q. QED BY <3>2, <3>3 DEF DriverInv, AttemptOK, ClickIsKnown, SeatIsKnown, PressIsTold
  <2>q. QED BY <2>1, <2>2
<1>q. QED BY <1>1, <1>2, <1>3, <1>4, <1>5, <1>6, <1>7, <1>8

(* The dialogs: they end the booking or leave the attempt as it is.         *)
LEMMA DialogKeeps ==
  ASSUME DriverInv,
         SeesNoDialog \/ SeesOddDialogs \/ \E dialog \in Kinds : LeavesDialog(dialog) \/ AnswersDialog(dialog)
  PROVE  DriverInv'
<1> USE DEF Before
<1>a. AttemptOK BY DEF DriverInv
<1>b. ASSUME NEW outcome, NEW reason, place # "done", DriverReturns(outcome, reason)
      PROVE  DriverInv'
  BY <1>b, ReturnTells DEF DriverReturns, SameAttempt
<1>1. CASE SeesNoDialog
  BY <1>1, <1>a, <1>b, MovesOn DEF SeesNoDialog, Move, SameAttempt, AttemptOK
<1>2. CASE SeesOddDialogs BY <1>2, <1>b DEF SeesOddDialogs
<1>3. ASSUME NEW dialog \in Kinds, LeavesDialog(dialog) PROVE DriverInv'
  BY <1>3, <1>b DEF LeavesDialog
<1>4. ASSUME NEW dialog \in Kinds, AnswersDialog(dialog) PROVE DriverInv'
  <2>1. place \in {"page", "shell"} BY <1>4 DEF AnswersDialog
  <2>2. CASE \E outcome, reason \in {"ACTION_REQUIRED", "official_dialog_action_target_unavailable",
                                     Persisted(dialog)} : DriverReturns(outcome, reason)
    BY <2>1, <2>2, <1>b
  <2>3. CASE \E outcome, reason \in {"ACTION_REQUIRED", "dialog_result_unknown"} :
               Returns(outcome, reason) /\ UNCHANGED <<attempt, presses, chosen>>
    BY <2>1, <2>3, ReturnTells
  <2>4. CASE place' = "act" /\ UNCHANGED <<attempt, presses, chosen, result>>
    BY <1>a, <2>1, <2>4, MovesOn DEF AttemptOK
  <2>q. QED BY <1>4, <2>2, <2>3, <2>4 DEF AnswersDialog, Move, SameAttempt
<1>q. QED BY <1>1, <1>2, <1>3, <1>4

(* The booking button.                                                      *)
LEMMA ButtonKeeps ==
  ASSUME DriverInv, Rests \/ FindsButton \/ LostSelection \/ ButtonRefused \/ PressesButton
  PROVE  DriverInv'
<1> USE DEF Before
<1>a. AttemptOK BY DEF DriverInv
<1>b. ASSUME NEW outcome, NEW reason, place # "done", DriverReturns(outcome, reason)
      PROVE  DriverInv'
  BY <1>b, ReturnTells DEF DriverReturns, SameAttempt
<1>1. CASE Rests BY <1>1, <1>a, MovesOn DEF Rests, Move, AttemptOK
<1>2. CASE FindsButton
  <2>1. PICK shows \in IF chosen THEN {"yes", "no"} ELSE {"no"} :
          attempt' = [attempt EXCEPT !.kept = IF attempt.login /\ @ = "unchecked" THEN shows ELSE @]
    BY <1>2 DEF FindsButton, KeepsSelection
  <2>2. /\ DOMAIN attempt' = DOMAIN attempt /\ attempt'.login = attempt.login
        /\ attempt'.clicked = attempt.clicked
        /\ attempt'.kept = IF attempt.login /\ attempt.kept = "unchecked" THEN shows ELSE attempt.kept
    BY <1>a, <2>1 DEF AttemptOK
  <2>3. /\ place = "act" /\ ~attempt.clicked /\ UNCHANGED <<presses, chosen, result>>
        /\ place' = IF attempt.login /\ attempt'.kept = "no" THEN "lost" ELSE "button"
    BY <1>2 DEF FindsButton, Move
  <2>4. shows \in {"yes", "no"} /\ (shows = "yes" => chosen) BY <2>1
  <2>q. QED BY <2>2, <2>3, <2>4 DEF DriverInv, AttemptOK, ClickIsKnown, SeatIsKnown, PressIsTold
<1>3. CASE LostSelection BY <1>3, <1>b DEF LostSelection
<1>4. CASE ButtonRefused BY <1>4, <1>b DEF ButtonRefused
<1>5. CASE PressesButton
  <2>a. place = "button" /\ presses = 0 /\ ~attempt.clicked
    BY <1>5 DEF PressesButton, DriverInv, AttemptOK, ClickIsKnown
  <2>b. chosen BY <2>a DEF DriverInv, SeatIsKnown
  <2>c. chosen' = chosen BY <1>5 DEF PressesButton
  <2>1. place = "button" /\ presses = 0 /\ ~attempt.clicked /\ chosen /\ chosen' = chosen
    BY <2>a, <2>b, <2>c
  <2>2. CASE place' = "loop" /\ presses' = presses + 1 /\ attempt' = [attempt EXCEPT !.clicked = TRUE]
    <3>1. /\ DOMAIN attempt' = DOMAIN attempt /\ attempt'.login = attempt.login
          /\ attempt'.clicked = TRUE /\ attempt'.kept = attempt.kept
      BY <1>a, <2>2 DEF AttemptOK
    <3>q. QED BY <2>1, <2>2, <3>1 DEF DriverInv, AttemptOK, ClickIsKnown, SeatIsKnown, PressIsTold
  <2>3. CASE /\ presses' \in {presses, presses + 1} /\ Returns("FAILED", "reservation_result_unknown")
             /\ UNCHANGED attempt
    BY <2>1, <2>3 DEF Returns, Move, DriverInv, AttemptOK, ClickIsKnown, SeatIsKnown, PressIsTold
  <2>q. QED BY <1>5, <2>2, <2>3 DEF PressesButton, Move
<1>q. QED BY <1>1, <1>2, <1>3, <1>4, <1>5

(* Time, and the calls that return nothing.                                 *)
LEMMA TimeKeeps ==
  ASSUME DriverInv, Sleeps \/ SlowPage \/ Raises
  PROVE  DriverInv'
<1> USE DEF Before
<1>a. AttemptOK BY DEF DriverInv
<1>1. ASSUME Passes PROVE /\ DOMAIN attempt' = DOMAIN attempt /\ attempt'.login = attempt.login
                          /\ attempt'.clicked = attempt.clicked /\ attempt'.kept = attempt.kept
                          /\ UNCHANGED <<presses, chosen, result>>
  BY <1>1, <1>a, OtherFields DEF Passes
<1>2. CASE Sleeps BY <1>1, <1>2, <1>a, MovesOn DEF Sleeps, Move, AttemptOK
<1>3. CASE SlowPage BY <1>1, <1>3, <1>a, MovesOn DEF SlowPage, AttemptOK
<1>4. CASE Raises
  <2>1. result'.outcome = "raised" BY <1>4 DEF Raises, NoResult
  <2>q. QED
    BY <1>4, <2>1 DEF Raises, Move, SameAttempt, DriverInv, AttemptOK, ClickIsKnown, SeatIsKnown,
                      PressIsTold
<1>q. QED BY <1>2, <1>3, <1>4

(* The invariant is inductive: one group of actions after the other.        *)
LEMMA DriverNextKeeps == DriverInv /\ [DriverNext]_driverVars => DriverInv'
  BY DriverInvStutters, BeginKeeps, LookKeeps, DialogKeeps, ButtonKeeps, TimeKeeps
     DEF DriverNext, DriverStep

(* So it holds in every state the driver reaches.                           *)
LEMMA DriverInvariant == DriverSpec => []DriverInv
<1>1. DriverInit => DriverInv BY DriverStarts
<1>2. DriverInv /\ [DriverNext]_driverVars => DriverInv' BY DriverNextKeeps
<1>q. QED BY <1>1, <1>2, PTL DEF DriverSpec

-----------------------------------------------------------------------------
(* The button is pressed at most once and no result hides the press: a      *)
(* caller that repeats a booking does so only when nothing was asked.       *)
THEOREM PressIsAlwaysTold == DriverSpec => []PressIsTold
<1>1. DriverInv => PressIsTold BY DEF DriverInv
<1>q. QED BY <1>1, DriverInvariant, PTL

(* Only PressesButton presses, and there the seat is the one that was chosen. *)
LEMMA PressNeedsSeat ==
  ASSUME DriverInv, [DriverNext]_driverVars
  PROVE  [presses' > presses => chosen]_driverVars
<1>1. CASE PressesButton BY <1>1 DEF PressesButton, DriverInv, SeatIsKnown
<1>2. CASE presses' = presses
  BY <1>2 DEF DriverInv, ClickIsKnown
<1>q. QED
  BY <1>1, <1>2 DEF DriverNext, DriverStep, CallDriver, FindsRow, PressesSeat, DriverTimesOut, Looks,
     SeesProtection, OffLoginRoute, SeesDetail, LoginRouteUnknown, LoginRouteKnown, LogsIn,
     SeesNoDialog, SeesOddDialogs, LeavesDialog, AnswersDialog, Rests, FindsButton, LostSelection,
     ButtonRefused, Sleeps, SlowPage, Raises, Passes, SamePage, SameAttempt, DriverReturns,
     driverVars

(* After the login in the middle of a booking the button is pressed only    *)
(* for the seat that was chosen before it.                                  *)
THEOREM PressKeepsSeatAlways == DriverSpec => PressKeepsSeat
<1>1. DriverInv /\ [DriverNext]_driverVars => [presses' > presses => chosen]_driverVars
  BY PressNeedsSeat
<1>q. QED BY <1>1, DriverInvariant, PTL DEF DriverSpec, PressKeepsSeat

-----------------------------------------------------------------------------
(* BrowserTabs.                                                             *)

(* A browser that was closed stays so: nothing is under way and no process  *)
(* runs.                                                                    *)
ClosedForGood ==
  /\ chrome \in BOOLEAN /\ stale \in BOOLEAN
  /\ closed = "returned" \/ stale => phase = "closed"
  /\ phase = "closed" => call.step = "none" /\ call.kind = "none" /\ ~chrome

(* CloseLeavesNothing: a close that returns has left no Chrome behind,      *)
(* whichever start, rotation or search was under way, and only then are the *)
(* lock files of the profile removed (browser_runtime.py).                  *)
THEOREM ClosesLeaveNothing == TabsSpec => []CloseLeavesNothing
<1>1. TabsInit => ClosedForGood
  BY DEF TabsInit, ClosedForGood
<1>2. ClosedForGood /\ [TabsNext]_tabsVars => ClosedForGood'
  <2> SUFFICES ASSUME ClosedForGood, [TabsNext]_tabsVars PROVE ClosedForGood'
    OBVIOUS
  <2>1. CASE UNCHANGED <<phase, chrome, call, closed, stale>>
    BY <2>1 DEF ClosedForGood
  <2>2. CASE Start \/ Rotate \/ Close
    <3>1. phase # "closed" /\ phase' # "closed" /\ UNCHANGED <<chrome, closed, stale>>
      BY <2>2 DEF Start, Rotate, Close
    <3> QED
      BY <3>1 DEF ClosedForGood
  <2>6. CASE ChromeDies
    <3>1. chrome' = FALSE /\ UNCHANGED <<phase, call, closed, stale>>
      BY <2>6 DEF ChromeDies
    <3> QED
      BY <3>1 DEF ClosedForGood
  <2>5. CASE Listeners \/ CloseAgain \/ CancelClose
    <3>1. phase # "closed"
      BY <2>5 DEF Listeners, CloseAgain, CancelClose, ClosedForGood
    <3>2. phase' \in {phase, "closing"} /\ UNCHANGED <<chrome, closed, stale>>
      BY <2>5 DEF Listeners, CloseAgain, CancelClose
    <3> QED
      BY <3>1, <3>2 DEF ClosedForGood
  <2>3. CASE LaunchChrome \/ OpenTab \/ Attach \/ Retire
    <3>1. phase # "closed" /\ UNCHANGED <<closed, stale>> /\ chrome' \in BOOLEAN
      BY <2>3 DEF LaunchChrome, OpenTab, Attach, Retire, ClosedForGood
    <3>2. phase' \in {phase, "ready", "closing"}
      BY <2>3 DEF LaunchChrome, OpenTab, Attach, Retire
    <3> QED
      BY <3>1, <3>2 DEF ClosedForGood
  <2>4. CASE CloseBrowser
    <3> PICK connected \in BOOLEAN, runs \in {chrome, FALSE}, locked \in BOOLEAN :
          LET gone == BrowserClosed(connected, runs)
          IN /\ chrome' = runs
             /\ stale' = (gone /\ ~locked)
             /\ \/ gone /\ locked /\ phase' = "failed" /\ EndClose("raised")
                \/ gone /\ ~locked /\ phase' = "closed" /\ TabsDone
                \/ /\ ~gone /\ phase' = "failed"
                   /\ closed' = closed \/ \E how \in {"cancelled", "raised", "hidden"} : EndClose(how)
      BY <2>4 DEF CloseBrowser, EndClose
    <3>6. LET gone == BrowserClosed(connected, runs)
          IN \/ gone /\ locked /\ phase' = "failed" /\ closed' = "raised"
             \/ gone /\ ~locked /\ phase' = "closed" /\ call' = NoCall
             \/ ~gone /\ phase' = "failed" /\ (closed' = closed \/ closed' \in {"cancelled", "raised", "hidden"})
      BY DEF EndClose, TabsDone
    <3>1. phase # "closed"
      BY <2>4 DEF CloseBrowser, ClosedForGood
    <3>2. chrome' \in BOOLEAN /\ stale' \in BOOLEAN
      BY DEF ClosedForGood
    <3>3. stale' => phase' = "closed"
      BY <3>6
    <3>4. closed' = "returned" => phase' = "closed"
      BY <3>1, <3>6 DEF ClosedForGood
    <3>5. phase' = "closed" => call' = NoCall /\ ~chrome'
      BY <3>6 DEF BrowserClosed
    <3> QED
      BY <3>2, <3>3, <3>4, <3>5 DEF ClosedForGood, NoCall
  <2> QED
    BY <2>1, <2>2, <2>3, <2>4, <2>5, <2>6
      DEF TabsNext, tabsVars, lifecycleVars, Arm, Reset, DrainBodies, ReadBody, ObserveResponse, BodyRead
<1>3. ClosedForGood => CloseLeavesNothing
  BY DEF ClosedForGood, CloseLeavesNothing
<1> QED
  BY <1>1, <1>2, <1>3, PTL DEF TabsSpec

-----------------------------------------------------------------------------

Bodies == [id : BodyRequests, attempts : Nat, of : Nat]
Observers ==
  [armed : BOOLEAN, generation : Nat, count : Nat, pending : Seq(Bodies), evidence : Nat]
Readings ==
  [on : BOOLEAN, generation : Nat, left : Seq(Bodies), id : BodyRequests \union {0}, of : Nat]

AllOf(bodies, generation) == \A i \in 1 .. Len(bodies) : bodies[i].of = generation

(* Whatever is pending, being drained or read was seen in the search it is  *)
(* counted for.                                                             *)
ObserverInv ==
  /\ observer \in Observers /\ read \in Readings
  /\ AllOf(observer.pending, observer.generation)
  /\ AllOf(read.left, read.generation)
  /\ read.id # 0 => read.of = read.generation
  /\ EvidenceIsOfThisSearch

(* An observer that was just made has no body to read and no verdict.       *)
LEMMA UnarmedIsObserver ==
  ASSUME NEW g \in Nat
  PROVE  /\ Unarmed(g) \in Observers /\ Unarmed(g).pending = <<>> /\ Unarmed(g).evidence = 0
         /\ Unarmed(g).generation = g
<1>1. <<>> \in Seq(Bodies)
  OBVIOUS
<1> QED
  BY <1>1 DEF Unarmed, Observers

(* A new generation forgets the bodies of the one before.                   *)
LEMMA UnarmedKeeps ==
  ASSUME ObserverInv, NEW armed \in BOOLEAN,
         observer' = [Unarmed(observer.generation + 1) EXCEPT !.armed = armed],
         UNCHANGED read
  PROVE  ObserverInv'
<1> DEFINE row == [Unarmed(observer.generation + 1) EXCEPT !.armed = armed]
<1>0. observer.generation + 1 \in Nat
  BY DEF ObserverInv, Observers
<1>1. /\ row \in Observers /\ row.pending = <<>> /\ row.evidence = 0
  BY <1>0, UnarmedIsObserver DEF Observers
<1> HIDE DEF row
<1>2. observer' = row
  BY DEF row
<1>3. AllOf(row.pending, row.generation)
  BY <1>1 DEF AllOf
<1>4. observer' \in Observers /\ AllOf(observer'.pending, observer'.generation) /\ EvidenceIsOfThisSearch'
  BY <1>1, <1>2, <1>3 DEF EvidenceIsOfThisSearch
<1> QED
  BY <1>4 DEF ObserverInv

(* A body of the pending ones is taken out.                                 *)
LEMMA WithoutIsOwn ==
  ASSUME ObserverInv, NEW id \in PendingBodies
  PROVE  /\ Without(id) \in Seq(Bodies) /\ AllOf(Without(id), observer.generation)
         /\ Entry(id) \in Bodies /\ Entry(id).of = observer.generation
<1> DEFINE pending == observer.pending
           at == Position(id)
<1>1. pending \in Seq(Bodies) /\ AllOf(pending, observer.generation)
  BY DEF ObserverInv, Observers
<1>2. at \in DOMAIN pending
  BY DEF PendingBodies, Position
<1>3. at \in 1 .. Len(pending)
  BY <1>1, <1>2
<1>4. Without(id) = SubSeq(pending, 1, at - 1) \o SubSeq(pending, at + 1, Len(pending))
  BY DEF Without
<1>5. Entry(id) = pending[at]
  BY DEF Entry
<1> HIDE DEF pending, at
<1>6. /\ SubSeq(pending, 1, at - 1) \in Seq(Bodies) /\ Len(SubSeq(pending, 1, at - 1)) = at - 1
      /\ \A i \in 1 .. at - 1 : SubSeq(pending, 1, at - 1)[i] = pending[i]
  BY <1>1, <1>3
<1>7. /\ SubSeq(pending, at + 1, Len(pending)) \in Seq(Bodies)
      /\ Len(SubSeq(pending, at + 1, Len(pending))) = Len(pending) - at
      /\ \A i \in 1 .. Len(pending) - at : SubSeq(pending, at + 1, Len(pending))[i] = pending[at + i]
  BY <1>1, <1>3
<1> DEFINE before == SubSeq(pending, 1, at - 1)
           after == SubSeq(pending, at + 1, Len(pending))
<1>8. before \in Seq(Bodies) /\ after \in Seq(Bodies) /\ AllOf(before, observer.generation)
      /\ AllOf(after, observer.generation)
  BY <1>1, <1>3, <1>6, <1>7 DEF AllOf
<1> HIDE DEF before, after
<1>9. before \o after \in Seq(Bodies) /\ AllOf(before \o after, observer.generation)
  BY <1>8 DEF AllOf
<1>10. Without(id) = before \o after
  BY <1>4 DEF before, after
<1>11. pending[at] \in Bodies /\ pending[at].of = observer.generation
  BY <1>1, <1>3 DEF AllOf
<1> QED
  BY <1>5, <1>9, <1>10, <1>11

(* A body that was read is of the search whose requests are observed.       *)
LEMMA BodyReadKeeps ==
  ASSUME ObserverInv, NEW verdict, BodyRead(verdict)
  PROVE  ObserverInv'
<1>1. observer \in Observers /\ read \in Readings /\ read.on /\ read.id # 0 /\ read.of = read.generation
  BY DEF ObserverInv, BodyRead
<1> DEFINE quiet == [read EXCEPT !.id = 0, !.of = 0]
<1>2. quiet \in Readings /\ quiet.left = read.left /\ quiet.generation = read.generation /\ quiet.id = 0
  BY <1>1 DEF Readings
<1> HIDE DEF quiet
<1>3. NoRead \in Readings /\ NoRead.left = <<>> /\ NoRead.id = 0
  BY DEF NoRead, Readings
<1>4. read' \in {NoRead, quiet}
  BY DEF BodyRead, quiet
<1>5. read' \in Readings /\ AllOf(read'.left, read'.generation) /\ read'.id = 0
  BY <1>2, <1>3, <1>4 DEF ObserverInv, AllOf
<1>6. CASE ~StillWanted
  BY <1>5, <1>6 DEF BodyRead, ObserverInv, EvidenceIsOfThisSearch
<1>7. CASE StillWanted
  <2> DEFINE id == read.id
             tried == [Entry(id) EXCEPT !.attempts = @ + 1]
  <2>1. /\ Without(id) \in Seq(Bodies) /\ AllOf(Without(id), observer.generation)
        /\ Entry(id) \in Bodies /\ Entry(id).of = observer.generation
    BY <1>7, WithoutIsOwn DEF StillWanted
  <2>2. tried \in Bodies /\ tried.of = observer.generation
    BY <2>1 DEF Bodies
  <2>3. \/ observer' = [observer EXCEPT !.pending = Append(Without(id), tried)]
        \/ observer' = [observer EXCEPT !.pending = <<>>, !.evidence = read.of]
        \/ observer' = [observer EXCEPT !.pending = Without(id)]
    BY <1>7 DEF BodyRead
  <2> HIDE DEF tried, id
  <2>4. Append(Without(id), tried) \in Seq(Bodies) /\ AllOf(Append(Without(id), tried), observer.generation)
    BY <2>1, <2>2 DEF AllOf
  <2>5. read.of = observer.generation
    BY <1>1, <1>7 DEF StillWanted
  <2>6. <<>> \in Seq(Bodies) /\ AllOf(<<>>, observer.generation)
    BY DEF AllOf
  <2>7. ASSUME NEW pending \in Seq(Bodies), AllOf(pending, observer.generation),
               NEW evidence \in {observer.evidence, observer.generation},
               observer' = [observer EXCEPT !.pending = pending, !.evidence = evidence]
        PROVE  /\ observer' \in Observers /\ AllOf(observer'.pending, observer'.generation)
               /\ EvidenceIsOfThisSearch'
    BY <1>1, <2>7 DEF Observers, ObserverInv, EvidenceIsOfThisSearch
  <2>8. [observer EXCEPT !.pending = Without(id)]
          = [observer EXCEPT !.pending = Without(id), !.evidence = observer.evidence]
    BY <1>1 DEF Observers
  <2>9. [observer EXCEPT !.pending = Append(Without(id), tried)]
          = [observer EXCEPT !.pending = Append(Without(id), tried), !.evidence = observer.evidence]
    BY <1>1 DEF Observers
  <2>10. /\ observer' \in Observers /\ AllOf(observer'.pending, observer'.generation)
         /\ EvidenceIsOfThisSearch'
    BY <2>1, <2>3, <2>4, <2>5, <2>6, <2>7, <2>8, <2>9
  <2> QED
    BY <1>5, <2>10 DEF ObserverInv
<1> QED
  BY <1>6, <1>7

(* A response that is noted is of the search that is observed.              *)
LEMMA ObserveKeeps ==
  ASSUME ObserverInv, NEW id \in BodyRequests, ObserveResponse(id)
  PROVE  ObserverInv'
<1>1. observer \in Observers /\ UNCHANGED read
  BY DEF ObserverInv, ObserveResponse
<1> DEFINE body == [id |-> id, attempts |-> 0, of |-> observer.generation]
           pending == Append(observer.pending, body)
           row == [observer EXCEPT !.count = @ + 1, !.pending = pending]
<1>2. body \in Bodies /\ body.of = observer.generation
  BY <1>1 DEF Bodies, Observers
<1>3. observer' = row
  BY DEF ObserveResponse
<1> HIDE DEF body
<1>4. pending \in Seq(Bodies) /\ AllOf(pending, observer.generation)
  BY <1>1, <1>2 DEF AllOf, Observers, ObserverInv
<1> HIDE DEF pending
<1>5. row \in Observers /\ row.pending = pending /\ row.generation = observer.generation
      /\ row.evidence = observer.evidence
  <2>1. observer.count + 1 \in Nat
    BY <1>1 DEF Observers
  <2> QED
    BY <1>1, <1>4, <2>1 DEF Observers
<1> HIDE DEF row
<1> QED
  BY <1>1, <1>3, <1>4, <1>5 DEF ObserverInv, EvidenceIsOfThisSearch

(* The bodies are read one by one, or dropped with their search.            *)
LEMMA DrainBodiesKeeps ==
  ASSUME ObserverInv, DrainBodies \/ ReadBody
  PROVE  ObserverInv'
<1>1. observer \in Observers /\ read \in Readings /\ UNCHANGED observer
  BY DEF ObserverInv, DrainBodies, ReadBody
<1>2. CASE DrainBodies
  <2> DEFINE most == Min2(MaxReads, Len(observer.pending))
             rest == SubSeq(observer.pending, 1, most)
             row == [on |-> TRUE, generation |-> observer.generation, id |-> 0, of |-> 0, left |-> rest]
  <2>1. observer.pending \in Seq(Bodies) /\ most \in 1 .. Len(observer.pending)
    <3>1. observer.pending \in Seq(Bodies) /\ observer.pending # <<>>
      BY <1>1, <1>2 DEF DrainBodies, Observers
    <3>2. Len(observer.pending) \in Nat \ {0}
      BY <3>1
    <3> QED
      BY <3>1, <3>2, TabsAssumption DEF Min2
  <2> HIDE DEF most
  <2>2. rest \in Seq(Bodies) /\ Len(rest) = most /\ \A i \in 1 .. most : rest[i] = observer.pending[i]
    BY <2>1
  <2>3. AllOf(rest, observer.generation)
    BY <2>1, <2>2 DEF AllOf, ObserverInv
  <2> HIDE DEF rest
  <2>4. read' = row /\ row \in Readings
    BY <1>1, <1>2, <2>2 DEF DrainBodies, Readings, Observers, rest, most
  <2> QED
    BY <1>1, <2>3, <2>4 DEF ObserverInv, EvidenceIsOfThisSearch
<1>3. CASE ReadBody
  <2>1. NoRead \in Readings /\ NoRead.left = <<>> /\ NoRead.id = 0
    BY DEF NoRead, Readings
  <2>2. CASE read' = NoRead
    BY <1>1, <2>1, <2>2 DEF ObserverInv, EvidenceIsOfThisSearch, AllOf
  <2>3. CASE /\ read.left # <<>>
             /\ read' = [read EXCEPT !.id = Head(read.left).id, !.of = Head(read.left).of, !.left = Tail(@)]
    <3> DEFINE body == Head(read.left)
               rest == Tail(read.left)
               row == [read EXCEPT !.id = body.id, !.of = body.of, !.left = rest]
    <3>1. read.left \in Seq(Bodies)
      BY <1>1 DEF Readings
    <3>2. body \in Bodies /\ body.of = read.generation
      <4>1. Len(read.left) \in Nat /\ Len(read.left) # 0 /\ body = read.left[1]
        BY <2>3, <3>1
      <4> QED
        BY <3>1, <4>1 DEF ObserverInv, AllOf
    <3>3. rest \in Seq(Bodies) /\ AllOf(rest, read.generation)
      <4>1. /\ rest \in Seq(Bodies) /\ Len(rest) = Len(read.left) - 1
            /\ \A i \in 1 .. Len(rest) : rest[i] = read.left[i + 1]
        BY <2>3, <3>1
      <4>2. Len(read.left) \in Nat /\ \A i \in 1 .. Len(rest) : i + 1 \in 1 .. Len(read.left)
        BY <3>1, <4>1
      <4> QED
        BY <4>1, <4>2 DEF ObserverInv, AllOf
    <3>4. read' = row
      BY <2>3
    <3> HIDE DEF body, rest
    <3>5. row \in Readings /\ row.left = rest /\ row.generation = read.generation /\ row.of = body.of
      BY <1>1, <3>2, <3>3 DEF Readings, Bodies
    <3> HIDE DEF row
    <3> QED
      BY <1>1, <3>2, <3>3, <3>4, <3>5 DEF ObserverInv, EvidenceIsOfThisSearch
  <2> QED
    BY <1>3, <2>2, <2>3 DEF ReadBody
<1> QED
  BY <1>2, <1>3

(* EvidenceIsOfThisSearch: a protection verdict belongs to the search that  *)
(* is observed, however late the bodies of the one before are read, for any *)
(* number of searches and of answers.                                       *)
THEOREM EvidenceIsOwn == TabsSpec => []EvidenceIsOfThisSearch
<1>1. TabsInit => ObserverInv
  <2>1. Unarmed(0) \in Observers /\ Unarmed(0).pending = <<>> /\ Unarmed(0).evidence = 0
    BY UnarmedIsObserver
  <2>2. NoRead \in Readings /\ NoRead.left = <<>> /\ NoRead.id = 0
    BY DEF NoRead, Readings
  <2> QED
    BY <2>1, <2>2 DEF TabsInit, ObserverInv, AllOf, EvidenceIsOfThisSearch
<1>2. ObserverInv /\ [TabsNext]_tabsVars => ObserverInv'
  <2> SUFFICES ASSUME ObserverInv, [TabsNext]_tabsVars PROVE ObserverInv'
    OBVIOUS
  <2>1. CASE UNCHANGED observerVars
    BY <2>1 DEF observerVars, ObserverInv, EvidenceIsOfThisSearch
  <2>2. CASE Rotate \/ Arm \/ Reset
    <3>1. Unarmed(observer.generation + 1) = [Unarmed(observer.generation + 1) EXCEPT !.armed = FALSE]
      <4>1. observer.generation + 1 \in Nat
        BY DEF ObserverInv, Observers
      <4>2. Unarmed(observer.generation + 1) \in Observers /\ Unarmed(observer.generation + 1).armed = FALSE
        BY <4>1, UnarmedIsObserver DEF Unarmed
      <4> QED
        BY <4>2 DEF Observers
    <3> QED
      BY <2>2, <3>1, UnarmedKeeps DEF Rotate, Arm, Reset
  <2> QED
    BY <2>1, <2>2, ObserveKeeps, DrainBodiesKeeps, BodyReadKeeps
      DEF TabsNext, tabsVars, Start, LaunchChrome, OpenTab, Attach, Retire, Close, Listeners,
          CloseBrowser, CloseAgain, CancelClose, ChromeDies
<1>3. ObserverInv => EvidenceIsOfThisSearch
  BY DEF ObserverInv
<1> QED
  BY <1>1, <1>2, <1>3, PTL DEF TabsSpec

-----------------------------------------------------------------------------
(* ResultPages.                                                             *)

(* A set of natural numbers that is not empty has a smallest one, and one   *)
(* that is bounded a largest.                                               *)
LEMMA Smallest ==
  ASSUME NEW T, T \subseteq Nat, T # {}
  PROVE  \E x \in T : \A y \in T : x <= y
<1> DEFINE R == OpToRel(<, Nat)
<1>1. IsWellFoundedOn(R, Nat)
  BY NatLessThanWellFounded
<1>2. \A x, y \in Nat : <<y, x>> \in R <=> y < x
  BY DEF OpToRel
<1> HIDE DEF R
<1>3. PICK x \in T : \A y \in T : ~ (<<y, x>> \in R)
  <2>1. \E x \in T : \A y \in T : ~ (<<y, x>> \in R)
    BY ONLY <1>1, WFMin, T \subseteq Nat, T # {}, Zenon
  <2> QED
    BY <2>1
<1>4. ASSUME NEW y \in T PROVE x <= y
  <2>1. x \in Nat /\ y \in Nat /\ ~ (<<y, x>> \in R)
    BY <1>3
  <2> QED
    BY <1>2, <2>1
<1> QED
  BY <1>4

(* A set of natural numbers that is bounded and not empty has a largest     *)
(* one.                                                                     *)
LEMMA Largest ==
  ASSUME NEW T, T # {}, NEW top \in Nat, T \subseteq 0 .. top
  PROVE  \E x \in T : \A y \in T : y <= x
<1> DEFINE gaps == {top - x : x \in T}
<1>1. gaps \subseteq Nat /\ gaps # {}
  <2>1. \A x \in T : top - x \in Nat
    OBVIOUS
  <2> QED
    BY <2>1
<1>2. PICK g \in gaps : \A h \in gaps : g <= h
  BY <1>1, Smallest
<1>3. PICK x \in T : g = top - x
  OBVIOUS
<1>4. \A y \in T : top - y \in gaps
  OBVIOUS
<1>5. \A y \in T : top - x <= top - y
  BY <1>2, <1>3, <1>4
<1> HIDE DEF gaps
<1> QED
  BY <1>5

PageRecords ==
  [loaded : SUBSET Trains, rows : SUBSET Trains, queue : BOOLEAN, loading : BOOLEAN]

PagesTypeOK ==
  /\ departs \in [Trains -> Minutes]
  /\ asked \in [from : Minutes, to : Minutes]
  /\ cursor \in Int /\ page \in PageRecords

(* The replay has every train of its window before the cursor, but those    *)
(* that are split.                                                          *)
ReadUpToCursor ==
  reading = "replay" =>
    /\ got \subseteq Wanted(Trains)
    /\ \A t \in Wanted(Trains) : departs[t] < cursor => t \in got \union split

(* The browser has every train that its page has loaded, or shows those it  *)
(* lacks.                                                                   *)
HasWhatIsLoaded ==
  /\ reading = "waiting" => page.rows = page.loaded /\ ~page.loading
  /\ reading = "expanding" => got = page.loaded /\ page.rows \subseteq got /\ ~page.loading
  /\ reading \in {"expanding", "growing"} => page.loaded # {}
  /\ reading = "growing" /\ page.loading => got = page.loaded /\ page.rows \subseteq got
  /\ reading = "growing" /\ ~page.loading => got \union page.rows = page.loaded

PagesInv == PagesTypeOK /\ ReadUpToCursor /\ HasWhatIsLoaded /\ AnswersAreComplete

(* No page was read yet.                                                    *)
LEMMA PagesStart == PagesInit => PagesInv
<1> SUFFICES ASSUME PagesInit PROVE PagesInv
  OBVIOUS
<1>1. departs \in [Trains -> Minutes] /\ asked \in [from : Minutes, to : Minutes]
  BY DEF PagesInit
<1>2. asked.from \in Nat
  BY <1>1 DEF Minutes
<1>3. asked.from % HourLength \in 0 .. HourLength - 1
  BY <1>2, PagesAssumption
<1>4. cursor \in Int /\ cursor <= asked.from
  BY <1>2, <1>3, PagesAssumption DEF PagesInit, HourStart
<1>5. page \in PageRecords /\ page.loaded = {} /\ page.rows = {} /\ ~page.loading
  BY DEF PagesInit, NoResultPage, PageRecords
<1>6. reading \in {"replay", "waiting"} /\ got = {}
  BY DEF PagesInit
<1>7. \A t \in Wanted(Trains) : ~(departs[t] < cursor)
  BY <1>1, <1>2, <1>4 DEF Wanted, Minutes
<1> QED
  BY <1>1, <1>4, <1>5, <1>6, <1>7 DEF PagesInv, PagesTypeOK, ReadUpToCursor, HasWhatIsLoaded, AnswersAreComplete

(* A part of a list that goes on is not empty, and what is left departs no  *)
(* earlier than its last train.                                             *)
LEMMA LatestIsLast ==
  ASSUME PagesTypeOK, NEW rest \in SUBSET Trains, NEW shown \in FirstOf(rest), shown # rest
  PROVE  /\ LatestOf(shown) \in Minutes
         /\ \A t \in shown : departs[t] <= LatestOf(shown)
         /\ \A u \in rest \ shown : LatestOf(shown) <= departs[u]
<1>1. shown \subseteq rest /\ \A t \in shown, u \in rest \ shown : departs[t] <= departs[u]
  BY DEF FirstOf
<1>2. IsFiniteSet(rest) /\ IsFiniteSet(shown)
  BY <1>1, FS_Subset, PagesAssumption
<1>3. shown # {}
  <2>1. Cardinality(shown) = IF Cardinality(rest) < PageSize THEN Cardinality(rest) ELSE PageSize
    BY DEF FirstOf
  <2>2. Cardinality(rest) \in Nat /\ Cardinality(rest) # 0
    BY <1>1, <1>2, FS_CardinalityType, FS_EmptySet
  <2>3. Cardinality(shown) # 0
    BY <2>1, <2>2, PagesAssumption
  <2> QED
    BY <2>3, FS_EmptySet
<1> DEFINE times == {departs[t] : t \in shown}
<1>4. times \subseteq 0 .. LastMinute /\ times # {}
  BY <1>1, <1>3 DEF PagesTypeOK, Minutes
<1>5. \E m \in times : \A n \in times : n <= m
  BY <1>4, Largest, PagesAssumption
<1>6. \E m \in Minutes : (\E t \in shown : departs[t] = m) /\ \A t \in shown : departs[t] <= m
  BY <1>4, <1>5 DEF Minutes
<1>7. /\ LatestOf(shown) \in Minutes /\ \E t \in shown : departs[t] = LatestOf(shown)
      /\ \A t \in shown : departs[t] <= LatestOf(shown)
  BY <1>6 DEF LatestOf
<1> QED
  BY <1>1, <1>7

(* A page that is read goes on from the cursor, so no train between is left *)
(* out.                                                                     *)
LEMMA ReadPageKeeps ==
  ASSUME PagesInv, ReadPage
  PROVE  PagesInv'
<1>1. /\ PagesTypeOK /\ reading = "replay" /\ UNCHANGED <<departs, asked, page>>
      /\ got \subseteq Wanted(Trains)
      /\ \A t \in Wanted(Trains) : departs[t] < cursor => t \in got \union split
  BY DEF PagesInv, ReadPage, ReadUpToCursor
<1>2. PICK begin \in {cursor, 0} : \E shown \in FirstOf(From(begin)) :
       LET more == shown # From(begin)
           rest == {t \in From(begin) \ shown : departs[t] = LatestOf(shown)}
       IN /\ got' = got \union Wanted(shown)
          /\ split' = IF more THEN split \union rest ELSE split
          /\ \/ ~more /\ reading' = "answered" /\ UNCHANGED cursor
             \/ more /\ NextCursor(shown) > LastMinute /\ reading' = "answered" /\ UNCHANGED cursor
             \/ more /\ NextCursor(shown) <= cursor /\ reading' = "failed" /\ UNCHANGED cursor
             \/ /\ more /\ NextCursor(shown) \in cursor + 1 .. LastMinute
                /\ cursor' = NextCursor(shown) /\ UNCHANGED reading
  BY DEF ReadPage
<1> DEFINE rest == From(begin)
<1>3. PICK shown \in FirstOf(rest) :
       /\ got' = got \union Wanted(shown)
       /\ \/ shown = rest /\ split' = split /\ reading' = "answered" /\ cursor' = cursor
          \/ /\ shown # rest
             /\ split' = split \union {t \in rest \ shown : departs[t] = LatestOf(shown)}
             /\ \/ LatestOf(shown) + 1 > LastMinute /\ reading' = "answered" /\ cursor' = cursor
                \/ reading' = "failed" /\ cursor' = cursor
                \/ LatestOf(shown) + 1 \in cursor + 1 .. LastMinute
                    /\ cursor' = LatestOf(shown) + 1 /\ reading' = reading
  BY <1>2 DEF NextCursor
<1>4. /\ rest \subseteq Trains
      /\ \A t \in Trains : departs[t] \in Nat /\ departs[t] <= LastMinute
      /\ \A t \in Trains : departs[t] >= cursor => t \in rest
  BY <1>1, PagesAssumption DEF From, PagesTypeOK, Minutes
<1>5. shown \subseteq rest
  BY DEF FirstOf
<1> HIDE DEF rest
<1>6. Wanted(Trains)' = Wanted(Trains) /\ Wanted(shown) \subseteq Wanted(Trains)
      /\ \A t \in Wanted(Trains) : t \in Trains /\ (t \in shown => t \in Wanted(shown))
  BY <1>1, <1>4, <1>5 DEF Wanted
<1>7. got' \subseteq Wanted(Trains)
  BY <1>1, <1>3, <1>6
<1>8. CASE shown = rest
  <2>1. split' = split /\ reading' = "answered" /\ cursor' = cursor
    BY <1>3, <1>8
  <2>2. Wanted(Trains) \subseteq got' \union split'
    <3> SUFFICES ASSUME NEW t \in Wanted(Trains) PROVE t \in got' \union split'
      OBVIOUS
    <3>1. CASE departs[t] < cursor
      BY <1>1, <1>3, <2>1, <3>1
    <3>2. CASE ~(departs[t] < cursor)
      BY <1>1, <1>3, <1>4, <1>6, <1>8, <3>2 DEF PagesTypeOK
    <3> QED
      BY <3>1, <3>2
  <2> QED
    BY <1>1, <1>6, <1>7, <2>1, <2>2
      DEF PagesInv, PagesTypeOK, ReadUpToCursor, HasWhatIsLoaded, AnswersAreComplete
<1>9. CASE shown # rest
  <2> DEFINE last == LatestOf(shown)
  <2>1. /\ last \in Nat
        /\ \A u \in rest \ shown : last <= departs[u]
    BY <1>1, <1>4, <1>9, LatestIsLast DEF Minutes
  <2>2. split' = split \union {t \in rest \ shown : departs[t] = last}
    BY <1>3, <1>9
  <2>3. /\ \/ last + 1 > LastMinute /\ reading' = "answered" /\ cursor' = cursor
           \/ reading' = "failed" /\ cursor' = cursor
           \/ last + 1 \in Int /\ cursor' = last + 1 /\ reading' = reading
    BY <1>3, <1>9, <2>1
  <2> HIDE DEF last
  <2>4. \A t \in Wanted(Trains) : departs[t] < last + 1 => t \in got' \union split'
    <3> SUFFICES ASSUME NEW t \in Wanted(Trains), departs[t] < last + 1 PROVE t \in got' \union split'
      OBVIOUS
    <3>0. t \in Trains /\ departs[t] \in Nat /\ cursor \in Int
      BY <1>1, <1>4, <1>6 DEF PagesTypeOK
    <3>1. CASE departs[t] < cursor
      BY <1>1, <1>3, <2>2, <3>1
    <3>2. CASE t \in shown
      BY <1>3, <1>6, <3>2
    <3>3. CASE ~(departs[t] < cursor) /\ t \notin shown
      <4>1. t \in rest \ shown
        BY <1>4, <3>0, <3>3
      <4>2. departs[t] = last
        BY <2>1, <3>0, <4>1
      <4> QED
        BY <2>2, <4>1, <4>2
    <3> QED
      BY <3>1, <3>2, <3>3
  <2>5. CASE last + 1 > LastMinute /\ reading' = "answered" /\ cursor' = cursor
    <3>1. \A t \in Wanted(Trains) : departs[t] < last + 1
      BY <1>4, <1>6, <2>1, <2>5, PagesAssumption
    <3> QED
      BY <1>1, <1>6, <1>7, <2>4, <2>5, <3>1
        DEF PagesInv, PagesTypeOK, ReadUpToCursor, HasWhatIsLoaded, AnswersAreComplete
  <2>6. CASE reading' = "failed" /\ cursor' = cursor
    BY <1>1, <2>6 DEF PagesInv, PagesTypeOK, ReadUpToCursor, HasWhatIsLoaded, AnswersAreComplete
  <2>7. CASE last + 1 \in Int /\ cursor' = last + 1 /\ reading' = reading
    BY <1>1, <1>6, <1>7, <2>4, <2>7
      DEF PagesInv, PagesTypeOK, ReadUpToCursor, HasWhatIsLoaded, AnswersAreComplete
  <2> QED
    BY <2>3, <2>5, <2>6, <2>7
<1> QED
  BY <1>8, <1>9

(* Parts of the list arrive, in whatever order of the page, or it has to    *)
(* queue.                                                                   *)
LEMMA PageMoves ==
  ASSUME PagesInv, PageLoads \/ PageQueues
  PROVE  PagesInv'
<1>1. /\ reading \in {"waiting", "growing"} /\ UNCHANGED <<departs, asked, reading, cursor, got, split>>
  BY DEF PageLoads, PageQueues
<1>2. page \in PageRecords
  BY DEF PagesInv, PagesTypeOK
<1>3. CASE PageQueues
  <2> DEFINE row == [page EXCEPT !.queue = ~@]
  <2>1. /\ row \in PageRecords /\ row.loaded = page.loaded /\ row.rows = page.rows
        /\ row.loading = page.loading
    BY <1>2 DEF PageRecords
  <2>2. page' = row
    BY <1>3 DEF PageQueues
  <2> HIDE DEF row
  <2> QED
    BY <1>1, <2>1, <2>2 DEF PagesInv, PagesTypeOK, ReadUpToCursor, HasWhatIsLoaded, AnswersAreComplete
<1>4. CASE PageLoads
  <2>1. PICK part \in FirstOf(From(HourStart) \ page.loaded) : \E listed \in {part, page.loaded \union part} :
          page' = [page EXCEPT !.loaded = @ \union part, !.rows = listed, !.loading = FALSE]
    BY <1>4 DEF PageLoads
  <2>2. PICK listed \in {part, page.loaded \union part} :
          page' = [page EXCEPT !.loaded = page.loaded \union part, !.rows = listed, !.loading = FALSE]
    BY <2>1
  <2> DEFINE loaded == page.loaded \union part
             row == [page EXCEPT !.loaded = loaded, !.rows = listed, !.loading = FALSE]
  <2>3. page.loaded \subseteq Trains /\ part \subseteq Trains
    BY <1>2 DEF PageRecords, FirstOf, From
  <2>4. page' = row
    BY <2>2
  <2>5. row \in PageRecords /\ row.loaded = loaded /\ row.rows = listed /\ row.loading = FALSE
    BY <1>2, <2>3 DEF PageRecords
  <2> HIDE DEF row
  <2>6. PagesTypeOK'
    BY <1>1, <2>4, <2>5 DEF PagesInv, PagesTypeOK
  <2>7. page.loading \/ page.loaded = {}
    BY <1>4 DEF PageLoads
  <2>8. HasWhatIsLoaded'
    <3>1. CASE reading = "waiting"
      BY <1>1, <2>4, <2>5, <2>7, <3>1 DEF PagesInv, HasWhatIsLoaded
    <3>2. CASE reading = "growing"
      <4>1. got = page.loaded /\ page.loaded # {}
        BY <2>7, <3>2 DEF PagesInv, HasWhatIsLoaded
      <4>2. got \union listed = loaded /\ loaded # {}
        BY <2>2, <4>1
      <4> QED
        BY <1>1, <2>4, <2>5, <3>2, <4>2 DEF HasWhatIsLoaded
    <3> QED
      BY <1>1, <3>1, <3>2
  <2> QED
    BY <1>1, <2>6, <2>8 DEF PagesInv, ReadUpToCursor, AnswersAreComplete
<1> QED
  BY <1>3, <1>4

(* The results are shown, more is asked for, and what came is merged, until *)
(* there is no more.                                                        *)
LEMMA BrowserMoves ==
  ASSUME PagesInv, ResultsShown \/ PressMore \/ EndReached \/ Grown
  PROVE  PagesInv'
<1>1. PagesTypeOK /\ HasWhatIsLoaded /\ page \in PageRecords /\ UNCHANGED <<departs, asked, cursor, split>>
  BY DEF PagesInv, PagesTypeOK, ResultsShown, PressMore, EndReached, Grown
<1>2. CASE ResultsShown
  BY <1>1, <1>2 DEF ResultsShown, PagesInv, PagesTypeOK, ReadUpToCursor, HasWhatIsLoaded, AnswersAreComplete
<1>3. CASE PressMore
  <2> DEFINE row == [page EXCEPT !.loading = TRUE]
  <2>1. /\ row \in PageRecords /\ row.loaded = page.loaded /\ row.rows = page.rows
        /\ row.loading = TRUE
    BY <1>1 DEF PageRecords
  <2>2. page' = row /\ reading = "expanding" /\ reading' = "growing" /\ UNCHANGED got
    BY <1>3 DEF PressMore
  <2> HIDE DEF row
  <2> QED
    BY <1>1, <2>1, <2>2 DEF PagesInv, PagesTypeOK, ReadUpToCursor, HasWhatIsLoaded, AnswersAreComplete
<1>4. CASE Grown
  <2>1. reading = "growing" /\ reading' = "expanding" /\ got' = got \union page.rows /\ UNCHANGED page
        /\ page.rows \ got # {}
    BY <1>4 DEF Grown
  <2>2. ~page.loading /\ got' = page.loaded /\ page.loaded # {}
    BY <1>1, <2>1 DEF HasWhatIsLoaded
  <2> QED
    BY <1>1, <2>1, <2>2 DEF PagesInv, PagesTypeOK, ReadUpToCursor, HasWhatIsLoaded, AnswersAreComplete
<1>5. CASE EndReached
  <2>1. got = From(HourStart) /\ got' = Wanted(got) /\ reading' \in {"failed", "answered"} /\ UNCHANGED page
    BY <1>1, <1>5 DEF EndReached, MoreShown, HasWhatIsLoaded
  <2>2. Wanted(Trains) = Wanted(From(HourStart))
    <3>1. asked.from \in Nat /\ \A t \in Trains : departs[t] \in Nat
      BY <1>1 DEF PagesTypeOK, Minutes
    <3>2. asked.from % HourLength \in 0 .. HourLength - 1
      BY <3>1, PagesAssumption
    <3>3. HourStart \in Int /\ HourStart <= asked.from
      BY <3>1, <3>2, PagesAssumption DEF HourStart
    <3> QED
      BY <3>1, <3>3 DEF Wanted, From
  <2>3. Wanted(Trains)' = Wanted(Trains)
    BY <1>1 DEF Wanted
  <2> QED
    BY <1>1, <2>1, <2>2, <2>3 DEF PagesInv, PagesTypeOK, ReadUpToCursor, HasWhatIsLoaded, AnswersAreComplete
<1> QED
  BY <1>2, <1>3, <1>4, <1>5

(* AnswersAreComplete: a search that is answered has every train of its     *)
(* window and no other, but those the replay misses at the end of a page,   *)
(* for any number of trains and any size of a page.                         *)
THEOREM SearchesAreComplete == PagesSpec => []AnswersAreComplete
<1>1. PagesInv /\ [PagesNext]_pagesVars => PagesInv'
  <2> SUFFICES ASSUME PagesInv, [PagesNext]_pagesVars PROVE PagesInv'
    OBVIOUS
  <2>1. CASE UNCHANGED pagesVars
    BY <2>1 DEF pagesVars, PagesInv, PagesTypeOK, ReadUpToCursor, HasWhatIsLoaded, AnswersAreComplete, Wanted
  <2>2. CASE ReplayEnds \/ LimitReached \/ Stalled \/ Blocked
    <3>1. reading' = "failed" /\ UNCHANGED <<departs, asked, cursor, page>>
      BY <2>2 DEF ReplayEnds, LimitReached, Stalled, Blocked, Stop
    <3> QED
      BY <3>1 DEF PagesInv, PagesTypeOK, ReadUpToCursor, HasWhatIsLoaded, AnswersAreComplete
  <2> QED
    BY <2>1, <2>2, ReadPageKeeps, PageMoves, BrowserMoves DEF PagesNext
<1>2. PagesInv => AnswersAreComplete
  BY DEF PagesInv
<1> QED
  BY <1>1, <1>2, PagesStart, PTL DEF PagesSpec

-----------------------------------------------------------------------------
(* LoginSubmission.                                                         *)

SubmissionRows ==
  [status : Statuses \union {"none"}, terminal : {"none", "incomplete", "completed", "failed"}, complete : BOOLEAN]

SubmissionTypeOK ==
  /\ wire \in [Requests -> Wire] /\ rows \in [Requests -> SubmissionRows]
  /\ known \in [Requests -> {"none", "posted", "in_flight", "completed"}] /\ evidenceOK \in BOOLEAN
  /\ \A r \in Watched : rows[r].terminal # "none"

(* What is known of a request agrees with its row and with the request.     *)
KnownIsTrue ==
  \A r \in Requests :
    /\ known[r] # "none" => r \in Watched /\ window = "open"
    /\ known[r] = "in_flight" => rows[r].status \in {"ok", "redirect"} /\ wire[r] \in {"answered", "failed"}
    /\ known[r] = "completed" => Good(r) /\ wire[r] = "finished"

(* The summary says completed only of a login all of whose requests ended   *)
(* well, and says so no more when one more request was sent.                *)
CompletedIsGood ==
  summary.state = "completed" => \A r \in Watched : Good(r) /\ wire[r] = "finished"

(* The probe is made once, and what it denies had finished before.          *)
ProofIsCovered ==
  /\ driver = "probe" => probe # "unmade"
  /\ probe = "unmade" => proof = {}
  /\ proof \subseteq covered
  /\ driver = "probe" /\ look.mode = "standard" => look.group \subseteq covered

SubmissionInv == SubmissionTypeOK /\ KnownIsTrue /\ CompletedIsGood /\ ProofIsCovered

-----------------------------------------------------------------------------
(* A failure ends the observation.                                          *)
LEMMA FailureEnds ==
  ASSUME NEW failure, NEW status
  PROVE  Failed(failure, status).state \in Final
BY DEF Failed, Final

(* What is refreshed to completed has every registered request completed.   *)
LEMMA RefreshedCompletes ==
  ASSUME NEW states, NEW table, Refreshed(states, table).state = "completed"
  PROVE  \A r \in Requests : table[r] # NoRow => states[r] = "completed"
<1>1. CASE summary.state \in Final
  BY <1>1 DEF Refreshed, Final
<1> DEFINE all == {r \in Requests : table[r] # NoRow}
           deciding == {r \in all : kind[r] # "login_bootstrap"}
<1>2. CASE summary.state \notin Final /\ deciding = {}
  BY <1>2 DEF Refreshed, FreshSubmission
<1>3. CASE summary.state \notin Final /\ deciding # {}
  BY <1>3 DEF Refreshed
<1> QED
  BY <1>1, <1>2, <1>3

(* The observer accepts only a completed observation.                       *)
LEMMA StandardIsGood ==
  ASSUME Mode = "standard"
  PROVE  summary.state = "completed"
BY DEF Mode, SafeToProbe

(* While the requests go on the driver waits.                               *)
LEMMA WireKeeps ==
  ASSUME SubmissionInv, UNCHANGED decision, SubmissionTypeOK', KnownIsTrue', CompletedIsGood'
  PROVE  SubmissionInv'
BY DEF SubmissionInv, ProofIsCovered, decision

(* A row of a request that is watched changes.                              *)
LEMMA RowChanges ==
  ASSUME SubmissionInv, NEW r \in Requests, NEW row \in SubmissionRows, row.terminal # "none",
         rows' = [rows EXCEPT ![r] = row]
  PROVE  /\ rows' \in [Requests -> SubmissionRows] /\ rows'[r] = row
         /\ Watched' = Watched \union {r}
         /\ \A q \in Requests \ {r} : rows'[q] = rows[q]
         /\ \A q \in Watched' : rows'[q].terminal # "none"
<1>1. rows' \in [Requests -> SubmissionRows] /\ rows'[r] = row /\ \A q \in Requests \ {r} : rows'[q] = rows[q]
  BY DEF SubmissionInv, SubmissionTypeOK
<1>2. row # NoRow
  BY DEF NoRow
<1> QED
  BY <1>1, <1>2 DEF Watched, SubmissionInv, SubmissionTypeOK

(* A request that is noticed is the only one that changes, and it is sent.  *)
LEMMA RegisterKeeps ==
  ASSUME SubmissionInv, NEW r \in Requests, Register(r), wire' \in [Requests -> Wire],
         UNCHANGED <<decision, window, kind, evidenceOK>>,
         \A q \in Requests : wire'[q] = wire[q] \/ (q = r /\ wire[q] = "unsent")
  PROVE  SubmissionInv'
<1> USE DEF SubmissionInv, SubmissionTypeOK
<1>1. \A q \in Requests : wire[q] \in {"answered", "failed", "finished"} => wire'[q] = wire[q]
  OBVIOUS
<1>2. CASE window # "open"
  <2>1. UNCHANGED <<known, rows, summary>>
    BY <1>2 DEF Register
  <2>2. SubmissionTypeOK' /\ KnownIsTrue' /\ CompletedIsGood'
    BY <1>1, <2>1 DEF KnownIsTrue, CompletedIsGood, Watched, Good
  <2> QED
    BY <2>2, WireKeeps
<1>3. CASE window = "open"
  <2> DEFINE fresh == [status |-> "none", terminal |-> "incomplete", complete |-> evidenceOK]
  <2>1. /\ known' = [known EXCEPT ![r] = "posted"] /\ rows' = [rows EXCEPT ![r] = fresh]
        /\ summary' = Refreshed(known', rows')
    BY <1>3 DEF Register
  <2>2. fresh \in SubmissionRows /\ fresh.terminal = "incomplete"
    BY DEF SubmissionRows
  <2> HIDE DEF fresh
  <2>3. /\ rows' \in [Requests -> SubmissionRows] /\ rows'[r] = fresh /\ Watched' = Watched \union {r}
        /\ \A q \in Requests \ {r} : rows'[q] = rows[q]
        /\ \A q \in Watched' : rows'[q].terminal # "none"
    BY <2>1, <2>2, RowChanges
  <2>4. SubmissionTypeOK'
    BY <2>1, <2>3
  <2>5. KnownIsTrue'
    BY <1>1, <1>3, <2>1, <2>3 DEF KnownIsTrue, Good
  <2>6. summary'.state # "completed"
    <3>1. known'[r] = "posted" /\ rows'[r] # NoRow
      BY <2>1, <2>2, <2>3 DEF NoRow
    <3> QED
      BY <2>1, <3>1, RefreshedCompletes
  <2> QED
    BY <2>4, <2>5, <2>6, WireKeeps DEF CompletedIsGood
<1> QED
  BY <1>2, <1>3

(* The requests: sent, answered, finished or broken off.                    *)
LEMMA RequestKeeps ==
  ASSUME SubmissionInv, NEW r \in Requests, Send(r) \/ ResolveRequest(r) \/ Finish(r) \/ Break(r)
  PROVE  SubmissionInv'
<1> USE DEF SubmissionInv, SubmissionTypeOK
<1>1. CASE Send(r)
  <2>1. /\ wire[r] = "unsent" /\ wire' = [wire EXCEPT ![r] = "sent"]
        /\ UNCHANGED <<kind, window, evidenceOK, decision>>
    BY <1>1 DEF Send
  <2>2. wire' \in [Requests -> Wire]
    BY <2>1 DEF Wire
  <2>3. \A q \in Requests : wire'[q] = wire[q] \/ (q = r /\ wire[q] = "unsent")
    BY <2>1
  <2>4. CASE UNCHANGED <<known, rows, summary>>
    BY <2>1, <2>2, <2>3, <2>4, WireKeeps DEF KnownIsTrue, CompletedIsGood, Watched, Good
  <2> QED
    BY <1>1, <2>1, <2>2, <2>3, <2>4, RegisterKeeps DEF Send
<1>2. CASE ResolveRequest(r)
  BY <1>2, RegisterKeeps DEF ResolveRequest
<1>3. CASE Finish(r)
  <2>1. /\ wire[r] = "answered" /\ wire' = [wire EXCEPT ![r] = "finished"]
        /\ UNCHANGED <<kind, window, evidenceOK, decision>>
    BY <1>3 DEF Finish
  <2>2. wire' \in [Requests -> Wire] /\ wire'[r] = "finished" /\ \A q \in Requests \ {r} : wire'[q] = wire[q]
    BY <2>1 DEF Wire
  <2>3. CASE UNCHANGED <<known, rows, summary>> /\ ~Seen(r)
    BY <2>1, <2>2, <2>3, WireKeeps DEF KnownIsTrue, CompletedIsGood, Watched, Good, Seen
  <2>4. CASE Seen(r)
    <3> DEFINE ended == IF rows[r].status # "none" THEN [rows[r] EXCEPT !.terminal = "completed"]
                        ELSE [rows[r] EXCEPT !.complete = FALSE]
    <3>1. /\ rows' = [rows EXCEPT ![r] = ended]
          /\ known' = [known EXCEPT ![r] = IF @ = "in_flight" THEN "completed" ELSE @]
          /\ summary' = CASE known[r] = "in_flight" -> Refreshed(known', rows')
                           [] known[r] = "posted" -> Failed("invalid_response", "none")
                           [] OTHER -> summary
      BY <1>3, <2>4 DEF Finish
    <3>2. rows[r] \in SubmissionRows /\ r \in Watched /\ known[r] # "none" /\ known[r] # "completed"
      BY <2>1, <2>4 DEF Seen, KnownIsTrue
    <3>3. ended \in SubmissionRows /\ ended.status = rows[r].status /\ ended.terminal # "none"
          /\ (rows[r].status # "none" => ended.terminal = "completed")
      BY <3>2 DEF SubmissionRows
    <3> HIDE DEF ended
    <3>4. /\ rows' \in [Requests -> SubmissionRows] /\ rows'[r] = ended /\ Watched' = Watched \union {r}
          /\ \A q \in Requests \ {r} : rows'[q] = rows[q]
          /\ \A q \in Watched' : rows'[q].terminal # "none"
      BY <3>1, <3>3, RowChanges
    <3>5. SubmissionTypeOK'
      BY <2>1, <2>2, <3>1, <3>4
    <3>6. \A q \in Requests \ {r} : known'[q] = known[q]
      BY <3>1
    <3>7. /\ known'[r] = "completed" => known[r] = "in_flight"
          /\ known'[r] # "in_flight"
      BY <3>1, <3>2
    <3>8. KnownIsTrue'
      <4>1. ASSUME NEW q \in Requests \ {r}
            PROVE  /\ known'[q] # "none" => q \in Watched' /\ window' = "open"
                   /\ known'[q] = "in_flight" =>
                        rows'[q].status \in {"ok", "redirect"} /\ wire'[q] \in {"answered", "failed"}
                   /\ known'[q] = "completed" => Good(q)' /\ wire'[q] = "finished"
        BY <2>1, <2>2, <3>4, <3>6 DEF KnownIsTrue, Good
      <4>2. known'[r] = "completed" => Good(r)' /\ wire'[r] = "finished"
        BY <2>2, <3>3, <3>4, <3>7 DEF KnownIsTrue, Good
      <4>3. r \in Watched' /\ window' = "open"
        BY <2>1, <2>4, <3>4 DEF Seen
      <4> QED
        BY <3>7, <4>1, <4>2, <4>3 DEF KnownIsTrue
    <3>9. CompletedIsGood'
      <4>1. CASE known[r] = "in_flight"
        <5>1. summary' = Refreshed(known', rows')
          BY <3>1, <4>1
        <5>2. summary'.state = "completed" => \A q \in Watched' : known'[q] = "completed" /\ q \in Requests
          BY <5>1, RefreshedCompletes DEF Watched
        <5> QED
          BY <3>8, <5>2 DEF CompletedIsGood, KnownIsTrue
      <4>2. CASE known[r] = "posted"
        <5>1. summary' = Failed("invalid_response", "none")
          BY <3>1, <4>2
        <5> QED
          BY <5>1, FailureEnds DEF CompletedIsGood, Final
      <4> QED
        BY <3>2, <4>1, <4>2
    <3> QED
      BY <2>1, <3>5, <3>8, <3>9, WireKeeps
  <2> QED
    BY <1>3, <2>3, <2>4 DEF Finish
<1>4. CASE Break(r)
  <2>1. /\ wire[r] \in {"sent", "answered"} /\ wire' = [wire EXCEPT ![r] = "failed"]
        /\ UNCHANGED <<kind, window, known, evidenceOK, decision>>
    BY <1>4 DEF Break
  <2>2. wire' \in [Requests -> Wire] /\ wire'[r] = "failed" /\ \A q \in Requests \ {r} : wire'[q] = wire[q]
    BY <2>1 DEF Wire
  <2>3. CASE UNCHANGED <<rows, summary>> /\ ~Seen(r)
    BY <2>1, <2>2, <2>3, WireKeeps DEF KnownIsTrue, CompletedIsGood, Watched, Good, Seen
  <2>4. CASE Seen(r)
    <3> DEFINE ended == [rows[r] EXCEPT !.terminal = "failed"]
    <3>1. rows' = [rows EXCEPT ![r] = ended] /\ summary' = Failed("network_error", "none")
      BY <1>4, <2>4 DEF Break
    <3>2. rows[r] \in SubmissionRows
      OBVIOUS
    <3>3. ended \in SubmissionRows /\ ended.status = rows[r].status /\ ended.terminal = "failed"
      BY <3>2 DEF SubmissionRows
    <3> HIDE DEF ended
    <3>4. /\ rows' \in [Requests -> SubmissionRows] /\ rows'[r] = ended /\ Watched' = Watched \union {r}
          /\ \A q \in Requests \ {r} : rows'[q] = rows[q]
          /\ \A q \in Watched' : rows'[q].terminal # "none"
      BY <3>1, <3>3, RowChanges
    <3>5. SubmissionTypeOK'
      BY <2>1, <2>2, <3>4
    <3>6. KnownIsTrue'
      BY <2>1, <2>2, <3>3, <3>4 DEF KnownIsTrue, Good
    <3>7. CompletedIsGood'
      BY <3>1, FailureEnds DEF CompletedIsGood, Final
    <3> QED
      BY <2>1, <3>5, <3>6, <3>7, WireKeeps
  <2> QED
    BY <1>4, <2>3, <2>4 DEF Break
<1> QED
  BY <1>1, <1>2, <1>3, <1>4

(* An answer: a refusal is final, another is still to be finished.          *)
LEMMA RespondKeeps ==
  ASSUME SubmissionInv, NEW r \in Requests, NEW status \in Statuses, Respond(r, status)
  PROVE  SubmissionInv'
<1> USE DEF SubmissionInv, SubmissionTypeOK
<1>1. /\ wire[r] = "sent" /\ wire' = [wire EXCEPT ![r] = "answered"]
      /\ UNCHANGED <<kind, window, evidenceOK, decision>>
  BY DEF Respond
<1>2. wire' \in [Requests -> Wire] /\ wire'[r] = "answered" /\ \A q \in Requests \ {r} : wire'[q] = wire[q]
  BY <1>1 DEF Wire
<1>3. CASE UNCHANGED <<known, rows, summary>> /\ ~Seen(r)
  BY <1>1, <1>2, <1>3, WireKeeps DEF KnownIsTrue, CompletedIsGood, Watched, Good, Seen
<1>4. CASE Seen(r)
  <2> DEFINE bad == status \notin {"ok", "redirect"}
             row == IF status = "invalid"
                      THEN [rows[r] EXCEPT !.terminal = "incomplete", !.complete = FALSE]
                      ELSE [rows[r] EXCEPT !.status = status, !.complete = @ /\ status # "redirect"]
  <2>1. /\ rows' = [rows EXCEPT ![r] = row]
        /\ known' = [known EXCEPT ![r] = IF ~bad /\ @ = "posted" THEN "in_flight" ELSE @]
        /\ summary' = CASE status = "invalid" -> Failed("invalid_response", "none")
                         [] status \in Protective \union {"5xx"} -> Failed("http_error", status)
                         [] ~bad -> IF known[r] = "posted" THEN Refreshed(known', rows') ELSE summary
    BY <1>4 DEF Respond
  <2>2. rows[r] \in SubmissionRows /\ r \in Watched /\ known[r] = "posted" /\ rows[r].terminal # "none"
    BY <1>1, <1>4 DEF Seen, KnownIsTrue
  <2>3. row \in SubmissionRows /\ row.terminal # "none" /\ (~bad => row.status = status)
    <3>1. [rows[r] EXCEPT !.terminal = "incomplete", !.complete = FALSE] \in SubmissionRows
      BY <2>2 DEF SubmissionRows
    <3>2. /\ [rows[r] EXCEPT !.status = status, !.complete = @ /\ status # "redirect"] \in SubmissionRows
          /\ [rows[r] EXCEPT !.status = status, !.complete = @ /\ status # "redirect"].terminal = rows[r].terminal
          /\ [rows[r] EXCEPT !.status = status, !.complete = @ /\ status # "redirect"].status = status
      BY <2>2 DEF SubmissionRows
    <3>3. [rows[r] EXCEPT !.terminal = "incomplete", !.complete = FALSE].terminal = "incomplete"
      BY <2>2 DEF SubmissionRows
    <3> QED
      BY <2>2, <3>1, <3>2, <3>3
  <2> HIDE DEF row
  <2>4. /\ rows' \in [Requests -> SubmissionRows] /\ rows'[r] = row /\ Watched' = Watched \union {r}
        /\ \A q \in Requests \ {r} : rows'[q] = rows[q]
        /\ \A q \in Watched' : rows'[q].terminal # "none"
    BY <2>1, <2>3, RowChanges
  <2>5. SubmissionTypeOK'
    BY <1>1, <1>2, <2>1, <2>4
  <2>6. /\ known'[r] = IF ~bad THEN "in_flight" ELSE "posted"
        /\ \A q \in Requests \ {r} : known'[q] = known[q]
    BY <2>1, <2>2
  <2>7. KnownIsTrue'
    BY <1>1, <1>2, <1>4, <2>3, <2>4, <2>6 DEF KnownIsTrue, Good, Seen
  <2>8. CompletedIsGood'
    <3>1. CASE bad
      <4>1. status = "invalid" \/ status \in Protective \union {"5xx"}
        BY <3>1 DEF Statuses
      <4>2. summary'.state \in Final
        <5>1. CASE status = "invalid"
          BY <2>1, <5>1, FailureEnds
        <5>2. CASE status # "invalid" /\ status \in Protective \union {"5xx"}
          BY <2>1, <5>2, FailureEnds DEF Protective
        <5> QED
          BY <4>1, <5>1, <5>2
      <4> QED
        BY <4>2 DEF CompletedIsGood, Final
    <3>2. CASE ~bad
      <4>1. summary' = Refreshed(known', rows')
        BY <2>1, <2>2, <3>2 DEF Protective
      <4>2. known'[r] = "in_flight" /\ rows'[r] # NoRow
        BY <2>3, <2>4, <2>6, <3>2 DEF NoRow
      <4>3. summary'.state # "completed"
        BY <4>1, <4>2, RefreshedCompletes
      <4> QED
        BY <4>3 DEF CompletedIsGood
    <3> QED
      BY <3>1, <3>2
  <2> QED
    BY <1>1, <2>5, <2>7, <2>8, WireKeeps
<1> QED
  BY <1>3, <1>4 DEF Respond

(* An event that names no known request, or a window that expires,          *)
(* completes nothing.                                                       *)
LEMMA OthersKeepRows ==
  ASSUME SubmissionInv, (\E failure \in {"ambiguous", "invalid_response"} : Untold(failure)) \/ Expire
  PROVE  SubmissionInv'
<1> USE DEF SubmissionInv, SubmissionTypeOK
<1>1. CASE \E failure \in {"ambiguous", "invalid_response"} : Untold(failure)
  <2>1. PICK failure \in {"ambiguous", "invalid_response"} : Untold(failure)
    BY <1>1
  <2> DEFINE cut(r) == IF rows[r] = NoRow THEN NoRow ELSE [rows[r] EXCEPT !.complete = FALSE]
  <2>2. /\ evidenceOK' = FALSE /\ rows' = [r \in Requests |-> cut(r)] /\ summary' = Failed(failure, "none")
        /\ UNCHANGED <<wire, kind, window, known, decision>>
    BY <2>1 DEF Untold
  <2>3. ASSUME NEW r \in Requests
        PROVE  /\ cut(r) \in SubmissionRows /\ cut(r).status = rows[r].status
               /\ cut(r).terminal = rows[r].terminal /\ (cut(r) # NoRow <=> r \in Watched)
    <3>1. CASE rows[r] = NoRow
      BY <3>1 DEF Watched
    <3>2. CASE rows[r] # NoRow
      <4>1. rows[r] \in SubmissionRows /\ rows[r].terminal # "none" /\ r \in Watched
        BY <3>2 DEF Watched
      <4>2. [rows[r] EXCEPT !.complete = FALSE] \in SubmissionRows
            /\ [rows[r] EXCEPT !.complete = FALSE].status = rows[r].status
            /\ [rows[r] EXCEPT !.complete = FALSE].terminal = rows[r].terminal
        BY <4>1 DEF SubmissionRows
      <4>3. cut(r) = [rows[r] EXCEPT !.complete = FALSE]
        BY <3>2
      <4> QED
        BY <4>1, <4>2, <4>3 DEF NoRow
    <3> QED
      BY <3>1, <3>2
  <2> HIDE DEF cut
  <2>4. Watched' = Watched
    BY <2>2, <2>3 DEF Watched
  <2>5. SubmissionTypeOK' /\ KnownIsTrue'
    BY <2>2, <2>3, <2>4 DEF KnownIsTrue, Good, Watched
  <2>6. CompletedIsGood'
    BY <2>2, FailureEnds DEF CompletedIsGood, Final
  <2> QED
    BY <2>2, <2>5, <2>6, WireKeeps
<1>2. CASE Expire
  <2>1. /\ known' = [r \in Requests |-> "none"] /\ UNCHANGED <<wire, kind, rows, evidenceOK, decision>>
        /\ (summary'.state = "completed" => summary.state = "completed")
    BY <1>2 DEF Expire
  <2>2. SubmissionTypeOK' /\ KnownIsTrue' /\ CompletedIsGood'
    BY <2>1 DEF KnownIsTrue, CompletedIsGood, Watched, Good
  <2> QED
    BY <2>1, <2>2, WireKeeps
<1> QED
  BY <1>1, <1>2

(* What the requests do is not the driver's.                                *)
LEMMA EventsWait ==
  ASSUME \/ \E r \in Requests : Send(r) \/ ResolveRequest(r) \/ Finish(r) \/ Break(r)
         \/ \E r \in Requests, status \in Statuses : Respond(r, status)
         \/ \E failure \in {"ambiguous", "invalid_response"} : Untold(failure)
         \/ Expire
  PROVE  driver' = driver /\ driver \notin {"accepted", "rejected"}
BY DEF Send, ResolveRequest, Finish, Break, Respond, Untold, Expire, UnderWay, decision

-----------------------------------------------------------------------------
(* A step of the driver, and what it decides.                               *)
WellDecided ==
  /\ driver' = "rejected" => Watched \subseteq covered
  /\ driver' = "accepted" => \A r \in Watched :
       /\ rows[r].terminal # "incomplete" /\ rows[r].status \notin Protective
       /\ rows[r].terminal = "failed" \/ rows[r].status = "5xx" => kind[r] = "integration_check"

(* What the driver goes by for an acceptance.                               *)
LEMMA AcceptedIsGood ==
  ASSUME SubmissionInv, Mode \in {"standard", "independent"}
  PROVE  \A r \in Watched :
           /\ rows[r].terminal # "incomplete" /\ rows[r].status \notin Protective
           /\ rows[r].terminal = "failed" \/ rows[r].status = "5xx" => kind[r] = "integration_check"
<1>1. CASE Mode = "standard"
  BY <1>1, StandardIsGood DEF SubmissionInv, CompletedIsGood, Good, Protective
<1>2. CASE Mode = "independent"
  <2>1. /\ \A r \in Watched : rows[r].status \notin Protective /\ (Bad(r) => kind[r] = "integration_check")
        /\ \A r \in Watched : rows[r].terminal # "incomplete"
    BY <1>2 DEF Mode
  <2> QED
    BY <2>1 DEF Bad
<1> QED
  BY <1>1, <1>2

(* The driver goes on by itself; what was observed stays.                   *)
LEMMA DriverKeeps ==
  ASSUME SubmissionInv, UNCHANGED <<wire, kind, known, rows, evidenceOK, summary>>,
         window' \in {window, "open"}, ProofIsCovered'
  PROVE  SubmissionInv'
BY DEF SubmissionInv, SubmissionTypeOK, KnownIsTrue, CompletedIsGood, Watched, Good

Verdicts == {"no_form", "source", "protected", "limited", "outage", "unavailable", "crashed", "authenticated",
             "not_shown", "accepted", "rejected"}

(* The driver ends with a verdict and leaves what was observed.             *)
LEMMA EndsKeep ==
  ASSUME SubmissionInv, NEW how \in Verdicts, SubmissionEnds(how), UNCHANGED observed
  PROVE  SubmissionInv' /\ driver' = how
BY DriverKeeps DEF SubmissionEnds, observed, SubmissionInv, ProofIsCovered, Verdicts

(* A failure is a verdict, and neither accepts nor rejects.                 *)
LEMMA FailureIsVerdict == {Failure, StatusVerdict} \subseteq Verdicts \ {"accepted", "rejected"}
BY DEF Failure, StatusVerdict, Verdicts

(* The driver looks again; what was observed stays.                         *)
LEMMA NextRoundKeeps ==
  ASSUME SubmissionInv, NextRound, UNCHANGED observed, probe' = probe \/ probe' # "unmade"
  PROVE  SubmissionInv' /\ driver' = "look"
BY DriverKeeps DEF NextRound, observed, SubmissionInv, ProofIsCovered

(* A look at the page decides only what the observation allows.             *)
LEMMA PageLookKeeps ==
  ASSUME SubmissionInv, NEW there \in Pages, Look(there)
  PROVE  SubmissionInv' /\ WellDecided
<1>1. UNCHANGED observed /\ driver = "look"
  BY DEF Look
<1>2. CASE \E how \in Verdicts \ {"accepted", "rejected"} : SubmissionEnds(how)
  BY <1>1, <1>2, EndsKeep DEF WellDecided
<1>3. CASE UNCHANGED decision
  BY <1>1, <1>3, DriverKeeps DEF decision, observed, SubmissionInv, ProofIsCovered, WellDecided
<1>4. CASE driver' = "header" /\ UNCHANGED <<probe, proof, covered>>
  BY <1>1, <1>4, DriverKeeps DEF observed, SubmissionInv, ProofIsCovered, WellDecided
<1>5. CASE there \in {"protected", "limited", "outage"}
  BY <1>2, <1>5 DEF Look, Verdicts
<1>6. CASE there = "unreadable"
  BY <1>2, <1>6, FailureIsVerdict DEF Look
<1>7. CASE there \in {"server_error", "fine"}
  <2>1. \/ SubmissionEnds("outage") \/ SubmissionEnds(Failure)
        \/ SubmissionEnds("limited") \/ SubmissionEnds("protected")
        \/ UNCHANGED decision
        \/ driver' = "header" /\ UNCHANGED <<probe, proof, covered>>
    BY <1>7 DEF Look
  <2>2. {Failure, "outage", "limited", "protected"} \subseteq Verdicts \ {"accepted", "rejected"}
    BY FailureIsVerdict DEF Verdicts
  <2> QED
    BY <1>2, <1>3, <1>4, <2>1, <2>2
<1> QED
  BY <1>5, <1>6, <1>7 DEF Pages

(* The header of the page decides only what the observation allows.         *)
LEMMA HeaderKeeps ==
  ASSUME SubmissionInv, NEW shown \in {"yes", "no", "unreadable"}, Header(shown)
  PROVE  SubmissionInv' /\ WellDecided
<1>1. UNCHANGED observed /\ driver = "header"
  BY DEF Header
<1>2. CASE SubmissionEnds(StatusVerdict)
  BY <1>1, <1>2, FailureIsVerdict, EndsKeep DEF WellDecided
<1>3. CASE NextRound /\ UNCHANGED probe
  BY <1>1, <1>3, NextRoundKeeps DEF WellDecided
<1>4. CASE SameGroup /\ look.mode = "standard" /\ SubmissionEnds("accepted")
  <2>1. Mode = "standard"
    BY <1>4 DEF SameGroup
  <2>2. SubmissionInv' /\ driver' = "accepted"
    BY <1>1, <1>4, EndsKeep DEF Verdicts
  <2> QED
    BY <2>1, <2>2, AcceptedIsGood DEF WellDecided
<1>5. CASE /\ SameGroup /\ probe = "unmade"
           /\ driver' = "probe" /\ probe' = "made" /\ UNCHANGED <<look, proof>>
           /\ covered' = {r \in Requests : wire[r] = "finished"}
  <2>1. look.mode = "standard" => look.group \subseteq covered'
    <3> SUFFICES ASSUME look.mode = "standard" PROVE look.group \subseteq covered'
      OBVIOUS
    <3>1. Mode = "standard" /\ look.group = Watched
      BY <1>5 DEF SameGroup
    <3> QED
      BY <1>5, <3>1, StandardIsGood DEF SubmissionInv, CompletedIsGood, Watched
  <2> QED
    BY <1>1, <1>5, <2>1, DriverKeeps DEF observed, SubmissionInv, ProofIsCovered, WellDecided
<1> QED
  BY <1>2, <1>3, <1>4, <1>5 DEF Header

(* The official probe denies the login only after the requests it answers   *)
(* for.                                                                     *)
LEMMA ProbeKeeps ==
  ASSUME SubmissionInv, NEW answer, Probe(answer)
  PROVE  SubmissionInv' /\ WellDecided
<1>1. UNCHANGED observed /\ driver = "probe"
  BY DEF Probe
<1>2. CASE \E how \in Verdicts \ {"accepted", "rejected"} : SubmissionEnds(how)
  BY <1>1, <1>2, EndsKeep DEF WellDecided
<1>3. CASE SameGroup /\ look.mode \in {"standard", "independent"} /\ SubmissionEnds("accepted")
  <2>1. Mode \in {"standard", "independent"}
    BY <1>3 DEF SameGroup
  <2>2. SubmissionInv' /\ driver' = "accepted"
    BY <1>1, <1>3, EndsKeep DEF Verdicts
  <2> QED
    BY <2>1, <2>2, AcceptedIsGood DEF WellDecided
<1>4. CASE /\ SameGroup /\ look.mode = "standard"
           /\ driver' = "classify" /\ proof' = Watched /\ UNCHANGED <<probe, look, covered>>
  <2>1. Watched \subseteq covered
    BY <1>1, <1>4 DEF SubmissionInv, ProofIsCovered, SameGroup
  <2>2. ProofIsCovered'
    BY <1>1, <1>4, <2>1 DEF SubmissionInv, ProofIsCovered
  <2> QED
    BY <1>1, <1>4, <2>2, DriverKeeps DEF observed, WellDecided
<1>5. CASE NextRound /\ probe' = "void"
  BY <1>1, <1>5, NextRoundKeeps DEF WellDecided
<1>6. CASE answer \in {"protected", "limited"}
  BY <1>2, <1>6 DEF Probe, Verdicts
<1>7. CASE answer \in {"yes", "no"} /\ SameGroup /\ look.mode = "independent"
  <2>1. SubmissionEnds(IF answer = "yes" THEN "accepted" ELSE Failure)
    BY <1>7 DEF Probe
  <2> QED
    BY <1>2, <1>3, <1>7, <2>1, FailureIsVerdict
<1>8. CASE answer = "unreadable" /\ (look.mode = "independent" \/ summary.status \in Protective)
  BY <1>2, <1>8, FailureIsVerdict DEF Probe
<1>9. CASE answer = "yes" /\ SameGroup /\ look.mode = "standard"
  BY <1>3, <1>9 DEF Probe
<1>10. CASE answer = "no" /\ SameGroup /\ look.mode = "standard"
  BY <1>4, <1>10 DEF Probe
<1>11. CASE /\ answer \notin {"protected", "limited"}
            /\ ~(answer \in {"yes", "no"} /\ SameGroup /\ look.mode = "independent")
            /\ ~(answer = "unreadable" /\ (look.mode = "independent" \/ summary.status \in Protective))
            /\ ~(answer \in {"yes", "no"} /\ SameGroup /\ look.mode = "standard")
  BY <1>5, <1>11 DEF Probe
<1> QED
  BY <1>6, <1>7, <1>8, <1>9, <1>10, <1>11

(* The other decisions accept and reject nothing without their proof.       *)
LEMMA DecisionKeeps ==
  ASSUME SubmissionInv, \/ SubmitForm \/ NoForm \/ Deadline
                        \/ \E body \in {"protection", "other"} : Classify(body)
                        \/ \E shown \in {"yes", "no", "source", "protected", "limited"} : Confirm(shown)
  PROVE  SubmissionInv' /\ WellDecided
<1>1. CASE SubmitForm
  BY <1>1, DriverKeeps DEF SubmitForm, SubmissionInv, ProofIsCovered, WellDecided
<1>2. CASE NoForm
  <2>1. PICK how \in {"no_form", "source", "protected"} : SubmissionEnds(how) /\ UNCHANGED observed
    BY <1>2 DEF NoForm
  <2> QED
    BY <2>1, EndsKeep DEF WellDecided, Verdicts
<1>3. CASE Deadline
  <2>1. CASE Denied /\ SubmissionEnds("rejected")
    <3>1. SubmissionInv' /\ driver' = "rejected"
      BY <1>3, <2>1, EndsKeep DEF Deadline, Verdicts
    <3> QED
      BY <2>1, <3>1 DEF WellDecided, Denied, SubmissionInv, ProofIsCovered
  <2>2. CASE SubmissionEnds(Failure)
    BY <1>3, <2>2, FailureIsVerdict, EndsKeep DEF Deadline, WellDecided
  <2> QED
    BY <1>3, <2>1, <2>2 DEF Deadline
<1>4. CASE \E body \in {"protection", "other"} : Classify(body)
  <2>1. UNCHANGED observed
    BY <1>4 DEF Classify
  <2>2. CASE SubmissionEnds("crashed") \/ SubmissionEnds("protected")
    BY <2>1, <2>2, EndsKeep DEF WellDecided, Verdicts
  <2>3. CASE NextRound /\ probe' = (IF SameGroup THEN "no" ELSE "void")
    BY <2>1, <2>3, NextRoundKeeps DEF WellDecided
  <2> QED
    BY <1>4, <2>2, <2>3 DEF Classify
<1>5. CASE \E shown \in {"yes", "no", "source", "protected", "limited"} : Confirm(shown)
  <2>1. PICK how \in {"authenticated", "not_shown", "source", "protected", "limited"} :
          SubmissionEnds(how) /\ UNCHANGED observed
    BY <1>5 DEF Confirm
  <2> QED
    BY <2>1, EndsKeep DEF WellDecided, Verdicts
<1> QED
  BY <1>1, <1>2, <1>3, <1>4, <1>5

(* The invariant is inductive, and each step decides well.                  *)
LEMMA SubmissionStep ==
  ASSUME SubmissionInv, SubmissionNext
  PROVE  SubmissionInv' /\ WellDecided
<1>1. CASE \/ \E r \in Requests : Send(r) \/ ResolveRequest(r) \/ Finish(r) \/ Break(r)
           \/ \E r \in Requests, status \in Statuses : Respond(r, status)
           \/ \E failure \in {"ambiguous", "invalid_response"} : Untold(failure)
           \/ Expire
  <2>1. SubmissionInv'
    BY <1>1, RequestKeeps, RespondKeeps, OthersKeepRows
  <2> QED
    BY <1>1, <2>1, EventsWait DEF WellDecided
<1>2. CASE \E there \in Pages : Look(there)
  BY <1>2, PageLookKeeps
<1>3. CASE \E shown \in Shown({"yes", "no", "unreadable"}) : Header(shown)
  BY <1>3, HeaderKeeps DEF Shown
<1>4. CASE \E answer \in Shown({"yes", "unreadable", "protected", "limited"}) \union (IF signedIn THEN {} ELSE {"no"}) :
             Probe(answer)
  BY <1>4, ProbeKeeps
<1> QED
  BY <1>1, <1>2, <1>3, <1>4, DecisionKeeps DEF SubmissionNext

(* VerdictsAreProven: a credential is rejected, or a login accepted, only on *)
(* what the requests of the login and the one official probe have shown,    *)
(* however their events are delayed, for any number of requests.            *)
THEOREM VerdictsAreAlwaysProven == SubmissionSpec => VerdictsAreProven
<1>1. SubmissionInit => SubmissionInv
  <2> SUFFICES ASSUME SubmissionInit PROVE SubmissionInv
    OBVIOUS
  <2>1. NoRow \in SubmissionRows
    BY DEF NoRow, SubmissionRows
  <2>2. Watched = {}
    BY DEF SubmissionInit, Watched
  <2>3. SubmissionTypeOK
    BY <2>1, <2>2 DEF SubmissionInit, SubmissionTypeOK, Wire
  <2> QED
    BY <2>2, <2>3
      DEF SubmissionInit, SubmissionInv, KnownIsTrue, CompletedIsGood, ProofIsCovered, FreshSubmission
<1>2. SubmissionInv /\ [SubmissionNext]_submissionVars => SubmissionInv'
  <2>1. CASE UNCHANGED submissionVars
    BY <2>1
      DEF submissionVars, SubmissionInv, SubmissionTypeOK, KnownIsTrue, CompletedIsGood, ProofIsCovered, Watched, Good
  <2> QED
    BY <2>1, SubmissionStep
<1>3. SubmissionInv /\ [SubmissionNext]_submissionVars =>
        [/\ driver' = "rejected" => Watched \subseteq covered
         /\ driver' = "accepted" => \A r \in Watched :
              /\ rows[r].terminal # "incomplete" /\ rows[r].status \notin Protective
              /\ rows[r].terminal = "failed" \/ rows[r].status = "5xx" => kind[r] = "integration_check"
        ]_submissionVars
  BY SubmissionStep DEF WellDecided
<1> QED
  BY <1>1, <1>2, <1>3, PTL DEF SubmissionSpec, VerdictsAreProven
=============================================================================
