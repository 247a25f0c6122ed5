------------------------- MODULE ReservationDriver -------------------------
(***************************************************************************)
(* One booking in the official page: find the train, press the seat, then  *)
(* look at the page again and again until it says how the request ended,   *)
(* press the booking button when it shows, answer the dialogs the operator *)
(* allowed, log in once when the page asks for it.                         *)
(*                                                                         *)
(* Time is counted in ticks.  A deadline is the number of ticks left to it *)
(* and time passes in the sleeps of the loop and wherever the page is slow.*)
(***************************************************************************)
EXTENDS Integers, FiniteSets, FiniteSetsExt

CONSTANTS
  Budget,     \* timeout_seconds
  Settle,     \* how long a dialog may need to go away
  FirstPause, \* pause between two official probes on the login page, the first
  MaxPause    \* and the longest

ASSUME DriverAssumption ==
  /\ Budget \in Nat \ {0} /\ Settle \in Nat \ {0}
  /\ FirstPause \in Nat \ {0} /\ MaxPause \in Nat

VARIABLES
  place,    \* where reserve_once is
  auto,     \* the operator lets dialogs be answered
  attempt,  \* ReservationAttemptState without its clocks
  left,     \* ticks to the deadline of the loop
  settle,   \* ticks to the settle deadline of each dialog that was answered
  follow,   \* ticks to post_dialog_action_followup_deadline, None before
  result,   \* what is returned
  presses,  \* history: clicks that reached the booking button
  chosen    \* the page still has the seat that was pressed

driverVars == <<place, auto, attempt, left, settle, follow, result, presses, chosen>>

None == -1
Phases == {"pre_request", "post_request"}
Kinds == {"delay_consent", "information_consent", "existing_choice", "login_shell",
          "information", "post_request_notice", "generic", "unknown"}
NoResult == [outcome |-> "none", reason |-> "none", clicked |-> FALSE]

FreshAttempt ==
  [login |-> FALSE, clicked |-> FALSE,
   route |-> "unchecked",   \* pre_login_route_check_attempted, _authenticated
   submitted |-> FALSE,     \* post_submit_authenticated
   away |-> FALSE,          \* login_route_auth_unavailable_stage
   failures |-> 0, pause |-> 0, \* its attempts, and the ticks to the next official probe
   kept |-> "unchecked"]    \* preserved_selection_checked, _matches

DriverInit ==
  /\ place = "idle" /\ auto \in BOOLEAN /\ attempt = FreshAttempt
  /\ left = Budget /\ settle = [key \in {} |-> 0] /\ follow = None
  /\ result = NoResult /\ presses = 0 /\ chosen = FALSE

Phase == IF attempt.clicked THEN "post_request" ELSE "pre_request"
Move(there) == place' = there
SameAttempt == UNCHANGED <<auto, attempt, left, settle, follow, presses, chosen>>

Returns(outcome, reason) ==
  /\ result' = [outcome |-> outcome, reason |-> reason, clicked |-> attempt.clicked]
  /\ Move("done")
DriverReturns(outcome, reason) == Returns(outcome, reason) /\ SameAttempt

-----------------------------------------------------------------------------
\* Before the loop: the train, the seat.

CallDriver == place = "idle" /\ Move("rows") /\ SameAttempt /\ UNCHANGED result

FindsRow ==
  /\ place = "rows"
  /\ \/ DriverReturns("UNAVAILABLE", "target_not_unique")
     \/ Move("seat") /\ SameAttempt /\ UNCHANGED result

PressesSeat ==
  /\ place = "seat"
  /\ \/ DriverReturns("UNAVAILABLE", "seat_control_not_unique")
     \/ DriverReturns("UNAVAILABLE", "seat_not_available")
     \/ /\ Move("loop") /\ attempt' = FreshAttempt /\ left' = Budget /\ chosen' = TRUE
        /\ UNCHANGED <<auto, settle, follow, result, presses>>

-----------------------------------------------------------------------------
\* The head of the loop and one look at the page.

DriverTimesOut ==
  /\ place = "loop" /\ left = 0
  /\ CASE attempt.away -> DriverReturns("FAILED", "source_unavailable")
       [] ~attempt.away /\ ~attempt.clicked -> DriverReturns("FAILED", "reservation_control_timeout")
       [] OTHER -> DriverReturns("FAILED", "reservation_result_unknown")

Looks == place = "loop" /\ left > 0 /\ Move("probe") /\ SameAttempt /\ UNCHANGED result

SeesProtection ==
  /\ place = "probe"
  /\ \E reason \in {"rate_limited", "provider_access_restricted"} : DriverReturns("PROVIDER_BLOCKED", reason)

BackHome == [attempt EXCEPT !.away = FALSE, !.failures = 0, !.pause = 0]
SamePage == UNCHANGED <<auto, left, settle, follow, result, presses, chosen>>

OffLoginRoute ==
  /\ place = "probe" /\ attempt' = BackHome /\ SamePage
  /\ Move("page")

\* A seat pressed in the page of the provider leads to the detail page only after
\* a request was made; another unpaid booking of the same train looks the same.
SeesDetail ==
  /\ place = "page"
  /\ DriverReturns("PAYMENT_REQUIRED", "reservation_pending_payment")

Pause(n) == Min({MaxPause, FirstPause * 2 ^ Min({n - 1, 2})})

\* On the login page the official session is asked once; an answer stands, a
\* failure is repeated after a pause, and in the pause the header may tell.
Asks == ~attempt.submitted /\ attempt.route = "unchecked"
Waits == Asks /\ attempt.away /\ attempt.pause > 0
StaysAway ==
  LET n == attempt.failures + 1
  IN attempt' = IF Waits THEN attempt
                ELSE [attempt EXCEPT !.away = TRUE, !.failures = Min({n, 3}), !.pause = Pause(n)]
LoginRouteUnknown == place = "probe" /\ Asks /\ StaysAway /\ SamePage /\ Move("sleep")

LoginRouteKnown ==
  /\ place = "probe"
  /\ \E yes \in BOOLEAN :
       /\ yes = (IF attempt.submitted THEN TRUE ELSE IF Asks THEN yes ELSE attempt.route = "yes")
       /\ Waits => yes
       /\ attempt' = [BackHome EXCEPT !.route = IF Asks THEN IF yes THEN "yes" ELSE "no" ELSE @]
       /\ SamePage
       /\ Move(IF yes THEN "shell" ELSE "login")

\* Mutant of AfterLogin: the login begins a new attempt.
AfterLoginAnew(confirmed) == [FreshAttempt EXCEPT !.login = TRUE, !.submitted = confirmed]
AfterLogin(confirmed) == [attempt EXCEPT !.login = TRUE, !.submitted = confirmed]

\* The first AUTH_REQUIRED logs in, in place; the second one ends the booking.
LogsIn ==
  /\ place = "login"
  /\ \/ DriverReturns("AUTH_REQUIRED", "authentication_required")
     \/ /\ ~attempt.login
        /\ \E confirmed \in BOOLEAN : attempt' = AfterLogin(confirmed)
        /\ left' = Budget /\ chosen' \in {chosen, FALSE} /\ Move("loop")
        /\ UNCHANGED <<auto, settle, follow, result, presses>>

-----------------------------------------------------------------------------
\* Dialogs.

\* classify_reservation_dialog: the kinds that are answered.
Actionable(kind) ==
  \/ kind = "information"
  \/ kind = "post_request_notice" /\ attempt.clicked
  \/ kind = "generic" /\ auto
  \/ kind \in {"delay_consent", "information_consent"} /\ auto /\ attempt.clicked

Persisted(kind) ==
  CASE kind = "delay_consent" -> "delay_consent_persisted"
    [] kind = "information_consent" -> "reservation_information_consent_persisted"
    [] OTHER -> "official_notice_persisted"

DialogAnswered == DOMAIN settle
Remember(key) ==
  settle' = [k \in DialogAnswered \union {key} |-> IF k = key THEN Min({Budget, Settle}) ELSE settle[k]]

\* No dialog, or the empty login dialog of the login page of a user who is logged in.
SeesNoDialog ==
  /\ place \in {"page", "shell"}
  /\ IF follow = 0 THEN DriverReturns("ACTION_REQUIRED", "official_post_dialog_action_unresolved")
     ELSE Move("act") /\ SameAttempt /\ UNCHANGED result

SeesOddDialogs ==
  /\ place \in {"page", "shell"}
  /\ \E reason \in {"official_dialog_probe_unavailable", "official_dialog_ambiguous"} :
       DriverReturns("ACTION_REQUIRED", reason)

LeavesDialog(kind) ==
  /\ place \in {"page", "shell"} /\ ~Actionable(kind)
  /\ ~(kind = "login_shell" /\ place = "shell")
  /\ CASE kind = "delay_consent" -> DriverReturns("CONSENT_REQUIRED", "delay_consent_required")
       [] kind = "existing_choice" -> DriverReturns("ACTION_REQUIRED", "existing_reservation_action_required")
       [] OTHER -> DriverReturns("ACTION_REQUIRED", "official_action_required")

\* Mutant of AnswersDialog: a dialog is answered whenever it shows.
AnswersEveryTime(kind) ==
  /\ place \in {"page", "shell"} /\ Actionable(kind)
  /\ Remember(<<Phase, kind>>)
  /\ follow' = (IF attempt.clicked THEN Budget ELSE follow)
  /\ Move("act") /\ UNCHANGED <<auto, attempt, left, result, presses, chosen>>

AnswersDialog(kind) ==
  LET key == <<Phase, kind>>
  IN /\ place \in {"page", "shell"} /\ Actionable(kind)
     /\ \/ DriverReturns("ACTION_REQUIRED", "official_dialog_action_target_unavailable")
        \/ /\ key \in DialogAnswered /\ settle[key] > 0
           /\ Move("act") /\ SameAttempt /\ UNCHANGED result
        \/ /\ key \in DialogAnswered /\ settle[key] = 0
           /\ DriverReturns("ACTION_REQUIRED", Persisted(kind))
        \/ /\ key \notin DialogAnswered /\ Remember(key)
           /\ \/ /\ Returns("ACTION_REQUIRED", "dialog_result_unknown")
                 /\ UNCHANGED <<auto, attempt, left, follow, presses, chosen>>
              \/ /\ follow' = (IF attempt.clicked THEN Budget ELSE follow)
                 /\ Move("act") /\ UNCHANGED <<auto, attempt, left, result, presses, chosen>>

-----------------------------------------------------------------------------
\* After a look that ended nothing: the clocks, then the booking button.

Clocks == {settle[key] : key \in DialogAnswered} \union ({follow} \ {None})
Extended == Max({left} \union {clock + 1 : clock \in Clocks})
Settling == \E key \in DialogAnswered : settle[key] > 0

Rests ==
  /\ place = "act" /\ left' = Extended /\ Move("sleep")
  /\ UNCHANGED <<auto, attempt, settle, follow, result, presses, chosen>>

\* has_exact_preserved_booking_state, once after an in-place login.
\* Mutant of KeepsSelection: the page is trusted to have kept the seat.
TrustsSelection == attempt' = [attempt EXCEPT !.kept = "yes"]
KeepsSelection ==
  \E proof \in IF chosen THEN {"yes", "no"} ELSE {"no"} :
    attempt' = [attempt EXCEPT !.kept = IF attempt.login /\ @ = "unchecked" THEN proof ELSE @]

FindsButton ==
  /\ place = "act" /\ ~Settling /\ ~attempt.clicked /\ left' = Extended
  /\ KeepsSelection
  /\ Move(IF attempt.login /\ attempt'.kept = "no" THEN "lost" ELSE "button")
  /\ UNCHANGED <<auto, settle, follow, result, presses, chosen>>

LostSelection == place = "lost" /\ DriverReturns("FAILED", "reservation_selection_not_preserved")

ButtonRefused ==
  /\ place \in {"act", "button"} /\ ~Settling /\ ~attempt.clicked
  /\ \/ place = "act" /\ DriverReturns("UNAVAILABLE", "reservation_control_ambiguous")
     \/ place = "button" /\ DriverReturns("UNAVAILABLE", "reservation_control_disabled")

PressesButton ==
  /\ place = "button"
  /\ \/ /\ attempt' = [attempt EXCEPT !.clicked = TRUE] /\ left' = Budget /\ presses' = presses + 1
        /\ Move("loop") /\ UNCHANGED <<auto, settle, follow, result, chosen>>
     \/ /\ presses' \in {presses, presses + 1}   \* the click raised
        /\ Returns("FAILED", "reservation_result_unknown")
        /\ UNCHANGED <<auto, attempt, left, settle, follow, chosen>>

-----------------------------------------------------------------------------
\* Time.

Less(n) == IF n > 0 THEN n - 1 ELSE n
Passes ==
  /\ left' = Less(left) /\ follow' = Less(follow)
  /\ settle' = [key \in DialogAnswered |-> Less(settle[key])]
  /\ attempt' = [attempt EXCEPT !.pause = Less(@)]
  /\ UNCHANGED <<auto, result, presses, chosen>>

Sleeps == place = "sleep" /\ Passes /\ Move("loop")
SlowPage ==
  /\ place \in {"loop", "probe", "page", "shell", "act", "button"} /\ Passes /\ UNCHANGED place

\* The call is cancelled or the browser raises: nothing is returned.
Raises ==
  /\ place \notin {"idle", "done"} /\ Move("done") /\ result' = [NoResult EXCEPT !.outcome = "raised"]
  /\ SameAttempt

DriverStep ==
  \/ FindsRow \/ PressesSeat \/ DriverTimesOut \/ Looks \/ SeesProtection \/ OffLoginRoute \/ SeesDetail
  \/ LoginRouteUnknown \/ LoginRouteKnown \/ LogsIn
  \/ SeesNoDialog \/ SeesOddDialogs
  \/ \E kind \in Kinds : LeavesDialog(kind) \/ AnswersDialog(kind)
  \/ Rests \/ FindsButton \/ LostSelection \/ ButtonRefused \/ PressesButton \/ Sleeps

DriverNext == CallDriver \/ DriverStep \/ SlowPage \/ Raises
DriverSpec == DriverInit /\ [][DriverNext]_driverVars /\ WF_driverVars(DriverStep)

-----------------------------------------------------------------------------
\* The button is pressed at most once, and once it was pressed no result says that
\* nothing was asked of the provider: either the result is marked as clicked or it
\* says that the outcome is unknown.  The callers repeat a booking on the others.
PressIsTold ==
  /\ presses <= 1
  /\ presses = 1 /\ place = "done" /\ result.outcome # "raised"
       => result.clicked \/ result.reason = "reservation_result_unknown"

\* After an in-place login the button is pressed only if the page still shows the
\* seat that was chosen before it.
PressKeepsSeat == [][presses' > presses => chosen]_driverVars

\* A booking that was begun returns: dialogs that come back, a login page that cannot be read and
\* the deadlines that are moved for them do not keep it in the browser for ever.
DriverEnds == place # "idle" ~> place = "done"
=============================================================================
