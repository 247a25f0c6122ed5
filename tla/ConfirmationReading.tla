------------------------ MODULE ConfirmationReading -------------------------
(***************************************************************************)
(* Reading what became of a seat. KORAIL is read in three looks at pages   *)
(* of the browser's session: the detail page, the issued tickets, and the  *)
(* list of unpaid holds (confirmation_reader.py); SRT in one list          *)
(* (srt.py). The account and the page change in between                    *)
(* (ConfirmationPages). One look takes no time, the page of the unpaid     *)
(* list excepted.                                                          *)
(***************************************************************************)
EXTENDS ConfirmationPages

(* The outcome, from the evidence to the caller.                            *)

\* enforce_confirmation_target_safety: KORAIL's list does not tell seats apart.
UnknownIsSafe(outcome) ==
  target.purpose = "unknown" => target.exact /\ (outcome = "hold" => target.provider = "SRT")
\* enforce_recorded_payment_deadline: a hold with another deadline is another hold.
\* Mutant of DeadlineAgrees: the deadline on record is not compared.
DeadlineIsIgnored(outcome, item) == TRUE
DeadlineAgrees(outcome, item) ==
  outcome = "hold" /\ target.provider = "KORAIL" /\ target.deadline => item = Ours
Accepted(outcome, item) ==
  outcome \in {"hold", "paid"} =>
    /\ UnknownIsSafe(outcome) /\ DeadlineAgrees(outcome, item)
    /\ outcome = "paid" => FollowUp /\ target.exact
Conclude(outcome, item) ==
  LET final == IF Accepted(outcome, item) THEN outcome ELSE "inconclusive" IN
  /\ verdict' = [is |-> final, item |-> IF final = "hold" THEN item ELSE NoItem]
  /\ absences' = IF final = "not_found" /\ FollowUp THEN absences + 1 ELSE 0
  /\ looks' = NotReading /\ listPage' = BlankList /\ listObserver' = "missing"
  /\ UNCHANGED <<target, account>>
\* discard_with_state, unless the session is not to blame.
ConcludeAndDrop(outcome) == Conclude(outcome, NoItem) /\ session' = "off"
ConcludeAndKeep(outcome, item) == Conclude(outcome, item) /\ UNCHANGED session
Fails(kept) == IF kept /\ ~looks.broke THEN ConcludeAndKeep("inconclusive", NoItem) ELSE ConcludeAndDrop("inconclusive")

GoesTo(there) ==
  /\ looks' = [looks EXCEPT !.at = there]
  /\ UNCHANGED <<target, account, session, listPage, listObserver, verdict, absences>>
BreaksTo(there) ==
  /\ looks' = [looks EXCEPT !.at = there, !.broke = TRUE]
  /\ UNCHANGED <<target, account, session, listPage, listObserver, verdict, absences>>

\* read_reservation_detail: only the session of the target's credential is read.
BeginReading ==
  /\ looks.at = "idle" /\ absences < 2 /\ target.provider = "KORAIL"
  /\ IF session = "off" THEN ConcludeAndKeep("inconclusive", NoItem)
     ELSE /\ looks' = [NotReading EXCEPT !.at = "detail"] /\ verdict' = NoVerdict
          /\ UNCHANGED <<target, account, session, listPage, listObserver, absences>>
LogsInAgain ==
  /\ session = "off" /\ session' = "on"
  /\ UNCHANGED <<target, account, looks, listPage, listObserver, verdict, absences>>

AfterDetail == IF FollowUp THEN "issued" ELSE "list"
\* A page of a refusal, and a login page of a session that has ended.
IsRefused == ConcludeAndDrop("blocked") \/ ConcludeAndDrop("auth_required")
\* The detail page shows the seat just taken; a follow-up believes it no more.
ReadDetail ==
  /\ looks.at = "detail"
  /\ \/ IsRefused
     \/ BreaksTo(AfterDetail)
     \/ GoesTo(AfterDetail)
     \/ ~FollowUp /\ account[Ours] # "none" /\ ConcludeAndKeep("hold", Ours)

\* _payment_follow_up_issued_ticket_probe: only the seat itself, and neither returned
\* nor moved; no ticket at all is the only proof that there is none.
ReadIssued ==
  /\ looks.at = "issued"
  /\ \/ ~target.exact /\ GoesTo("list")
     \/ target.exact /\ (IsRefused \/ BreaksTo("list") \/ GoesTo("list"))
     \/ target.exact /\ Ours \in Issued /\ ConcludeAndKeep("paid", Ours)
     \/ /\ target.exact /\ \A i \in Items : account[i] \notin {"issued", "returned"}
        /\ looks' = [looks EXCEPT !.at = "list", !.noTicket = TRUE]
        /\ UNCHANGED <<target, account, session, listPage, listObserver, verdict, absences>>

-----------------------------------------------------------------------------
(* read_reservation_list.                                                   *)

\* observe_reservation_list_response, arm: an observer that cannot listen has failed.
OpenList ==
  /\ looks.at = "list" /\ looks' = [looks EXCEPT !.at = "look", !.stable = <<>>]
  /\ listPage' = BlankList /\ listObserver' \in {"missing", "deaf"}
  /\ UNCHANGED <<target, account, session, verdict, absences>>

TakeLook ==
  /\ looks.at = "look"
  /\ looks' = [looks EXCEPT !.at = "judge", !.seen = <<listPage.shows, listPage.cards>>]
  /\ UNCHANGED <<target, account, session, listPage, listObserver, verdict, absences>>

SeenThere == looks.seen[1]
\* read_completed_body: what may be wrong with a body, the fault of the reader or not.
BodyStates ==
  IF listObserver # "body_pending" THEN {listObserver}
  ELSE IF listPage.answer = "other" THEN {"failed", "rejected"}
  ELSE {"rejected", IF listPage.listed = {} THEN "empty" ELSE "nonempty"}
Heard(state) == state \notin {"missing", "deaf"}

\* The words for an empty list count with the response that says so, if it was heard.
SeesAllOf(state) ==
  \/ SeenThere = "cards"
  \/ SeenThere = "empty" /\ (Heard(state) => state = "empty")
  \/ SeenThere = "blank" /\ state = "empty"

\* No absence is read in a follow-up while the ticket may have been issued.
AbsenceIsSafe == ~FollowUp \/ (target.exact /\ looks.noTicket)

\* The rows of the journey: one with its controls is the hold, none may be absence.
Concludes(complete, cards) ==
  \/ Cardinality(cards) = 1 /\ \E i \in cards : ConcludeAndKeep("hold", i)
  \/ cards # {} /\ ConcludeAndKeep("inconclusive", NoItem)
  \/ cards = {} /\ complete /\ AbsenceIsSafe /\ ConcludeAndKeep("not_found", NoItem)
  \/ cards = {} /\ ~(complete /\ AbsenceIsSafe) /\ ~looks.broke /\ ConcludeAndKeep("inconclusive", NoItem)
  \/ cards = {} /\ ~(complete /\ AbsenceIsSafe) /\ looks.broke /\ ConcludeAndDrop("inconclusive")

Judge ==
  /\ looks.at = "judge"
  /\ \/ SeenThere = "login" /\ (ConcludeAndDrop("auth_required") \/ Concludes(FALSE, {}))
     \/ SeenThere = "protected" /\ ConcludeAndDrop("blocked")
     \/ /\ SeenThere \notin {"login", "protected"}
        /\ \E state \in BodyStates :
             \/ state = "blocked" /\ ConcludeAndDrop("blocked")
             \/ state \in {"failed", "rejected"} /\ Fails(state = "rejected")
             \/ state = "nonempty" /\ SeenThere = "empty" /\ Fails(TRUE)
             \/ /\ state \notin {"blocked", "failed", "rejected"} /\ ~(state = "nonempty" /\ SeenThere = "empty")
                /\ \/ SeesAllOf(state) /\ looks.stable = looks.seen /\ Concludes(TRUE, looks.seen[2])
                   \/ /\ ~(SeesAllOf(state) /\ looks.stable = looks.seen)
                      /\ looks' = [looks EXCEPT !.at = "look", !.seen = <<>>,
                                       !.stable = IF SeesAllOf(state) THEN looks.seen ELSE <<>>]
                      /\ listObserver' = state
                      /\ UNCHANGED <<target, account, session, listPage, verdict, absences>>
\* The time is up, or the page cannot be read: what was seen last is judged as it is.
ListTimesOut == looks.at = "judge" /\ SeenThere \notin {"login", "protected"} /\ Concludes(FALSE, looks.seen[2])
PageBreaks == looks.at \in {"list", "look"} /\ ConcludeAndDrop("inconclusive")

-----------------------------------------------------------------------------
(* SRT: one list of the unpaid and the paid.                                *)

SrtOutcome(records) ==
  IF records = {} THEN "not_found"
  ELSE IF Cardinality(records) > 1 \/ (FollowUp /\ (~target.exact \/ records # {Ours})) THEN "inconclusive"
  ELSE IF records \subseteq Issued THEN IF FollowUp THEN "paid" ELSE "inconclusive"
  ELSE "hold"
ReadSrt ==
  /\ target.provider = "SRT" /\ absences < 2
  /\ \/ LET records == Unpaid \union Issued IN
          ConcludeAndKeep(SrtOutcome(records), IF records = {} THEN NoItem ELSE CHOOSE i \in records : TRUE)
     \/ \E outcome \in {"blocked", "auth_required", "inconclusive"} : ConcludeAndKeep(outcome, NoItem)

ConfirmationNext ==
  \/ \E i \in Items : Pays(i) \/ Cancels(i) \/ GivesBack(i) \/ BooksTwin(i)
  \/ BeginReading \/ LogsInAgain \/ ReadDetail \/ ReadIssued \/ OpenList
  \/ PageAsks \/ PageAsksAgain \/ ProviderLists \/ ProviderRefuses \/ PageFlashesEmpty \/ PageShows
  \/ TakeLook \/ Judge \/ ListTimesOut \/ PageBreaks \/ ReadSrt

ConfirmationSpec == ConfirmationInit /\ [][ConfirmationNext]_confirmationVars

-----------------------------------------------------------------------------
\* What the readings make the records say is so.  A seat told to be paid was paid for;
\* one that two readings in a row did not find is neither held nor paid, although the
\* user may pay between the look at the tickets and the look at the holds; and a hold
\* told to be there is the one asked for, not another of the same journey.
ReadingsAreTrue ==
  /\ verdict.is = "paid" => account[Ours] \in {"issued", "returned"}
  /\ absences = 2 => account[Ours] \notin {"unpaid", "issued"}
  /\ verdict.is = "hold" /\ FollowUp /\ (target.provider = "SRT" \/ target.deadline)
       => verdict.item = Ours /\ account[Ours] # "none"
=============================================================================
