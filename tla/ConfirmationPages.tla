------------------------- MODULE ConfirmationPages --------------------------
(***************************************************************************)
(* What a reading of a seat looks at: the account at the provider, whose   *)
(* user pays, cancels, returns and books while it is read; and the page of *)
(* the list of unpaid holds, watched together with its response            *)
(* (reservation_list_response.py). The page is taken to show the words for *)
(* an empty list only after it asked for the list; a hold that was never   *)
(* made does not appear later.                                             *)
(***************************************************************************)
EXTENDS Integers, FiniteSets

CONSTANTS
  Ours,   \* the seat of the target
  Twins,  \* bound: other seats of the account on the same journey
  NoItem

ASSUME ConfirmationAssumption == Ours \notin Twins /\ NoItem \notin {Ours} \union Twins

VARIABLES
  target,     \* ReservationConfirmationTarget
  account,    \* what the account has at the provider
  session,    \* the browser's session: "on", "off"
  looks,      \* read_korail_same_session_confirmation
  listPage,   \* the page of the unpaid list
  listObserver,  \* ReservationListResponseObserver
  verdict,    \* the outcome of the last reading, and its item
  absences    \* NOT_FOUND outcomes in a row of a follow-up

confirmationVars == <<target, account, session, looks, listPage, listObserver, verdict, absences>>

Items == {Ours} \union Twins
Unpaid == {i \in Items : account[i] = "unpaid"}
Issued == {i \in Items : account[i] = "issued"}
NotReading == [at |-> "idle", broke |-> FALSE, noTicket |-> FALSE, stable |-> <<>>, seen |-> <<>>]
\* The page: what it shows, the cards that can be read, and the answer of the provider.
BlankList == [shows |-> "loading", cards |-> {}, answer |-> "none", listed |-> {}]
NoVerdict == [is |-> "none", item |-> NoItem]
FollowUp == target.purpose # "initial"

\* One passenger, the arrival and one seat known ("exact"); a deadline on record.
Targets == [provider : {"KORAIL", "SRT"}, purpose : {"initial", "payment", "unknown"},
            exact : BOOLEAN, deadline : BOOLEAN]
ConfirmationInit ==
  /\ target \in Targets
  /\ target.purpose = "initial" => ~target.exact
  /\ target.purpose # "payment" \/ target.provider = "SRT" => ~target.deadline
  /\ account \in [Items -> {"none", "unpaid"}] /\ (target.purpose = "payment" => account[Ours] = "unpaid")
  /\ session = "on" /\ looks = NotReading /\ listPage = BlankList /\ listObserver = "missing"
  /\ verdict = NoVerdict /\ absences = 0

-----------------------------------------------------------------------------
(* The account.                                                             *)

Becomes(i, there) ==
  /\ account' = [account EXCEPT ![i] = there]
  /\ UNCHANGED <<target, session, looks, listPage, listObserver, verdict, absences>>
Pays(i) == account[i] = "unpaid" /\ Becomes(i, "issued")
Cancels(i) == account[i] = "unpaid" /\ Becomes(i, "gone")
GivesBack(i) == account[i] = "issued" /\ Becomes(i, "returned")
BooksTwin(i) == i \in Twins /\ account[i] = "none" /\ Becomes(i, "unpaid")

-----------------------------------------------------------------------------
(* The page of the unpaid list, and what its observer hears of it.          *)

ReaderStays == UNCHANGED <<target, account, session, looks, verdict, absences>>

OnList == looks.at \in {"look", "judge"}
Hears(state) == listObserver' = IF listObserver \in {"missing", "in_flight"} THEN state ELSE listObserver
\* on_request: a second request leaves it open which of them is shown.
PageAsks ==
  /\ OnList /\ listPage.answer = "none" /\ listPage' = [listPage EXCEPT !.answer = "asked"]
  /\ Hears("in_flight") /\ ReaderStays
PageAsksAgain ==
  /\ OnList /\ listObserver \in {"in_flight", "body_pending"} /\ listObserver' = "failed"
  /\ UNCHANGED listPage /\ ReaderStays
\* on_response, on_finished: rows, or something else than the list.
ProviderLists ==
  /\ OnList /\ listPage.answer = "asked"
  /\ listPage' = [listPage EXCEPT !.answer = "rows", !.listed = Unpaid]
  /\ Hears("body_pending") /\ ReaderStays
ProviderRefuses ==
  /\ OnList /\ listPage.answer = "asked" /\ listPage' = [listPage EXCEPT !.answer = "other"]
  /\ \E state \in {"body_pending", "failed", "blocked"} : Hears(state)
  /\ ReaderStays
\* The words for an empty list, before there is an answer.
PageFlashesEmpty ==
  /\ OnList /\ listObserver # "deaf" /\ listPage.answer # "none" /\ listPage.shows = "loading"
  /\ listPage' = [listPage EXCEPT !.shows = "empty"] /\ UNCHANGED listObserver /\ ReaderStays
\* The page shows its answer; a card may be beyond reading.
PageShows ==
  /\ OnList /\ UNCHANGED listObserver /\ ReaderStays
  /\ \/ /\ listPage.answer = "rows" /\ listPage.shows \in {"loading", "empty"}
        /\ \E cards \in SUBSET listPage.listed :
             listPage' = [listPage EXCEPT !.cards = cards, !.shows =
               IF listPage.listed # {} THEN IF cards = listPage.listed THEN "cards" ELSE "malformed" ELSE "empty"]
        /\ listPage' # listPage
     \/ /\ listPage.answer \in {"rows", "other"} /\ listPage.shows = "loading" /\ listPage.listed = {}
        /\ \E there \in {"blank", "login", "protected"} : listPage' = [listPage EXCEPT !.shows = there]
=============================================================================
