------------------------- MODULE ReservationCalls ---------------------------
(* Reservation commands (reservations/execution_application.py): a claim is *)
(* committed before the provider is called, the result is written after the *)
(* call, a call that was not admitted is withdrawn, and a stale claim is    *)
(* fenced as UNKNOWN.                                                       *)
EXTENDS WatchObservations

(* execute_reservation, the transaction before the call.                    *)

(* A crash, a watch that is no longer SEAT_FOUND, a key that is no longer   *)
(* authorized: nothing is written.                                          *)
DropWinner(k) ==
    /\ winners' = winners \ {k}
    /\ UNCHANGED <<records, departed, observing, reading>>

ReserveDeparted(k) ==
    /\ watch.status = "SEAT_FOUND"
    /\ k.cand \in departed
    /\ cand' = [cand EXCEPT ![k.cand] =
                  [state |-> "expired", by |-> 0, rearm |-> 0, current |-> FALSE]]
    /\ watch' = GoTo(IF \E c \in Cand \ {k.cand} : Open(c)
                     THEN "WATCHING" ELSE "EXPIRED")
    /\ winners' = winners \ {k}
    /\ UNCHANGED <<attempts, posted, edges, account, departed, observing, reading>>

ReserveSignedOut(k) ==
    /\ watch.status = "SEAT_FOUND"
    /\ k.cand \notin departed
    /\ account.status # "authenticated"
    /\ watch' = MoveTo("AUTH_REQUIRED", "preflight")
    /\ winners' = winners \ {k}
    /\ UNCHANGED <<cand, attempts, posted, edges, account, departed, observing, reading>>

NewAttempt(k) ==
    [cand |-> k.cand, episode |-> k.episode, source |-> k.source,
     outcome |-> "PENDING", conf |-> "none", resolution |-> "none", reads |-> 0,
     next |-> FALSE, version |-> account.version, deadline |-> "none",
     seats |-> FALSE, io |-> TRUE]

(* begin_reservation_attempt under the account, watch, candidate and        *)
(* attempt locks; the provider is called after the commit.                  *)
Claim(k) ==
    /\ watch.status = "SEAT_FOUND"
    /\ k.cand \notin departed
    /\ account.status = "authenticated"
    /\ Authorized(k)
    /\ Len(attempts) < MaxAttempts
    /\ attempts' = Append(attempts, NewAttempt(k))
    /\ cand' = SetState({k.cand}, "reservation_attempted")
    /\ watch' = GoTo("RESERVING")
    /\ winners' = winners \ {k}
    /\ UNCHANGED <<posted, edges, account, departed, observing, reading>>

UseWinner ==
    \E k \in winners :
      DropWinner(k) \/ ReserveDeparted(k) \/ ReserveSignedOut(k) \/ Claim(k)

-----------------------------------------------------------------------------
(* execute_reservation, the transaction after the call. An answer is the    *)
(* provider's result and what confirm_provider_reservation_result made of   *)
(* it: a hold counts only when the official list shows it.                  *)

ResultOutcome(answer) ==
    CASE answer = "hold" -> "PAYMENT_REQUIRED"
      [] answer = "notAvailable" -> "NOT_AVAILABLE"
      [] answer = "failed" -> "FAILED"
      [] answer = "authRequired" -> "AUTH_REQUIRED"
      [] OTHER -> "UNKNOWN"

ResultConfirmation(answer) ==
    CASE answer \in {"hold", "expiredHold"} -> "CONFIRMED_PAYMENT_REQUIRED"
      [] answer = "paid" -> "CONFIRMED_PAID"
      [] answer = "notFound" -> "NOT_FOUND"
      [] answer = "inconclusive" -> "INCONCLUSIVE"
      [] answer = "unknownAuth" -> "AUTH_REQUIRED"
      [] OTHER -> "none"

(* After these the provider may have named the seats it reserved; an UNKNOWN *)
(* attempt needs them to recognise its reservation in the official list.    *)
SeatAnswers == {"hold", "expiredHold", "paid", "notFound", "inconclusive",
                "unknownAuth"}

AuthFailures == {"authRequired", "unknownAuth"}

(* Mutant of SameCredentials: a newer login fences nothing.                 *)
AnyCredentials(a) == a \in Ids

SameCredentials(a) == account.version = attempts[a].version

(* The claim this result answers is still the one the watch waits for.      *)
StillClaimed(a) ==
    /\ watch.status = "RESERVING"
    /\ attempts[a].outcome = "PENDING"
    /\ cand[attempts[a].cand].state = "reservation_attempted"

(* The process died, or a newer login fences the whole result.              *)
LoseResult(a) ==
    /\ Update(a, [attempts[a] EXCEPT !.io = FALSE])
    /\ UNCHANGED <<watch, cand, posted, edges, account, departed, memory>>

Returned(a, answer) ==
    [attempts[a] EXCEPT
       !.io = FALSE,
       !.outcome = ResultOutcome(answer),
       !.conf = ResultConfirmation(answer),
       !.deadline = IF answer = "hold" THEN "open" ELSE "none",
       !.seats = answer \in SeatAnswers \ {"hold"},
       !.next = answer \in {"notFound", "inconclusive"}]

(* A positive or negative answer of the provider proves the session, and    *)
(* rejected attempts may be tried once more.                                *)
ProvesLogin(answer) == answer \in {"hold", "expiredHold", "notAvailable"}

LoggedIn(version) ==
    [version |-> version, status |-> "authenticated",
     renews |-> account.renews
                \cup {b \in Ids : attempts[b].outcome = "AUTH_REQUIRED"}]

SignedOut ==
    \E status \in AuthStatuses \ {"authenticated"} :
      account' = [account EXCEPT !.status = status]

AccountAfter(answer) ==
    IF answer \in AuthFailures THEN SignedOut
    ELSE account' = IF ProvesLogin(answer)
                    THEN LoggedIn(account.version) ELSE account

(* complete_reservation_attempt.                                            *)
FinishReservation(a, answer) ==
    LET c == attempts[a].cand IN
    /\ SameCredentials(a)
    /\ StillClaimed(a)
    /\ Update(a, Returned(a, answer))
    /\ AccountAfter(answer)
    /\ winners' = IF ProvesLogin(answer)
                  THEN {k \in winners : k.episode # "auth"} ELSE winners
    /\ \/ /\ answer = "hold"
          /\ cand' = HeldBy(c)
          /\ watch' = [GoTo("PAYMENT_REQUIRED") EXCEPT !.hold = a]
       \/ /\ answer = "paid"
          /\ cand' = PaidCandidates
          /\ watch' = PaidWatch
       \/ /\ answer = "authRequired"
          /\ cand' = SetState({c}, "failed")
          /\ watch' = MoveTo("AUTH_REQUIRED", "attempt")
       \/ /\ answer = "unknownAuth"
          /\ cand' = Unmarked(SetState({c}, "open"))
          /\ watch' = MoveTo("AUTH_REQUIRED", "reading")
       \/ /\ answer \in {"expiredHold", "notFound", "inconclusive",
                         "notAvailable", "failed"}
          /\ cand' = SetState({c}, "open")
          /\ watch' = GoTo("WATCHING")
    /\ UNCHANGED <<posted, edges, departed, observing, reading>>

(* The watch, the candidate or the attempt has moved on during the call: a  *)
(* PENDING attempt becomes UNKNOWN with the evidence that came back, and    *)
(* otherwise only proof of payment is kept.                                 *)
FenceLateResult(a, answer) ==
    LET c == attempts[a].cand
        released == IF watch.status = "EXPIRED" THEN SetState({c}, "expired")
                    ELSE IF cand[c].state = "reservation_attempted"
                    THEN SetState({c}, "open") ELSE cand
        failed == answer \in AuthFailures
    IN
    /\ SameCredentials(a)
    /\ ~StillClaimed(a)
    /\ Update(a, [attempts[a] EXCEPT
         !.io = FALSE,
         !.outcome = IF @ = "PENDING" THEN "UNKNOWN" ELSE @,
         !.conf = IF attempts[a].outcome = "PENDING" \/ answer = "paid"
                  THEN ResultConfirmation(answer) ELSE @,
         !.seats = IF attempts[a].outcome = "PENDING"
                   THEN answer \in SeatAnswers ELSE @,
         !.next = @ /\ answer # "paid",
         !.resolution = IF answer = "paid" THEN "none" ELSE @])
    /\ AccountAfter(IF failed THEN answer ELSE "failed")
    /\ IF answer = "paid"
       THEN /\ cand' = PaidCandidates
            /\ watch' = PaidWatch
       ELSE /\ cand' = IF failed THEN Unmarked(released) ELSE released
            /\ watch' = IF failed /\ watch.status \in
                             {"WATCHING", "OFFICIAL_WAITLIST", "SEAT_FOUND", "RESERVING"}
                        THEN MoveTo("AUTH_REQUIRED", "reading") ELSE watch
    /\ UNCHANGED <<posted, edges, departed, memory>>

(* release_unadmitted_claim: the call was refused before it was made. The   *)
(* code deletes the row of any such attempt; here it is the newest one.     *)
DeferReservation(a) ==
    /\ SameCredentials(a)
    /\ account.status = "authenticated"
    /\ StillClaimed(a)
    /\ a = Len(attempts)
    /\ attempts' = SubSeq(attempts, 1, a - 1)
    /\ cand' = SetState({attempts[a].cand}, "open")
    /\ watch' = GoTo("COOLDOWN")
    /\ UNCHANGED <<posted, edges, account, departed, memory>>

ReservationReturns(a) ==
    /\ attempts[a].io
    /\ \/ LoseResult(a)
       \/ "deferred" \in Answers /\ DeferReservation(a)
       \/ \E answer \in Answers \ {"deferred"} :
            FinishReservation(a, answer) \/ FenceLateResult(a, answer)

(* Mutant of RecoverStale: only claims a watch still waits for.              *)
RecoverReserving(a) ==
    LET c == attempts[a].cand IN
    /\ attempts[a].outcome = "PENDING" /\ watch.status = "RESERVING"
    /\ Update(a, [attempts[a] EXCEPT !.outcome = "UNKNOWN"])
    /\ cand' = IF watch.status = "EXPIRED" THEN SetState({c}, "expired")
               ELSE IF \/ watch.status = "RESERVING"
                       \/ cand[c].state = "reservation_attempted"
               THEN SetState({c}, "open") ELSE cand
    /\ watch' = IF watch.status = "RESERVING" THEN GoTo("WATCHING") ELSE watch
    /\ UNCHANGED <<posted, edges, account, departed, memory>>

(* recover_stale_reservation_attempts: a claim without a result for five    *)
(* minutes. The call may still be running.                                  *)
RecoverStale(a) ==
    LET c == attempts[a].cand IN
    /\ attempts[a].outcome = "PENDING"
    /\ Update(a, [attempts[a] EXCEPT !.outcome = "UNKNOWN"])
    /\ cand' = IF watch.status = "EXPIRED" THEN SetState({c}, "expired")
               ELSE IF \/ watch.status = "RESERVING"
                       \/ cand[c].state = "reservation_attempted"
               THEN SetState({c}, "open") ELSE cand
    /\ watch' = IF watch.status = "RESERVING" THEN GoTo("WATCHING") ELSE watch
    /\ UNCHANGED <<posted, edges, account, departed, memory>>
=============================================================================
