---------------------------- MODULE FenceHistory ----------------------------
(* ReservationFence with a history variable: the claims the watch stopped   *)
(* waiting for. The code sends a command only from SEAT_FOUND and counts on *)
(* the watch being RESERVING until the one before it is answered; it looks  *)
(* at no PENDING attempt but the candidate's own. These are its properties. *)
EXTENDS ReservationFence

VARIABLE overtaken  \* claims the watch stopped waiting for before their end

history == <<vars, overtaken>>

(* There are two ways to stop waiting for a claim: the late result of an    *)
(* older call says that the session is gone, or an official reading of an   *)
(* older attempt shows its hold, which is ended later.                      *)
StopsWaiting ==
    IF \/ watch.status = "RESERVING" /\ watch'.status = "AUTH_REQUIRED"
       \/ watch.status = "PAYMENT_REQUIRED" /\ watch'.status = "WATCHING"
    THEN {a \in Ids \cap Ids' : attempts'[a].outcome = "PENDING"} ELSE {}

TrackedInit == Init /\ overtaken = {}

TrackedNext == Next /\ overtaken' = overtaken \cup StopsWaiting

TrackedSpec == TrackedInit /\ [][TrackedNext]_history

(* The watch had stopped waiting for a claim as old as a or older.          *)
Overtaken(a) == \E x \in overtaken : x <= a

(* While a command is unanswered no other command is sent, on whichever     *)
(* candidate, though the claim looks at no PENDING attempt but its own      *)
(* candidate's (begin_reservation_attempt) and relies on the status of the  *)
(* watch; until the watch has stopped waiting for one.                      *)
PendingIsNewest ==
    \A a, b \in Ids : attempts[a].outcome = "PENDING" /\ a < b => Overtaken(a)

(* At most one UNKNOWN command of the whole watch may still own a           *)
(* reservation: active_unresolved_unknown_attempt_ids fences every          *)
(* candidate until the one there is has been resolved or recovered from,    *)
(* however the late results, the stale claims and the readings interleave;  *)
(* until the watch has stopped waiting for a claim.                         *)
AtMostOneUnresolved ==
    \A a, b \in ActiveUnresolvedUnknown : a < b => Overtaken(a)

-----------------------------------------------------------------------------
(* The attempts as the ledger of commands sent (CommandLedger).             *)

(* What is known of the answer to an attempt.                               *)
Answered(row) ==
    IF row.outcome = "PENDING" THEN "open"
    ELSE IF row.conf = "CONFIRMED_PAID" THEN "paid"
    ELSE IF row.outcome = "PAYMENT_REQUIRED" THEN "held"
    ELSE IF row.outcome # "UNKNOWN" THEN "refused"
    ELSE IF row.resolution = "CONFIRMED_ABSENT" THEN "absent" ELSE "unknown"

Command(row) ==
    [answer   |-> Answered(row),
     recovers |-> IF row.episode \in RecoveryEpisodes THEN row.source ELSE 0]

Commands == [a \in Ids |-> Command(attempts[a])]

Ledger == INSTANCE CommandLedger WITH ledger <- Commands, abandoned <- overtaken

(* The transactions of the claims, the results, the stale recovery, the     *)
(* readings, the rearms and the logins, in any order, keep the ledger: a    *)
(* command is sent only when no other one is open or unresolved, no answer  *)
(* is taken back, each UNKNOWN command is recovered from once, and nothing  *)
(* follows proof of payment.                                                *)
KeepsLedger == Ledger!Spec

(* Of all commands of the watch, on whichever candidate, at most one may    *)
(* own a reservation nobody has seen: unanswered, or UNKNOWN and not        *)
(* recovered from; until the watch has stopped waiting for a claim.         *)
OneCommandMayOwn == Ledger!OneOwner
=============================================================================
