------------------------ MODULE ReservationRecords --------------------------
(* The durable rows that decide whether a watch may send one more           *)
(* reservation command: the watch, its candidates, the reservation attempts *)
(* and the provider account; and the predicates the code reads them with    *)
(* (attempt_policy, payment_hold_*, reconciliation_policy). The actions on  *)
(* these rows are in the modules that extend this one, up to                *)
(* ReservationFence.                                                        *)
(*                                                                          *)
(* One watch of an external provider under RESERVE_ONCE_BEFORE_PAYMENT.     *)
(* Instants are kept as the facts the code derives from them: whether a     *)
(* deadline has passed, whether an observation or a login came after an     *)
(* attempt ended. Waiting times are not kept: what is due at some time may  *)
(* happen at any step.                                                      *)
EXTENDS Naturals, Sequences, FiniteSets

CONSTANTS
    N,              \* candidates are numbered by priority, 1 the highest
    RearmMin,       \* UNKNOWN_MANUAL_REARM_MIN_RECONCILIATIONS
    FinalMin,       \* RESERVATION_RECONCILIATION_MAX_ATTEMPTS
    UnknownLimit,   \* UNKNOWN_RECONCILIATION_MAX_ATTEMPTS
    HoldLimit       \* PAYMENT_HOLD_RECONCILIATION_MAX_ATTEMPTS

ASSUME BudgetAssumption ==
    /\ N \in Nat \ {0}
    /\ RearmMin \in Nat \ {0}
    /\ FinalMin \in Nat \ {0}
    /\ UnknownLimit \in Nat \ {0}
    /\ HoldLimit \in Nat
    /\ RearmMin <= UnknownLimit
    /\ FinalMin <= UnknownLimit
    /\ FinalMin < HoldLimit
    /\ UnknownLimit <= HoldLimit

VARIABLES
    watch,      \* its status, why it needs authentication, and whose deadline
    cand,       \* per candidate: state, suppressor and manual re-arm marker
    attempts,   \* the reservation attempts, in the order they were claimed
    posted,     \* attempts with post_deadline_reconciled_at, oldest first, and
                \* how many attempts had been claimed at that instant
    edges,      \* <<a, c>>: c was seen conclusively unavailable after a ended
    account     \* credential version, last_auth_status, and the rejected
                \* attempts that ended before last_auth_at

records == <<watch, cand, attempts, posted, edges, account>>

Cand == 1..N

Statuses == {"SCHEDULED", "WATCHING", "OFFICIAL_WAITLIST", "SEAT_FOUND",
             "RESERVING", "PAYMENT_REQUIRED", "COMPLETED", "PAUSED",
             "COOLDOWN", "AUTH_REQUIRED", "EXPIRED"}
(* "open" stands for active, observed and seat_found, which no code here    *)
(* tells apart.                                                             *)
CandidateStates == {"open", "reservation_attempted", "payment_required",
                    "suppressed_by_priority", "failed", "expired"}
(* AUTH_REQUIRED stands for PROVIDER_BLOCKED too.                           *)
Outcomes == {"PENDING", "PAYMENT_REQUIRED", "NOT_AVAILABLE", "AUTH_REQUIRED",
             "FAILED", "UNKNOWN"}
Confirmations == {"none", "CONFIRMED_PAYMENT_REQUIRED", "CONFIRMED_PAID",
                  "NOT_FOUND", "INCONCLUSIVE", "AUTH_REQUIRED"}
Resolutions == {"none", "CONFIRMED_ABSENT", "EXHAUSTED_UNRESOLVED"}
(* The prefixes of episode_key; "availability" is the first attempt.        *)
Episodes == {"availability", "availability-after", "auth",
             "confirmed-absent-retry", "manual-unknown-rearm",
             "payment-hold-retry", "manual-payment-hold-rearm"}
Purposes == {"INITIAL", "UNKNOWN_RESULT_FOLLOW_UP", "PAYMENT_FOLLOW_UP"}
AuthReasons == {"none", "preflight", "attempt", "reading", "circuit"}
AuthStatuses == {"authenticated", "auth_required", "provider_blocked"}

Attempt == [cand : Cand, episode : Episodes, source : Nat,
            outcome : Outcomes, conf : Confirmations,
            resolution : Resolutions, reads : Nat, next : BOOLEAN,
            version : Nat, deadline : {"none", "open", "past"},
            seats : BOOLEAN, io : BOOLEAN]

Ids == 1..Len(attempts)

RecordsTypeOK ==
    /\ watch \in [status : Statuses, why : AuthReasons, hold : Nat]
    /\ cand \in [Cand -> [state : CandidateStates, by : Cand \cup {0},
                          rearm : Nat, current : BOOLEAN]]
    /\ attempts \in Seq(Attempt)
    /\ posted \in Seq([hold : Nat, at : Nat])
    /\ edges \subseteq Nat \X Cand
    /\ account \in [version : Nat, status : AuthStatuses, renews : SUBSET Nat]

-----------------------------------------------------------------------------
(* reservations/attempt_policy.py                                           *)

Open(c) == cand[c].state = "open"

OfCandidate(c) == {a \in Ids : attempts[a].cand = c}

(* Mutant of Latest: the attempts come in ascending order.                  *)
Earliest(c) ==
    IF OfCandidate(c) = {} THEN 0
    ELSE CHOOSE a \in OfCandidate(c) : \A b \in OfCandidate(c) : a <= b

(* The newest attempt of a candidate, 0 if it has none.                     *)
Latest(c) ==
    IF OfCandidate(c) = {} THEN 0
    ELSE CHOOSE a \in OfCandidate(c) : \A b \in OfCandidate(c) : b <= a

ExactPaid == {a \in Ids : attempts[a].conf = "CONFIRMED_PAID"}

RecoveryEpisodes == {"confirmed-absent-retry", "manual-unknown-rearm"}

(* Episodes that came from a user's word or from a recovery: their results  *)
(* never authorize another one.                                             *)
ChainEnds == RecoveryEpisodes \cup {"manual-payment-hold-rearm"}

Consumed(a) ==
    \E b \in Ids : attempts[b].episode \in RecoveryEpisodes
                   /\ attempts[b].source = a

(* UNKNOWN commands that can still own a reservation.                       *)
ActiveUnresolvedUnknown ==
    {a \in Ids : /\ attempts[a].outcome = "UNKNOWN"
                 /\ attempts[a].conf # "CONFIRMED_PAID"
                 /\ attempts[a].resolution # "CONFIRMED_ABSENT"
                 /\ ~Consumed(a)}

(* The compatibility path for holds without a deadline is not modelled.     *)
IsConfirmedAbsentRetrySource(a) ==
    /\ attempts[a].outcome = "UNKNOWN"
    /\ attempts[a].conf = "NOT_FOUND"
    /\ attempts[a].episode \notin ChainEnds
    /\ attempts[a].resolution = "CONFIRMED_ABSENT"
    /\ attempts[a].reads >= 1
    /\ ~attempts[a].next

IsManualRearmSource(a) ==
    /\ attempts[a].outcome = "UNKNOWN"
    /\ attempts[a].reads >= RearmMin
    /\ attempts[a].episode \notin ChainEnds
    /\ attempts[a].resolution # "CONFIRMED_ABSENT"
    /\ \/ attempts[a].conf = "INCONCLUSIVE"
       \/ /\ attempts[a].conf = "NOT_FOUND"
          /\ attempts[a].resolution = "EXHAUSTED_UNRESOLVED"
          /\ ~attempts[a].next

-----------------------------------------------------------------------------
(* reservations/payment_hold_application.py, payment_hold_retry_application *)

Posted(a) == \E i \in 1..Len(posted) : posted[i].hold = a

(* An official read made after the deadline showed the hold unusable.       *)
IsPaymentHoldEnded(a) ==
    /\ attempts[a].outcome = "PAYMENT_REQUIRED"
    /\ Posted(a)
    /\ \/ attempts[a].conf = "NOT_FOUND"
       \/ /\ attempts[a].conf = "CONFIRMED_PAYMENT_REQUIRED"
          /\ attempts[a].deadline = "past"

(* A hold that may still be paid, as far as the service knows.              *)
IsLiveHold(a) ==
    /\ attempts[a].outcome = "PAYMENT_REQUIRED"
    /\ ~IsPaymentHoldEnded(a)

Ended == {i \in 1..Len(posted) : /\ posted[i].hold \in Ids
                                 /\ IsPaymentHoldEnded(posted[i].hold)}

(* The latest ended hold, until an attempt is claimed after its end; or 0.  *)
ActiveHoldFence ==
    LET fence == CHOOSE i \in Ended : \A j \in Ended : j <= i
    IN IF Ended # {} /\ posted[fence].at >= Len(attempts)
       THEN posted[fence].hold
       ELSE 0

-----------------------------------------------------------------------------
(* Which episode key an actionable observation of a candidate gives, and    *)
(* whether a claim with that key is still authorized. The observation reads *)
(* without a lock, the claim asks again under the row locks.                *)

Key == [cand : Cand, episode : Episodes, source : Nat]

(* What each kind of episode asks of the attempt or hold it follows.        *)
Follows(k, latest, fence) ==
    \/ /\ k.episode = "availability"
       /\ latest = 0 /\ k.source = 0
    \/ /\ latest # 0 /\ k.source = latest
       /\ \/ /\ k.episode = "availability-after"
             /\ attempts[latest].outcome = "NOT_AVAILABLE"
             /\ <<latest, k.cand>> \in edges
          \/ /\ k.episode = "auth"
             /\ attempts[latest].outcome = "AUTH_REQUIRED"
             /\ latest \in account.renews
             /\ account.status = "authenticated"
          \/ /\ k.episode = "confirmed-absent-retry"
             /\ IsConfirmedAbsentRetrySource(latest)
          \/ /\ k.episode = "manual-unknown-rearm"
             /\ cand[k.cand].rearm = latest
             /\ IsManualRearmSource(latest)
             /\ account.version = attempts[latest].version
             /\ account.status = "authenticated"
    \/ /\ fence # 0 /\ k.source = fence
       /\ \/ /\ k.episode = "payment-hold-retry"
             /\ <<fence, k.cand>> \in edges
          \/ /\ k.episode = "manual-payment-hold-rearm"
             /\ cand[k.cand].rearm = fence
             /\ cand[k.cand].current

(* Mutant of Unfenced: only the candidate's own UNKNOWN attempts count.      *)
UnfencedByCandidate(k, fence) ==
    /\ ExactPaid = {}
    /\ ActiveUnresolvedUnknown \cap OfCandidate(k.cand) =
         (IF k.episode = "manual-unknown-rearm" THEN {k.source} ELSE {})
    /\ fence = 0 \/ k.episode \in {"payment-hold-retry", "manual-payment-hold-rearm"}

(* The fences of the whole watch: proof of payment, an unresolved UNKNOWN   *)
(* of any candidate, and the latest ended hold.                             *)
Unfenced(k, fence) ==
    /\ ExactPaid = {}
    /\ ActiveUnresolvedUnknown =
         (IF k.episode = "manual-unknown-rearm" THEN {k.source} ELSE {})
    /\ fence = 0 \/ k.episode \in {"payment-hold-retry", "manual-payment-hold-rearm"}

Authorized(k) ==
    LET fence == ActiveHoldFence IN
    /\ Follows(k, Latest(k.cand), fence)
    /\ Unfenced(k, fence)

(* The keys of a candidate: at most one, since a user's marker goes before  *)
(* an unavailable-then-available edge.                                      *)
EpisodeKeys(c) ==
    LET fence == ActiveHoldFence
        latest == Latest(c)
        keys == {k \in [cand : {c}, episode : Episodes,
                        source : {0, latest, fence}] :
                   Follows(k, latest, fence) /\ Unfenced(k, fence)}
        manual == {k \in keys : k.episode = "manual-payment-hold-rearm"}
    IN IF manual # {} THEN manual ELSE keys
=============================================================================
