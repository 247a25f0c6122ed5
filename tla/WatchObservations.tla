------------------------- MODULE WatchObservations --------------------------
(* The state of a watch with its candidates, its attempts and its account,  *)
(* and the observation of its targets: a group is prepared, the provider is *)
(* asked for seats, and the transaction that stores what was seen names the *)
(* winner a reservation may be attempted for                                *)
(* (observations/group_application.py).                                     *)
(*                                                                          *)
(* A database transaction is one action. Winners, observation groups, reads *)
(* and provider calls live in worker memory between transactions; they may  *)
(* be lost at any step. Env names what the surroundings may do.             *)
EXTENDS ReservationRecords

CONSTANTS
    MaxAttempts,    \* bound: no claim beyond this many attempts
    MaxVersion,     \* bound: no credential change beyond this version
    MaxWinners,     \* bound: winners named and not yet claimed or dropped
    Seats,          \* what an observation may see
    Answers,        \* what a reservation call may come to
    Reads,          \* what a reading of the reservation list may say
    Env             \* what else may happen

ASSUME BoundAssumption ==
    /\ MaxAttempts \in Nat
    /\ MaxVersion \in Nat
    /\ MaxWinners \in Nat
    /\ Seats \subseteq {"available", "waitlist", "unavailable"}
    /\ Answers \subseteq {"hold", "expiredHold", "paid", "notFound",
                          "inconclusive", "unknownAuth", "notAvailable",
                          "failed", "authRequired", "deferred"}
    /\ Reads \subseteq {"hold", "expiredHold", "paid", "notFound",
                        "inconclusive", "unavailable", "auth", "deferred"}
    /\ Env \subseteq {"user", "rearm", "login", "signOut", "circuit",
                      "departure", "expiry"}

VARIABLES
    departed,   \* candidates whose train has left
    observing,  \* the targets of the observation group that has the lease
    winners,    \* keys handed to execute_reservation and not yet used
    reading     \* the reconciliation read that has the lease

memory == <<observing, winners, reading>>
vars == <<watch, cand, attempts, posted, edges, account, departed, observing,
          winners, reading>>

NoReading == [attempt |-> 0, purpose |-> "INITIAL"]

TypeOK ==
    /\ RecordsTypeOK
    /\ departed \subseteq Cand
    /\ observing \subseteq Cand
    /\ winners \subseteq Key
    /\ reading \in [attempt : Nat, purpose : Purposes]

Init ==
    /\ watch = [status |-> "SCHEDULED", why |-> "none", hold |-> 0]
    /\ cand = [c \in Cand |-> [state |-> "open", by |-> 0, rearm |-> 0,
                               current |-> FALSE]]
    /\ attempts = <<>>
    /\ posted = <<>>
    /\ edges = {}
    /\ account = [version |-> 0, status |-> "authenticated", renews |-> {}]
    /\ departed = {}
    /\ observing = {}
    /\ winners = {}
    /\ reading = NoReading

-----------------------------------------------------------------------------
(* Transitions and updates the handlers share.                              *)

(* apply_watch_transition; the reason is kept where a login asks for it.    *)
MoveTo(status, why) == [watch EXCEPT !.status = status, !.why = why]

GoTo(status) == MoveTo(status, "none")

SetState(cs, state) ==
    [c \in Cand |-> IF c \in cs THEN [cand[c] EXCEPT !.state = state] ELSE cand[c]]

Unmarked(rows) ==
    [c \in Cand |-> [rows[c] EXCEPT !.rearm = 0, !.current = FALSE]]

(* A hold of c: it takes the row, and open candidates below it step back.   *)
HeldBy(c) ==
    [d \in Cand |->
       IF d = c THEN [cand[d] EXCEPT !.state = "payment_required"]
       ELSE IF d > c /\ Open(d)
            THEN [cand[d] EXCEPT !.state = "suppressed_by_priority", !.by = c]
            ELSE cand[d]]

(* apply_exact_paid_resolution.                                             *)
PaidCandidates ==
    [c \in Cand |-> [state |-> "expired", by |-> 0, rearm |-> 0, current |-> FALSE]]

PaidWatch ==
    [(IF watch.status \in {"SCHEDULED", "OFFICIAL_WAITLIST", "SEAT_FOUND",
                           "RESERVING", "WATCHING", "PAYMENT_REQUIRED"}
      THEN GoTo("COMPLETED") ELSE watch) EXCEPT !.hold = 0]

Update(a, row) == attempts' = [attempts EXCEPT ![a] = row]

ObservationStatuses == {"SCHEDULED", "WATCHING", "OFFICIAL_WAITLIST", "SEAT_FOUND"}

-----------------------------------------------------------------------------
(* Observation: prepare_watch and persist_observation_cycle.                *)

PrepareBlocked ==
    /\ watch.status \in ObservationStatuses
    /\ observing = {} /\ reading = NoReading
    /\ account.status = "provider_blocked"
    /\ watch' = MoveTo("AUTH_REQUIRED", "preflight")
    /\ UNCHANGED <<cand, attempts, posted, edges, account, departed, memory>>

(* The provider circuit is open or on manual hold: before an observation,   *)
(* after one, or before the claim of a winner.                              *)
CircuitNotClosed ==
    /\ "circuit" \in Env
    /\ watch.status \in ObservationStatuses
    /\ watch' \in {GoTo("COOLDOWN"), MoveTo("AUTH_REQUIRED", "circuit")}
    /\ UNCHANGED <<cand, attempts, posted, edges, account, departed, memory>>

(* Departed candidates expire, unless a delay keeps them on; the others are *)
(* the targets. Without any the watch pauses.                               *)
Prepare ==
    /\ watch.status \in ObservationStatuses
    /\ observing = {} /\ reading = NoReading
    /\ account.status # "provider_blocked"
    /\ LET open == {c \in Cand : Open(c)}
       IN \E gone \in SUBSET (open \cap departed) :
            /\ cand' = SetState(gone, "expired")
            /\ observing' = open \ gone
            /\ watch' = IF open = {} THEN GoTo("PAUSED")
                        ELSE IF open = gone THEN GoTo("EXPIRED")
                        ELSE IF watch.status = "SCHEDULED" THEN GoTo("WATCHING")
                        ELSE watch
    /\ UNCHANGED <<attempts, posted, edges, account, departed, winners, reading>>

(* An edge of a: c was conclusively unavailable after a or its hold ended.  *)
NewEdges(sold) ==
    {e \in Ids \X sold :
       IF attempts[e[1]].outcome = "NOT_AVAILABLE"
       THEN e[2] = attempts[e[1]].cand ELSE Posted(e[1])}

(* One result per target, or "none" if the provider gave none. Candidates   *)
(* are read without a lock and overwritten whatever they are. The winner is *)
(* the first actionable one with an episode key; the recoveries of an       *)
(* UNKNOWN want a regular seat, not a waiting list.                         *)
Persist ==
    /\ observing # {}
    /\ watch.status \in ObservationStatuses \ {"SCHEDULED"}
    /\ \E keys \in {UNION {EpisodeKeys(c) : c \in observing}},
          seat \in [observing -> Seats \cup {"none"}] :
         LET available == {c \in observing : seat[c] = "available"}
             waitlist == {c \in observing : seat[c] = "waitlist"}
             sold == {c \in observing : seat[c] = "unavailable"}
             found == {k \in keys : \/ seat[k.cand] = "available"
                                   \/ /\ seat[k.cand] = "waitlist"
                                      /\ k.episode \notin RecoveryEpisodes}
             winner == {k \in found : \A j \in found : k.cand <= j.cand}
             status ==
               IF available # {} /\ winner # {} THEN "SEAT_FOUND"
               ELSE IF waitlist # {} THEN "OFFICIAL_WAITLIST"
               ELSE IF available # {} \/ sold = observing THEN "WATCHING"
               ELSE watch.status
         IN /\ cand' = SetState({c \in observing : seat[c] # "none"}, "open")
            /\ edges' = edges \cup NewEdges(sold)
            /\ watch' = GoTo(status)
            /\ winners' = winners \cup winner
            /\ Cardinality(winners') <= MaxWinners
    /\ observing' = {}
    /\ UNCHANGED <<attempts, posted, account, departed, reading>>

(* The group lost its lease or its process, or the watch has moved on.      *)
AbandonObservation ==
    /\ observing # {}
    /\ observing' = {}
    /\ UNCHANGED <<records, departed, winners, reading>>
=============================================================================
