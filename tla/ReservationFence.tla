------------------------- MODULE ReservationFence ---------------------------
(* The life of the reservation attempts of one watch: an observation names  *)
(* a winner, a claim is committed before the provider is called, the result *)
(* is written after the call, a stale claim is fenced as UNKNOWN, official  *)
(* reservation lists are read to settle what is ambiguous, and the user and *)
(* the account come in between. The transactions of the workers are in      *)
(* WatchObservations, ReservationCalls and ReservationReadings; here are    *)
(* those of the user, the account and the clock, the specification and its  *)
(* properties.                                                              *)
EXTENDS ReservationReadings

(* The user and the account.                                                *)

(* authorize_manual_reservation_rearm: one more attempt on the candidate of *)
(* an ended hold or of an UNKNOWN result the user has looked up. A marker   *)
(* that is already there is left alone.                                     *)
Rearm ==
    LET unresolved == ActiveUnresolvedUnknown
        a == IF unresolved = {} THEN Len(attempts)
             ELSE CHOOSE b \in unresolved : TRUE
        c == attempts[a].cand
        again == /\ cand[c].rearm = a
                 /\ IsPaymentHoldEnded(a) => cand[c].current
    IN
    /\ attempts # <<>>
    /\ ExactPaid = {}
    /\ Cardinality(unresolved) <= 1
    /\ attempts[Len(attempts)].outcome # "PENDING"
    /\ watch.status = "WATCHING"
    /\ account.status = "authenticated"
    /\ c \notin departed
    /\ \/ IsPaymentHoldEnded(a)
       \/ IsManualRearmSource(a) /\ SameCredentials(a)
    /\ ~again
    /\ cand' = [cand EXCEPT ![c] = [@ EXCEPT !.rearm = a, !.current = TRUE]]
    /\ winners' = {k \in winners :
                     k.cand = c => k.episode \notin {"manual-unknown-rearm",
                                                     "manual-payment-hold-rearm"}}
    /\ UNCHANGED <<watch, attempts, posted, edges, account, departed, observing, reading>>

(* resume_watches_after_authentication, for a login of the newest attempt's *)
(* credentials or of new ones.                                              *)
Resumes(version) ==
    LET last == attempts[Len(attempts)] IN
    /\ attempts # <<>>
    /\ last.conf = "AUTH_REQUIRED"
    /\ last.resolution = "none"
    /\ last.version = version
    /\ \/ watch.status = "PAYMENT_REQUIRED" /\ last.outcome = "PAYMENT_REQUIRED"
       \/ /\ watch.status = "AUTH_REQUIRED" /\ watch.why = "reading"
          /\ last.outcome = "UNKNOWN" /\ last.reads <= UnknownLimit

RejectedOnly(c) ==
    /\ cand[c].state = "failed"
    /\ Latest(c) # 0
    /\ attempts[Latest(c)].outcome = "AUTH_REQUIRED"

(* The last reading of a stopped watch is given back, so that one more can  *)
(* be made.                                                                 *)
Refunded(a) ==
    IF watch.status = "AUTH_REQUIRED" /\ attempts[a].reads = UnknownLimit
    THEN attempts[a].reads - 1 ELSE attempts[a].reads

Login(version) ==
    LET last == Len(attempts)
        why == IF watch.status = "AUTH_REQUIRED" THEN watch.why ELSE "none"
        resumes == Resumes(version)
    IN
    /\ account' = LoggedIn(version)
    /\ attempts' = IF resumes
                   THEN [attempts EXCEPT ![last].next = TRUE,
                                         ![last].reads = Refunded(last)]
                   ELSE attempts
    /\ cand' = IF why = "attempt" THEN SetState({c \in Cand : RejectedOnly(c)}, "open")
               ELSE cand
    /\ watch' = IF why \in {"attempt", "preflight"}
                   \/ (watch.status = "AUTH_REQUIRED" /\ resumes)
                THEN GoTo("SCHEDULED") ELSE watch
    /\ winners' = {k \in winners : k.episode # "auth"}
    /\ UNCHANGED <<posted, edges, departed, observing, reading>>

VerifyLogin ==
    "login" \in Env /\ account.status # "authenticated" /\ Login(account.version)

ReplaceCredentials ==
    "login" \in Env /\ account.version < MaxVersion /\ Login(account.version + 1)

(* The session manager finds the session gone or the account blocked.       *)
SignOut ==
    /\ "signOut" \in Env
    /\ account.status = "authenticated"
    /\ SignedOut
    /\ UNCHANGED <<watch, cand, attempts, posted, edges, departed, memory>>

(* Mutant of UserStep: a watch may be paused while it reserves.             *)
UserStepReserving ==
    /\ "user" \in Env
    /\ \/ /\ watch.status \in {"PAUSED", "COOLDOWN", "AUTH_REQUIRED"}
          /\ watch' = GoTo("SCHEDULED")
       \/ /\ watch.status = "RESERVING"
          /\ watch' = GoTo("PAUSED")
    /\ UNCHANGED <<cand, attempts, posted, edges, account, departed, memory>>

(* Start, pause and cancel.                                                 *)
UserStep ==
    /\ "user" \in Env
    /\ \/ /\ watch.status \in {"PAUSED", "COOLDOWN", "AUTH_REQUIRED"}
          /\ watch' = GoTo("SCHEDULED")
       \/ /\ watch.status \in ObservationStatuses \cup {"COOLDOWN", "AUTH_REQUIRED"}
          /\ watch' = GoTo("PAUSED")
       \/ /\ watch.status \notin {"RESERVING", "PAYMENT_REQUIRED", "COMPLETED",
                                  "EXPIRED"}
          /\ watch' = GoTo("EXPIRED")
    /\ UNCHANGED <<cand, attempts, posted, edges, account, departed, memory>>

-----------------------------------------------------------------------------
(* Time.                                                                    *)

DeadlinePasses(a) ==
    /\ attempts[a].deadline = "open"
    /\ Update(a, [attempts[a] EXCEPT !.deadline = "past"])
    /\ UNCHANGED <<watch, cand, posted, edges, account, departed, memory>>

Depart(c) ==
    /\ "departure" \in Env
    /\ departed' = departed \cup {c}
    /\ UNCHANGED <<records, memory>>

(* expire_elapsed_watches: departed candidates first; a watch that has no   *)
(* open candidate left expires when its travel window closes.               *)
Expire ==
    /\ "expiry" \in Env
    /\ watch.status \notin {"COMPLETED", "EXPIRED"}
    /\ LET open == {c \in Cand : Open(c)}
       IN \E gone \in SUBSET (open \cap departed) :
            /\ gone # {} \/ open = {}
            /\ cand' = SetState(gone, "expired")
            /\ watch' = IF gone = open THEN GoTo("EXPIRED") ELSE watch
    /\ UNCHANGED <<attempts, posted, edges, account, departed, memory>>

-----------------------------------------------------------------------------
ObservationStep == PrepareBlocked \/ Prepare \/ Persist \/ AbandonObservation

AttemptStep ==
    \E a \in Ids : \/ ReservationReturns(a) \/ RecoverStale(a)
                   \/ StartRead(a) \/ ApplyRead(a) \/ DeadlinePasses(a)

OutsideStep ==
    \/ CircuitNotClosed \/ VerifyLogin \/ ReplaceCredentials \/ SignOut
    \/ UserStep \/ Expire \/ \E c \in Cand : Depart(c)
    \/ "rearm" \in Env /\ Rearm

Next == ObservationStep \/ UseWinner \/ AttemptStep \/ DropRead \/ OutsideStep

Spec == Init /\ [][Next]_vars

-----------------------------------------------------------------------------
(* Properties.                                                              *)

(* An UNKNOWN attempt authorizes one recovery, once, of either kind, and on *)
(* its own candidate: the marker, the reading that resolves it and the      *)
(* claim are three transactions (parent_attempt_id, episode_key).           *)
OneRecoveryPerUnknown ==
    \A a, b \in Ids :
      attempts[a].episode \in RecoveryEpisodes =>
        /\ attempts[a].source \in 1..(a - 1)
        /\ attempts[attempts[a].source].cand = attempts[a].cand
        /\ (/\ attempts[b].episode \in RecoveryEpisodes
            /\ attempts[b].source = attempts[a].source) => a = b

(* A reading that was due and still is when its evidence is written never   *)
(* passes the budget: the RuntimeError in apply_reservation_reconciliation  *)
(* is unreachable, for holds that were UNKNOWN attempts before too.         *)
ReadFitsBudget ==
    \A a \in Ids, read \in Reads \ {"auth", "deferred"} :
      StillReading(a, read) => ReadsAfter(a, read) <= ReadLimit(a)

(* A watch that asks for payment shows a hold that no official read has     *)
(* ended: nobody is sent to pay for a hold the service knows is gone.       *)
ShownHoldIsLive ==
    watch.status = "PAYMENT_REQUIRED" =>
      watch.hold \in Ids /\ IsLiveHold(watch.hold)

(* The candidate rows follow the holds: a candidate that is held has a hold *)
(* that is not ended, and one that stepped back for a better candidate      *)
(* steps back for such a hold of that one. Otherwise a candidate would wait *)
(* for a reservation nobody has.                                            *)
CandidatesFollowHolds ==
    \A c \in Cand :
      /\ cand[c].state = "payment_required" =>
           \E a \in OfCandidate(c) : IsLiveHold(a)
      /\ cand[c].state = "suppressed_by_priority" =>
           \E a \in OfCandidate(cand[c].by) : IsLiveHold(a)

(* Exact proof of payment is absolute: it is never overwritten or deleted,  *)
(* and no command is sent after it, whatever the watch and the other        *)
(* attempts went through (exact_paid_reservation_attempt_id).               *)
Paid(a) == attempts[a].conf = "CONFIRMED_PAID"

PaidIsFinal ==
    [][\A a \in Ids : Paid(a) =>
         /\ a \in Ids' /\ Paid(a)'
         /\ Len(attempts') <= Len(attempts)]_vars

(* A login with new credentials fences the attempts of the old ones: no     *)
(* result or reading of theirs is written any more; a claim that is still   *)
(* PENDING can only become UNKNOWN.                                         *)
OldCredentialsSettleNothing ==
    [][\A a \in Ids :
         attempts[a].version # account.version =>
           /\ a \in Ids'
           /\ attempts'[a].conf = attempts[a].conf
           /\ attempts'[a].reads = attempts[a].reads
           /\ attempts'[a].outcome # attempts[a].outcome =>
                attempts'[a].outcome = "UNKNOWN"]_vars

(* What the documents say of the readings; the code disagrees.              *)

(* A hold an official read has ended is not read again, whatever deadline   *)
(* the watch shows later (docs/ARCHITECTURE.md, docs/OPERATIONS.md).        *)
EndedHoldsAreNotReread ==
    [][\A a \in Ids : IsPaymentHoldEnded(a) =>
         attempts'[a].reads = attempts[a].reads]_vars

(* Where readings either show the hold or never reach the official page:    *)
(* a hold is closed only by evidence that it is gone, and not unresolved    *)
(* without the provider ever being asked (docs/OPERATIONS.md).              *)
UnavailableReadsCloseNothing ==
    [][\A a \in Ids : ~Posted(a) /\ Posted(a)' => IsPaymentHoldEnded(a)']_vars

(* A watch with a claim that is still unanswered is not cancelled, where    *)
(* only the user ends watches: the claim came first, so the watch is        *)
(* RESERVING and the command is refused (docs/ARCHITECTURE.md).             *)
CancelHidesNoRequest ==
    [][watch.status # "EXPIRED" /\ watch'.status = "EXPIRED" =>
         \A a \in Ids : attempts[a].outcome # "PENDING"]_vars

(* The user's word re-arms nothing while a hold that has not ended exists   *)
(* in the watch (docs/POLICY_AND_SAFETY.md).                                *)
RearmNeverOverLiveHold ==
    [][\A c \in Cand : cand'[c].rearm \notin {0, cand[c].rearm} =>
         \A a \in Ids : ~IsLiveHold(a)]_vars

-----------------------------------------------------------------------------
(* Liveness. The maintenance schedule runs recover_stale_... every 30 s     *)
(* and commits each row; the lease of a group that stopped runs out.        *)
(* Readings are selected every second; workers may crash during some of     *)
(* them, but not during all.                                                *)

Fairness ==
    /\ WF_vars(\E a \in Ids : RecoverStale(a))
    /\ WF_vars(AbandonObservation)
    /\ WF_vars(DropRead)
    /\ SF_vars(\E a \in Ids : StartRead(a))
    /\ SF_vars(\E a \in Ids : ApplyRead(a))

FairSpec == Spec /\ Fairness

(* Due watches are looked for every second too, and groups come to an end.  *)
DueSpec == FairSpec /\ WF_vars(Prepare) /\ WF_vars(Persist)

(* No claim waits for ever for its result: it is answered, deferred or      *)
(* recovered, also when the watch has expired in the meantime.              *)
PendingEnds ==
    \A a \in 1..MaxAttempts :
      []<>~(a \in Ids /\ attempts[a].outcome = "PENDING")

(* The readings of an attempt end, by an answer or by their budget, as long *)
(* as the official page answers: no attempt stays due for ever.             *)
ReadingsEnd ==
    \A a \in 1..MaxAttempts : []<>~(a \in Ids /\ Readable(a))

(* What the comment on the sessions worth keeping says of a watch in        *)
(* COOLDOWN (session_keepalive.py); the code disagrees: with nobody at      *)
(* hand, a watch whose call was put off returns to observing on its own.    *)
CooldownReturns == watch.status = "COOLDOWN" ~> watch.status \in ObservationStatuses
=============================================================================
