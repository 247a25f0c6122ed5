------------------------ MODULE ReservationReadings -------------------------
(* Official reservation lists are read to settle what is ambiguous          *)
(* (reservations/reconciliation_state_application.py): a read under a       *)
(* lease, and one branch for each kind of evidence.                         *)
EXTENDS ReservationCalls

(* Which attempts a list is read for, and for what                          *)
(* (reservations/reconciliation_application.py).                            *)

Deadline(a) == IF a = 0 THEN "none" ELSE attempts[a].deadline

(* The deadline the watch shows is that of the attempt it was copied from.  *)
WatchDeadline == Deadline(watch.hold)

(* A hold that an expired official row ended with exactly FinalMin reads.   *)
LegacyCleanup(a) ==
    /\ attempts[a].reads = FinalMin
    /\ Posted(a)
    /\ attempts[a].conf = "CONFIRMED_PAYMENT_REQUIRED"
    /\ attempts[a].deadline = "past"

(* Mutant of BoundedFollowUp: one reading more than the limit.               *)
FollowUpOnceMore(a) ==
    /\ watch.status = "PAYMENT_REQUIRED"
    /\ 0 < attempts[a].reads /\ attempts[a].reads <= HoldLimit
    /\ ~Posted(a)
    /\ attempts[a].deadline # "past"
    /\ WatchDeadline # "past"

BoundedFollowUp(a) ==
    /\ watch.status = "PAYMENT_REQUIRED"
    /\ 0 < attempts[a].reads /\ attempts[a].reads < HoldLimit
    /\ ~Posted(a)
    /\ attempts[a].deadline # "past"
    /\ WatchDeadline # "past"

IsDue(a) ==
    IF attempts[a].outcome = "UNKNOWN"
    THEN /\ attempts[a].reads < UnknownLimit
         /\ \/ attempts[a].reads < FinalMin
            \/ attempts[a].conf \in {"INCONCLUSIVE", "NOT_FOUND", "AUTH_REQUIRED"}
         /\ \/ attempts[a].reads = 0
            \/ attempts[a].next
            \/ attempts[a].conf = "INCONCLUSIVE"
    ELSE \/ BoundedFollowUp(a)
         \/ /\ attempts[a].reads >= FinalMin
            /\ watch.status = "PAYMENT_REQUIRED"
            /\ ~Posted(a) \/ LegacyCleanup(a)
            /\ WatchDeadline = "past"
         \/ /\ attempts[a].reads < FinalMin
            /\ \/ attempts[a].reads = 0
               \/ attempts[a].next
               \/ watch.status = "PAYMENT_REQUIRED" /\ WatchDeadline # "open"

ConfirmationPurpose(a) ==
    IF watch.status = "PAYMENT_REQUIRED" /\ attempts[a].outcome = "PAYMENT_REQUIRED"
    THEN "PAYMENT_FOLLOW_UP"
    ELSE IF attempts[a].outcome = "UNKNOWN" THEN "UNKNOWN_RESULT_FOLLOW_UP"
    ELSE "INITIAL"

(* Mutant of Readable: proof of payment does not stop the readings.         *)
ReadableAfterPaid(a) ==
    /\ attempts[a].outcome \in {"PAYMENT_REQUIRED", "UNKNOWN"}
    /\ IsDue(a)
    /\ account.version = attempts[a].version
    /\ account.status = "authenticated"

(* What a worker checks before the read, and again under locks after it.    *)
Readable(a) ==
    /\ attempts[a].outcome \in {"PAYMENT_REQUIRED", "UNKNOWN"}
    /\ IsDue(a)
    /\ ExactPaid = {}
    /\ account.version = attempts[a].version
    /\ account.status = "authenticated"

-----------------------------------------------------------------------------
(* A read, and what its evidence does.                                      *)

StartRead(a) ==
    /\ reading = NoReading /\ observing = {}
    /\ Readable(a)
    /\ reading' = [attempt |-> a, purpose |-> ConfirmationPurpose(a)]
    /\ UNCHANGED <<records, departed, observing, winners>>

DropRead ==
    /\ reading # NoReading
    /\ reading' = NoReading
    /\ UNCHANGED <<records, departed, observing, winners>>

(* The attempt is still due for the same reading. The evidence of a         *)
(* reservation needs its seats; a hold is recognised by its deadline, so a  *)
(* listed hold of an attempt that has one is as old.                        *)
StillReading(a, read) ==
    /\ reading.attempt = a
    /\ Readable(a)
    /\ ConfirmationPurpose(a) = reading.purpose
    /\ attempts[a].outcome = "UNKNOWN" /\ read \in {"hold", "expiredHold", "paid"}
         => attempts[a].seats
    /\ read = "hold" => attempts[a].deadline # "past"
    /\ read = "expiredHold" => attempts[a].deadline # "open"

FinalRead(a) ==
    /\ attempts[a].outcome = "PAYMENT_REQUIRED"
    /\ watch.status = "PAYMENT_REQUIRED"
    /\ WatchDeadline = "past"
    /\ attempts[a].reads >= FinalMin
    /\ ~Posted(a) \/ LegacyCleanup(a)

(* Mutant of ReadsAfter: an unclear answer spends nothing either.           *)
ReadsAfterClear(a, read) ==
    IF FinalRead(a)
    THEN attempts[a].reads + (IF LegacyCleanup(a) THEN 1 ELSE 0)
    ELSE attempts[a].reads + (IF read \in {"unavailable", "inconclusive"} THEN 0 ELSE 1)

(* A read that never reached the official page spends nothing.              *)
ReadsAfter(a, read) ==
    IF FinalRead(a)
    THEN attempts[a].reads + (IF LegacyCleanup(a) THEN 1 ELSE 0)
    ELSE attempts[a].reads + (IF read = "unavailable" THEN 0 ELSE 1)

ReadLimit(a) == IF attempts[a].outcome = "UNKNOWN" THEN UnknownLimit ELSE HoldLimit

ReadConfirmation(read) ==
    CASE read \in {"hold", "expiredHold"} -> "CONFIRMED_PAYMENT_REQUIRED"
      [] read = "paid" -> "CONFIRMED_PAID"
      [] read = "notFound" -> "NOT_FOUND"
      [] OTHER -> "INCONCLUSIVE"

(* Twice in a row not on the list.                                          *)
ConfirmsAbsence(a, read) ==
    /\ attempts[a].outcome = "UNKNOWN"
    /\ read = "notFound"
    /\ attempts[a].conf = "NOT_FOUND"

(* An UNKNOWN attempt of which this reading settles nothing.                *)
StaysUnknown(a, read) ==
    /\ attempts[a].outcome = "UNKNOWN"
    /\ read \in {"inconclusive", "unavailable", "notFound"}
    /\ ~ConfirmsAbsence(a, read)

ExhaustsReads(a, read) ==
    StaysUnknown(a, read) /\ ReadsAfter(a, read) >= UnknownLimit

(* next_reconcile_at after a reading.                                       *)
ReadAgain(a, read) ==
    LET reads == ReadsAfter(a, read)
        active == \/ read = "hold"
                  \/ /\ attempts[a].outcome # "UNKNOWN" /\ read # "paid"
                     /\ watch.status = "PAYMENT_REQUIRED" /\ WatchDeadline # "past"
    IN \/ StaysUnknown(a, read) /\ reads < UnknownLimit
       \/ active /\ reads < HoldLimit
       \/ /\ ~StaysUnknown(a, read) /\ ~active
          /\ read # "paid" /\ ~ConfirmsAbsence(a, read)
          /\ \/ reads < FinalMin
             \/ read = "expiredHold" /\ ~FinalRead(a) /\ ~Posted(a)

Counted(a, read) ==
    [attempts[a] EXCEPT
       !.conf = ReadConfirmation(read),
       !.reads = ReadsAfter(a, read),
       !.next = ReadAgain(a, read),
       !.resolution = IF ConfirmsAbsence(a, read) THEN "CONFIRMED_ABSENT"
                      ELSE IF ExhaustsReads(a, read) THEN "EXHAUSTED_UNRESOLVED"
                      ELSE IF read = "paid" THEN "none" ELSE @]

(* A final read closes the hold: post_deadline_reconciled_at is set.        *)
PostIfFinal(a, read) ==
    posted' = IF FinalRead(a) /\ read # "hold"
              THEN Append(posted, [hold |-> a, at |-> Len(attempts)])
              ELSE posted

(* An UNKNOWN attempt's reading starts a watch that was only scheduled.     *)
Started(a) ==
    IF attempts[a].outcome = "UNKNOWN" /\ watch.status = "SCHEDULED"
    THEN GoTo("WATCHING") ELSE watch

ReadSignedOut(a) ==
    /\ StillReading(a, "auth")
    /\ SignedOut
    /\ Update(a, [attempts[a] EXCEPT !.conf = "AUTH_REQUIRED",
                                     !.resolution = "none", !.next = FALSE])
    /\ cand' = Unmarked(cand)
    /\ watch' = IF /\ attempts[a].outcome = "UNKNOWN"
                   /\ a = Len(attempts)
                   /\ watch.status \in {"SCHEDULED", "WATCHING"}
                THEN MoveTo("AUTH_REQUIRED", "reading") ELSE watch
    /\ UNCHANGED <<posted, edges>>

ReadPaid(a) ==
    /\ StillReading(a, "paid")
    /\ ReadsAfter(a, "paid") <= ReadLimit(a)
    /\ Update(a, Counted(a, "paid"))
    /\ PostIfFinal(a, "paid")
    /\ cand' = PaidCandidates
    /\ watch' = PaidWatch
    /\ UNCHANGED <<edges, account>>

(* Mutant of EndsHold: an expired hold on the list is still a hold.         *)
EndsHoldIfAbsent(a, read) == FinalRead(a) /\ read = "notFound"

EndsHold(a, read) == FinalRead(a) /\ read \in {"notFound", "expiredHold"}

(* Mutant of Freed: the candidates below the hold are forgotten.            *)
FreedAlone(c) == {c}

Freed(c) ==
    {c} \cup {d \in Cand : cand[d].state = "suppressed_by_priority" /\ cand[d].by = c}

(* The hold is gone: its candidate and those it suppressed are open again.  *)
ReadHoldEnded(a, read) ==
    LET freed == Freed(attempts[a].cand) IN
    /\ StillReading(a, read)
    /\ EndsHold(a, read)
    /\ Update(a, [Counted(a, read) EXCEPT
                    !.deadline = IF read = "expiredHold" THEN "past" ELSE @])
    /\ PostIfFinal(a, read)
    /\ cand' = [d \in Cand |->
                  [cand[d] EXCEPT
                     !.state = IF d \in freed THEN "open" ELSE @,
                     !.by = IF d \in freed THEN 0 ELSE @,
                     !.current = @ /\ cand[d].rearm # a]]
    /\ watch' = [GoTo("WATCHING") EXCEPT !.hold = 0]
    /\ edges' = {e \in edges : e[1] # a}
    /\ UNCHANGED account

(* A usable hold is on the list: the watch shows it unless it has moved on. *)
ReadHold(a) ==
    LET c == attempts[a].cand
        shown == /\ Started(a).status \in
                      {"WATCHING", "OFFICIAL_WAITLIST", "SEAT_FOUND",
                       "RESERVING", "PAYMENT_REQUIRED"}
                 /\ cand[c].state # "expired"
    IN
    /\ StillReading(a, "hold")
    /\ ReadsAfter(a, "hold") <= ReadLimit(a)
    /\ Update(a, [Counted(a, "hold") EXCEPT !.outcome = "PAYMENT_REQUIRED",
                                            !.deadline = "open",
                                            !.seats = FALSE])
    /\ cand' = IF shown THEN HeldBy(c) ELSE cand
    /\ watch' = IF shown THEN [GoTo("PAYMENT_REQUIRED") EXCEPT !.hold = a]
                ELSE Started(a)
    /\ UNCHANGED <<posted, edges, account>>

(* Nothing conclusive: only the attempt's reading record changes.           *)
ReadMore(a, read) ==
    /\ StillReading(a, read)
    /\ ~EndsHold(a, read)
    /\ ReadsAfter(a, read) <= ReadLimit(a)
    /\ Update(a, Counted(a, read))
    /\ PostIfFinal(a, read)
    /\ watch' = Started(a)
    /\ UNCHANGED <<cand, edges, account>>

(* The provider refused the read: it is scheduled again, nothing is spent.  *)
DeferRead(a) ==
    /\ StillReading(a, "deferred")
    /\ Update(a, [attempts[a] EXCEPT !.next = TRUE])
    /\ UNCHANGED <<watch, cand, posted, edges, account>>

ApplyRead(a) ==
    /\ \/ "auth" \in Reads /\ ReadSignedOut(a)
       \/ "paid" \in Reads /\ ReadPaid(a)
       \/ "hold" \in Reads /\ ReadHold(a)
       \/ "deferred" \in Reads /\ DeferRead(a)
       \/ \E read \in Reads \cap {"notFound", "expiredHold"} : ReadHoldEnded(a, read)
       \/ \E read \in Reads \cap {"notFound", "expiredHold", "inconclusive",
                                  "unavailable"} : ReadMore(a, read)
    /\ reading' = NoReading
    /\ UNCHANGED <<departed, observing, winners>>
=============================================================================
