----------------------- MODULE ReservationFence_proofs -----------------------
(* Machine-checked facts about ReservationFence, for any number of          *)
(* candidates, claims and winners, any limits in the order of the real ones *)
(* and any surroundings.                                                    *)
(*                                                                          *)
(* The argument has four parts: type correctness, action by action;         *)
(* summaries of what a transaction may write to an attempt (AttemptSteps),  *)
(* to a hold (HoldsStep), to its answer (AnswersStep), to the candidates    *)
(* and to the status of the watch; on top of the summaries, one small       *)
(* inductive invariant per property, and the ledger of commands             *)
(* (CommandLedger), which every transaction keeps.                          *)
EXTENDS FenceHistory, SequenceTheorems, WellFoundedInduction, TLAPS

-----------------------------------------------------------------------------
(* Facts about numbers and sequences.                                       *)

(* A nonempty set of naturals has a least element.                          *)
LEMMA HasLeast ==
  ASSUME NEW T, T \subseteq Nat, T # {}
  PROVE  \E x \in T : \A y \in T : x <= y
<1> DEFINE R == OpToRel(<, Nat)
<1>1. IsWellFoundedOn(R, Nat)
  BY NatLessThanWellFounded
<1>2. \A x, y \in Nat : x < y => <<x, y>> \in R
  BY DEF OpToRel
<1> HIDE DEF R
<1>3. \E x \in T : \A y \in T : ~ (<<y, x>> \in R)
  BY <1>1, WFMin, Zenon
<1>4. PICK x \in T : \A y \in T : ~ (<<y, x>> \in R)
  BY <1>3
<1>5. ASSUME NEW y \in T PROVE x <= y
  <2>1. ~ (y < x)
    BY <1>2, <1>4
  <2>2. x \in Nat /\ y \in Nat
    OBVIOUS
  <2> QED
    BY <2>1, <2>2
<1> QED
  BY <1>5

(* A nonempty set of positions has a last one.                              *)
LEMMA HasGreatest ==
  ASSUME NEW n \in Nat, NEW T, T \subseteq 1..n, T # {}
  PROVE  \E x \in T : \A y \in T : y <= x
<1> DEFINE D == {n - a : a \in T}
<1>1. \A a \in T : a \in Int /\ a <= n /\ n - a \in Nat
  OBVIOUS
<1>2. D # {} /\ D \subseteq Nat
  BY <1>1
<1>3. PICK x \in D : \A y \in D : x <= y
  BY <1>2, HasLeast
<1>4. PICK a \in T : x = n - a
  BY <1>3
<1>5. \A b \in T : n - a <= n - b
  BY <1>3, <1>4
<1> QED
  BY <1>1, <1>5

-----------------------------------------------------------------------------
(* What the records promise.                                                *)

(* The newest attempt of a candidate is one of its attempts and no other is *)
(* newer.                                                                   *)
LEMMA LatestIsNewest ==
  ASSUME attempts \in Seq(Attempt), NEW c \in Cand
  PROVE  /\ Latest(c) \in Nat
         /\ OfCandidate(c) = {} => Latest(c) = 0
         /\ OfCandidate(c) # {} =>
              /\ Latest(c) \in OfCandidate(c)
              /\ \A a \in OfCandidate(c) : a <= Latest(c)
<1>1. Len(attempts) \in Nat
  BY LenProperties
<1>2. OfCandidate(c) \subseteq 1..Len(attempts)
  BY DEF OfCandidate, Ids
<1>3. CASE OfCandidate(c) = {}
  BY <1>3 DEF Latest
<1>4. CASE OfCandidate(c) # {}
  <2>1. \E a \in OfCandidate(c) : \A b \in OfCandidate(c) : b <= a
    BY <1>1, <1>2, <1>4, HasGreatest
  <2>2. /\ Latest(c) \in OfCandidate(c)
        /\ \A a \in OfCandidate(c) : a <= Latest(c)
    BY <2>1, <1>4 DEF Latest
  <2> QED
    BY <1>1, <1>2, <1>4, <2>2
<1> QED
  BY <1>3, <1>4

(* The fence of an ended hold is an attempt number, 0 for none.             *)
LEMMA FenceIsNumber ==
  ASSUME posted \in Seq([hold : Nat, at : Nat])
  PROVE  ActiveHoldFence \in Nat
<1>1. Len(posted) \in Nat
  BY LenProperties
<1>2. Ended \subseteq 1..Len(posted)
  BY DEF Ended
<1>3. CASE Ended = {}
  BY <1>3 DEF ActiveHoldFence
<1>4. CASE Ended # {}
  <2> DEFINE fence == CHOOSE i \in Ended : \A j \in Ended : j <= i
  <2>1. \E i \in Ended : \A j \in Ended : j <= i
    BY <1>1, <1>2, <1>4, HasGreatest
  <2>2. fence \in Ended
    BY <2>1
  <2>3. fence \in 1..Len(posted)
    BY <1>2, <2>2
  <2>4. posted[fence] \in [hold : Nat, at : Nat]
    BY <2>3, ElementOfSeq
  <2>5. posted[fence].hold \in Nat
    BY <2>4
  <2>6. ActiveHoldFence = IF Ended # {} /\ posted[fence].at >= Len(attempts)
                          THEN posted[fence].hold ELSE 0
    BY DEF ActiveHoldFence
  <2> HIDE DEF fence
  <2> QED
    BY <2>5, <2>6
<1> QED
  BY <1>3, <1>4

(* Every episode key is a key.                                              *)
LEMMA EpisodeKeysAreKeys ==
  ASSUME RecordsTypeOK, NEW c \in Cand
  PROVE  EpisodeKeys(c) \subseteq Key
<1>1. Latest(c) \in Nat /\ ActiveHoldFence \in Nat
  BY LatestIsNewest, FenceIsNumber DEF RecordsTypeOK
<1>2. ASSUME NEW k \in EpisodeKeys(c)
      PROVE  k \in [cand : {c}, episode : Episodes,
                    source : {0, Latest(c), ActiveHoldFence}]
  BY DEF EpisodeKeys
<1> QED
  BY <1>1, <1>2 DEF Key

-----------------------------------------------------------------------------
(* Rows and the updates of rows.                                            *)

(* The row types of RecordsTypeOK, named.                                   *)
CandidateRows == [Cand -> [state : CandidateStates, by : Cand \cup {0},
                           rearm : Nat, current : BOOLEAN]]
WatchRows == [status : Statuses, why : AuthReasons, hold : Nat]
PostedRows == [hold : Nat, at : Nat]
AccountRows == [version : Nat, status : AuthStatuses, renews : SUBSET Nat]

(* An attempt of the watch is a row of the right shape.                     *)
LEMMA RowIsAttempt ==
  ASSUME RecordsTypeOK, NEW a \in Ids
  PROVE  attempts[a] \in Attempt
BY ElementOfSeq DEF RecordsTypeOK, Ids

(* Update replaces one row and no other.                                    *)
LEMMA UpdateRow ==
  ASSUME RecordsTypeOK, NEW a \in Ids, NEW row \in Attempt, Update(a, row)
  PROVE  /\ attempts' \in Seq(Attempt)
         /\ Len(attempts') = Len(attempts)
         /\ Ids' = Ids
         /\ \A b \in Ids : attempts'[b] = IF b = a THEN row ELSE attempts[b]
<1>1. attempts \in Seq(Attempt) /\ a \in 1..Len(attempts)
  BY DEF RecordsTypeOK, Ids
<1>2. attempts' = [attempts EXCEPT ![a] = row]
  BY DEF Update
<1> QED
  BY <1>1, <1>2, ExceptSeq DEF Ids

(* Updates of the candidates keep the shape of their rows.                  *)
LEMMA CandidateUpdates ==
  ASSUME RecordsTypeOK
  PROVE  /\ cand \in CandidateRows
         /\ \A cs \in SUBSET Cand, state \in CandidateStates :
              SetState(cs, state) \in CandidateRows
         /\ \A c \in Cand : HeldBy(c) \in CandidateRows
         /\ PaidCandidates \in CandidateRows
         /\ \A rows \in CandidateRows : Unmarked(rows) \in CandidateRows
<1> USE DEF CandidateRows
<1>1. cand \in CandidateRows
  BY DEF RecordsTypeOK
<1>2. ASSUME NEW cs \in SUBSET Cand, NEW state \in CandidateStates
      PROVE  SetState(cs, state) \in CandidateRows
  BY <1>1 DEF SetState
<1>3. ASSUME NEW c \in Cand PROVE HeldBy(c) \in CandidateRows
  BY <1>1 DEF HeldBy, CandidateStates
<1>4. PaidCandidates \in CandidateRows
  BY DEF PaidCandidates, CandidateStates
<1>5. ASSUME NEW rows \in CandidateRows PROVE Unmarked(rows) \in CandidateRows
  BY DEF Unmarked
<1> HIDE DEF CandidateRows
<1> QED
  BY <1>1, <1>2, <1>3, <1>4, <1>5

(* A transition of the watch keeps the shape of its row.                    *)
LEMMA WatchUpdates ==
  ASSUME RecordsTypeOK
  PROVE  /\ watch \in WatchRows
         /\ \A status \in Statuses, why \in AuthReasons :
              MoveTo(status, why) \in WatchRows
         /\ \A status \in Statuses : GoTo(status) \in WatchRows
         /\ \A status \in Statuses, a \in Nat :
              [GoTo(status) EXCEPT !.hold = a] \in WatchRows
         /\ PaidWatch \in WatchRows
<1>1. watch \in WatchRows
  BY DEF RecordsTypeOK, WatchRows
<1>2. ASSUME NEW status \in Statuses, NEW why \in AuthReasons
      PROVE  MoveTo(status, why) \in WatchRows
  BY <1>1 DEF MoveTo, WatchRows
<1>3. ASSUME NEW status \in Statuses PROVE GoTo(status) \in WatchRows
  BY <1>2 DEF GoTo, AuthReasons
<1>4. ASSUME NEW status \in Statuses, NEW a \in Nat
      PROVE  [GoTo(status) EXCEPT !.hold = a] \in WatchRows
  BY <1>3 DEF WatchRows
<1>5. PaidWatch \in WatchRows
  BY <1>1, <1>3 DEF PaidWatch, WatchRows, Statuses
<1> QED
  BY <1>1, <1>2, <1>3, <1>4, <1>5

(* The row a result leaves is a row of the right shape.                     *)
LEMMA ReturnedType ==
  ASSUME RecordsTypeOK, NEW a \in Ids, NEW answer
  PROVE  Returned(a, answer) \in Attempt
<1> DEFINE seats == answer \in SeatAnswers \ {"hold"}
           next == answer \in {"notFound", "inconclusive"}
<1>1. seats \in BOOLEAN /\ next \in BOOLEAN
  OBVIOUS
<1>2. ResultOutcome(answer) \in Outcomes
  BY DEF ResultOutcome, Outcomes
<1>3. ResultConfirmation(answer) \in Confirmations
  BY DEF ResultConfirmation, Confirmations
<1>4. Returned(a, answer) =
        [attempts[a] EXCEPT
           !.io = FALSE,
           !.outcome = ResultOutcome(answer),
           !.conf = ResultConfirmation(answer),
           !.deadline = IF answer = "hold" THEN "open" ELSE "none",
           !.seats = seats,
           !.next = next]
  BY DEF Returned
<1> HIDE DEF seats, next
<1> QED
  BY <1>1, <1>2, <1>3, <1>4, RowIsAttempt DEF Attempt

(* The number of readings stays a number.                                   *)
LEMMA ReadsAfterType ==
  ASSUME RecordsTypeOK, NEW a \in Ids, NEW read
  PROVE  ReadsAfter(a, read) \in Nat
BY RowIsAttempt DEF ReadsAfter, Attempt

(* The row a reading leaves is a row of the right shape.                    *)
LEMMA CountedType ==
  ASSUME RecordsTypeOK, NEW a \in Ids, NEW read
  PROVE  Counted(a, read) \in Attempt
<1>1. attempts[a] \in Attempt /\ ReadsAfter(a, read) \in Nat
  BY RowIsAttempt, ReadsAfterType
<1>2. ReadAgain(a, read) \in BOOLEAN
  BY DEF ReadAgain
<1>3. ReadConfirmation(read) \in Confirmations
  BY DEF ReadConfirmation, Confirmations
<1> QED
  BY <1>1, <1>2, <1>3 DEF Counted, Attempt, Resolutions

-----------------------------------------------------------------------------
(* Type correctness.                                                        *)

(* A new watch has its types.                                               *)
LEMMA TypeInit == Init => TypeOK
<1> SUFFICES ASSUME Init PROVE TypeOK
  OBVIOUS
<1>1. <<>> \in Seq(Attempt) /\ <<>> \in Seq([hold : Nat, at : Nat])
  BY EmptySeq
<1> QED
  BY <1>1 DEF Init, TypeOK, RecordsTypeOK, Statuses, AuthReasons, AuthStatuses,
     CandidateStates, Purposes, NoReading

(* Observations.                                                            *)
LEMMA ObservationType ==
  ASSUME TypeOK, ObservationStep \/ CircuitNotClosed
  PROVE  TypeOK'
<1> USE DEF TypeOK
<1>1. CASE PrepareBlocked
  <2>1. watch' \in WatchRows
    BY <1>1, WatchUpdates DEF PrepareBlocked, Statuses, AuthReasons
  <2> QED
    BY <1>1, <2>1 DEF PrepareBlocked, RecordsTypeOK, memory, WatchRows
<1>2. CASE CircuitNotClosed
  <2>1. watch' \in WatchRows
    BY <1>2, WatchUpdates DEF CircuitNotClosed, Statuses, AuthReasons
  <2> QED
    BY <1>2, <2>1 DEF CircuitNotClosed, RecordsTypeOK, memory, WatchRows
<1>3. CASE Prepare
  <2>1. PICK gone \in SUBSET ({c \in Cand : Open(c)} \cap departed) :
          /\ cand' = SetState(gone, "expired")
          /\ observing' = {c \in Cand : Open(c)} \ gone
          /\ watch' \in {GoTo("PAUSED"), GoTo("EXPIRED"), GoTo("WATCHING"), watch}
    BY <1>3 DEF Prepare
  <2>2. cand' \in CandidateRows
    BY <2>1, CandidateUpdates DEF CandidateStates
  <2>3. watch' \in WatchRows
    BY <2>1, WatchUpdates DEF Statuses
  <2> QED
    BY <1>3, <2>1, <2>2, <2>3
    DEF Prepare, RecordsTypeOK, CandidateRows, WatchRows
<1>4. CASE Persist
  <2> DEFINE keys == UNION {EpisodeKeys(c) : c \in observing}
  <2>1. PICK seat \in [observing -> Seats \cup {"none"}] :
          /\ cand' = SetState({c \in observing : seat[c] # "none"}, "open")
          /\ edges' = edges \cup NewEdges({c \in observing : seat[c] = "unavailable"})
          /\ \E status \in {"SEAT_FOUND", "OFFICIAL_WAITLIST", "WATCHING", watch.status} :
               watch' = GoTo(status)
          /\ \E won \in SUBSET keys : winners' = winners \cup won
    BY <1>4 DEF Persist
  <2>2. cand' \in CandidateRows
    BY <2>1, CandidateUpdates DEF CandidateStates
  <2>3. watch' \in WatchRows
    BY <2>1, WatchUpdates DEF Statuses, RecordsTypeOK
  <2>4. edges' \subseteq Nat \X Cand
    <3>1. Len(attempts) \in Nat
      BY LenProperties DEF RecordsTypeOK
    <3>2. Ids \subseteq Nat
      BY <3>1 DEF Ids
    <3> QED
      BY <2>1, <3>2 DEF RecordsTypeOK, NewEdges
  <2>5. winners' \subseteq Key
    BY <2>1, EpisodeKeysAreKeys
  <2> QED
    BY <1>4, <2>2, <2>3, <2>4, <2>5
    DEF Persist, RecordsTypeOK, CandidateRows, WatchRows
<1>5. CASE AbandonObservation
  BY <1>5 DEF AbandonObservation, records, RecordsTypeOK
<1> QED
  BY <1>1, <1>2, <1>3, <1>4, <1>5 DEF ObservationStep

(* A new attempt is a row of the right shape.                               *)
LEMMA NewAttemptType ==
  ASSUME RecordsTypeOK, NEW k \in Key
  PROVE  NewAttempt(k) \in Attempt
BY DEF RecordsTypeOK, Key, NewAttempt, Attempt, Outcomes, Confirmations, Resolutions

(* Winners: the transaction before the call.                                *)
LEMMA WinnerType ==
  ASSUME TypeOK, UseWinner
  PROVE  TypeOK'
<1> USE DEF TypeOK
<1>1. PICK k \in winners :
        DropWinner(k) \/ ReserveDeparted(k) \/ ReserveSignedOut(k) \/ Claim(k)
  BY DEF UseWinner
<1>2. CASE DropWinner(k)
  BY <1>2 DEF DropWinner, records, RecordsTypeOK
<1>3. CASE ReserveDeparted(k)
  <2>1. cand' \in CandidateRows
    BY <1>3, CandidateUpdates DEF ReserveDeparted, CandidateRows, CandidateStates
  <2>2. watch' \in WatchRows
    BY <1>3, WatchUpdates DEF ReserveDeparted, Statuses
  <2> QED
    BY <1>3, <2>1, <2>2 DEF ReserveDeparted, RecordsTypeOK, CandidateRows, WatchRows
<1>4. CASE ReserveSignedOut(k)
  <2>1. watch' \in WatchRows
    BY <1>4, WatchUpdates DEF ReserveSignedOut, Statuses, AuthReasons
  <2> QED
    BY <1>4, <2>1 DEF ReserveSignedOut, RecordsTypeOK, WatchRows
<1>5. CASE Claim(k)
  <2>1. attempts' \in Seq(Attempt)
    BY <1>5, NewAttemptType, AppendProperties DEF Claim, RecordsTypeOK
  <2>2. cand' \in CandidateRows
    <3>1. {k.cand} \in SUBSET Cand
      BY DEF Key
    <3> QED
      BY <1>5, <3>1, CandidateUpdates DEF Claim, CandidateStates
  <2>3. watch' \in WatchRows
    BY <1>5, WatchUpdates DEF Claim, Statuses
  <2> QED
    BY <1>5, <2>1, <2>2, <2>3 DEF Claim, RecordsTypeOK, CandidateRows, WatchRows
<1> QED
  BY <1>1, <1>2, <1>3, <1>4, <1>5

(* A login or a lost session keeps the shape of the account row.            *)
LEMMA AccountUpdates ==
  ASSUME RecordsTypeOK
  PROVE  /\ account \in AccountRows
         /\ \A version \in Nat : LoggedIn(version) \in AccountRows
         /\ SignedOut => account' \in AccountRows
         /\ \A answer : AccountAfter(answer) => account' \in AccountRows
<1>1. account \in AccountRows
  BY DEF RecordsTypeOK, AccountRows
<1>2. Len(attempts) \in Nat
  BY LenProperties DEF RecordsTypeOK
<1>3. ASSUME NEW version \in Nat PROVE LoggedIn(version) \in AccountRows
  BY <1>1, <1>2, <1>3 DEF LoggedIn, AccountRows, AuthStatuses, Ids
<1>4. ASSUME SignedOut PROVE account' \in AccountRows
  BY <1>1, <1>4 DEF SignedOut, AccountRows
<1>5. account.version \in Nat
  BY <1>1 DEF AccountRows
<1>6. ASSUME NEW answer, AccountAfter(answer) PROVE account' \in AccountRows
  BY <1>1, <1>3, <1>4, <1>5, <1>6 DEF AccountAfter
<1> QED
  BY <1>1, <1>3, <1>4, <1>6

(* The row a late result leaves.                                            *)
LEMMA LateRowType ==
  ASSUME RecordsTypeOK, NEW a \in Ids, NEW answer \in Answers
  PROVE  [attempts[a] EXCEPT
            !.io = FALSE,
            !.outcome = IF @ = "PENDING" THEN "UNKNOWN" ELSE @,
            !.conf = IF attempts[a].outcome = "PENDING" \/ answer = "paid"
                     THEN ResultConfirmation(answer) ELSE @,
            !.seats = IF attempts[a].outcome = "PENDING"
                      THEN answer \in SeatAnswers ELSE @,
            !.next = @ /\ answer # "paid",
            !.resolution = IF answer = "paid" THEN "none" ELSE @] \in Attempt
<1> DEFINE outcome == IF attempts[a].outcome = "PENDING"
                      THEN "UNKNOWN" ELSE attempts[a].outcome
           conf == IF attempts[a].outcome = "PENDING" \/ answer = "paid"
                   THEN ResultConfirmation(answer) ELSE attempts[a].conf
           seats == IF attempts[a].outcome = "PENDING"
                    THEN answer \in SeatAnswers ELSE attempts[a].seats
           next == attempts[a].next /\ answer # "paid"
           resolution == IF answer = "paid" THEN "none" ELSE attempts[a].resolution
<1>1. attempts[a] \in Attempt
  BY RowIsAttempt
<1>2. (answer \in SeatAnswers) \in BOOLEAN /\ attempts[a].seats \in BOOLEAN
  BY <1>1 DEF Attempt
<1>3. seats \in BOOLEAN
  BY <1>2, Zenon
<1>4. next \in BOOLEAN
  OBVIOUS
<1>5. conf \in Confirmations
  BY <1>1 DEF Attempt, ResultConfirmation, Confirmations
<1>6. outcome \in Outcomes /\ resolution \in Resolutions
  BY <1>1 DEF Attempt, Outcomes, Resolutions
<1> HIDE DEF seats, next, conf, outcome, resolution
<1>7. [attempts[a] EXCEPT !.io = FALSE, !.outcome = outcome, !.conf = conf,
                          !.seats = seats, !.next = next,
                          !.resolution = resolution] \in Attempt
  BY <1>1, <1>3, <1>4, <1>5, <1>6 DEF Attempt
<1> QED
  BY <1>7, Zenon DEF seats, next, conf, outcome, resolution

(* Calls: the transaction after the call and the recovery of stale claims.  *)
LEMMA ResultType ==
  ASSUME TypeOK, NEW a \in Ids, ReservationReturns(a) \/ RecoverStale(a)
  PROVE  TypeOK'
<1> USE DEF TypeOK
<1> DEFINE c == attempts[a].cand
<1>1. attempts[a] \in Attempt
  BY RowIsAttempt
<1>2. c \in Cand /\ {c} \in SUBSET Cand /\ a \in Nat
  <2>1. Len(attempts) \in Nat
    BY LenProperties DEF RecordsTypeOK
  <2> QED
    BY <1>1, <2>1 DEF Attempt, Ids
<1>3. CASE LoseResult(a)
  <2>1. [attempts[a] EXCEPT !.io = FALSE] \in Attempt
    BY <1>1 DEF Attempt
  <2>2. attempts' \in Seq(Attempt)
    BY <1>3, <2>1, UpdateRow DEF LoseResult
  <2> QED
    BY <1>3, <2>2 DEF LoseResult, memory, RecordsTypeOK
<1>4. CASE DeferReservation(a)
  <2>1. attempts' \in Seq(Attempt)
    <3>1. \A i \in 1..(a - 1) : attempts[i] \in Attempt
      BY RowIsAttempt, <1>2 DEF Ids
    <3> QED
      BY <1>4, <1>2, <3>1, SubSeqProperties DEF DeferReservation
  <2>2. cand' \in CandidateRows
    BY <1>4, <1>2, CandidateUpdates DEF DeferReservation, CandidateStates
  <2>3. watch' \in WatchRows
    BY <1>4, WatchUpdates DEF DeferReservation, Statuses
  <2> QED
    BY <1>4, <2>1, <2>2, <2>3
    DEF DeferReservation, memory, RecordsTypeOK, CandidateRows, WatchRows
<1>5. ASSUME NEW answer \in Answers, FinishReservation(a, answer)
      PROVE  TypeOK'
  <2>1. attempts' \in Seq(Attempt)
    BY <1>5, ReturnedType, UpdateRow DEF FinishReservation
  <2>2. account' \in AccountRows
    BY <1>5, AccountUpdates DEF FinishReservation
  <2>3. cand' \in CandidateRows
    BY <1>5, <1>2, CandidateUpdates DEF FinishReservation, CandidateStates
  <2>4. watch' \in WatchRows
    BY <1>5, <1>2, WatchUpdates DEF FinishReservation, Statuses, AuthReasons
  <2> QED
    BY <1>5, <2>1, <2>2, <2>3, <2>4
    DEF FinishReservation, RecordsTypeOK, CandidateRows, WatchRows, AccountRows
<1>6. ASSUME NEW answer \in Answers, FenceLateResult(a, answer)
      PROVE  TypeOK'
  <2> DEFINE row == [attempts[a] EXCEPT
         !.io = FALSE,
         !.outcome = IF @ = "PENDING" THEN "UNKNOWN" ELSE @,
         !.conf = IF attempts[a].outcome = "PENDING" \/ answer = "paid"
                  THEN ResultConfirmation(answer) ELSE @,
         !.seats = IF attempts[a].outcome = "PENDING"
                   THEN answer \in SeatAnswers ELSE @,
         !.next = @ /\ answer # "paid",
         !.resolution = IF answer = "paid" THEN "none" ELSE @]
  <2>1. row \in Attempt
    BY LateRowType
  <2>2. Update(a, row)
    BY <1>6, Zenon DEF FenceLateResult
  <2>3. attempts' \in Seq(Attempt)
    <3> HIDE DEF row
    <3> QED
      BY <2>1, <2>2, UpdateRow
  <2>4. account' \in AccountRows
    BY <1>6, AccountUpdates DEF FenceLateResult
  <2>5. cand' \in CandidateRows
    BY <1>6, <1>2, CandidateUpdates DEF FenceLateResult, CandidateStates
  <2>6. watch' \in WatchRows
    BY <1>6, WatchUpdates DEF FenceLateResult, Statuses, AuthReasons
  <2> QED
    BY <1>6, <2>3, <2>4, <2>5, <2>6
    DEF FenceLateResult, memory, RecordsTypeOK, CandidateRows, WatchRows, AccountRows
<1>7. CASE RecoverStale(a)
  <2>1. [attempts[a] EXCEPT !.outcome = "UNKNOWN"] \in Attempt
    BY <1>1 DEF Attempt, Outcomes
  <2>2. attempts' \in Seq(Attempt)
    BY <1>7, <2>1, UpdateRow DEF RecoverStale
  <2>3. cand' \in CandidateRows
    BY <1>7, <1>2, CandidateUpdates DEF RecoverStale, CandidateStates
  <2>4. watch' \in WatchRows
    BY <1>7, WatchUpdates DEF RecoverStale, Statuses
  <2> QED
    BY <1>7, <2>2, <2>3, <2>4
    DEF RecoverStale, memory, RecordsTypeOK, CandidateRows, WatchRows
<1> QED
  BY <1>3, <1>4, <1>5, <1>6, <1>7 DEF ReservationReturns

(* A reading posts its attempt or nothing.                                  *)
LEMMA PostIfFinalType ==
  ASSUME RecordsTypeOK, NEW a \in Ids, NEW read, PostIfFinal(a, read)
  PROVE  posted' \in Seq(PostedRows)
<1>1. posted \in Seq(PostedRows)
  BY DEF RecordsTypeOK, PostedRows
<1>2. [hold |-> a, at |-> Len(attempts)] \in PostedRows
  BY LenProperties DEF RecordsTypeOK, Ids, PostedRows
<1> QED
  BY <1>1, <1>2, AppendProperties DEF PostIfFinal

(* What the evidence of a reading writes.                                   *)
LEMMA EvidenceType ==
  ASSUME RecordsTypeOK, NEW a \in Ids, NEW read,
         \/ ReadSignedOut(a) \/ ReadPaid(a) \/ ReadHold(a) \/ DeferRead(a)
         \/ ReadHoldEnded(a, read) \/ ReadMore(a, read)
  PROVE  RecordsTypeOK'
<1> DEFINE c == attempts[a].cand
<1>1. attempts[a] \in Attempt
  BY RowIsAttempt
<1>2. c \in Cand /\ a \in Nat
  <2>1. Len(attempts) \in Nat
    BY LenProperties DEF RecordsTypeOK
  <2> QED
    BY <1>1, <2>1 DEF Attempt, Ids
<1>3. Started(a) \in WatchRows
  BY WatchUpdates DEF Started, Statuses
<1>4. CASE ReadSignedOut(a)
  <2>1. [attempts[a] EXCEPT !.conf = "AUTH_REQUIRED",
                            !.resolution = "none", !.next = FALSE] \in Attempt
    BY <1>1 DEF Attempt, Confirmations, Resolutions
  <2>2. attempts' \in Seq(Attempt)
    BY <1>4, <2>1, UpdateRow DEF ReadSignedOut
  <2>3. account' \in AccountRows
    BY <1>4, AccountUpdates DEF ReadSignedOut
  <2>4. cand' \in CandidateRows
    BY <1>4, CandidateUpdates DEF ReadSignedOut
  <2>5. watch' \in WatchRows
    BY <1>4, WatchUpdates DEF ReadSignedOut, Statuses, AuthReasons
  <2> QED
    BY <1>4, <2>2, <2>3, <2>4, <2>5
    DEF ReadSignedOut, RecordsTypeOK, CandidateRows, WatchRows, AccountRows
<1>5. CASE ReadPaid(a)
  <2>1. attempts' \in Seq(Attempt)
    BY <1>5, CountedType, UpdateRow DEF ReadPaid
  <2>2. posted' \in Seq(PostedRows)
    BY <1>5, PostIfFinalType DEF ReadPaid
  <2>3. cand' \in CandidateRows /\ watch' \in WatchRows
    BY <1>5, CandidateUpdates, WatchUpdates DEF ReadPaid
  <2> QED
    BY <1>5, <2>1, <2>2, <2>3
    DEF ReadPaid, RecordsTypeOK, CandidateRows, WatchRows, PostedRows
<1>6. CASE ReadHold(a)
  <2> DEFINE row == [Counted(a, "hold") EXCEPT !.outcome = "PAYMENT_REQUIRED",
                                               !.deadline = "open",
                                               !.seats = FALSE]
  <2>1. row \in Attempt
    BY CountedType DEF Attempt, Outcomes
  <2>2. attempts' \in Seq(Attempt)
    <3>1. Update(a, row)
      BY <1>6 DEF ReadHold
    <3> HIDE DEF row
    <3> QED
      BY <2>1, <3>1, UpdateRow
  <2>3. cand' \in CandidateRows
    BY <1>6, <1>2, CandidateUpdates DEF ReadHold
  <2>4. watch' \in WatchRows
    BY <1>6, <1>2, <1>3, WatchUpdates DEF ReadHold, Statuses
  <2> QED
    BY <1>6, <2>2, <2>3, <2>4 DEF ReadHold, RecordsTypeOK, CandidateRows, WatchRows
<1>7. CASE DeferRead(a)
  <2>1. [attempts[a] EXCEPT !.next = TRUE] \in Attempt
    BY <1>1 DEF Attempt
  <2>2. attempts' \in Seq(Attempt)
    BY <1>7, <2>1, UpdateRow DEF DeferRead
  <2> QED
    BY <1>7, <2>2 DEF DeferRead, RecordsTypeOK
<1>8. CASE ReadHoldEnded(a, read)
  <2> DEFINE deadline == IF read = "expiredHold" THEN "past"
                         ELSE Counted(a, read).deadline
             row == [Counted(a, read) EXCEPT !.deadline = deadline]
             freed == Freed(c)
  <2>1. row \in Attempt
    <3>1. deadline \in {"none", "open", "past"}
      BY CountedType DEF Attempt
    <3> HIDE DEF deadline
    <3> QED
      BY <3>1, CountedType DEF Attempt
  <2>2. attempts' \in Seq(Attempt)
    <3>1. Update(a, row)
      BY <1>8 DEF ReadHoldEnded
    <3> HIDE DEF row
    <3> QED
      BY <2>1, <3>1, UpdateRow
  <2>3. posted' \in Seq(PostedRows)
    BY <1>8, PostIfFinalType DEF ReadHoldEnded
  <2>4. cand' \in CandidateRows
    <3>1. cand \in CandidateRows
      BY CandidateUpdates
    <3>2. ASSUME NEW d \in Cand
          PROVE  [cand[d] EXCEPT
                    !.state = IF d \in freed THEN "open" ELSE @,
                    !.by = IF d \in freed THEN 0 ELSE @,
                    !.current = @ /\ cand[d].rearm # a]
                 \in [state : CandidateStates, by : Cand \cup {0},
                      rearm : Nat, current : BOOLEAN]
      <4> DEFINE state == IF d \in freed THEN "open" ELSE cand[d].state
                 by == IF d \in freed THEN 0 ELSE cand[d].by
                 current == cand[d].current /\ cand[d].rearm # a
      <4>1. /\ state \in CandidateStates
            /\ by \in Cand \cup {0}
        BY <3>1 DEF CandidateRows, CandidateStates
      <4>2. current \in BOOLEAN
        OBVIOUS
      <4>3. cand[d] \in [state : CandidateStates, by : Cand \cup {0},
                         rearm : Nat, current : BOOLEAN]
        BY <3>1 DEF CandidateRows
      <4> HIDE DEF state, by, current
      <4>4. [cand[d] EXCEPT !.state = state, !.by = by, !.current = current]
              \in [state : CandidateStates, by : Cand \cup {0},
                   rearm : Nat, current : BOOLEAN]
        BY <4>1, <4>2, <4>3
      <4> QED
        BY <4>4 DEF state, by, current
    <3> HIDE DEF freed
    <3>3. cand' = [d \in Cand |->
                    [cand[d] EXCEPT
                       !.state = IF d \in freed THEN "open" ELSE @,
                       !.by = IF d \in freed THEN 0 ELSE @,
                       !.current = @ /\ cand[d].rearm # a]]
      BY <1>8, Zenon DEF ReadHoldEnded, freed
    <3> QED
      BY <3>2, <3>3, Zenon DEF CandidateRows
  <2>5. watch' \in WatchRows
    BY <1>8, WatchUpdates DEF ReadHoldEnded, Statuses
  <2> QED
    BY <1>8, <2>2, <2>3, <2>4, <2>5
    DEF ReadHoldEnded, RecordsTypeOK, CandidateRows, WatchRows, PostedRows
<1>9. CASE ReadMore(a, read)
  <2>1. attempts' \in Seq(Attempt)
    BY <1>9, CountedType, UpdateRow DEF ReadMore
  <2>2. posted' \in Seq(PostedRows)
    BY <1>9, PostIfFinalType DEF ReadMore
  <2> QED
    BY <1>9, <1>3, <2>1, <2>2
    DEF ReadMore, RecordsTypeOK, WatchRows, PostedRows
<1> QED
  BY <1>4, <1>5, <1>6, <1>7, <1>8, <1>9

(* Readings.                                                                *)
LEMMA ReadingType ==
  ASSUME TypeOK, NEW a \in Ids, StartRead(a) \/ ApplyRead(a)
  PROVE  TypeOK'
<1> USE DEF TypeOK
<1>1. CASE StartRead(a)
  <2>1. ConfirmationPurpose(a) \in Purposes
    BY DEF ConfirmationPurpose, Purposes
  <2>2. a \in Nat
    BY LenProperties DEF RecordsTypeOK, Ids
  <2> QED
    BY <1>1, <2>1, <2>2 DEF StartRead, records, RecordsTypeOK
<1>2. CASE ApplyRead(a)
  <2>1. RecordsTypeOK'
    BY <1>2, EvidenceType DEF ApplyRead
  <2> QED
    BY <1>2, <2>1 DEF ApplyRead, NoReading, Purposes
<1> QED
  BY <1>1, <1>2

(* A login gives the newest attempt at most one more reading, and only if   *)
(* it is not a hold.                                                        *)
LEMMA LoginAttempts ==
  ASSUME RecordsTypeOK, NEW version \in Nat, Login(version)
  PROVE  /\ attempts' \in Seq(Attempt)
         /\ Ids' = Ids
         /\ \A a \in Ids :
              \/ attempts'[a] = attempts[a]
              \/ /\ attempts[a].version = version
                 /\ attempts[a].conf = "AUTH_REQUIRED"
                 /\ attempts[a].outcome = "UNKNOWN" \/ Refunded(a) = attempts[a].reads
                 /\ attempts'[a] = [attempts[a] EXCEPT !.next = TRUE,
                                                       !.reads = Refunded(a)]
<1>1. CASE ~Resumes(version)
  BY <1>1 DEF Login, RecordsTypeOK, Ids
<1>2. CASE Resumes(version)
  <2> DEFINE last == Len(attempts)
             row == [attempts[last] EXCEPT !.next = TRUE, !.reads = Refunded(last)]
  <2>1. /\ last \in Ids /\ attempts[last].version = version
        /\ attempts[last].conf = "AUTH_REQUIRED"
        /\ attempts[last].outcome = "UNKNOWN" \/ Refunded(last) = attempts[last].reads
    BY <1>2, LenProperties, EmptySeq DEF Resumes, Refunded, RecordsTypeOK, Ids
  <2>2. attempts[last] \in Attempt
    BY <2>1, RowIsAttempt
  <2>3. Refunded(last) \in Nat
    BY <2>2, BudgetAssumption DEF Refunded, Attempt
  <2>4. row \in Attempt
    BY <2>2, <2>3 DEF Attempt
  <2>5. Update(last, row)
    BY <1>2, <2>1, <2>2 DEF Login, Update, RecordsTypeOK
  <2> HIDE DEF row
  <2>6. /\ attempts' \in Seq(Attempt)
        /\ Ids' = Ids
        /\ \A b \in Ids : attempts'[b] = IF b = last THEN row ELSE attempts[b]
    BY <2>1, <2>4, <2>5, UpdateRow
  <2> QED
    BY <2>1, <2>6 DEF row
<1> QED
  BY <1>1, <1>2

(* The user, the account and time.                                          *)
LEMMA OutsideType ==
  ASSUME TypeOK, OutsideStep
  PROVE  TypeOK'
<1> USE DEF TypeOK
<1>1. CASE CircuitNotClosed
  BY <1>1, ObservationType
<1>2. ASSUME NEW version \in Nat, Login(version) PROVE TypeOK'
  <2>1. attempts' \in Seq(Attempt)
    BY <1>2, LoginAttempts
  <2>2. account' \in AccountRows
    BY <1>2, AccountUpdates DEF Login
  <2>3. cand' \in CandidateRows
    <3>1. {c \in Cand : RejectedOnly(c)} \in SUBSET Cand
      OBVIOUS
    <3> QED
      BY <1>2, <3>1, CandidateUpdates DEF Login, CandidateStates
  <2>4. watch' \in WatchRows
    BY <1>2, WatchUpdates DEF Login, Statuses
  <2> QED
    BY <1>2, <2>1, <2>2, <2>3, <2>4
    DEF Login, RecordsTypeOK, AccountRows, CandidateRows, WatchRows
<1>3. CASE VerifyLogin \/ ReplaceCredentials
  <2>1. account.version \in Nat /\ account.version + 1 \in Nat
    BY DEF RecordsTypeOK
  <2> QED
    BY <1>2, <1>3, <2>1 DEF VerifyLogin, ReplaceCredentials
<1>4. CASE SignOut
  <2>1. account' \in AccountRows
    BY <1>4, AccountUpdates DEF SignOut
  <2> QED
    BY <1>4, <2>1 DEF SignOut, memory, RecordsTypeOK, AccountRows
<1>5. CASE UserStep
  <2>1. watch' \in WatchRows
    BY <1>5, WatchUpdates DEF UserStep, Statuses
  <2> QED
    BY <1>5, <2>1 DEF UserStep, memory, RecordsTypeOK, WatchRows
<1>6. CASE Expire
  <2>1. PICK gone \in SUBSET Cand :
          /\ cand' = SetState(gone, "expired")
          /\ watch' \in {GoTo("EXPIRED"), watch}
    BY <1>6 DEF Expire
  <2>2. cand' \in CandidateRows
    BY <2>1, CandidateUpdates DEF CandidateStates
  <2>3. watch' \in WatchRows
    BY <2>1, WatchUpdates DEF Statuses
  <2> QED
    BY <1>6, <2>2, <2>3 DEF Expire, memory, RecordsTypeOK, CandidateRows, WatchRows
<1>7. CASE \E c \in Cand : Depart(c)
  BY <1>7 DEF Depart, memory, records, RecordsTypeOK
<1>8. CASE Rearm
  <2> DEFINE a == IF ActiveUnresolvedUnknown = {} THEN Len(attempts)
                  ELSE CHOOSE b \in ActiveUnresolvedUnknown : TRUE
             c == attempts[a].cand
  <2>1. a \in Ids /\ a \in Nat
    <3>1. Len(attempts) \in Nat \ {0}
      BY <1>8, LenProperties, EmptySeq DEF Rearm, RecordsTypeOK
    <3> QED
      BY <3>1 DEF ActiveUnresolvedUnknown, Ids
  <2>2. c \in Cand
    BY <2>1, RowIsAttempt DEF Attempt
  <2>3. cand' = [cand EXCEPT ![c] = [@ EXCEPT !.rearm = a, !.current = TRUE]]
    BY <1>8 DEF Rearm
  <2>4. cand' \in CandidateRows
    <3>1. cand[c] \in [state : CandidateStates, by : Cand \cup {0},
                       rearm : Nat, current : BOOLEAN]
      BY <2>2, CandidateUpdates DEF CandidateRows
    <3> HIDE DEF a, c
    <3>2. [cand[c] EXCEPT !.rearm = a, !.current = TRUE] \in
            [state : CandidateStates, by : Cand \cup {0},
             rearm : Nat, current : BOOLEAN]
      BY <2>1, <3>1
    <3> QED
      BY <2>2, <2>3, <3>2, CandidateUpdates DEF CandidateRows
  <2> QED
    BY <1>8, <2>4 DEF Rearm, RecordsTypeOK, CandidateRows
<1> QED
  BY <1>1, <1>3, <1>4, <1>5, <1>6, <1>7, <1>8 DEF OutsideStep

(* Every step keeps every variable in its type.                             *)
LEMMA TypeStep == TypeOK /\ [Next]_vars => TypeOK'
<1> SUFFICES ASSUME TypeOK, [Next]_vars PROVE TypeOK'
  OBVIOUS
<1>1. CASE ObservationStep
  BY <1>1, ObservationType
<1>2. CASE UseWinner
  BY <1>2, WinnerType
<1>3. CASE AttemptStep
  <2>1. PICK a \in Ids : \/ ReservationReturns(a) \/ RecoverStale(a)
                         \/ StartRead(a) \/ ApplyRead(a) \/ DeadlinePasses(a)
    BY <1>3 DEF AttemptStep
  <2>2. CASE DeadlinePasses(a)
    <3>1. [attempts[a] EXCEPT !.deadline = "past"] \in Attempt
      BY RowIsAttempt DEF Attempt, TypeOK
    <3>2. attempts' \in Seq(Attempt)
      BY <2>2, <3>1, UpdateRow DEF DeadlinePasses, TypeOK
    <3> QED
      BY <2>2, <3>2 DEF DeadlinePasses, memory, TypeOK, RecordsTypeOK
  <2> QED
    BY <2>1, <2>2, ResultType, ReadingType
<1>4. CASE DropRead
  BY <1>4 DEF DropRead, records, NoReading, Purposes, TypeOK, RecordsTypeOK
<1>5. CASE OutsideStep
  BY <1>5, OutsideType
<1>6. CASE UNCHANGED vars
  BY <1>6 DEF vars, TypeOK, RecordsTypeOK
<1> QED
  BY <1>1, <1>2, <1>3, <1>4, <1>5, <1>6 DEF Next

(* Type correctness of the reservation component, for any number of         *)
(* candidates, attempts and readings.                                       *)
THEOREM FenceTypeCorrect == Spec => []TypeOK
BY TypeInit, TypeStep, PTL DEF Spec

-----------------------------------------------------------------------------
(* What a step may do to the attempts. The properties below follow from     *)
(* this summary of the transactions.                                        *)

(* What a claim has written is never changed.                               *)
SameClaim(a) ==
    /\ attempts'[a].cand = attempts[a].cand
    /\ attempts'[a].episode = attempts[a].episode
    /\ attempts'[a].source = attempts[a].source
    /\ attempts'[a].version = attempts[a].version

ReadKinds == {"hold", "expiredHold", "paid", "notFound", "inconclusive",
              "unavailable"}

SameEvidence(a) ==
    /\ attempts'[a].conf = attempts[a].conf
    /\ attempts'[a].reads = attempts[a].reads

(* What a transaction may write of an attempt: nothing, the end of a claim  *)
(* without a result, a result, late proof of payment, a reading, or what a  *)
(* login gives back.                                                        *)
Settles(a) ==
    \/ SameEvidence(a) /\ attempts'[a].outcome \in {attempts[a].outcome, "UNKNOWN"}
    \/ /\ SameCredentials(a)
       /\ attempts[a].outcome = "PENDING"
       /\ attempts'[a].outcome # "PENDING"
       /\ attempts'[a].reads = attempts[a].reads
    \/ /\ SameCredentials(a)
       /\ attempts[a].outcome # "PENDING"
       /\ attempts'[a].outcome = attempts[a].outcome
       /\ attempts'[a].conf = "CONFIRMED_PAID"
       /\ attempts'[a].reads = attempts[a].reads
    \/ /\ Readable(a)
       /\ attempts'[a].outcome # "PENDING"
       /\ \/ attempts'[a].reads = attempts[a].reads
          \/ \E read \in ReadKinds : attempts'[a].reads = ReadsAfter(a, read)
    \/ /\ attempts[a].version = account'.version
       /\ attempts'[a].conf = attempts[a].conf
       /\ attempts'[a].outcome = attempts[a].outcome
       /\ attempts'[a].reads = Refunded(a)

Settled == Ids' = Ids /\ \A a \in Ids : SameClaim(a) /\ Settles(a)

(* A step that writes no attempt settles nothing.                           *)
LEMMA NothingSettled == attempts' = attempts => Settled
BY DEF Settled, Settles, SameClaim, SameEvidence, Ids

(* A step that writes one attempt settles what it settles of this one.      *)
LEMMA OneSettled ==
  ASSUME TypeOK, NEW a \in Ids, NEW row \in Attempt, Update(a, row),
         SameClaim(a), Settles(a)
  PROVE  Settled
<1>1. /\ Ids' = Ids
      /\ \A b \in Ids \ {a} : attempts'[b] = attempts[b]
  BY UpdateRow DEF TypeOK
<1>2. ASSUME NEW b \in Ids \ {a} PROVE SameClaim(b) /\ Settles(b)
  BY <1>1 DEF SameClaim, Settles, SameEvidence
<1> QED
  BY <1>1, <1>2 DEF Settled

(* The results of calls.                                                    *)
LEMMA ResultsSettle ==
  ASSUME TypeOK, NEW a \in Ids, ReservationReturns(a) \/ RecoverStale(a)
  PROVE  Settled \/ DeferReservation(a)
<1>1. attempts[a] \in Attempt /\ RecordsTypeOK
  BY RowIsAttempt DEF TypeOK
<1>2. CASE LoseResult(a)
  <2> DEFINE row == [attempts[a] EXCEPT !.io = FALSE]
  <2>1. row \in Attempt /\ Update(a, row)
    BY <1>1, <1>2 DEF Attempt, LoseResult
  <2>2. attempts'[a] = row
    BY <1>1, <2>1, UpdateRow
  <2>3. SameClaim(a) /\ Settles(a)
    BY <1>1, <2>2 DEF SameClaim, Settles, SameEvidence, Attempt
  <2> HIDE DEF row
  <2> QED
    BY <2>1, <2>3, OneSettled
<1>3. ASSUME NEW answer \in Answers, FinishReservation(a, answer)
      PROVE  Settled
  <2>1. Returned(a, answer) \in Attempt /\ Update(a, Returned(a, answer))
    BY <1>1, <1>3, ReturnedType DEF FinishReservation
  <2>2. attempts'[a] = Returned(a, answer)
    BY <1>1, <2>1, UpdateRow
  <2>3. ResultOutcome(answer) # "PENDING"
    BY DEF ResultOutcome
  <2>4. /\ attempts'[a].outcome = ResultOutcome(answer)
        /\ attempts'[a].reads = attempts[a].reads
        /\ SameClaim(a)
    BY <1>1, <2>2 DEF Returned, SameClaim, Attempt
  <2>5. Settles(a)
    BY <1>3, <2>3, <2>4 DEF Settles, FinishReservation, StillClaimed
  <2> QED
    BY <2>1, <2>4, <2>5, OneSettled
<1>4. ASSUME NEW answer \in Answers, FenceLateResult(a, answer)
      PROVE  Settled
  <2> DEFINE row == [attempts[a] EXCEPT
         !.io = FALSE,
         !.outcome = IF @ = "PENDING" THEN "UNKNOWN" ELSE @,
         !.conf = IF attempts[a].outcome = "PENDING" \/ answer = "paid"
                  THEN ResultConfirmation(answer) ELSE @,
         !.seats = IF attempts[a].outcome = "PENDING"
                   THEN answer \in SeatAnswers ELSE @,
         !.next = @ /\ answer # "paid",
         !.resolution = IF answer = "paid" THEN "none" ELSE @]
  <2>1. Update(a, row)
    BY <1>4, Zenon DEF FenceLateResult
  <2>2. row \in Attempt
    BY <1>1, LateRowType
  <2>3. attempts'[a] = row
    <3> HIDE DEF row
    <3> QED
      BY <1>1, <2>1, <2>2, UpdateRow
  <2>4. /\ SameClaim(a)
        /\ row.outcome = IF attempts[a].outcome = "PENDING" THEN "UNKNOWN"
                         ELSE attempts[a].outcome
        /\ row.conf = IF attempts[a].outcome = "PENDING" \/ answer = "paid"
                      THEN ResultConfirmation(answer) ELSE attempts[a].conf
        /\ row.reads = attempts[a].reads
    BY <1>1, <2>3 DEF SameClaim, Attempt
  <2> HIDE DEF row
  <2>5. Settles(a)
    BY <1>4, <2>3, <2>4
    DEF Settles, SameEvidence, FenceLateResult, ResultConfirmation
  <2> QED
    BY <2>1, <2>2, <2>4, <2>5, OneSettled
<1>5. CASE RecoverStale(a)
  <2> DEFINE row == [attempts[a] EXCEPT !.outcome = "UNKNOWN"]
  <2>1. row \in Attempt /\ Update(a, row)
    BY <1>1, <1>5 DEF Attempt, Outcomes, RecoverStale
  <2>2. attempts'[a] = row
    BY <1>1, <2>1, UpdateRow
  <2>3. SameClaim(a) /\ Settles(a)
    BY <1>1, <2>2 DEF SameClaim, Settles, SameEvidence, Attempt
  <2> HIDE DEF row
  <2> QED
    BY <2>1, <2>3, OneSettled
<1> QED
  BY <1>2, <1>3, <1>4, <1>5 DEF ReservationReturns

(* The evidence of readings: only a reading that is due is written, and it  *)
(* never makes an attempt unanswered again.                                 *)
LEMMA EvidenceSettles ==
  ASSUME TypeOK, NEW a \in Ids, ApplyRead(a)
  PROVE  Settled
<1>1. attempts[a] \in Attempt /\ RecordsTypeOK
  BY RowIsAttempt DEF TypeOK
<1>2. Readable(a) /\ attempts[a].outcome # "PENDING"
  BY DEF ApplyRead, ReadSignedOut, ReadPaid, ReadHold, DeferRead, ReadHoldEnded,
     ReadMore, StillReading, Readable
<1>3. ASSUME NEW row \in Attempt, Update(a, row),
             row.cand = attempts[a].cand, row.episode = attempts[a].episode,
             row.source = attempts[a].source, row.version = attempts[a].version,
             row.outcome # "PENDING",
             \/ row.reads = attempts[a].reads
             \/ \E read \in ReadKinds : row.reads = ReadsAfter(a, read)
      PROVE  Settled
  <2>1. attempts'[a] = row
    BY <1>1, <1>3, UpdateRow
  <2>2. SameClaim(a) /\ Settles(a)
    BY <1>2, <1>3, <2>1 DEF SameClaim, Settles
  <2> QED
    BY <1>3, <2>2, OneSettled
<1>4. ASSUME NEW read
      PROVE  /\ Counted(a, read) \in Attempt
             /\ Counted(a, read).cand = attempts[a].cand
             /\ Counted(a, read).episode = attempts[a].episode
             /\ Counted(a, read).source = attempts[a].source
             /\ Counted(a, read).version = attempts[a].version
             /\ Counted(a, read).outcome = attempts[a].outcome
             /\ Counted(a, read).reads = ReadsAfter(a, read)
  <2>1. Counted(a, read) \in Attempt
    BY <1>1, CountedType
  <2> QED
    BY <1>1, <2>1 DEF Counted, Attempt
<1>5. CASE ReadSignedOut(a)
  <2> DEFINE row == [attempts[a] EXCEPT !.conf = "AUTH_REQUIRED",
                                        !.resolution = "none", !.next = FALSE]
  <2>1. row \in Attempt /\ Update(a, row)
    BY <1>1, <1>5 DEF Attempt, Confirmations, Resolutions, ReadSignedOut
  <2>2. /\ row.cand = attempts[a].cand /\ row.episode = attempts[a].episode
        /\ row.source = attempts[a].source /\ row.version = attempts[a].version
        /\ row.outcome = attempts[a].outcome /\ row.reads = attempts[a].reads
    BY <1>1 DEF Attempt
  <2> HIDE DEF row
  <2> QED
    BY <1>2, <1>3, <2>1, <2>2
<1>6. CASE ReadPaid(a)
  BY <1>2, <1>3, <1>4, <1>6 DEF ReadPaid, ReadKinds
<1>7. CASE ReadHold(a)
  <2> DEFINE row == [Counted(a, "hold") EXCEPT !.outcome = "PAYMENT_REQUIRED",
                                               !.deadline = "open",
                                               !.seats = FALSE]
  <2>1. row \in Attempt
    BY <1>4 DEF Attempt, Outcomes
  <2>2. Update(a, row)
    BY <1>7 DEF ReadHold
  <2>3. /\ row.cand = attempts[a].cand /\ row.episode = attempts[a].episode
        /\ row.source = attempts[a].source /\ row.version = attempts[a].version
        /\ row.outcome = "PAYMENT_REQUIRED" /\ row.reads = ReadsAfter(a, "hold")
    BY <1>4 DEF Attempt
  <2> HIDE DEF row
  <2> QED
    BY <1>3, <2>1, <2>2, <2>3 DEF ReadKinds
<1>8. CASE DeferRead(a)
  <2> DEFINE row == [attempts[a] EXCEPT !.next = TRUE]
  <2>1. row \in Attempt /\ Update(a, row)
    BY <1>1, <1>8 DEF Attempt, DeferRead
  <2>2. /\ row.cand = attempts[a].cand /\ row.episode = attempts[a].episode
        /\ row.source = attempts[a].source /\ row.version = attempts[a].version
        /\ row.outcome = attempts[a].outcome /\ row.reads = attempts[a].reads
    BY <1>1 DEF Attempt
  <2> HIDE DEF row
  <2> QED
    BY <1>2, <1>3, <2>1, <2>2
<1>9. ASSUME NEW read \in ReadKinds, ReadHoldEnded(a, read)
      PROVE  Settled
  <2> DEFINE deadline == IF read = "expiredHold" THEN "past"
                         ELSE Counted(a, read).deadline
             row == [Counted(a, read) EXCEPT !.deadline = deadline]
  <2>1. deadline \in {"none", "open", "past"}
    BY <1>4 DEF Attempt
  <2>2. Update(a, row)
    BY <1>9 DEF ReadHoldEnded
  <2> HIDE DEF deadline
  <2>3. row \in Attempt
    BY <1>4, <2>1 DEF Attempt
  <2>4. /\ row.cand = attempts[a].cand /\ row.episode = attempts[a].episode
        /\ row.source = attempts[a].source /\ row.version = attempts[a].version
        /\ row.outcome = attempts[a].outcome /\ row.reads = ReadsAfter(a, read)
    BY <1>4 DEF Attempt
  <2> HIDE DEF row
  <2> QED
    BY <1>2, <1>3, <2>2, <2>3, <2>4
<1>10. ASSUME NEW read \in ReadKinds, ReadMore(a, read)
       PROVE  Settled
  BY <1>2, <1>3, <1>4, <1>10 DEF ReadMore
<1> QED
  BY <1>5, <1>6, <1>7, <1>8, <1>9, <1>10 DEF ApplyRead, ReadKinds

(* Every step claims one attempt, withdraws the newest one, or settles what *)
(* there is.                                                                *)
LEMMA AttemptSteps ==
  ASSUME TypeOK, [Next]_vars
  PROVE  \/ Settled
         \/ \E k \in winners : Claim(k)
         \/ \E a \in Ids : DeferReservation(a)
<1>1. CASE ObservationStep
  <2>1. attempts' = attempts
    BY <1>1 DEF ObservationStep, PrepareBlocked, Prepare, Persist,
       AbandonObservation, records
  <2> QED
    BY <2>1, NothingSettled
<1>2. CASE UseWinner
  <2>1. PICK k \in winners :
          DropWinner(k) \/ ReserveDeparted(k) \/ ReserveSignedOut(k) \/ Claim(k)
    BY <1>2 DEF UseWinner
  <2>2. CASE DropWinner(k) \/ ReserveDeparted(k) \/ ReserveSignedOut(k)
    <3>1. attempts' = attempts
      BY <2>2 DEF DropWinner, ReserveDeparted, ReserveSignedOut, records
    <3> QED
      BY <3>1, NothingSettled
  <2> QED
    BY <2>1, <2>2
<1>3. CASE AttemptStep
  <2>1. PICK a \in Ids : \/ ReservationReturns(a) \/ RecoverStale(a)
                         \/ StartRead(a) \/ ApplyRead(a) \/ DeadlinePasses(a)
    BY <1>3 DEF AttemptStep
  <2>2. CASE StartRead(a)
    BY <2>2, NothingSettled DEF StartRead, records
  <2>3. CASE DeadlinePasses(a)
    <3> DEFINE row == [attempts[a] EXCEPT !.deadline = "past"]
    <3>1. attempts[a] \in Attempt /\ RecordsTypeOK
      BY RowIsAttempt DEF TypeOK
    <3>2. row \in Attempt /\ Update(a, row)
      BY <2>3, <3>1 DEF Attempt, DeadlinePasses
    <3>3. attempts'[a] = row
      BY <3>1, <3>2, UpdateRow
    <3>4. SameClaim(a) /\ Settles(a)
      BY <3>1, <3>3 DEF SameClaim, Settles, SameEvidence, Attempt
    <3> HIDE DEF row
    <3> QED
      BY <3>2, <3>4, OneSettled
  <2> QED
    BY <2>1, <2>2, <2>3, ResultsSettle, EvidenceSettles
<1>4. CASE DropRead
  BY <1>4, NothingSettled DEF DropRead, records
<1>5. CASE OutsideStep
  <2>1. ASSUME NEW version \in Nat, Login(version) PROVE Settled
    <3>1. /\ Ids' = Ids
          /\ \A a \in Ids :
               \/ attempts'[a] = attempts[a]
               \/ /\ attempts[a].version = version
                  /\ attempts'[a] = [attempts[a] EXCEPT !.next = TRUE,
                                                        !.reads = Refunded(a)]
      BY <2>1, LoginAttempts DEF TypeOK
    <3>2. account'.version = version
      BY <2>1 DEF Login, LoggedIn
    <3>3. ASSUME NEW a \in Ids PROVE SameClaim(a) /\ Settles(a)
      <4>1. attempts[a] \in Attempt
        BY RowIsAttempt DEF TypeOK
      <4> QED
        BY <3>1, <3>2, <4>1 DEF SameClaim, Settles, SameEvidence, Attempt
    <3> QED
      BY <3>1, <3>3 DEF Settled
  <2>2. CASE VerifyLogin \/ ReplaceCredentials
    <3>1. account.version \in Nat /\ account.version + 1 \in Nat
      BY DEF TypeOK, RecordsTypeOK
    <3> QED
      BY <2>1, <2>2, <3>1 DEF VerifyLogin, ReplaceCredentials
  <2>3. CASE ~(VerifyLogin \/ ReplaceCredentials)
    <3>1. attempts' = attempts
      BY <1>5, <2>3 DEF OutsideStep, CircuitNotClosed, SignOut, UserStep, Expire,
         Depart, Rearm, records
    <3> QED
      BY <3>1, NothingSettled
  <2> QED
    BY <2>2, <2>3
<1>6. CASE UNCHANGED vars
  BY <1>6, NothingSettled DEF vars
<1> QED
  BY <1>1, <1>2, <1>3, <1>4, <1>5, <1>6 DEF Next

(* A claim adds one attempt after the others.                               *)
LEMMA ClaimAppends ==
  ASSUME TypeOK, NEW k \in winners, Claim(k)
  PROVE  /\ Len(attempts) \in Nat
         /\ Len(attempts') = Len(attempts) + 1
         /\ Ids' = Ids \cup {Len(attempts) + 1}
         /\ \A a \in Ids : attempts'[a] = attempts[a]
         /\ attempts'[Len(attempts) + 1] = NewAttempt(k)
<1>1. /\ attempts \in Seq(Attempt)
      /\ NewAttempt(k) \in Attempt
      /\ attempts' = Append(attempts, NewAttempt(k))
  BY NewAttemptType DEF TypeOK, RecordsTypeOK, Claim
<1>2. Len(attempts) \in Nat
  BY <1>1, LenProperties
<1> QED
  BY <1>1, <1>2, AppendProperties DEF Ids

(* A deferral withdraws the newest attempt, which nothing has settled.      *)
LEMMA DeferralWithdraws ==
  ASSUME TypeOK, NEW a \in Ids, DeferReservation(a)
  PROVE  /\ Len(attempts) \in Nat
         /\ Len(attempts') = Len(attempts) - 1
         /\ Ids' = Ids \ {a}
         /\ \A b \in Ids' : attempts'[b] = attempts[b]
         /\ attempts[a].outcome = "PENDING"
         /\ SameCredentials(a)
<1>1. Len(attempts) \in Nat
  BY LenProperties DEF TypeOK, RecordsTypeOK
<1>2. /\ a = Len(attempts)
      /\ attempts' = SubSeq(attempts, 1, a - 1)
      /\ attempts[a].outcome = "PENDING"
      /\ SameCredentials(a)
  BY DEF DeferReservation, StillClaimed
<1>3. \A i \in 1..(a - 1) : attempts[i] \in Attempt
  BY <1>1, <1>2, RowIsAttempt DEF TypeOK, Ids
<1>4. /\ Len(attempts') = a - 1
      /\ \A i \in 1..(a - 1) : attempts'[i] = attempts[i]
  BY <1>1, <1>2, <1>3, SubSeqProperties DEF Ids
<1> QED
  BY <1>1, <1>2, <1>4 DEF Ids

-----------------------------------------------------------------------------
(* Proof of payment is final. An unanswered attempt has no evidence yet, so *)
(* that neither its result nor its withdrawal can lose any.                 *)

PendingUnread ==
    \A a \in Ids : attempts[a].outcome = "PENDING" => attempts[a].conf = "none"

(* No transaction leaves an unanswered attempt with evidence.               *)
LEMMA PendingUnreadStep ==
  TypeOK /\ PendingUnread /\ [Next]_vars => PendingUnread'
<1> SUFFICES ASSUME TypeOK, PendingUnread, [Next]_vars PROVE PendingUnread'
  OBVIOUS
<1>1. CASE Settled
  BY <1>1 DEF Settled, Settles, SameEvidence, PendingUnread
<1>2. ASSUME NEW k \in winners, Claim(k) PROVE PendingUnread'
  <2>1. NewAttempt(k).conf = "none"
    BY DEF NewAttempt
  <2> QED
    BY <1>2, <2>1, ClaimAppends DEF PendingUnread
<1>3. ASSUME NEW a \in Ids, DeferReservation(a) PROVE PendingUnread'
  BY <1>3, DeferralWithdraws DEF PendingUnread
<1> QED
  BY <1>1, <1>2, <1>3, AttemptSteps

(* An unanswered attempt never has evidence.                                *)
THEOREM PendingUnreadHolds == Spec => [](TypeOK /\ PendingUnread)
<1>1. Init => TypeOK /\ PendingUnread
  <2>1. ASSUME Init PROVE Ids = {}
    BY <2>1, EmptySeq DEF Init, Ids
  <2> QED
    BY <2>1, TypeInit DEF PendingUnread
<1>2. TypeOK /\ PendingUnread /\ [Next]_vars => (TypeOK /\ PendingUnread)'
  BY TypeStep, PendingUnreadStep
<1> QED
  BY <1>1, <1>2, PTL DEF Spec

(* Exact proof of payment is never overwritten or deleted, and nothing is   *)
(* sent after it, for any number of candidates, attempts and readings.      *)
THEOREM PaidStaysFinal == Spec => PaidIsFinal
<1> DEFINE Final == \A a \in Ids : Paid(a) =>
                      /\ a \in Ids' /\ Paid(a)'
                      /\ Len(attempts') <= Len(attempts)
<1>1. ASSUME TypeOK, PendingUnread, [Next]_vars PROVE Final
  <2> SUFFICES ASSUME NEW a \in Ids, attempts[a].conf = "CONFIRMED_PAID"
               PROVE  /\ a \in Ids' /\ attempts'[a].conf = "CONFIRMED_PAID"
                      /\ Len(attempts') <= Len(attempts)
    BY DEF Paid
  <2>1. ExactPaid # {} /\ attempts[a].outcome # "PENDING"
    BY <1>1 DEF ExactPaid, PendingUnread
  <2>2. CASE Settled
    <3>1. a \in Ids' /\ attempts'[a].conf = "CONFIRMED_PAID"
      BY <2>1, <2>2 DEF Settled, Settles, SameEvidence, Readable
    <3>2. Len(attempts) \in Nat /\ Len(attempts') \in Nat
      BY <1>1, TypeStep, LenProperties DEF TypeOK, RecordsTypeOK
    <3>3. Len(attempts') = Len(attempts)
      BY <2>2, <3>2 DEF Settled, Ids
    <3> QED
      BY <3>1, <3>2, <3>3
  <2>3. ASSUME NEW k \in winners, Claim(k) PROVE FALSE
    BY <2>1, <2>3 DEF Claim, Authorized, Unfenced
  <2>4. ASSUME NEW b \in Ids, DeferReservation(b)
        PROVE  /\ a \in Ids' /\ attempts'[a].conf = "CONFIRMED_PAID"
               /\ Len(attempts') <= Len(attempts)
    <3>1. a # b
      BY <1>1, <2>1, <2>4, DeferralWithdraws
    <3> QED
      BY <1>1, <2>4, <3>1, DeferralWithdraws
  <2> QED
    BY <1>1, <2>2, <2>3, <2>4, AttemptSteps
<1>2. TypeOK /\ PendingUnread /\ [Next]_vars => [Final]_vars
  BY <1>1
<1> QED
  BY PendingUnreadHolds, <1>2, PTL DEF Spec, PaidIsFinal

-----------------------------------------------------------------------------
(* New credentials fence the attempts of the old ones. Versions only go up, *)
(* and every attempt was claimed under a version the account has had.       *)

VersionsKnown ==
    \A a \in Ids : attempts[a].version \in Nat /\ attempts[a].version <= account.version

(* A step leaves the credentials alone or replaces them by the next ones.   *)
LEMMA VersionStep ==
  ASSUME TypeOK, [Next]_vars
  PROVE  account'.version \in {account.version, account.version + 1}
<1>1. \A answer : AccountAfter(answer) => account'.version = account.version
  BY DEF AccountAfter, SignedOut, LoggedIn, TypeOK, RecordsTypeOK
<1>2. SignedOut => account'.version = account.version
  BY DEF SignedOut, TypeOK, RecordsTypeOK
<1>3. CASE ObservationStep
  BY <1>3 DEF ObservationStep, PrepareBlocked, Prepare, Persist,
     AbandonObservation, records
<1>4. CASE UseWinner
  BY <1>4 DEF UseWinner, DropWinner, ReserveDeparted, ReserveSignedOut, Claim, records
<1>5. ASSUME NEW a \in Ids, ReservationReturns(a) \/ RecoverStale(a)
      PROVE  account'.version = account.version
  BY <1>1, <1>5 DEF ReservationReturns, LoseResult, DeferReservation,
     FinishReservation, FenceLateResult, RecoverStale
<1>6. ASSUME NEW a \in Ids, StartRead(a) \/ ApplyRead(a) \/ DeadlinePasses(a)
      PROVE  account'.version = account.version
  BY <1>2, <1>6 DEF StartRead, ApplyRead, ReadSignedOut, ReadPaid, ReadHold,
     DeferRead, ReadHoldEnded, ReadMore, DeadlinePasses, records
<1>7. CASE DropRead
  BY <1>7 DEF DropRead, records
<1>8. CASE OutsideStep
  BY <1>2, <1>8 DEF OutsideStep, CircuitNotClosed, VerifyLogin, ReplaceCredentials,
     Login, LoggedIn, SignOut, UserStep, Expire, Depart, Rearm, records
<1>9. CASE UNCHANGED vars
  BY <1>9 DEF vars
<1> QED
  BY <1>3, <1>4, <1>5, <1>6, <1>7, <1>8, <1>9 DEF Next, AttemptStep

(* No transaction gives an attempt credentials the account has not had.     *)
LEMMA VersionsKnownStep ==
  TypeOK /\ VersionsKnown /\ [Next]_vars => VersionsKnown'
<1> SUFFICES ASSUME TypeOK, VersionsKnown, [Next]_vars PROVE VersionsKnown'
  OBVIOUS
<1>1. account.version \in Nat /\ account'.version \in {account.version, account.version + 1}
  BY VersionStep DEF TypeOK, RecordsTypeOK
<1>2. CASE Settled
  BY <1>1, <1>2 DEF Settled, SameClaim, VersionsKnown
<1>3. ASSUME NEW k \in winners, Claim(k) PROVE VersionsKnown'
  <2>1. NewAttempt(k).version = account.version
    BY DEF NewAttempt
  <2> QED
    BY <1>1, <1>3, <2>1, ClaimAppends DEF VersionsKnown
<1>4. ASSUME NEW a \in Ids, DeferReservation(a) PROVE VersionsKnown'
  BY <1>1, <1>4, DeferralWithdraws DEF VersionsKnown
<1> QED
  BY <1>2, <1>3, <1>4, AttemptSteps

(* Every attempt was claimed under a version the account has had.           *)
THEOREM VersionsKnownHolds == Spec => [](TypeOK /\ VersionsKnown)
<1>1. Init => TypeOK /\ VersionsKnown
  <2>1. ASSUME Init PROVE Ids = {}
    BY <2>1, EmptySeq DEF Init, Ids
  <2> QED
    BY <2>1, TypeInit DEF VersionsKnown
<1>2. TypeOK /\ VersionsKnown /\ [Next]_vars => (TypeOK /\ VersionsKnown)'
  BY TypeStep, VersionsKnownStep
<1> QED
  BY <1>1, <1>2, PTL DEF Spec

(* After a login with new credentials no result or reading of the old ones  *)
(* is written; their claims can only become UNKNOWN.                        *)
THEOREM OldCredentialsAreFenced == Spec => OldCredentialsSettleNothing
<1> DEFINE Fenced == \A a \in Ids :
             attempts[a].version # account.version =>
               /\ a \in Ids'
               /\ attempts'[a].conf = attempts[a].conf
               /\ attempts'[a].reads = attempts[a].reads
               /\ attempts'[a].outcome # attempts[a].outcome =>
                    attempts'[a].outcome = "UNKNOWN"
<1>1. ASSUME TypeOK, VersionsKnown, [Next]_vars PROVE Fenced
  <2> SUFFICES ASSUME NEW a \in Ids, attempts[a].version # account.version
               PROVE  /\ a \in Ids'
                      /\ attempts'[a].conf = attempts[a].conf
                      /\ attempts'[a].reads = attempts[a].reads
                      /\ attempts'[a].outcome # attempts[a].outcome =>
                           attempts'[a].outcome = "UNKNOWN"
    OBVIOUS
  <2>1. CASE Settled
    <3>1. attempts[a].version # account'.version
      BY <1>1, VersionStep DEF VersionsKnown, TypeOK, RecordsTypeOK
    <3>2. ~ SameCredentials(a) /\ ~ Readable(a)
      BY DEF SameCredentials, Readable
    <3> QED
      BY <2>1, <3>1, <3>2 DEF Settled, Settles, SameEvidence
  <2>2. ASSUME NEW k \in winners, Claim(k)
        PROVE  a \in Ids' /\ attempts'[a] = attempts[a]
    BY <1>1, <2>2, ClaimAppends
  <2>3. ASSUME NEW b \in Ids, DeferReservation(b)
        PROVE  a \in Ids' /\ attempts'[a] = attempts[a]
    <3>1. a # b
      BY <1>1, <2>3, DeferralWithdraws DEF SameCredentials
    <3> QED
      BY <1>1, <2>3, <3>1, DeferralWithdraws
  <2> QED
    BY <1>1, <2>1, <2>2, <2>3, AttemptSteps
<1>2. TypeOK /\ VersionsKnown /\ [Next]_vars => [Fenced]_vars
  BY <1>1
<1> QED
  BY VersionsKnownHolds, <1>2, PTL DEF Spec, OldCredentialsSettleNothing

-----------------------------------------------------------------------------
(* An UNKNOWN attempt is recovered from once. A recovery follows the newest *)
(* attempt of its candidate and is itself newer: whatever a second recovery *)
(* of that attempt would follow is not the newest any more.                 *)

(* A claim of a recovery follows the newest attempt of its candidate.       *)
LEMMA RecoveryFollowsLatest ==
  ASSUME NEW k, Authorized(k), k.episode \in RecoveryEpisodes
  PROVE  Latest(k.cand) # 0 /\ k.source = Latest(k.cand)
BY DEF Authorized, Follows, RecoveryEpisodes

(* Nothing recovers yet from what an authorized recovery follows, which is  *)
(* an attempt of the same candidate.                                        *)
LEMMA RecoveryIsFirst ==
  ASSUME TypeOK, OneRecoveryPerUnknown, NEW k \in Key, Authorized(k),
         k.episode \in RecoveryEpisodes
  PROVE  /\ k.source \in Ids
         /\ attempts[k.source].cand = k.cand
         /\ \A b \in Ids : ~ (/\ attempts[b].episode \in RecoveryEpisodes
                             /\ attempts[b].source = k.source)
<1>1. k.cand \in Cand
  BY DEF Key
<1>2. Latest(k.cand) # 0 /\ k.source = Latest(k.cand)
  BY RecoveryFollowsLatest
<1>3. /\ k.source \in OfCandidate(k.cand)
      /\ \A a \in OfCandidate(k.cand) : a <= k.source
  BY <1>1, <1>2, LatestIsNewest DEF TypeOK, RecordsTypeOK
<1>4. ASSUME NEW b \in Ids, attempts[b].episode \in RecoveryEpisodes,
             attempts[b].source = k.source
      PROVE  FALSE
  <2>1. k.source \in 1..(b - 1) /\ attempts[b].cand = k.cand
    BY <1>3, <1>4 DEF OneRecoveryPerUnknown, OfCandidate
  <2>2. b <= k.source
    BY <1>3, <2>1 DEF OfCandidate
  <2>3. b \in Nat
    BY LenProperties DEF TypeOK, RecordsTypeOK, Ids
  <2> QED
    BY <2>1, <2>2, <2>3
<1> QED
  BY <1>3, <1>4 DEF OfCandidate

(* Every step keeps recoveries unique.                                      *)
LEMMA RecoveryStep ==
  TypeOK /\ OneRecoveryPerUnknown /\ [Next]_vars => OneRecoveryPerUnknown'
<1> SUFFICES ASSUME TypeOK, OneRecoveryPerUnknown, [Next]_vars
             PROVE  OneRecoveryPerUnknown'
  OBVIOUS
<1>1. CASE Settled
  <2>1. \A a \in Ids : a \in Nat
    BY LenProperties DEF TypeOK, RecordsTypeOK, Ids
  <2>2. \A a \in Ids : \A s \in 1..(a - 1) : s \in Ids
    BY LenProperties DEF TypeOK, RecordsTypeOK, Ids
  <2> QED
    BY <1>1, <2>1, <2>2 DEF Settled, SameClaim, OneRecoveryPerUnknown
<1>2. ASSUME NEW k \in winners, Claim(k) PROVE OneRecoveryPerUnknown'
  <2> DEFINE new == Len(attempts) + 1
  <2>1. /\ Len(attempts) \in Nat
        /\ Ids' = Ids \cup {new}
        /\ \A a \in Ids : attempts'[a] = attempts[a]
        /\ attempts'[new] = NewAttempt(k)
    BY <1>2, ClaimAppends
  <2>2. /\ NewAttempt(k).cand = k.cand
        /\ NewAttempt(k).episode = k.episode
        /\ NewAttempt(k).source = k.source
    BY DEF NewAttempt
  <2>3. \A a \in Ids : a \in 1..Len(attempts) /\ \A s \in 1..(a - 1) : s \in Ids
    BY <2>1 DEF Ids
  <2>4. ASSUME k.episode \in RecoveryEpisodes
        PROVE  /\ k.source \in Ids
               /\ attempts[k.source].cand = k.cand
               /\ \A b \in Ids : ~ (/\ attempts[b].episode \in RecoveryEpisodes
                                   /\ attempts[b].source = k.source)
    BY <1>2, <2>4, RecoveryIsFirst DEF Claim, TypeOK
  <2>5. ASSUME NEW a \in Ids', NEW b \in Ids',
               attempts'[a].episode \in RecoveryEpisodes
        PROVE  /\ attempts'[a].source \in 1..(a - 1)
               /\ attempts'[attempts'[a].source].cand = attempts'[a].cand
               /\ (/\ attempts'[b].episode \in RecoveryEpisodes
                   /\ attempts'[b].source = attempts'[a].source) => a = b
    <3> HIDE DEF new
    <3>1. CASE a \in Ids
      <4>1. /\ attempts[a].source \in 1..(a - 1)
            /\ attempts[attempts[a].source].cand = attempts[a].cand
            /\ attempts[a].source \in Ids
        BY <2>1, <2>3, <2>5, <3>1 DEF OneRecoveryPerUnknown
      <4>2. CASE b \in Ids
        BY <2>1, <2>5, <3>1, <4>1, <4>2 DEF OneRecoveryPerUnknown
      <4>3. CASE b = new
        BY <2>1, <2>2, <2>4, <2>5, <3>1, <4>1, <4>3
      <4> QED
        BY <2>1, <2>5, <4>2, <4>3
    <3>2. CASE a = new
      <4>1. k.episode \in RecoveryEpisodes
        BY <2>1, <2>2, <2>5, <3>2
      <4>2. k.source \in 1..(new - 1)
        BY <2>1, <2>3, <2>4, <4>1 DEF new
      <4> QED
        BY <2>1, <2>2, <2>4, <2>5, <3>2, <4>1, <4>2
    <3> QED
      BY <2>1, <2>5, <3>1, <3>2
  <2> QED
    BY <2>5 DEF OneRecoveryPerUnknown
<1>3. ASSUME NEW a \in Ids, DeferReservation(a) PROVE OneRecoveryPerUnknown'
  <2>1. /\ Len(attempts) \in Nat
        /\ Len(attempts') = Len(attempts) - 1
        /\ Ids' = Ids \ {a}
        /\ \A b \in Ids' : attempts'[b] = attempts[b]
    BY <1>3, DeferralWithdraws
  <2>2. \A b \in Ids' : b \in Ids /\ \A s \in 1..(b - 1) : s \in Ids'
    BY <2>1 DEF Ids
  <2> QED
    BY <2>1, <2>2 DEF OneRecoveryPerUnknown
<1> QED
  BY <1>1, <1>2, <1>3, AttemptSteps

(* Each UNKNOWN attempt authorizes one recovery, once, on its own           *)
(* candidate, however long the watch lives and however many observations,   *)
(* readings and rearms name winners at the same time.                       *)
THEOREM RecoveryIsUnique == Spec => []OneRecoveryPerUnknown
<1>1. Init => OneRecoveryPerUnknown
  <2>1. ASSUME Init PROVE Ids = {}
    BY <2>1, EmptySeq DEF Init, Ids
  <2> QED
    BY <2>1 DEF OneRecoveryPerUnknown
<1>2. TypeOK /\ OneRecoveryPerUnknown /\ [Next]_vars => OneRecoveryPerUnknown'
  BY RecoveryStep
<1> QED
  BY FenceTypeCorrect, <1>1, <1>2, PTL DEF Spec

-----------------------------------------------------------------------------
(* Readings fit their budget. An attempt never has more readings than the   *)
(* larger of the two limits, whatever it was when they were made.           *)

ReadsBounded == \A a \in Ids : attempts[a].reads \in 0..HoldLimit

(* What is due fits the budget of what the attempt is now: an attempt that  *)
(* is due has a reading left, or the reading after the deadline is free.    *)
LEMMA DueFitsBudget ==
  ASSUME RecordsTypeOK, ReadsBounded, NEW a \in Ids, Readable(a), NEW read
  PROVE  ReadsAfter(a, read) <= ReadLimit(a)
<1> USE BudgetAssumption
<1>1. attempts[a].reads \in 0..HoldLimit
  BY DEF ReadsBounded
<1>2. CASE attempts[a].outcome = "UNKNOWN"
  BY <1>1, <1>2 DEF Readable, IsDue, ReadsAfter, FinalRead, ReadLimit
<1>3. CASE attempts[a].outcome # "UNKNOWN"
  <2>1. attempts[a].outcome = "PAYMENT_REQUIRED" /\ ReadLimit(a) = HoldLimit
    BY <1>3 DEF Readable, ReadLimit
  <2>2. CASE FinalRead(a)
    BY <1>1, <2>1, <2>2 DEF ReadsAfter, LegacyCleanup
  <2>3. CASE ~FinalRead(a)
    <3>1. attempts[a].reads < HoldLimit
      BY <1>1, <2>1, <2>3 DEF Readable, IsDue, BoundedFollowUp, FinalRead
    <3> QED
      BY <1>1, <2>1, <2>3, <3>1 DEF ReadsAfter
  <2> QED
    BY <2>2, <2>3
<1> QED
  BY <1>2, <1>3

(* Every step keeps the number of readings within the limits.               *)
LEMMA ReadsBoundedStep ==
  TypeOK /\ ReadsBounded /\ [Next]_vars => ReadsBounded'
<1> SUFFICES ASSUME TypeOK, ReadsBounded, [Next]_vars PROVE ReadsBounded'
  OBVIOUS
<1> USE BudgetAssumption
<1>1. CASE Settled
  <2> SUFFICES ASSUME NEW a \in Ids PROVE attempts'[a].reads \in 0..HoldLimit
    BY <1>1 DEF Settled, ReadsBounded
  <2>1. attempts[a].reads \in 0..HoldLimit
    BY DEF ReadsBounded
  <2>2. CASE attempts'[a].reads = attempts[a].reads
    BY <2>1, <2>2
  <2>3. ASSUME Readable(a), NEW read, attempts'[a].reads = ReadsAfter(a, read)
        PROVE  attempts'[a].reads \in 0..HoldLimit
    <3>1. ReadsAfter(a, read) \in Nat /\ ReadsAfter(a, read) <= ReadLimit(a)
      BY <2>3, DueFitsBudget, ReadsAfterType DEF TypeOK
    <3> QED
      BY <2>3, <3>1 DEF ReadLimit
  <2>4. CASE attempts'[a].reads = Refunded(a)
    BY <2>1, <2>4 DEF Refunded
  <2> QED
    BY <1>1, <2>2, <2>3, <2>4 DEF Settled, Settles, SameEvidence
<1>2. ASSUME NEW k \in winners, Claim(k) PROVE ReadsBounded'
  <2>1. NewAttempt(k).reads = 0
    BY DEF NewAttempt
  <2> QED
    BY <1>2, <2>1, ClaimAppends DEF ReadsBounded
<1>3. ASSUME NEW a \in Ids, DeferReservation(a) PROVE ReadsBounded'
  BY <1>3, DeferralWithdraws DEF ReadsBounded
<1> QED
  BY <1>1, <1>2, <1>3, AttemptSteps

(* A reading that is due still fits the budget when its evidence is         *)
(* written, for all limits in the order of the real ones: the RuntimeError  *)
(* of apply_reservation_reconciliation is unreachable.                      *)
THEOREM ReadingsFitBudget == Spec => []ReadFitsBudget
<1>1. Init => ReadsBounded
  <2>1. ASSUME Init PROVE Ids = {}
    BY <2>1, EmptySeq DEF Init, Ids
  <2> QED
    BY <2>1 DEF ReadsBounded
<1>2. TypeOK /\ ReadsBounded /\ [Next]_vars => ReadsBounded'
  BY ReadsBoundedStep
<1>3. TypeOK /\ ReadsBounded => ReadFitsBudget
  BY DueFitsBudget DEF ReadFitsBudget, StillReading, TypeOK
<1> QED
  BY FenceTypeCorrect, <1>1, <1>2, <1>3, PTL DEF Spec

-----------------------------------------------------------------------------
(* Holds. A final reading closes a hold for good: it has had its readings,  *)
(* and its deadline has passed if the official list still showed it. Only a *)
(* closed hold with such evidence can be an ended one, and a closed hold is *)
(* read again only to settle that evidence.                                 *)

ClosedHold(a) ==
    /\ a \in Ids
    /\ attempts[a].outcome = "PAYMENT_REQUIRED"
    /\ attempts[a].reads >= FinalMin
    /\ attempts[a].conf = "CONFIRMED_PAYMENT_REQUIRED" =>
         attempts[a].deadline = "past"

PostedAreClosed == \A i \in 1..Len(posted) : ClosedHold(posted[i].hold)

(* The step in which official evidence ends the hold of a.                  *)
Ending(a) == \E read \in ReadKinds : ReadHoldEnded(a, read)

(* A step in which the watch gets a hold.                                   *)
NewHold(a) == FinishReservation(a, "hold") \/ ReadHold(a)

(* A hold that may still be paid stays one until it is ended.               *)
LiveKept ==
    \A a \in Ids : IsLiveHold(a) =>
      \/ a \in Ids' /\ attempts'[a].cand = attempts[a].cand /\ IsLiveHold(a)'
      \/ Ending(a)

HoldsKept == PostedAreClosed' /\ LiveKept

(* A closed hold is closed and an ended one is closed: the fence can be     *)
(* read off the evidence.                                                   *)
LEMMA LiveUnlessClosed ==
  ASSUME NEW a, attempts[a].outcome = "PAYMENT_REQUIRED",
         Posted(a) => /\ attempts[a].conf # "NOT_FOUND"
                      /\ attempts[a].conf # "CONFIRMED_PAYMENT_REQUIRED"
  PROVE  IsLiveHold(a)
BY DEF IsLiveHold, IsPaymentHoldEnded

(* Closing a hold adds it to the closed ones.                               *)
LEMMA PostedGrows ==
  ASSUME TypeOK, NEW a \in Ids,
         \/ posted' = posted
         \/ posted' = Append(posted, [hold |-> a, at |-> Len(attempts)])
  PROVE  /\ \A b : Posted(b)' => Posted(b) \/ (posted' # posted /\ b = a)
         /\ \A i \in 1..Len(posted') :
              \/ posted' # posted /\ posted'[i].hold = a
              \/ i \in 1..Len(posted) /\ posted'[i] = posted[i]
<1>1. CASE posted' = posted
  BY <1>1 DEF Posted
<1>2. CASE posted' = Append(posted, [hold |-> a, at |-> Len(attempts)])
  <2> DEFINE end == [hold |-> a, at |-> Len(attempts)]
  <2>1. posted \in Seq(PostedRows) /\ end \in PostedRows /\ Len(posted) \in Nat
    BY LenProperties DEF TypeOK, RecordsTypeOK, PostedRows, Ids
  <2> HIDE DEF end
  <2>2. /\ Len(posted') = Len(posted) + 1
        /\ \A i \in 1..Len(posted) : posted'[i] = posted[i]
        /\ posted'[Len(posted) + 1] = end
    BY <1>2, <2>1, AppendProperties DEF end
  <2>3. posted' # posted
    BY <2>1, <2>2
  <2>4. end.hold = a
    BY DEF end
  <2>5. \A i \in 1..Len(posted') : i \in 1..Len(posted) \/ i = Len(posted) + 1
    BY <2>1, <2>2
  <2> QED
    BY <2>2, <2>3, <2>4, <2>5 DEF Posted
<1> QED
  BY <1>1, <1>2

(* A step that leaves the attempts and the closed holds alone keeps the     *)
(* holds.                                                                   *)
LEMMA NothingLost ==
  ASSUME PostedAreClosed, attempts' = attempts, posted' = posted
  PROVE  HoldsKept
BY DEF HoldsKept, PostedAreClosed, ClosedHold, LiveKept, IsLiveHold,
   IsPaymentHoldEnded, Posted, Ids

(* A step that writes one attempt keeps the holds if a hold stays one, if   *)
(* what is closed has the evidence of a closed hold, and if a closed hold   *)
(* gets evidence of its end only where it ends.                             *)
LEMMA OneHold ==
  ASSUME TypeOK, PostedAreClosed, NEW a \in Ids, NEW row \in Attempt,
         Update(a, row), row.cand = attempts[a].cand,
         \/ posted' = posted
         \/ posted' = Append(posted, [hold |-> a, at |-> Len(attempts)]),
         attempts[a].outcome = "PAYMENT_REQUIRED" => row.outcome = "PAYMENT_REQUIRED",
         Posted(a) \/ posted' # posted =>
           /\ row.outcome = "PAYMENT_REQUIRED"
           /\ row.reads >= FinalMin
           /\ row.conf = "CONFIRMED_PAYMENT_REQUIRED" => row.deadline = "past",
         IsLiveHold(a) /\ (Posted(a) \/ posted' # posted) =>
           \/ row.conf # "NOT_FOUND" /\ row.conf # "CONFIRMED_PAYMENT_REQUIRED"
           \/ Ending(a)
  PROVE  HoldsKept
<1>1. /\ Ids' = Ids
      /\ attempts'[a] = row
      /\ \A b \in Ids \ {a} : attempts'[b] = attempts[b]
  BY UpdateRow DEF TypeOK
<1>2. PostedAreClosed'
  <2> SUFFICES ASSUME NEW i \in 1..Len(posted') PROVE ClosedHold(posted[i].hold)'
    BY DEF PostedAreClosed
  <2>1. CASE posted'[i].hold = a /\ (Posted(a) \/ posted' # posted)
    BY <1>1, <2>1 DEF ClosedHold
  <2>2. CASE i \in 1..Len(posted) /\ posted'[i] = posted[i] /\ posted[i].hold # a
    <3>1. ClosedHold(posted[i].hold)
      BY <2>2 DEF PostedAreClosed
    <3> QED
      BY <1>1, <2>2, <3>1 DEF ClosedHold
  <2> QED
    BY <2>1, <2>2, PostedGrows DEF Posted
<1>3. ASSUME NEW b \in Ids, IsLiveHold(b), ~Ending(b)
      PROVE  b \in Ids' /\ attempts'[b].cand = attempts[b].cand /\ IsLiveHold(b)'
  <2>1. CASE b = a
    <3>1. attempts'[a].outcome = "PAYMENT_REQUIRED"
      BY <1>1, <1>3, <2>1 DEF IsLiveHold
    <3>2. Posted(a)' => /\ attempts'[a].conf # "NOT_FOUND"
                        /\ attempts'[a].conf # "CONFIRMED_PAYMENT_REQUIRED"
      BY <1>1, <1>3, <2>1, PostedGrows
    <3>3. IsLiveHold(a)'
      BY <3>1, <3>2 DEF IsLiveHold, IsPaymentHoldEnded
    <3> QED
      BY <1>1, <2>1, <3>3
  <2>2. CASE b # a
    <3>1. Posted(b)' => Posted(b)
      BY <2>2, PostedGrows
    <3> QED
      BY <1>1, <1>3, <2>2, <3>1 DEF IsLiveHold, IsPaymentHoldEnded
  <2> QED
    BY <2>1, <2>2
<1> QED
  BY <1>2, <1>3 DEF HoldsKept, LiveKept

(* A closed hold that is due is an ended one: its reading is the second one *)
(* a legacy row gets, and it is final.                                      *)
LEMMA ClosedIsReadFinally ==
  ASSUME TypeOK, PostedAreClosed, NEW a \in Ids, Posted(a), Readable(a)
  PROVE  /\ FinalRead(a)
         /\ attempts[a].conf = "CONFIRMED_PAYMENT_REQUIRED"
         /\ attempts[a].deadline = "past"
         /\ ~IsLiveHold(a)
<1>1. ClosedHold(a)
  BY DEF Posted, PostedAreClosed
<1>2. attempts[a].reads \in Nat /\ FinalMin \in Nat
  BY RowIsAttempt, BudgetAssumption DEF TypeOK, Attempt
<1>3. ~ (attempts[a].reads < FinalMin)
  BY <1>1, <1>2 DEF ClosedHold
<1>4. /\ attempts[a].outcome = "PAYMENT_REQUIRED"
      /\ watch.status = "PAYMENT_REQUIRED"
      /\ LegacyCleanup(a)
      /\ WatchDeadline = "past"
  BY <1>1, <1>3 DEF Readable, IsDue, BoundedFollowUp, ClosedHold
<1> QED
  BY <1>1, <1>4 DEF FinalRead, ClosedHold, LegacyCleanup, IsLiveHold, IsPaymentHoldEnded

(* Calls keep the holds: a result is written to what was not one.           *)
LEMMA ResultsKeepHolds ==
  ASSUME TypeOK, PostedAreClosed, NEW a \in Ids,
         ReservationReturns(a) \/ RecoverStale(a)
  PROVE  HoldsKept
<1>1. attempts[a] \in Attempt /\ RecordsTypeOK
  BY RowIsAttempt DEF TypeOK
<1>2. Posted(a) => ClosedHold(a)
  BY DEF Posted, PostedAreClosed
<1>3. CASE LoseResult(a)
  <2> DEFINE row == [attempts[a] EXCEPT !.io = FALSE]
  <2>1. row \in Attempt /\ Update(a, row) /\ posted' = posted
    BY <1>1, <1>3 DEF Attempt, LoseResult
  <2>2. /\ row.cand = attempts[a].cand /\ row.outcome = attempts[a].outcome
        /\ row.conf = attempts[a].conf /\ row.reads = attempts[a].reads
        /\ row.deadline = attempts[a].deadline
    BY <1>1 DEF Attempt
  <2> HIDE DEF row
  <2> QED
    BY <1>2, <2>1, <2>2, OneHold DEF ClosedHold, IsLiveHold, IsPaymentHoldEnded
<1>4. CASE DeferReservation(a)
  <2>1. /\ Ids' = Ids \ {a}
        /\ \A b \in Ids' : attempts'[b] = attempts[b]
        /\ attempts[a].outcome = "PENDING"
        /\ posted' = posted
    BY <1>4, DeferralWithdraws DEF DeferReservation
  <2>2. PostedAreClosed'
    BY <2>1 DEF PostedAreClosed, ClosedHold
  <2>3. LiveKept
    BY <2>1 DEF LiveKept, IsLiveHold, IsPaymentHoldEnded, Posted
  <2> QED
    BY <2>2, <2>3 DEF HoldsKept
<1>5. ASSUME NEW answer \in Answers, FinishReservation(a, answer)
      PROVE  HoldsKept
  <2>1. /\ Returned(a, answer) \in Attempt
        /\ Update(a, Returned(a, answer))
        /\ posted' = posted
        /\ attempts[a].outcome = "PENDING"
    BY <1>1, <1>5, ReturnedType DEF FinishReservation, StillClaimed
  <2>2. Returned(a, answer).cand = attempts[a].cand
    BY <1>1 DEF Returned, Attempt
  <2>3. ~Posted(a) /\ ~IsLiveHold(a)
    BY <1>2, <2>1 DEF ClosedHold, IsLiveHold
  <2> QED
    BY <2>1, <2>2, <2>3, OneHold
<1>6. ASSUME NEW answer \in Answers, FenceLateResult(a, answer)
      PROVE  HoldsKept
  <2> DEFINE row == [attempts[a] EXCEPT
         !.io = FALSE,
         !.outcome = IF @ = "PENDING" THEN "UNKNOWN" ELSE @,
         !.conf = IF attempts[a].outcome = "PENDING" \/ answer = "paid"
                  THEN ResultConfirmation(answer) ELSE @,
         !.seats = IF attempts[a].outcome = "PENDING"
                   THEN answer \in SeatAnswers ELSE @,
         !.next = @ /\ answer # "paid",
         !.resolution = IF answer = "paid" THEN "none" ELSE @]
  <2>1. Update(a, row) /\ posted' = posted
    BY <1>6, Zenon DEF FenceLateResult
  <2>2. row \in Attempt
    BY <1>1, LateRowType
  <2>3. /\ row.cand = attempts[a].cand
        /\ row.outcome = IF attempts[a].outcome = "PENDING" THEN "UNKNOWN"
                         ELSE attempts[a].outcome
        /\ row.conf = IF attempts[a].outcome = "PENDING" \/ answer = "paid"
                      THEN ResultConfirmation(answer) ELSE attempts[a].conf
        /\ row.reads = attempts[a].reads
        /\ row.deadline = attempts[a].deadline
    BY <1>1 DEF Attempt
  <2>4. ResultConfirmation("paid") = "CONFIRMED_PAID"
    BY DEF ResultConfirmation
  <2> HIDE DEF row
  <2> QED
    BY <1>2, <2>1, <2>2, <2>3, <2>4, OneHold
    DEF ClosedHold, IsLiveHold, IsPaymentHoldEnded
<1>7. CASE RecoverStale(a)
  <2> DEFINE row == [attempts[a] EXCEPT !.outcome = "UNKNOWN"]
  <2>1. /\ row \in Attempt /\ Update(a, row) /\ posted' = posted
        /\ attempts[a].outcome = "PENDING"
    BY <1>1, <1>7 DEF Attempt, Outcomes, RecoverStale
  <2>2. row.cand = attempts[a].cand
    BY <1>1 DEF Attempt
  <2>3. ~Posted(a) /\ ~IsLiveHold(a)
    BY <1>2, <2>1 DEF ClosedHold, IsLiveHold
  <2> HIDE DEF row
  <2> QED
    BY <2>1, <2>2, <2>3, OneHold
<1> QED
  BY <1>3, <1>4, <1>5, <1>6, <1>7 DEF ReservationReturns

(* Readings keep the holds: the one that ends a hold says so, and a closed  *)
(* hold is never shown again.                                               *)
LEMMA ReadingsKeepHolds ==
  ASSUME TypeOK, PostedAreClosed, NEW a \in Ids, ApplyRead(a)
  PROVE  HoldsKept
<1>1. attempts[a] \in Attempt /\ RecordsTypeOK
  BY RowIsAttempt DEF TypeOK
<1>2. Posted(a) => ClosedHold(a)
  BY DEF Posted, PostedAreClosed
<1>3. ASSUME NEW read, StillReading(a, read)
      PROVE  /\ Readable(a)
             /\ Posted(a) => FinalRead(a) /\ attempts[a].deadline = "past" /\ ~IsLiveHold(a)
  BY <1>3, ClosedIsReadFinally DEF StillReading
<1>4. ASSUME NEW read
      PROVE  /\ Counted(a, read) \in Attempt
             /\ Counted(a, read).cand = attempts[a].cand
             /\ Counted(a, read).outcome = attempts[a].outcome
             /\ Counted(a, read).conf = ReadConfirmation(read)
             /\ Counted(a, read).deadline = attempts[a].deadline
             /\ Counted(a, read).reads = ReadsAfter(a, read)
  <2>1. Counted(a, read) \in Attempt
    BY <1>1, CountedType
  <2> QED
    BY <1>1, <2>1 DEF Counted, Attempt
<1>5. ASSUME NEW read, FinalRead(a)
      PROVE  /\ attempts[a].outcome = "PAYMENT_REQUIRED"
             /\ ReadsAfter(a, read) >= FinalMin
  <2>1. attempts[a].reads \in Nat /\ FinalMin \in Nat /\ attempts[a].reads >= FinalMin
    BY <1>1, <1>5, BudgetAssumption DEF Attempt, FinalRead
  <2> QED
    BY <1>5, <2>1 DEF FinalRead, ReadsAfter
<1>6. ASSUME NEW read, PostIfFinal(a, read)
      PROVE  /\ \/ posted' = posted
                \/ posted' = Append(posted, [hold |-> a, at |-> Len(attempts)])
             /\ posted' # posted => FinalRead(a)
  BY <1>6 DEF PostIfFinal
<1>7. CASE ReadSignedOut(a)
  <2> DEFINE row == [attempts[a] EXCEPT !.conf = "AUTH_REQUIRED",
                                        !.resolution = "none", !.next = FALSE]
  <2>1. row \in Attempt /\ Update(a, row) /\ posted' = posted
    BY <1>1, <1>7 DEF Attempt, Confirmations, Resolutions, ReadSignedOut
  <2>2. /\ row.cand = attempts[a].cand /\ row.outcome = attempts[a].outcome
        /\ row.conf = "AUTH_REQUIRED" /\ row.reads = attempts[a].reads
    BY <1>1 DEF Attempt
  <2> HIDE DEF row
  <2> QED
    BY <1>2, <2>1, <2>2, OneHold DEF ClosedHold
<1>8. CASE ReadPaid(a)
  <2>1. StillReading(a, "paid") /\ Update(a, Counted(a, "paid")) /\ PostIfFinal(a, "paid")
    BY <1>8 DEF ReadPaid
  <2>2. ReadConfirmation("paid") = "CONFIRMED_PAID"
    BY DEF ReadConfirmation
  <2>3. Posted(a) \/ posted' # posted => FinalRead(a)
    BY <1>3, <1>6, <2>1
  <2> QED
    BY <1>4, <1>5, <1>6, <2>1, <2>2, <2>3, OneHold
<1>9. CASE ReadHold(a)
  <2> DEFINE row == [Counted(a, "hold") EXCEPT !.outcome = "PAYMENT_REQUIRED",
                                               !.deadline = "open",
                                               !.seats = FALSE]
  <2>1. row \in Attempt
    BY <1>4 DEF Attempt, Outcomes
  <2>2. Update(a, row) /\ posted' = posted /\ StillReading(a, "hold")
    BY <1>9 DEF ReadHold
  <2>3. row.cand = attempts[a].cand /\ row.outcome = "PAYMENT_REQUIRED"
    BY <1>4 DEF Attempt
  <2>4. ~Posted(a)
    BY <1>3, <2>2 DEF StillReading
  <2> HIDE DEF row
  <2> QED
    BY <2>1, <2>2, <2>3, <2>4, OneHold
<1>10. CASE DeferRead(a)
  <2> DEFINE row == [attempts[a] EXCEPT !.next = TRUE]
  <2>1. row \in Attempt /\ Update(a, row) /\ posted' = posted
    BY <1>1, <1>10 DEF Attempt, DeferRead
  <2>2. /\ row.cand = attempts[a].cand /\ row.outcome = attempts[a].outcome
        /\ row.conf = attempts[a].conf /\ row.reads = attempts[a].reads
        /\ row.deadline = attempts[a].deadline
    BY <1>1 DEF Attempt
  <2> HIDE DEF row
  <2> QED
    BY <1>2, <2>1, <2>2, OneHold DEF ClosedHold, IsLiveHold, IsPaymentHoldEnded
<1>11. ASSUME NEW read \in ReadKinds, ReadHoldEnded(a, read)
       PROVE  HoldsKept
  <2> DEFINE deadline == IF read = "expiredHold" THEN "past"
                         ELSE Counted(a, read).deadline
             row == [Counted(a, read) EXCEPT !.deadline = deadline]
  <2>1. deadline \in {"none", "open", "past"}
    BY <1>4 DEF Attempt
  <2>2. /\ Update(a, row) /\ PostIfFinal(a, read)
        /\ FinalRead(a) /\ read \in {"notFound", "expiredHold"}
        /\ Ending(a)
    BY <1>11 DEF ReadHoldEnded, EndsHold, Ending
  <2>3. ReadConfirmation(read) = "CONFIRMED_PAYMENT_REQUIRED" => deadline = "past"
    BY <2>2 DEF ReadConfirmation
  <2> HIDE DEF deadline
  <2>4. row \in Attempt
    BY <1>4, <2>1 DEF Attempt
  <2>5. /\ row.cand = attempts[a].cand /\ row.outcome = attempts[a].outcome
        /\ row.conf = ReadConfirmation(read) /\ row.reads = ReadsAfter(a, read)
        /\ row.deadline = deadline
    BY <1>4 DEF Attempt
  <2> HIDE DEF row
  <2> QED
    BY <1>5, <1>6, <2>2, <2>3, <2>4, <2>5, OneHold
<1>12. ASSUME NEW read \in ReadKinds, ReadMore(a, read),
              read \in {"notFound", "expiredHold", "inconclusive", "unavailable"}
       PROVE  HoldsKept
  <2>1. /\ StillReading(a, read) /\ Update(a, Counted(a, read))
        /\ PostIfFinal(a, read) /\ ~EndsHold(a, read)
    BY <1>12 DEF ReadMore
  <2>2. Posted(a) \/ posted' # posted => FinalRead(a)
    BY <1>3, <1>6, <2>1
  <2>3. FinalRead(a) => read \in {"inconclusive", "unavailable"}
    BY <1>12, <2>1 DEF EndsHold
  <2>4. FinalRead(a) => ReadConfirmation(read) = "INCONCLUSIVE"
    BY <2>3 DEF ReadConfirmation
  <2> QED
    BY <1>4, <1>5, <1>6, <2>1, <2>2, <2>4, OneHold
<1> QED
  BY <1>7, <1>8, <1>9, <1>10, <1>11, <1>12 DEF ApplyRead, ReadKinds

(* A login keeps the holds: it takes no reading back from one.              *)
LEMMA LoginKeepsHolds ==
  ASSUME TypeOK, PostedAreClosed, NEW version \in Nat, Login(version)
  PROVE  HoldsKept
<1>1. Ids' = Ids /\ posted' = posted
  BY LoginAttempts DEF Login, TypeOK
<1>2. ASSUME NEW a \in Ids
      PROVE  /\ attempts'[a].cand = attempts[a].cand
             /\ attempts'[a].outcome = attempts[a].outcome
             /\ attempts'[a].conf = attempts[a].conf
             /\ attempts'[a].deadline = attempts[a].deadline
             /\ attempts[a].outcome = "PAYMENT_REQUIRED" =>
                  attempts'[a].reads = attempts[a].reads
  <2>1. attempts[a] \in Attempt
    BY RowIsAttempt DEF TypeOK
  <2>2. \/ attempts'[a] = attempts[a]
        \/ /\ attempts[a].outcome = "UNKNOWN" \/ Refunded(a) = attempts[a].reads
           /\ attempts'[a] = [attempts[a] EXCEPT !.next = TRUE, !.reads = Refunded(a)]
    BY LoginAttempts DEF TypeOK
  <2> QED
    BY <2>1, <2>2 DEF Attempt
<1>3. PostedAreClosed'
  BY <1>1, <1>2 DEF PostedAreClosed, ClosedHold
<1>4. LiveKept
  BY <1>1, <1>2 DEF LiveKept, IsLiveHold, IsPaymentHoldEnded, Posted
<1> QED
  BY <1>3, <1>4 DEF HoldsKept

(* Every step keeps the holds.                                              *)
LEMMA HoldsStep ==
  ASSUME TypeOK, PostedAreClosed, [Next]_vars
  PROVE  HoldsKept
<1>1. CASE ObservationStep
  <2>1. attempts' = attempts /\ posted' = posted
    BY <1>1 DEF ObservationStep, PrepareBlocked, Prepare, Persist,
       AbandonObservation, records
  <2> QED
    BY <2>1, NothingLost
<1>2. CASE UseWinner
  <2>1. PICK k \in winners :
          DropWinner(k) \/ ReserveDeparted(k) \/ ReserveSignedOut(k) \/ Claim(k)
    BY <1>2 DEF UseWinner
  <2>2. CASE DropWinner(k) \/ ReserveDeparted(k) \/ ReserveSignedOut(k)
    <3>1. attempts' = attempts /\ posted' = posted
      BY <2>2 DEF DropWinner, ReserveDeparted, ReserveSignedOut, records
    <3> QED
      BY <3>1, NothingLost
  <2>3. CASE Claim(k)
    <3>1. /\ Ids \subseteq Ids' /\ posted' = posted
          /\ \A a \in Ids : attempts'[a] = attempts[a]
      BY <2>3, ClaimAppends DEF Claim
    <3>2. PostedAreClosed'
      BY <3>1 DEF PostedAreClosed, ClosedHold
    <3>3. LiveKept
      BY <3>1 DEF LiveKept, IsLiveHold, IsPaymentHoldEnded, Posted
    <3> QED
      BY <3>2, <3>3 DEF HoldsKept
  <2> QED
    BY <2>1, <2>2, <2>3
<1>3. CASE AttemptStep
  <2>1. PICK a \in Ids : \/ ReservationReturns(a) \/ RecoverStale(a)
                         \/ StartRead(a) \/ ApplyRead(a) \/ DeadlinePasses(a)
    BY <1>3 DEF AttemptStep
  <2>2. CASE StartRead(a)
    BY <2>2, NothingLost DEF StartRead, records
  <2>3. CASE DeadlinePasses(a)
    <3> DEFINE row == [attempts[a] EXCEPT !.deadline = "past"]
    <3>1. attempts[a] \in Attempt
      BY RowIsAttempt DEF TypeOK
    <3>2. row \in Attempt /\ Update(a, row) /\ posted' = posted
      BY <2>3, <3>1 DEF Attempt, DeadlinePasses
    <3>3. /\ row.cand = attempts[a].cand /\ row.outcome = attempts[a].outcome
          /\ row.conf = attempts[a].conf /\ row.reads = attempts[a].reads
          /\ row.deadline = "past"
      BY <3>1 DEF Attempt
    <3>4. Posted(a) => ClosedHold(a)
      BY DEF Posted, PostedAreClosed
    <3>5. IsLiveHold(a) /\ Posted(a) =>
            /\ attempts[a].conf # "NOT_FOUND"
            /\ attempts[a].conf # "CONFIRMED_PAYMENT_REQUIRED"
      BY <3>4 DEF IsLiveHold, IsPaymentHoldEnded, ClosedHold
    <3> HIDE DEF row
    <3> QED
      BY <3>2, <3>3, <3>4, <3>5, OneHold DEF ClosedHold
  <2> QED
    BY <2>1, <2>2, <2>3, ResultsKeepHolds, ReadingsKeepHolds
<1>4. CASE DropRead
  BY <1>4, NothingLost DEF DropRead, records
<1>5. CASE OutsideStep
  <2>1. CASE VerifyLogin \/ ReplaceCredentials
    <3>1. account.version \in Nat /\ account.version + 1 \in Nat
      BY DEF TypeOK, RecordsTypeOK
    <3> QED
      BY <2>1, <3>1, LoginKeepsHolds DEF VerifyLogin, ReplaceCredentials
  <2>2. CASE ~(VerifyLogin \/ ReplaceCredentials)
    <3>1. attempts' = attempts /\ posted' = posted
      BY <1>5, <2>2 DEF OutsideStep, CircuitNotClosed, SignOut, UserStep, Expire,
         Depart, Rearm, records
    <3> QED
      BY <3>1, NothingLost
  <2> QED
    BY <2>1, <2>2
<1>6. CASE UNCHANGED vars
  BY <1>6, NothingLost DEF vars
<1> QED
  BY <1>1, <1>2, <1>3, <1>4, <1>5, <1>6 DEF Next

(* The watch keeps the hold it shows until another one is shown or it shows *)
(* none.                                                                    *)
KeepsShown == watch.status = "PAYMENT_REQUIRED" /\ watch'.hold = watch.hold

(* A step that ends waiting for payment keeps the hold it shows or shows a  *)
(* new one.                                                                 *)
LEMMA ShownHoldStep ==
  ASSUME TypeOK, [Next]_vars, watch'.status = "PAYMENT_REQUIRED"
  PROVE  KeepsShown \/ \E a \in Ids : NewHold(a) /\ watch'.hold = a
<1>1. watch \in WatchRows
  BY DEF TypeOK, RecordsTypeOK, WatchRows
<1>2. \A status, why : MoveTo(status, why).status = status
  BY <1>1 DEF MoveTo, WatchRows
<1>3. \A status : GoTo(status).status = status
  BY <1>2 DEF GoTo
<1>4. PaidWatch.status # "PAYMENT_REQUIRED"
  BY <1>1, <1>3 DEF PaidWatch, WatchRows
<1>5. watch' = watch => KeepsShown
  BY DEF KeepsShown
<1>6. CASE ObservationStep
  <2>1. CASE PrepareBlocked \/ AbandonObservation
    BY <1>2, <1>5, <2>1 DEF PrepareBlocked, AbandonObservation, records
  <2>2. CASE Prepare
    BY <1>3, <1>5, <2>2 DEF Prepare
  <2>3. CASE Persist
    <3>1. /\ watch.status \in ObservationStatuses
          /\ \E status \in {"SEAT_FOUND", "OFFICIAL_WAITLIST", "WATCHING", watch.status} :
               watch' = GoTo(status)
      BY <2>3 DEF Persist
    <3> QED
      BY <1>3, <3>1 DEF ObservationStatuses
  <2> QED
    BY <1>6, <2>1, <2>2, <2>3 DEF ObservationStep
<1>7. CASE UseWinner
  BY <1>2, <1>3, <1>5, <1>7
  DEF UseWinner, DropWinner, ReserveDeparted, ReserveSignedOut, Claim, records
<1>8. CASE AttemptStep
  <2>1. PICK a \in Ids : \/ ReservationReturns(a) \/ RecoverStale(a)
                         \/ StartRead(a) \/ ApplyRead(a) \/ DeadlinePasses(a)
    BY <1>8 DEF AttemptStep
  <2>2. a \in Nat /\ Started(a) \in {GoTo("WATCHING"), watch}
    BY LenProperties DEF TypeOK, RecordsTypeOK, Ids, Started
  <2>3. [GoTo("PAYMENT_REQUIRED") EXCEPT !.hold = a].hold = a
    BY <1>1 DEF GoTo, MoveTo, WatchRows
  <2>4. CASE LoseResult(a) \/ DeferReservation(a)
    BY <1>3, <1>5, <2>4 DEF LoseResult, DeferReservation
  <2>5. ASSUME NEW answer \in Answers, FinishReservation(a, answer)
        PROVE  NewHold(a) /\ watch'.hold = a
    <3>1. CASE answer = "hold"
      BY <2>3, <2>5, <3>1 DEF FinishReservation, NewHold
    <3>2. CASE answer # "hold"
      BY <1>2, <1>3, <1>4, <2>5, <3>2 DEF FinishReservation
    <3> QED
      BY <3>1, <3>2
  <2>6. ASSUME NEW answer \in Answers, FenceLateResult(a, answer) PROVE KeepsShown
    BY <1>2, <1>4, <1>5, <2>6 DEF FenceLateResult
  <2>7. CASE RecoverStale(a) \/ StartRead(a) \/ DeadlinePasses(a)
    BY <1>3, <1>5, <2>7 DEF RecoverStale, StartRead, DeadlinePasses, records
  <2>8. CASE ReadSignedOut(a) \/ ReadPaid(a) \/ DeferRead(a)
    BY <1>2, <1>4, <1>5, <2>8 DEF ReadSignedOut, ReadPaid, DeferRead
  <2>9. CASE ReadHold(a)
    <3>1. watch' = [GoTo("PAYMENT_REQUIRED") EXCEPT !.hold = a] \/ watch' = Started(a)
      BY <2>9 DEF ReadHold
    <3> QED
      BY <1>3, <1>5, <2>2, <2>3, <2>9, <3>1 DEF NewHold
  <2>10. ASSUME NEW read, ReadHoldEnded(a, read) PROVE FALSE
    BY <1>1, <1>3, <2>10 DEF ReadHoldEnded, GoTo, MoveTo, WatchRows
  <2>11. ASSUME NEW read, ReadMore(a, read) PROVE KeepsShown
    BY <1>3, <1>5, <2>2, <2>11 DEF ReadMore
  <2> QED
    BY <2>1, <2>4, <2>5, <2>6, <2>7, <2>8, <2>9, <2>10, <2>11
    DEF ReservationReturns, ApplyRead
<1>9. CASE DropRead
  BY <1>5, <1>9 DEF DropRead, records
<1>10. CASE OutsideStep
  <2>1. CASE CircuitNotClosed \/ UserStep \/ Expire
    BY <1>2, <1>3, <1>5, <2>1 DEF CircuitNotClosed, UserStep, Expire
  <2>2. CASE VerifyLogin \/ ReplaceCredentials
    <3>1. watch' \in {GoTo("SCHEDULED"), watch}
      BY <2>2 DEF VerifyLogin, ReplaceCredentials, Login
    <3> QED
      BY <1>3, <1>5, <3>1
  <2>3. CASE SignOut \/ Rearm \/ \E c \in Cand : Depart(c)
    BY <1>5, <2>3 DEF SignOut, Rearm, Depart, records
  <2> QED
    BY <1>10, <2>1, <2>2, <2>3 DEF OutsideStep
<1>11. CASE UNCHANGED vars
  BY <1>5, <1>11 DEF vars
<1> QED
  BY <1>6, <1>7, <1>8, <1>9, <1>10, <1>11 DEF Next

(* A hold the watch gets is live.                                           *)
LEMMA NewHoldIsLive ==
  ASSUME TypeOK, PostedAreClosed, NEW a \in Ids, NewHold(a)
  PROVE  /\ a \in Ids' /\ attempts'[a].cand = attempts[a].cand
         /\ IsLiveHold(a)'
         /\ posted' = posted
<1>1. Posted(a) => ClosedHold(a)
  BY DEF Posted, PostedAreClosed
<1>2. attempts[a] \in Attempt /\ RecordsTypeOK
  BY RowIsAttempt DEF TypeOK
<1>3. CASE FinishReservation(a, "hold")
  <2> DEFINE row == Returned(a, "hold")
  <2>1. Update(a, row) /\ posted' = posted /\ attempts[a].outcome = "PENDING"
    BY <1>3 DEF FinishReservation, StillClaimed
  <2>2. /\ row \in Attempt /\ row.cand = attempts[a].cand
        /\ row.outcome = "PAYMENT_REQUIRED"
    <3>1. row \in Attempt
      BY <1>2, ReturnedType
    <3>2. row.cand = attempts[a].cand /\ row.outcome = ResultOutcome("hold")
      BY <1>2 DEF Returned, Attempt
    <3> QED
      BY <3>1, <3>2 DEF ResultOutcome
  <2> HIDE DEF row
  <2>3. a \in Ids' /\ attempts'[a] = row
    BY <1>2, <2>1, <2>2, UpdateRow
  <2>4. ~Posted(a)'
    BY <1>1, <2>1 DEF ClosedHold, Posted
  <2> QED
    BY <2>1, <2>2, <2>3, <2>4 DEF IsLiveHold, IsPaymentHoldEnded
<1>4. CASE ReadHold(a)
  <2> DEFINE row == [Counted(a, "hold") EXCEPT !.outcome = "PAYMENT_REQUIRED",
                                               !.deadline = "open",
                                               !.seats = FALSE]
  <2>1. Update(a, row) /\ posted' = posted /\ StillReading(a, "hold")
    BY <1>4 DEF ReadHold
  <2>2. /\ row \in Attempt /\ row.cand = attempts[a].cand
        /\ row.outcome = "PAYMENT_REQUIRED"
    <3>1. Counted(a, "hold") \in Attempt
      BY <1>2, CountedType
    <3>2. Counted(a, "hold").cand = attempts[a].cand
      BY <1>2 DEF Counted, Attempt
    <3> QED
      BY <3>1, <3>2 DEF Attempt, Outcomes
  <2> HIDE DEF row
  <2>3. a \in Ids' /\ attempts'[a] = row
    BY <1>2, <2>1, <2>2, UpdateRow
  <2>4. ~Posted(a)'
    BY <2>1, ClosedIsReadFinally DEF StillReading, Posted
  <2> QED
    BY <2>1, <2>2, <2>3, <2>4 DEF IsLiveHold, IsPaymentHoldEnded
<1> QED
  BY <1>3, <1>4 DEF NewHold

(* Where the end of a hold is read the watch shows none any more.           *)
LEMMA EndingHidesHold ==
  ASSUME TypeOK, NEW a \in Ids, Ending(a)
  PROVE  watch'.status = "WATCHING"
BY DEF Ending, ReadHoldEnded, GoTo, MoveTo, TypeOK, RecordsTypeOK, WatchRows

ShownInv == PostedAreClosed /\ ShownHoldIsLive

(* Every step leaves the hold the watch shows live.                         *)
LEMMA ShownStep == TypeOK /\ ShownInv /\ [Next]_vars => ShownInv'
<1> SUFFICES ASSUME TypeOK, PostedAreClosed, ShownHoldIsLive, [Next]_vars
             PROVE  PostedAreClosed' /\ ShownHoldIsLive'
  BY DEF ShownInv
<1>1. HoldsKept
  BY HoldsStep
<1>2. ASSUME watch'.status = "PAYMENT_REQUIRED"
      PROVE  watch'.hold \in Ids' /\ IsLiveHold(watch.hold)'
  <2>1. CASE KeepsShown
    <3>1. watch.hold \in Ids /\ IsLiveHold(watch.hold)
      BY <2>1 DEF KeepsShown, ShownHoldIsLive
    <3>2. ~Ending(watch.hold)
      BY <1>2, <3>1, EndingHidesHold
    <3>3. PICK h \in Ids : h = watch.hold
      BY <3>1
    <3>4. h \in Ids' /\ IsLiveHold(h)'
      BY <1>1, <3>1, <3>2, <3>3 DEF HoldsKept, LiveKept
    <3> QED
      BY <2>1, <3>3, <3>4 DEF KeepsShown, IsLiveHold, IsPaymentHoldEnded, Posted
  <2>2. ASSUME NEW a \in Ids, NewHold(a), watch'.hold = a
        PROVE  watch'.hold \in Ids' /\ IsLiveHold(watch.hold)'
    <3>1. a \in Ids' /\ IsLiveHold(a)'
      BY <2>2, NewHoldIsLive
    <3> QED
      BY <2>2, <3>1 DEF IsLiveHold, IsPaymentHoldEnded, Posted
  <2> QED
    BY <1>2, <2>1, <2>2, ShownHoldStep
<1> QED
  BY <1>1, <1>2 DEF HoldsKept, ShownHoldIsLive

(* A new watch shows no hold.                                               *)
LEMMA ShownInit == Init => ShownInv
BY EmptySeq DEF Init, ShownInv, PostedAreClosed, ShownHoldIsLive

(* A watch that asks for payment shows a hold that no official read has     *)
(* ended, for any number of candidates, attempts and readings, whatever     *)
(* late results and contradicting readings come in between.                 *)
THEOREM ShownHoldStaysLive == Spec => []ShownHoldIsLive
<1>1. ShownInv => ShownHoldIsLive
  BY DEF ShownInv
<1> QED
  BY FenceTypeCorrect, ShownInit, ShownStep, <1>1, PTL DEF Spec

-----------------------------------------------------------------------------
(* The rows of the candidates. A step leaves what a row says of holds, or   *)
(* takes the row out of them; only a new hold puts rows into them, and the  *)
(* end of a hold takes out all that waited for it.                          *)

RowKept(c) ==
    cand'[c].state = cand[c].state /\ cand'[c].by = cand[c].by

RowLeaves(c) ==
    cand'[c].state \notin {"payment_required", "suppressed_by_priority"}

RowsKept == \A c \in Cand : RowKept(c) \/ RowLeaves(c)

(* Rows that go to a state without a hold, and rows that lose their mark.   *)
LEMMA RowUpdates ==
  ASSUME TypeOK
  PROVE  /\ cand' = cand => RowsKept
         /\ \A cs, state :
              /\ state \notin {"payment_required", "suppressed_by_priority"}
              /\ \/ cand' = SetState(cs, state)
                 \/ cand' = Unmarked(SetState(cs, state))
              => RowsKept
         /\ cand' = Unmarked(cand) => RowsKept
         /\ cand' = PaidCandidates => RowsKept
<1>1. cand \in CandidateRows
  BY DEF TypeOK, RecordsTypeOK, CandidateRows
<1>2. cand' = cand => RowsKept
  BY DEF RowsKept, RowKept
<1>3. ASSUME NEW cs, NEW state,
             state \notin {"payment_required", "suppressed_by_priority"}
      PROVE  /\ cand' = SetState(cs, state) => RowsKept
             /\ cand' = Unmarked(SetState(cs, state)) => RowsKept
  <2>1. ASSUME NEW c \in Cand
        PROVE  /\ SetState(cs, state)[c].by = cand[c].by
               /\ SetState(cs, state)[c].state \in {state, cand[c].state}
               /\ Unmarked(SetState(cs, state))[c].by = cand[c].by
               /\ Unmarked(SetState(cs, state))[c].state \in {state, cand[c].state}
    BY <1>1 DEF SetState, Unmarked, CandidateRows
  <2> QED
    BY <1>3, <2>1 DEF RowsKept, RowKept, RowLeaves
<1>4. cand' = Unmarked(cand) => RowsKept
  BY <1>1 DEF Unmarked, CandidateRows, RowsKept, RowKept
<1>5. cand' = PaidCandidates => RowsKept
  BY DEF PaidCandidates, RowsKept, RowLeaves
<1> QED
  BY <1>2, <1>3, <1>4, <1>5

(* What a hold leaves open or puts behind it, and what its end frees.       *)
LEMMA EndingFrees ==
  ASSUME TypeOK, NEW a \in Ids, Ending(a), NEW c \in Cand,
         \/ c = attempts[a].cand
         \/ /\ cand[c].state = "suppressed_by_priority"
            /\ cand[c].by = attempts[a].cand
  PROVE  cand'[c].state = "open"
<1>1. cand \in CandidateRows
  BY DEF TypeOK, RecordsTypeOK, CandidateRows
<1>2. PICK read \in ReadKinds : ReadHoldEnded(a, read)
  BY DEF Ending
<1>3. c \in Freed(attempts[a].cand)
  BY DEF Freed
<1>4. cand'[c].state = IF c \in Freed(attempts[a].cand) THEN "open" ELSE cand[c].state
  BY <1>1, <1>2 DEF ReadHoldEnded, CandidateRows
<1> QED
  BY <1>3, <1>4

(* Every step keeps the rows of the candidates or gives the watch a hold.   *)
LEMMA CandidateStep ==
  ASSUME TypeOK, [Next]_vars
  PROVE  \/ RowsKept
         \/ \E a \in Ids : NewHold(a) /\ cand' = HeldBy(attempts[a].cand)
<1>1. cand \in CandidateRows
  BY DEF TypeOK, RecordsTypeOK, CandidateRows
<1>2. CASE ObservationStep
  <2>1. CASE Prepare
    BY <2>1, RowUpdates DEF Prepare
  <2>2. CASE Persist
    <3>1. PICK cs : cand' = SetState(cs, "open")
      BY <2>2 DEF Persist
    <3> QED
      BY <3>1, RowUpdates
  <2> QED
    BY <1>2, <2>1, <2>2, RowUpdates
    DEF ObservationStep, PrepareBlocked, AbandonObservation, records
<1>3. CASE UseWinner
  <2>1. PICK k \in winners :
          DropWinner(k) \/ ReserveDeparted(k) \/ ReserveSignedOut(k) \/ Claim(k)
    BY <1>3 DEF UseWinner
  <2>2. CASE ReserveDeparted(k)
    BY <1>1, <2>2 DEF ReserveDeparted, RowsKept, RowKept, RowLeaves, CandidateRows
  <2> QED
    BY <2>1, <2>2, RowUpdates DEF DropWinner, ReserveSignedOut, Claim, records
<1>4. CASE AttemptStep
  <2>1. PICK a \in Ids : \/ ReservationReturns(a) \/ RecoverStale(a)
                         \/ StartRead(a) \/ ApplyRead(a) \/ DeadlinePasses(a)
    BY <1>4 DEF AttemptStep
  <2>2. CASE LoseResult(a) \/ DeferReservation(a)
    BY <2>2, RowUpdates DEF LoseResult, DeferReservation
  <2>3. ASSUME NEW answer \in Answers, FinishReservation(a, answer)
        PROVE  RowsKept \/ (NewHold(a) /\ cand' = HeldBy(attempts[a].cand))
    BY <2>3, RowUpdates DEF FinishReservation, NewHold
  <2>4. ASSUME NEW answer \in Answers, FenceLateResult(a, answer) PROVE RowsKept
    BY <2>4, RowUpdates DEF FenceLateResult
  <2>5. CASE RecoverStale(a) \/ StartRead(a) \/ DeadlinePasses(a)
    BY <2>5, RowUpdates DEF RecoverStale, StartRead, DeadlinePasses, records
  <2>6. CASE ReadSignedOut(a) \/ ReadPaid(a) \/ DeferRead(a)
    BY <2>6, RowUpdates DEF ReadSignedOut, ReadPaid, DeferRead
  <2>7. CASE ReadHold(a)
    BY <2>7, RowUpdates DEF ReadHold, NewHold
  <2>8. ASSUME NEW read, ReadHoldEnded(a, read) PROVE RowsKept
    <3> DEFINE freed == Freed(attempts[a].cand)
    <3>1. \A d \in Cand :
            cand'[d] = [cand[d] EXCEPT
                          !.state = IF d \in freed THEN "open" ELSE @,
                          !.by = IF d \in freed THEN 0 ELSE @,
                          !.current = @ /\ cand[d].rearm # a]
      BY <2>8 DEF ReadHoldEnded
    <3> HIDE DEF freed
    <3>2. \A d \in Cand :
            /\ cand'[d].state = IF d \in freed THEN "open" ELSE cand[d].state
            /\ cand'[d].by = IF d \in freed THEN 0 ELSE cand[d].by
      <4> SUFFICES ASSUME NEW d \in Cand
                   PROVE  /\ cand'[d].state = IF d \in freed THEN "open" ELSE cand[d].state
                          /\ cand'[d].by = IF d \in freed THEN 0 ELSE cand[d].by
        OBVIOUS
      <4>1. cand[d] \in [state : CandidateStates, by : Cand \cup {0}, rearm : Nat, current : BOOLEAN]
        BY <1>1 DEF CandidateRows
      <4> QED
        BY <3>1, <4>1
    <3> QED
      BY <3>2 DEF RowsKept, RowKept, RowLeaves
  <2>9. ASSUME NEW read, ReadMore(a, read) PROVE RowsKept
    BY <2>9, RowUpdates DEF ReadMore
  <2> QED
    BY <2>1, <2>2, <2>3, <2>4, <2>5, <2>6, <2>7, <2>8, <2>9
    DEF ReservationReturns, ApplyRead
<1>5. CASE DropRead
  BY <1>5, RowUpdates DEF DropRead, records
<1>6. CASE OutsideStep
  <2>1. CASE VerifyLogin \/ ReplaceCredentials
    BY <2>1, RowUpdates DEF VerifyLogin, ReplaceCredentials, Login
  <2>2. CASE Rearm
    <3>1. PICK c, a : cand' = [cand EXCEPT ![c] = [@ EXCEPT !.rearm = a, !.current = TRUE]]
      BY <2>2 DEF Rearm
    <3> QED
      BY <1>1, <3>1 DEF RowsKept, RowKept, CandidateRows
  <2>3. CASE Expire
    BY <2>3, RowUpdates DEF Expire
  <2> QED
    BY <1>6, <2>1, <2>2, <2>3, RowUpdates
    DEF OutsideStep, CircuitNotClosed, SignOut, UserStep, Depart, records
<1>7. CASE UNCHANGED vars
  BY <1>7, RowUpdates DEF vars
<1> QED
  BY <1>2, <1>3, <1>4, <1>5, <1>6, <1>7 DEF Next

CandidatesInv == PostedAreClosed /\ CandidatesFollowHolds

(* Every step leaves every candidate that is held or has stepped back with  *)
(* a live hold to be so for.                                                *)
LEMMA CandidatesStep == TypeOK /\ CandidatesInv /\ [Next]_vars => CandidatesInv'
<1> SUFFICES ASSUME TypeOK, PostedAreClosed, CandidatesFollowHolds, [Next]_vars
             PROVE  PostedAreClosed' /\ CandidatesFollowHolds'
  BY DEF CandidatesInv
<1>1. PostedAreClosed' /\ LiveKept
  BY HoldsStep DEF HoldsKept
<1>2. cand \in CandidateRows
  BY DEF TypeOK, RecordsTypeOK, CandidateRows
<1> DEFINE Live(c) == \E a \in Ids' : attempts'[a].cand = c /\ IsLiveHold(a)'
<1>3. ASSUME NEW c \in Cand, RowKept(c)
      PROVE  /\ cand'[c].state = "payment_required" => Live(c)
             /\ cand'[c].state = "suppressed_by_priority" => Live(cand'[c].by)
  <2>1. ASSUME cand'[c].state = "payment_required" PROVE Live(c)
    <3>1. PICK h \in Ids : attempts[h].cand = c /\ IsLiveHold(h)
      BY <1>3, <2>1 DEF RowKept, CandidatesFollowHolds, OfCandidate
    <3>2. ~Ending(h)
      BY <2>1, <3>1, EndingFrees
    <3> QED
      BY <1>1, <3>1, <3>2 DEF LiveKept
  <2>2. ASSUME cand'[c].state = "suppressed_by_priority" PROVE Live(cand'[c].by)
    <3>1. PICK h \in Ids : attempts[h].cand = cand[c].by /\ IsLiveHold(h)
      BY <1>3, <2>2 DEF RowKept, CandidatesFollowHolds, OfCandidate
    <3>2. ~Ending(h)
      BY <1>3, <2>2, <3>1, EndingFrees DEF RowKept
    <3> QED
      BY <1>1, <1>3, <3>1, <3>2 DEF LiveKept, RowKept
  <2> QED
    BY <2>1, <2>2
<1>4. ASSUME NEW a \in Ids, NewHold(a), cand' = HeldBy(attempts[a].cand),
             NEW c \in Cand
      PROVE  \/ RowKept(c)
             \/ c = attempts[a].cand /\ cand'[c].state = "payment_required"
             \/ /\ cand'[c].state = "suppressed_by_priority"
                /\ cand'[c].by = attempts[a].cand
  BY <1>2, <1>4 DEF HeldBy, RowKept, CandidateRows
<1>5. ASSUME NEW c \in Cand
      PROVE  /\ cand'[c].state = "payment_required" => Live(c)
             /\ cand'[c].state = "suppressed_by_priority" => Live(cand'[c].by)
  <2>1. CASE RowsKept
    BY <1>3, <2>1 DEF RowsKept, RowLeaves
  <2>2. ASSUME NEW a \in Ids, NewHold(a), cand' = HeldBy(attempts[a].cand)
        PROVE  /\ cand'[c].state = "payment_required" => Live(c)
               /\ cand'[c].state = "suppressed_by_priority" => Live(cand'[c].by)
    <3>1. Live(attempts[a].cand)
      BY <2>2, NewHoldIsLive
    <3> QED
      BY <1>3, <1>4, <2>2, <3>1
  <2> QED
    BY <2>1, <2>2, CandidateStep
<1>6. CandidatesFollowHolds'
  BY <1>5 DEF CandidatesFollowHolds, OfCandidate
<1> QED
  BY <1>1, <1>6

(* A new watch holds no candidate.                                          *)
LEMMA CandidatesInit == Init => CandidatesInv
BY EmptySeq DEF Init, CandidatesInv, PostedAreClosed, CandidatesFollowHolds

(* A candidate is held, or steps back for a better one, only while there is *)
(* a hold of the one that has not been ended, for any number of candidates, *)
(* attempts and readings: nobody waits for a reservation nobody has.        *)
THEOREM CandidatesFollowLiveHolds == Spec => []CandidatesFollowHolds
<1>1. CandidatesInv => CandidatesFollowHolds
  BY DEF CandidatesInv
<1> QED
  BY FenceTypeCorrect, CandidatesInit, CandidatesStep, <1>1, PTL DEF Spec

-----------------------------------------------------------------------------
(* One command at a time. The answer of an attempt is final in two ways: it *)
(* never becomes unanswered or unresolved again, and an absence that was    *)
(* confirmed is never read again.                                           *)

Pending(a) == attempts[a].outcome = "PENDING"

Unresolved(a) ==
    /\ attempts[a].outcome = "UNKNOWN"
    /\ attempts[a].conf # "CONFIRMED_PAID"
    /\ attempts[a].resolution # "CONFIRMED_ABSENT"

SettledAbsence(a) ==
    /\ attempts[a].outcome = "UNKNOWN"
    /\ attempts[a].conf = "NOT_FOUND"
    /\ attempts[a].reads > 0
    /\ ~attempts[a].next

AbsenceIsSettled ==
    \A a \in Ids :
      attempts[a].resolution = "CONFIRMED_ABSENT" => SettledAbsence(a)

(* What a step may do to the answer of a.                                   *)
AnswerKept(a) ==
    /\ Pending(a)' => Pending(a)
    /\ Unresolved(a)' => Pending(a) \/ Unresolved(a)

AnswersKept == AbsenceIsSettled' /\ \A a \in Ids \cap Ids' : AnswerKept(a)

(* A settled absence is not due.                                            *)
LEMMA AbsenceNotRead ==
  ASSUME TypeOK, AbsenceIsSettled, NEW a \in Ids, Readable(a)
  PROVE  attempts[a].resolution # "CONFIRMED_ABSENT"
<1>1. attempts[a].reads \in Nat
  BY RowIsAttempt DEF TypeOK, Attempt
<1> QED
  BY <1>1 DEF AbsenceIsSettled, SettledAbsence, Readable, IsDue

(* A step that writes no attempt changes no answer.                         *)
LEMMA NoAnswer ==
  ASSUME AbsenceIsSettled, attempts' = attempts
  PROVE  AnswersKept
BY DEF AnswersKept, AnswerKept, AbsenceIsSettled, SettledAbsence, Pending,
   Unresolved, Ids

(* A step that writes one attempt changes the answer of this one.           *)
LEMMA OneAnswer ==
  ASSUME TypeOK, AbsenceIsSettled, NEW a \in Ids, NEW row \in Attempt,
         Update(a, row),
         row.outcome = "PENDING" => Pending(a),
         row.resolution = "CONFIRMED_ABSENT" =>
           /\ row.outcome = "UNKNOWN" /\ row.conf = "NOT_FOUND"
           /\ row.reads > 0 /\ ~row.next,
         /\ row.outcome = "UNKNOWN" /\ row.conf # "CONFIRMED_PAID"
         /\ row.resolution # "CONFIRMED_ABSENT"
         => Pending(a) \/ Unresolved(a)
  PROVE  AnswersKept
<1>1. /\ Ids' = Ids
      /\ attempts'[a] = row
      /\ \A b \in Ids \ {a} : attempts'[b] = attempts[b]
  BY UpdateRow DEF TypeOK
<1>2. ASSUME NEW b \in Ids
      PROVE  /\ attempts'[b].resolution = "CONFIRMED_ABSENT" => SettledAbsence(b)'
             /\ AnswerKept(b)
  <2>1. CASE b = a
    BY <1>1, <2>1 DEF SettledAbsence, AnswerKept, Pending, Unresolved
  <2>2. CASE b # a
    BY <1>1, <2>2
    DEF SettledAbsence, AbsenceIsSettled, AnswerKept, Pending, Unresolved
  <2> QED
    BY <2>1, <2>2
<1> QED
  BY <1>1, <1>2 DEF AnswersKept, AbsenceIsSettled

(* The results of calls answer what was unanswered, or prove a payment.     *)
LEMMA ResultsAnswer ==
  ASSUME TypeOK, AbsenceIsSettled, NEW a \in Ids,
         ReservationReturns(a) \/ RecoverStale(a)
  PROVE  AnswersKept
<1>1. attempts[a] \in Attempt /\ RecordsTypeOK
  BY RowIsAttempt DEF TypeOK
<1>2. attempts[a].resolution = "CONFIRMED_ABSENT" => SettledAbsence(a)
  BY DEF AbsenceIsSettled
<1>3. CASE LoseResult(a)
  <2> DEFINE row == [attempts[a] EXCEPT !.io = FALSE]
  <2>1. row \in Attempt /\ Update(a, row)
    BY <1>1, <1>3 DEF Attempt, LoseResult
  <2>2. /\ row.outcome = attempts[a].outcome /\ row.conf = attempts[a].conf
        /\ row.reads = attempts[a].reads /\ row.resolution = attempts[a].resolution
        /\ row.next = attempts[a].next
    BY <1>1 DEF Attempt
  <2> HIDE DEF row
  <2> QED
    BY <1>2, <2>1, <2>2, OneAnswer DEF Pending, Unresolved, SettledAbsence
<1>4. CASE DeferReservation(a)
  <2>1. /\ Ids' = Ids \ {a}
        /\ \A b \in Ids' : attempts'[b] = attempts[b]
    BY <1>4, DeferralWithdraws
  <2> QED
    BY <2>1 DEF AnswersKept, AnswerKept, AbsenceIsSettled, SettledAbsence,
       Pending, Unresolved
<1>5. ASSUME NEW answer \in Answers, FinishReservation(a, answer)
      PROVE  AnswersKept
  <2>1. /\ Returned(a, answer) \in Attempt
        /\ Update(a, Returned(a, answer))
        /\ Pending(a)
    BY <1>1, <1>5, ReturnedType DEF FinishReservation, StillClaimed, Pending
  <2>2. Returned(a, answer).resolution = attempts[a].resolution
    BY <1>1 DEF Returned, Attempt
  <2>3. attempts[a].resolution # "CONFIRMED_ABSENT"
    BY <1>2, <2>1 DEF Pending, SettledAbsence
  <2> QED
    BY <2>1, <2>2, <2>3, OneAnswer
<1>6. ASSUME NEW answer \in Answers, FenceLateResult(a, answer)
      PROVE  AnswersKept
  <2> DEFINE row == [attempts[a] EXCEPT
         !.io = FALSE,
         !.outcome = IF @ = "PENDING" THEN "UNKNOWN" ELSE @,
         !.conf = IF attempts[a].outcome = "PENDING" \/ answer = "paid"
                  THEN ResultConfirmation(answer) ELSE @,
         !.seats = IF attempts[a].outcome = "PENDING"
                   THEN answer \in SeatAnswers ELSE @,
         !.next = @ /\ answer # "paid",
         !.resolution = IF answer = "paid" THEN "none" ELSE @]
  <2>1. Update(a, row)
    BY <1>6, Zenon DEF FenceLateResult
  <2>2. row \in Attempt
    BY <1>1, LateRowType
  <2>3. /\ row.outcome = IF attempts[a].outcome = "PENDING" THEN "UNKNOWN"
                         ELSE attempts[a].outcome
        /\ row.conf = IF attempts[a].outcome = "PENDING" \/ answer = "paid"
                      THEN ResultConfirmation(answer) ELSE attempts[a].conf
        /\ row.reads = attempts[a].reads
        /\ row.resolution = IF answer = "paid" THEN "none" ELSE attempts[a].resolution
    BY <1>1 DEF Attempt
  <2>4. row.next = (attempts[a].next /\ answer # "paid")
    BY <1>1 DEF Attempt
  <2>5. ResultConfirmation("paid") = "CONFIRMED_PAID"
    BY DEF ResultConfirmation
  <2> HIDE DEF row
  <2>6. row.resolution = "CONFIRMED_ABSENT" => ~row.next
    BY <1>2, <2>3, <2>4 DEF SettledAbsence
  <2> QED
    BY <1>2, <2>1, <2>2, <2>3, <2>5, <2>6, OneAnswer
    DEF Pending, Unresolved, SettledAbsence
<1>7. CASE RecoverStale(a)
  <2> DEFINE row == [attempts[a] EXCEPT !.outcome = "UNKNOWN"]
  <2>1. row \in Attempt /\ Update(a, row) /\ Pending(a)
    BY <1>1, <1>7 DEF Attempt, Outcomes, RecoverStale, Pending
  <2>2. row.outcome = "UNKNOWN" /\ row.resolution = attempts[a].resolution
    BY <1>1 DEF Attempt
  <2>3. attempts[a].resolution # "CONFIRMED_ABSENT"
    BY <1>2, <2>1 DEF Pending, SettledAbsence
  <2> HIDE DEF row
  <2> QED
    BY <2>1, <2>2, <2>3, OneAnswer
<1> QED
  BY <1>3, <1>4, <1>5, <1>6, <1>7 DEF ReservationReturns

(* Readings answer what was unresolved.                                     *)
LEMMA ReadingsAnswer ==
  ASSUME TypeOK, AbsenceIsSettled, NEW a \in Ids, ApplyRead(a)
  PROVE  AnswersKept
<1>1. attempts[a] \in Attempt /\ RecordsTypeOK
  BY RowIsAttempt DEF TypeOK
<1>2. /\ Readable(a)
      /\ attempts[a].outcome \in {"PAYMENT_REQUIRED", "UNKNOWN"}
      /\ attempts[a].conf # "CONFIRMED_PAID"
  BY DEF ApplyRead, ReadSignedOut, ReadPaid, ReadHold, DeferRead, ReadHoldEnded,
     ReadMore, StillReading, Readable, ExactPaid
<1>3. attempts[a].resolution # "CONFIRMED_ABSENT"
  BY <1>2, AbsenceNotRead
<1>4. attempts[a].outcome = "UNKNOWN" => Unresolved(a)
  BY <1>2, <1>3 DEF Unresolved
<1>5. ASSUME NEW read
      PROVE  /\ Counted(a, read) \in Attempt
             /\ Counted(a, read).outcome = attempts[a].outcome
             /\ Counted(a, read).conf = ReadConfirmation(read)
             /\ Counted(a, read).reads = ReadsAfter(a, read)
             /\ Counted(a, read).next = ReadAgain(a, read)
             /\ Counted(a, read).resolution = "CONFIRMED_ABSENT" =>
                  ConfirmsAbsence(a, read)
  <2>1. Counted(a, read) \in Attempt
    BY <1>1, CountedType
  <2>2. /\ Counted(a, read).outcome = attempts[a].outcome
        /\ Counted(a, read).conf = ReadConfirmation(read)
        /\ Counted(a, read).reads = ReadsAfter(a, read)
        /\ Counted(a, read).next = ReadAgain(a, read)
    BY <1>1 DEF Counted, Attempt
  <2>3. Counted(a, read).resolution =
          IF ConfirmsAbsence(a, read) THEN "CONFIRMED_ABSENT"
          ELSE IF ExhaustsReads(a, read) THEN "EXHAUSTED_UNRESOLVED"
          ELSE IF read = "paid" THEN "none" ELSE attempts[a].resolution
    BY <1>1 DEF Counted, Attempt
  <2> QED
    BY <1>3, <2>1, <2>2, <2>3
<1>6. ASSUME NEW read, ConfirmsAbsence(a, read)
      PROVE  /\ read = "notFound" /\ attempts[a].outcome = "UNKNOWN"
             /\ ReadConfirmation(read) = "NOT_FOUND"
             /\ ReadsAfter(a, read) > 0
             /\ ~ReadAgain(a, read)
  <2>1. read = "notFound" /\ attempts[a].outcome = "UNKNOWN"
    BY <1>6 DEF ConfirmsAbsence
  <2>2. attempts[a].reads \in Nat
    BY <1>1 DEF Attempt
  <2>3. ReadsAfter(a, read) = attempts[a].reads + 1
    BY <2>1 DEF ReadsAfter, FinalRead
  <2>4. ~ReadAgain(a, read)
    BY <1>6, <2>1 DEF ReadAgain, StaysUnknown
  <2> QED
    BY <2>1, <2>2, <2>3, <2>4 DEF ReadConfirmation
<1>7. CASE ReadSignedOut(a)
  <2> DEFINE row == [attempts[a] EXCEPT !.conf = "AUTH_REQUIRED",
                                        !.resolution = "none", !.next = FALSE]
  <2>1. row \in Attempt /\ Update(a, row)
    BY <1>1, <1>7 DEF Attempt, Confirmations, Resolutions, ReadSignedOut
  <2>2. row.outcome = attempts[a].outcome /\ row.resolution = "none"
    BY <1>1 DEF Attempt
  <2> HIDE DEF row
  <2> QED
    BY <1>2, <1>4, <2>1, <2>2, OneAnswer
<1>8. ASSUME NEW read, Update(a, Counted(a, read)) PROVE AnswersKept
  BY <1>2, <1>4, <1>5, <1>6, <1>8, OneAnswer
<1>9. CASE ReadHold(a)
  <2> DEFINE row == [Counted(a, "hold") EXCEPT !.outcome = "PAYMENT_REQUIRED",
                                               !.deadline = "open",
                                               !.seats = FALSE]
  <2>1. row \in Attempt
    BY <1>5 DEF Attempt, Outcomes
  <2>2. Update(a, row)
    BY <1>9 DEF ReadHold
  <2>3. /\ row.outcome = "PAYMENT_REQUIRED"
        /\ row.resolution = Counted(a, "hold").resolution
    BY <1>5 DEF Attempt
  <2>4. row.resolution # "CONFIRMED_ABSENT"
    BY <1>5, <1>6, <2>3
  <2> HIDE DEF row
  <2> QED
    BY <2>1, <2>2, <2>3, <2>4, OneAnswer
<1>10. CASE DeferRead(a)
  <2> DEFINE row == [attempts[a] EXCEPT !.next = TRUE]
  <2>1. row \in Attempt /\ Update(a, row)
    BY <1>1, <1>10 DEF Attempt, DeferRead
  <2>2. row.outcome = attempts[a].outcome /\ row.resolution = attempts[a].resolution
    BY <1>1 DEF Attempt
  <2> HIDE DEF row
  <2> QED
    BY <1>2, <1>3, <1>4, <2>1, <2>2, OneAnswer
<1>11. ASSUME NEW read \in ReadKinds, ReadHoldEnded(a, read)
       PROVE  AnswersKept
  <2> DEFINE deadline == IF read = "expiredHold" THEN "past"
                         ELSE Counted(a, read).deadline
             row == [Counted(a, read) EXCEPT !.deadline = deadline]
  <2>1. deadline \in {"none", "open", "past"}
    BY <1>5 DEF Attempt
  <2>2. Update(a, row) /\ attempts[a].outcome = "PAYMENT_REQUIRED"
    BY <1>11 DEF ReadHoldEnded, EndsHold, FinalRead
  <2> HIDE DEF deadline
  <2>3. row \in Attempt
    BY <1>5, <2>1 DEF Attempt
  <2>4. /\ row.outcome = attempts[a].outcome
        /\ row.resolution = Counted(a, read).resolution
    BY <1>5 DEF Attempt
  <2> HIDE DEF row
  <2> QED
    BY <1>5, <1>6, <2>2, <2>3, <2>4, OneAnswer
<1> QED
  BY <1>7, <1>8, <1>9, <1>10, <1>11 DEF ApplyRead, ReadPaid, ReadMore, ReadKinds

(* Every step keeps the answers.                                            *)
LEMMA AnswersStep ==
  ASSUME TypeOK, AbsenceIsSettled, [Next]_vars
  PROVE  AnswersKept
<1>1. CASE ObservationStep
  <2>1. attempts' = attempts
    BY <1>1 DEF ObservationStep, PrepareBlocked, Prepare, Persist,
       AbandonObservation, records
  <2> QED
    BY <2>1, NoAnswer
<1>2. CASE UseWinner
  <2>1. PICK k \in winners :
          DropWinner(k) \/ ReserveDeparted(k) \/ ReserveSignedOut(k) \/ Claim(k)
    BY <1>2 DEF UseWinner
  <2>2. CASE DropWinner(k) \/ ReserveDeparted(k) \/ ReserveSignedOut(k)
    <3>1. attempts' = attempts
      BY <2>2 DEF DropWinner, ReserveDeparted, ReserveSignedOut, records
    <3> QED
      BY <3>1, NoAnswer
  <2>3. CASE Claim(k)
    <3>1. NewAttempt(k).resolution = "none"
      BY DEF NewAttempt
    <3>2. \A a \in Ids : a # Len(attempts) + 1
      BY LenProperties DEF TypeOK, RecordsTypeOK, Ids
    <3> QED
      BY <2>3, <3>1, <3>2, ClaimAppends
      DEF AnswersKept, AnswerKept, AbsenceIsSettled, SettledAbsence, Pending, Unresolved
  <2> QED
    BY <2>1, <2>2, <2>3
<1>3. CASE AttemptStep
  <2>1. PICK a \in Ids : \/ ReservationReturns(a) \/ RecoverStale(a)
                         \/ StartRead(a) \/ ApplyRead(a) \/ DeadlinePasses(a)
    BY <1>3 DEF AttemptStep
  <2>2. CASE StartRead(a)
    BY <2>2, NoAnswer DEF StartRead, records
  <2>3. CASE DeadlinePasses(a)
    <3> DEFINE row == [attempts[a] EXCEPT !.deadline = "past"]
    <3>1. attempts[a] \in Attempt
      BY RowIsAttempt DEF TypeOK
    <3>2. row \in Attempt /\ Update(a, row)
      BY <2>3, <3>1 DEF Attempt, DeadlinePasses
    <3>3. /\ row.outcome = attempts[a].outcome /\ row.conf = attempts[a].conf
          /\ row.reads = attempts[a].reads /\ row.resolution = attempts[a].resolution
          /\ row.next = attempts[a].next
      BY <3>1 DEF Attempt
    <3>4. attempts[a].resolution = "CONFIRMED_ABSENT" => SettledAbsence(a)
      BY DEF AbsenceIsSettled
    <3> HIDE DEF row
    <3> QED
      BY <3>2, <3>3, <3>4, OneAnswer DEF Pending, Unresolved, SettledAbsence
  <2> QED
    BY <2>1, <2>2, <2>3, ResultsAnswer, ReadingsAnswer
<1>4. CASE DropRead
  BY <1>4, NoAnswer DEF DropRead, records
<1>5. CASE OutsideStep
  <2>1. ASSUME NEW version \in Nat, Login(version) PROVE AnswersKept
    <3>1. /\ Ids' = Ids
          /\ \A a \in Ids :
               \/ attempts'[a] = attempts[a]
               \/ /\ attempts[a].conf = "AUTH_REQUIRED"
                  /\ attempts'[a] = [attempts[a] EXCEPT !.next = TRUE,
                                                        !.reads = Refunded(a)]
      BY <2>1, LoginAttempts DEF TypeOK
    <3>2. ASSUME NEW a \in Ids
          PROVE  /\ attempts'[a].resolution = "CONFIRMED_ABSENT" => SettledAbsence(a)'
                 /\ AnswerKept(a)
      <4>1. attempts[a] \in Attempt
        BY RowIsAttempt DEF TypeOK
      <4>2. attempts[a].resolution = "CONFIRMED_ABSENT" => SettledAbsence(a)
        BY DEF AbsenceIsSettled
      <4>3. CASE attempts'[a] = attempts[a]
        BY <4>2, <4>3 DEF SettledAbsence, AnswerKept, Pending, Unresolved
      <4>4. CASE /\ attempts[a].conf = "AUTH_REQUIRED"
                 /\ attempts'[a] = [attempts[a] EXCEPT !.next = TRUE,
                                                       !.reads = Refunded(a)]
        <5>1. /\ attempts'[a].outcome = attempts[a].outcome
              /\ attempts'[a].conf = attempts[a].conf
              /\ attempts'[a].resolution = attempts[a].resolution
          BY <4>1, <4>4 DEF Attempt
        <5> QED
          BY <4>2, <4>4, <5>1 DEF SettledAbsence, AnswerKept, Pending, Unresolved
      <4> QED
        BY <3>1, <4>3, <4>4
    <3> QED
      BY <3>1, <3>2 DEF AnswersKept, AbsenceIsSettled
  <2>2. CASE VerifyLogin \/ ReplaceCredentials
    <3>1. account.version \in Nat /\ account.version + 1 \in Nat
      BY DEF TypeOK, RecordsTypeOK
    <3> QED
      BY <2>1, <2>2, <3>1 DEF VerifyLogin, ReplaceCredentials
  <2>3. CASE ~(VerifyLogin \/ ReplaceCredentials)
    <3>1. attempts' = attempts
      BY <1>5, <2>3 DEF OutsideStep, CircuitNotClosed, SignOut, UserStep, Expire,
         Depart, Rearm, records
    <3> QED
      BY <3>1, NoAnswer
  <2> QED
    BY <2>2, <2>3
<1>6. CASE UNCHANGED vars
  BY <1>6, NoAnswer DEF vars
<1> QED
  BY <1>1, <1>2, <1>3, <1>4, <1>5, <1>6 DEF Next

(* While the watch waits for a claim no other one can be made: it has to    *)
(* leave these statuses first.                                              *)
WaitingStatuses == {"RESERVING", "PAYMENT_REQUIRED", "COMPLETED", "EXPIRED"}

(* A step that settles or withdraws the claim the watch waits for.          *)
SettlesClaim(a) ==
    /\ watch.status = "RESERVING"
    /\ Pending(a)
    /\ a \notin Ids' \/ ~Pending(a)'

(* The watch stops waiting for a claim when it is answered, when the        *)
(* session is found gone, or when the hold of another attempt ends.         *)
LEMMA WaitingStep ==
  ASSUME TypeOK, [Next]_vars,
         watch.status \in WaitingStatuses, watch'.status \notin WaitingStatuses
  PROVE  \/ \E a \in Ids : SettlesClaim(a)
         \/ watch.status = "RESERVING" /\ watch'.status = "AUTH_REQUIRED"
         \/ watch.status = "PAYMENT_REQUIRED" /\ watch'.status = "WATCHING"
<1> USE DEF WaitingStatuses
<1>1. watch \in WatchRows
  BY DEF TypeOK, RecordsTypeOK, WatchRows
<1>2. \A status, why : MoveTo(status, why).status = status
  BY <1>1 DEF MoveTo, WatchRows
<1>3. \A status : GoTo(status).status = status
  BY <1>2 DEF GoTo
<1>4. PaidWatch.status \in WaitingStatuses
  BY <1>1, <1>3 DEF PaidWatch, WatchRows
<1>5. watch' # watch
  OBVIOUS
<1>6. CASE ObservationStep
  BY <1>5, <1>6 DEF ObservationStep, PrepareBlocked, Prepare, Persist,
     AbandonObservation, ObservationStatuses, records
<1>7. CASE UseWinner
  BY <1>5, <1>7
  DEF UseWinner, DropWinner, ReserveDeparted, ReserveSignedOut, Claim, records
<1>8. CASE AttemptStep
  <2>1. PICK a \in Ids : \/ ReservationReturns(a) \/ RecoverStale(a)
                         \/ StartRead(a) \/ ApplyRead(a) \/ DeadlinePasses(a)
    BY <1>8 DEF AttemptStep
  <2>2. attempts[a] \in Attempt /\ RecordsTypeOK
    BY RowIsAttempt DEF TypeOK
  <2>3. Started(a) \in {GoTo("WATCHING"), watch} /\ Started(a) = watch
    BY DEF Started
  <2>4. CASE DeferReservation(a)
    BY <2>4, DeferralWithdraws DEF DeferReservation, StillClaimed, SettlesClaim, Pending
  <2>5. ASSUME NEW answer \in Answers, FinishReservation(a, answer)
        PROVE  SettlesClaim(a)
    <3>1. Returned(a, answer) \in Attempt /\ Update(a, Returned(a, answer))
      BY <2>2, <2>5, ReturnedType DEF FinishReservation
    <3>2. attempts'[a] = Returned(a, answer)
      BY <2>2, <3>1, UpdateRow
    <3>3. ResultOutcome(answer) # "PENDING"
      BY DEF ResultOutcome
    <3>4. attempts'[a].outcome # "PENDING"
      BY <2>2, <3>2, <3>3 DEF Returned, Attempt
    <3> QED
      BY <2>5, <3>4 DEF FinishReservation, StillClaimed, SettlesClaim, Pending
  <2>6. ASSUME NEW answer \in Answers, FenceLateResult(a, answer)
        PROVE  watch.status = "RESERVING" /\ watch'.status = "AUTH_REQUIRED"
    BY <1>2, <1>4, <1>5, <2>6 DEF FenceLateResult
  <2>7. CASE RecoverStale(a)
    <3> DEFINE row == [attempts[a] EXCEPT !.outcome = "UNKNOWN"]
    <3>1. row \in Attempt /\ Update(a, row)
      BY <2>2, <2>7 DEF Attempt, Outcomes, RecoverStale
    <3>2. attempts'[a] = row /\ row.outcome = "UNKNOWN"
      BY <2>2, <3>1, UpdateRow DEF Attempt
    <3> QED
      BY <1>5, <2>7, <3>2 DEF RecoverStale, SettlesClaim, Pending
  <2>8. CASE ReadHold(a)
    BY <1>1, <1>5, <2>3, <2>8 DEF ReadHold, GoTo, MoveTo, WatchRows
  <2>9. ASSUME NEW read, ReadHoldEnded(a, read)
        PROVE  watch.status = "PAYMENT_REQUIRED" /\ watch'.status = "WATCHING"
    BY <1>1, <2>9 DEF ReadHoldEnded, EndsHold, FinalRead, GoTo, MoveTo, WatchRows
  <2>10. ~LoseResult(a) /\ ~StartRead(a) /\ ~DeadlinePasses(a) /\ ~DeferRead(a)
    BY <1>5 DEF LoseResult, StartRead, DeadlinePasses, DeferRead, records
  <2>11. ~ReadSignedOut(a) /\ ~ReadPaid(a)
    BY <1>4, <1>5 DEF ReadSignedOut, ReadPaid
  <2>12. ASSUME NEW read, ReadMore(a, read) PROVE FALSE
    BY <1>5, <2>3, <2>12 DEF ReadMore
  <2> QED
    BY <2>1, <2>4, <2>5, <2>6, <2>7, <2>8, <2>9, <2>10, <2>11, <2>12
    DEF ReservationReturns, ApplyRead
<1>9. CASE DropRead
  BY <1>5, <1>9 DEF DropRead, records
<1>10. CASE OutsideStep
  BY <1>3, <1>5, <1>10
  DEF OutsideStep, CircuitNotClosed, VerifyLogin, ReplaceCredentials, Login, SignOut,
      UserStep, Expire, Depart, Rearm, ObservationStatuses, records
<1>11. CASE UNCHANGED vars
  BY <1>5, <1>11 DEF vars
<1> QED
  BY <1>6, <1>7, <1>8, <1>9, <1>10, <1>11 DEF Next

(* The inductive invariant: an unanswered claim the watch has not stopped   *)
(* waiting for is the newest and the watch waits; and the claim after an    *)
(* unresolved one is its recovery.                                          *)

PendingAlone ==
    \A a \in Ids : Pending(a) /\ ~Overtaken(a) =>
      a = Len(attempts) /\ watch.status \in WaitingStatuses

Recovers(b, a) ==
    attempts[b].episode \in RecoveryEpisodes /\ attempts[b].source = a

RecoveredNext ==
    \A a \in Ids : Unresolved(a) /\ ~Overtaken(a) /\ a < Len(attempts) =>
      Recovers(a + 1, a)

HistoryInv ==
    /\ overtaken \subseteq Nat
    /\ AbsenceIsSettled
    /\ OneRecoveryPerUnknown
    /\ PendingAlone
    /\ RecoveredNext

(* A step of the tracked reservation is a step of the reservation, and what *)
(* the watch stops waiting for is remembered.                               *)
LEMMA TrackedStep ==
  ASSUME TypeOK, [TrackedNext]_history
  PROVE  /\ [Next]_vars
         /\ overtaken \subseteq overtaken'
         /\ overtaken \subseteq Nat => overtaken' \subseteq Nat
         /\ \/ watch.status = "RESERVING" /\ watch'.status = "AUTH_REQUIRED"
            \/ watch.status = "PAYMENT_REQUIRED" /\ watch'.status = "WATCHING"
            => \A a \in Ids \cap Ids' : Pending(a)' => a \in overtaken'
<1>1. Ids \subseteq Nat
  BY LenProperties DEF TypeOK, RecordsTypeOK, Ids
<1>2. CASE TrackedNext
  BY <1>1, <1>2 DEF TrackedNext, StopsWaiting, Pending
<1>3. CASE UNCHANGED history
  BY <1>3 DEF history, vars
<1> QED
  BY <1>2, <1>3

(* What is not overtaken yet has not been.                                  *)
LEMMA OvertakenGrows ==
  ASSUME TypeOK, [TrackedNext]_history, NEW a, Overtaken(a)
  PROVE  Overtaken(a)'
BY TrackedStep DEF Overtaken

(* Every step leaves an unanswered claim alone.                             *)
LEMMA PendingAloneStep ==
  ASSUME TypeOK, HistoryInv, [TrackedNext]_history
  PROVE  PendingAlone'
<1> SUFFICES ASSUME NEW a \in Ids', Pending(a)', ~Overtaken(a)'
             PROVE  a = Len(attempts') /\ watch'.status \in WaitingStatuses
  BY DEF PendingAlone
<1>1. [Next]_vars /\ AnswersKept
  BY TrackedStep, AnswersStep DEF HistoryInv
<1>2. Len(attempts) \in Nat /\ \A b \in Ids : b \in Nat /\ b <= Len(attempts)
  BY LenProperties DEF TypeOK, RecordsTypeOK, Ids
<1>3. CASE a \in Ids
  <2>1. Pending(a) /\ ~Overtaken(a)
    BY <1>1, <1>3, OvertakenGrows DEF AnswersKept, AnswerKept
  <2>2. a = Len(attempts) /\ watch.status \in WaitingStatuses
    BY <1>3, <2>1 DEF HistoryInv, PendingAlone
  <2>3. watch'.status \in WaitingStatuses
    <3>1. ASSUME NEW b \in Ids, SettlesClaim(b) PROVE FALSE
      <4>1. Pending(b) /\ (b \notin Ids' \/ ~Pending(b)')
        BY <3>1 DEF SettlesClaim
      <4>2. ~Overtaken(b)
        BY <1>2, <2>1, <2>2 DEF Overtaken, HistoryInv
      <4>3. b = a
        BY <2>2, <4>1, <4>2 DEF HistoryInv, PendingAlone
      <4> QED
        BY <4>1, <4>3
    <3>2. ASSUME \/ watch.status = "RESERVING" /\ watch'.status = "AUTH_REQUIRED"
                 \/ watch.status = "PAYMENT_REQUIRED" /\ watch'.status = "WATCHING"
          PROVE  FALSE
      <4>1. a \in overtaken'
        BY <1>3, <3>2, TrackedStep
      <4> QED
        BY <1>2, <1>3, <4>1 DEF Overtaken
    <3> QED
      BY <1>1, <2>2, <3>1, <3>2, WaitingStep
  <2>4. a = Len(attempts')
    <3>1. CASE Settled
      BY <1>2, <2>2, <3>1, TypeStep, <1>1, LenProperties
      DEF Settled, Ids, TypeOK, RecordsTypeOK
    <3>2. ASSUME NEW k \in winners, Claim(k) PROVE FALSE
      BY <2>2, <3>2 DEF Claim, WaitingStatuses
    <3>3. ASSUME NEW b \in Ids, DeferReservation(b) PROVE FALSE
      BY <2>2, <3>3, DeferralWithdraws DEF DeferReservation
    <3> QED
      BY <1>1, <3>1, <3>2, <3>3, AttemptSteps
  <2> QED
    BY <2>3, <2>4
<1>4. CASE a \notin Ids
  <2>1. PICK k \in winners : Claim(k)
    BY <1>1, <1>4, AttemptSteps, DeferralWithdraws DEF Settled
  <2>2. a = Len(attempts')
    BY <1>4, <2>1, ClaimAppends
  <2>3. watch'.status = "RESERVING"
    BY <2>1 DEF Claim, GoTo, MoveTo, TypeOK, RecordsTypeOK
  <2> QED
    BY <2>2, <2>3 DEF WaitingStatuses
<1> QED
  BY <1>3, <1>4

(* Every step leaves the next claim after an unresolved one its recovery.   *)
LEMMA RecoveredNextStep ==
  ASSUME TypeOK, HistoryInv, [TrackedNext]_history
  PROVE  RecoveredNext'
<1> SUFFICES ASSUME NEW a \in Ids', Unresolved(a)', ~Overtaken(a)',
                    a < Len(attempts')
             PROVE  Recovers(a + 1, a)'
  BY DEF RecoveredNext
<1>1. [Next]_vars /\ AnswersKept
  BY TrackedStep, AnswersStep DEF HistoryInv
<1>2. Len(attempts) \in Nat
  BY LenProperties DEF TypeOK, RecordsTypeOK
<1>3. ~Overtaken(a)
  BY OvertakenGrows
<1>4. CASE Settled
  <2>1. Len(attempts') \in Nat
    BY <1>1, TypeStep, LenProperties DEF TypeOK, RecordsTypeOK
  <2>2. a \in Ids /\ Len(attempts') = Len(attempts)
    BY <1>2, <1>4, <2>1 DEF Settled, Ids
  <2>3. Unresolved(a)
    <3>1. Pending(a) => a = Len(attempts)
      BY <1>3, <2>2 DEF HistoryInv, PendingAlone
    <3>2. ~Pending(a)
      BY <1>2, <2>2, <3>1
    <3> QED
      BY <1>1, <2>2, <3>2 DEF AnswersKept, AnswerKept
  <2>4. Recovers(a + 1, a)
    BY <1>3, <2>2, <2>3 DEF HistoryInv, RecoveredNext
  <2>5. a + 1 \in Ids
    BY <1>2, <2>2 DEF Ids
  <2> QED
    BY <1>4, <2>4, <2>5 DEF Settled, SameClaim, Recovers
<1>5. ASSUME NEW k \in winners, Claim(k) PROVE Recovers(a + 1, a)'
  <2> DEFINE new == Len(attempts) + 1
  <2>1. /\ Len(attempts') = new
        /\ Ids' = Ids \cup {new}
        /\ \A b \in Ids : attempts'[b] = attempts[b]
        /\ attempts'[new] = NewAttempt(k)
    BY <1>5, ClaimAppends
  <2>2. a \in Ids /\ a \in 1..Len(attempts)
    BY <1>2, <2>1 DEF Ids
  <2>3. Unresolved(a)
    BY <2>1, <2>2 DEF Unresolved
  <2>4. CASE a < Len(attempts)
    <3>1. Recovers(a + 1, a) /\ a + 1 \in Ids
      BY <1>2, <1>3, <2>2, <2>3, <2>4 DEF HistoryInv, RecoveredNext, Ids
    <3> QED
      BY <2>1, <3>1 DEF Recovers
  <2>5. CASE a = Len(attempts)
    <3>1. ~Consumed(a)
      <4> SUFFICES ASSUME NEW b \in Ids, attempts[b].episode \in RecoveryEpisodes,
                          attempts[b].source = a
                   PROVE  FALSE
        BY DEF Consumed
      <4>1. a \in 1..(b - 1)
        BY DEF HistoryInv, OneRecoveryPerUnknown
      <4>2. b \in 1..Len(attempts)
        BY DEF Ids
      <4> QED
        BY <1>2, <2>5, <4>1, <4>2
    <3>2. a \in ActiveUnresolvedUnknown
      BY <2>2, <2>3, <3>1 DEF ActiveUnresolvedUnknown, Unresolved
    <3>3. k.episode = "manual-unknown-rearm" /\ k.source = a
      BY <1>5, <3>2 DEF Claim, Authorized, Unfenced
    <3>4. NewAttempt(k).episode = k.episode /\ NewAttempt(k).source = k.source
      BY DEF NewAttempt
    <3> QED
      BY <2>1, <2>5, <3>3, <3>4 DEF Recovers, RecoveryEpisodes
  <2> QED
    BY <1>2, <2>2, <2>4, <2>5
<1>6. ASSUME NEW b \in Ids, DeferReservation(b) PROVE Recovers(a + 1, a)'
  <2>1. /\ Len(attempts') = Len(attempts) - 1
        /\ Ids' = Ids \ {b}
        /\ \A c \in Ids' : attempts'[c] = attempts[c]
    BY <1>6, DeferralWithdraws
  <2>2. a \in Ids /\ a < Len(attempts) /\ a + 1 \in Ids'
    BY <1>2, <2>1 DEF Ids
  <2>3. Unresolved(a)
    BY <2>1 DEF Unresolved
  <2>4. Recovers(a + 1, a)
    BY <1>3, <2>2, <2>3 DEF HistoryInv, RecoveredNext
  <2> QED
    BY <2>1, <2>2, <2>4 DEF Recovers
<1> QED
  BY <1>1, <1>4, <1>5, <1>6, AttemptSteps

(* Every step keeps the invariant of the history.                           *)
LEMMA HistoryStep == TypeOK /\ HistoryInv /\ [TrackedNext]_history => HistoryInv'
<1> SUFFICES ASSUME TypeOK, HistoryInv, [TrackedNext]_history PROVE HistoryInv'
  OBVIOUS
<1>1. [Next]_vars /\ overtaken' \subseteq Nat
  BY TrackedStep DEF HistoryInv
<1>2. AbsenceIsSettled'
  BY <1>1, AnswersStep DEF HistoryInv, AnswersKept
<1>3. OneRecoveryPerUnknown'
  BY <1>1, RecoveryStep DEF HistoryInv
<1> QED
  BY <1>1, <1>2, <1>3, PendingAloneStep, RecoveredNextStep DEF HistoryInv

(* A new watch has no history.                                              *)
LEMMA HistoryStart == TrackedInit => TypeOK /\ HistoryInv
<1> SUFFICES ASSUME TrackedInit PROVE TypeOK /\ HistoryInv
  OBVIOUS
<1>1. Init /\ overtaken = {}
  BY DEF TrackedInit
<1>2. Ids = {}
  BY <1>1, EmptySeq DEF Init, Ids
<1> QED
  BY <1>1, <1>2, TypeInit
  DEF HistoryInv, AbsenceIsSettled, OneRecoveryPerUnknown, PendingAlone, RecoveredNext

(* The invariant holds in every state of every history.                     *)
THEOREM HistoryInvariant == TrackedSpec => [](TypeOK /\ HistoryInv)
<1>1. TypeOK /\ HistoryInv /\ [TrackedNext]_history => (TypeOK /\ HistoryInv)'
  BY TrackedStep, TypeStep, HistoryStep
<1> QED
  BY HistoryStart, <1>1, PTL DEF TrackedSpec

(* While a command is unanswered no other command is sent, for any number   *)
(* of candidates, attempts, observations and readings, unless the watch had *)
(* stopped waiting for that command or an older one.                        *)
THEOREM PendingStaysNewest == TrackedSpec => []PendingIsNewest
<1>1. TypeOK /\ HistoryInv => PendingIsNewest
  <2> SUFFICES ASSUME TypeOK, HistoryInv, NEW a \in Ids, NEW b \in Ids,
                      Pending(a), a < b, ~Overtaken(a)
               PROVE  FALSE
    BY DEF PendingIsNewest, Pending
  <2>1. a = Len(attempts)
    BY DEF HistoryInv, PendingAlone
  <2> QED
    BY <2>1, LenProperties DEF TypeOK, RecordsTypeOK, Ids
<1> QED
  BY HistoryInvariant, <1>1, PTL

(* At most one UNKNOWN command of the whole watch may still own a           *)
(* reservation, for any number of candidates, attempts and readings, unless *)
(* the watch had stopped waiting for a claim.                               *)
THEOREM UnresolvedIsSingle == TrackedSpec => []AtMostOneUnresolved
<1>1. TypeOK /\ HistoryInv => AtMostOneUnresolved
  <2> SUFFICES ASSUME TypeOK, HistoryInv, NEW a \in ActiveUnresolvedUnknown,
                      NEW b \in ActiveUnresolvedUnknown, a < b, ~Overtaken(a)
               PROVE  FALSE
    BY DEF AtMostOneUnresolved
  <2>1. a \in Ids /\ b \in Ids /\ Unresolved(a) /\ ~Consumed(a)
    BY DEF ActiveUnresolvedUnknown, Unresolved
  <2>2. Len(attempts) \in Nat
    BY LenProperties DEF TypeOK, RecordsTypeOK
  <2>3. a < Len(attempts) /\ a + 1 \in Ids
    BY <2>1, <2>2 DEF Ids
  <2>4. Recovers(a + 1, a)
    BY <2>1, <2>3 DEF HistoryInv, RecoveredNext
  <2> QED
    BY <2>1, <2>3, <2>4 DEF Recovers, Consumed
<1> QED
  BY HistoryInvariant, <1>1, PTL

-----------------------------------------------------------------------------
(* The ledger of commands. Every transaction sends one command, withdraws   *)
(* the newest, lets one answer go on, or leaves the ledger alone.           *)

AnswerNames == {"open", "unknown", "held", "refused", "absent", "paid"}

CommandEntry == [answer : AnswerNames, recovers : Nat]

CommandsOf(rows) == [a \in 1..Len(rows) |-> Command(rows[a])]

(* The entry of an attempt.                                                 *)
LEMMA CommandType ==
  ASSUME NEW row \in Attempt
  PROVE  /\ Command(row) \in CommandEntry
         /\ Command(row).answer = Answered(row)
         /\ Command(row).recovers =
              IF row.episode \in RecoveryEpisodes THEN row.source ELSE 0
<1>1. Answered(row) \in AnswerNames
  BY DEF Answered, AnswerNames
<1>2. row.source \in Nat
  BY DEF Attempt
<1> QED
  BY <1>1, <1>2 DEF Command, CommandEntry

(* The ledger has one entry per attempt.                                    *)
LEMMA CommandsType ==
  ASSUME NEW rows \in Seq(Attempt)
  PROVE  /\ Len(rows) \in Nat
         /\ CommandsOf(rows) \in Seq(CommandEntry)
         /\ Len(CommandsOf(rows)) = Len(rows)
         /\ DOMAIN CommandsOf(rows) = 1..Len(rows)
         /\ \A a \in 1..Len(rows) : CommandsOf(rows)[a] = Command(rows[a])
<1>1. Len(rows) \in Nat
  BY LenProperties
<1>2. \A a \in 1..Len(rows) : Command(rows[a]) \in CommandEntry
  BY CommandType, ElementOfSeq
<1>3. CommandsOf(rows) \in [1..Len(rows) -> CommandEntry]
  BY <1>2 DEF CommandsOf
<1>4. CommandsOf(rows) \in Seq(CommandEntry)
  BY <1>1, <1>3, IsASeq
<1>5. Len(CommandsOf(rows)) = Len(rows)
  BY <1>1, <1>3, <1>4, LenProperties
<1> QED
  BY <1>1, <1>3, <1>4, <1>5 DEF CommandsOf

(* A new attempt adds its entry.                                            *)
LEMMA CommandsAppend ==
  ASSUME NEW rows \in Seq(Attempt), NEW row \in Attempt
  PROVE  CommandsOf(Append(rows, row)) = Append(CommandsOf(rows), Command(row))
<1> DEFINE new == Append(rows, row)
           ledger == CommandsOf(rows)
<1>1. /\ new \in Seq(Attempt)
      /\ Len(rows) \in Nat
      /\ Len(new) = Len(rows) + 1
      /\ \A a \in 1..Len(rows) : new[a] = rows[a]
      /\ new[Len(rows) + 1] = row
  BY AppendProperties, LenProperties
<1>2. /\ ledger \in Seq(CommandEntry) /\ Len(ledger) = Len(rows)
      /\ \A a \in 1..Len(rows) : ledger[a] = Command(rows[a])
  BY CommandsType
<1>3. Command(row) \in CommandEntry
  BY CommandType
<1>4. /\ Append(ledger, Command(row)) \in Seq(CommandEntry)
      /\ Len(Append(ledger, Command(row))) = Len(rows) + 1
      /\ \A a \in 1..Len(rows) : Append(ledger, Command(row))[a] = Command(rows[a])
      /\ Append(ledger, Command(row))[Len(rows) + 1] = Command(row)
  BY <1>1, <1>2, <1>3, AppendProperties
<1>5. /\ CommandsOf(new) \in Seq(CommandEntry)
      /\ Len(CommandsOf(new)) = Len(rows) + 1
      /\ \A a \in 1..(Len(rows) + 1) : CommandsOf(new)[a] = Command(new[a])
  BY <1>1, CommandsType
<1>6. ASSUME NEW a \in 1..(Len(rows) + 1)
      PROVE  CommandsOf(new)[a] = Append(ledger, Command(row))[a]
  BY <1>1, <1>4, <1>5
<1> HIDE DEF new, ledger
<1>7. CommandsOf(new) = Append(ledger, Command(row))
  BY <1>4, <1>5, <1>6, SeqEqual
<1> QED
  BY <1>7 DEF new, ledger

(* The newest attempt takes its entry along.                                *)
LEMMA CommandsWithdraw ==
  ASSUME NEW rows \in Seq(Attempt), Len(rows) > 0
  PROVE  CommandsOf(SubSeq(rows, 1, Len(rows) - 1)) =
           SubSeq(CommandsOf(rows), 1, Len(rows) - 1)
<1> DEFINE n == Len(rows) - 1
           new == SubSeq(rows, 1, n)
           ledger == CommandsOf(rows)
<1>1. /\ Len(rows) \in Nat /\ n \in Nat /\ n < Len(rows)
      /\ ledger \in Seq(CommandEntry) /\ Len(ledger) = Len(rows)
      /\ \A a \in 1..Len(rows) : ledger[a] = Command(rows[a])
  BY CommandsType
<1>2. /\ \A a \in 1..n : rows[a] \in Attempt
      /\ \A a \in 1..n : ledger[a] \in CommandEntry
  BY <1>1, ElementOfSeq
<1>3. /\ new \in Seq(Attempt) /\ Len(new) = n
      /\ \A a \in 1..n : new[a] = rows[a]
  BY <1>1, <1>2, SubSeqProperties
<1>4. /\ SubSeq(ledger, 1, n) \in Seq(CommandEntry) /\ Len(SubSeq(ledger, 1, n)) = n
      /\ \A a \in 1..n : SubSeq(ledger, 1, n)[a] = ledger[a]
  BY <1>1, <1>2, SubSeqProperties
<1>5. /\ CommandsOf(new) \in Seq(CommandEntry) /\ Len(CommandsOf(new)) = n
      /\ \A a \in 1..n : CommandsOf(new)[a] = Command(new[a])
  BY <1>3, CommandsType
<1>6. \A a \in 1..n : CommandsOf(new)[a] = SubSeq(ledger, 1, n)[a]
  BY <1>1, <1>3, <1>4, <1>5
<1> HIDE DEF n, new, ledger
<1>7. CommandsOf(new) = SubSeq(ledger, 1, n)
  BY <1>1, <1>4, <1>5, <1>6, SeqEqual
<1> QED
  BY <1>7 DEF n, new, ledger

(* One answer goes on.                                                      *)
AnswerGoesOn ==
    \E a \in Ids : \E answer \in Ledger!Later[Answered(attempts[a])] :
      Commands' = [Commands EXCEPT ![a].answer = answer]

(* A step that writes one attempt without taking its answer back.           *)
LEMMA RowGoesOn ==
  ASSUME TypeOK, NEW a \in Ids, NEW row \in Attempt, Update(a, row),
         row.episode = attempts[a].episode, row.source = attempts[a].source,
         \/ Answered(row) = Answered(attempts[a])
         \/ Answered(row) \in Ledger!Later[Answered(attempts[a])]
  PROVE  Commands' = Commands \/ AnswerGoesOn
<1> DEFINE answer == Answered(row)
<1>1. attempts[a] \in Attempt
  BY RowIsAttempt DEF TypeOK
<1>2. /\ Ids' = Ids
      /\ \A b \in Ids : attempts'[b] = IF b = a THEN row ELSE attempts[b]
  BY UpdateRow DEF TypeOK
<1>3. Command(row) = [Command(attempts[a]) EXCEPT !.answer = answer]
  BY DEF Command
<1>4. Commands' = [Commands EXCEPT ![a] = Command(row)]
  BY <1>2 DEF Commands
<1>5. Commands' = [Commands EXCEPT ![a].answer = answer]
  BY <1>3, <1>4 DEF Commands
<1>6. CASE answer = Answered(attempts[a])
  <2>1. Command(row) = Command(attempts[a])
    BY <1>6 DEF Command
  <2>2. Command(row) = Commands[a]
    BY <2>1 DEF Commands
  <2> QED
    BY <1>4, <2>2 DEF Commands
<1>7. CASE answer \in Ledger!Later[Answered(attempts[a])]
  BY <1>5, <1>7 DEF AnswerGoesOn
<1> QED
  BY <1>6, <1>7

(* A row with the same claim whose answer is what it was.                   *)
SameAnswer(row, old) ==
    /\ row.episode = old.episode /\ row.source = old.source
    /\ row.outcome = old.outcome /\ row.conf = old.conf
    /\ row.resolution = old.resolution

(* The answer depends on nothing else.                                      *)
LEMMA SameAnswerStays ==
  ASSUME NEW row, NEW old, SameAnswer(row, old)
  PROVE  Answered(row) = Answered(old)
BY DEF SameAnswer, Answered

(* The results of calls let the answer of their attempt go on.              *)
LEMMA ResultsGoOn ==
  ASSUME TypeOK, AbsenceIsSettled, NEW a \in Ids,
         ReservationReturns(a) \/ RecoverStale(a), ~DeferReservation(a)
  PROVE  Commands' = Commands \/ AnswerGoesOn
<1>1. attempts[a] \in Attempt /\ RecordsTypeOK
  BY RowIsAttempt DEF TypeOK
<1>2. Pending(a) => attempts[a].resolution # "CONFIRMED_ABSENT"
  BY DEF AbsenceIsSettled, SettledAbsence, Pending
<1>3. Ledger!Later["open"] = {"unknown", "held", "refused", "paid"}
  BY DEF Ledger!Later
<1>4. Pending(a) => Answered(attempts[a]) = "open"
  BY DEF Pending, Answered
<1>5. ASSUME NEW row \in Attempt, Update(a, row), Pending(a),
             row.episode = attempts[a].episode, row.source = attempts[a].source,
             row.outcome # "PENDING",
             row.resolution \in {attempts[a].resolution, "none"}
      PROVE  AnswerGoesOn \/ Commands' = Commands
  <2>1. Answered(row) \in {"unknown", "held", "refused", "paid"}
    BY <1>2, <1>5 DEF Answered
  <2> QED
    BY <1>3, <1>4, <1>5, <2>1, RowGoesOn
<1>6. CASE LoseResult(a)
  <2> DEFINE row == [attempts[a] EXCEPT !.io = FALSE]
  <2>1. row \in Attempt /\ Update(a, row)
    BY <1>1, <1>6 DEF Attempt, LoseResult
  <2>2. SameAnswer(row, attempts[a])
    BY <1>1 DEF Attempt, SameAnswer
  <2> HIDE DEF row
  <2>3. Answered(row) = Answered(attempts[a])
    BY <2>2, SameAnswerStays
  <2> QED
    BY <2>1, <2>2, <2>3, RowGoesOn DEF SameAnswer
<1>7. ASSUME NEW answer \in Answers, FinishReservation(a, answer)
      PROVE  AnswerGoesOn \/ Commands' = Commands
  <2>1. /\ Returned(a, answer) \in Attempt
        /\ Update(a, Returned(a, answer))
        /\ Pending(a)
    BY <1>1, <1>7, ReturnedType DEF FinishReservation, StillClaimed, Pending
  <2>2. /\ Returned(a, answer).resolution = attempts[a].resolution
        /\ Returned(a, answer).outcome = ResultOutcome(answer)
        /\ Returned(a, answer).episode = attempts[a].episode
        /\ Returned(a, answer).source = attempts[a].source
    BY <1>1 DEF Returned, Attempt
  <2>3. ResultOutcome(answer) # "PENDING"
    BY DEF ResultOutcome
  <2> QED
    BY <1>5, <2>1, <2>2, <2>3
<1>8. ASSUME NEW answer \in Answers, FenceLateResult(a, answer)
      PROVE  AnswerGoesOn \/ Commands' = Commands
  <2> DEFINE row == [attempts[a] EXCEPT
         !.io = FALSE,
         !.outcome = IF @ = "PENDING" THEN "UNKNOWN" ELSE @,
         !.conf = IF attempts[a].outcome = "PENDING" \/ answer = "paid"
                  THEN ResultConfirmation(answer) ELSE @,
         !.seats = IF attempts[a].outcome = "PENDING"
                   THEN answer \in SeatAnswers ELSE @,
         !.next = @ /\ answer # "paid",
         !.resolution = IF answer = "paid" THEN "none" ELSE @]
  <2>1. Update(a, row)
    BY <1>8, Zenon DEF FenceLateResult
  <2>2. row \in Attempt
    BY <1>1, LateRowType
  <2>3. /\ row.outcome = IF attempts[a].outcome = "PENDING" THEN "UNKNOWN"
                         ELSE attempts[a].outcome
        /\ row.conf = IF attempts[a].outcome = "PENDING" \/ answer = "paid"
                      THEN ResultConfirmation(answer) ELSE attempts[a].conf
        /\ row.resolution = IF answer = "paid" THEN "none" ELSE attempts[a].resolution
    BY <1>1 DEF Attempt
  <2>4. row.episode = attempts[a].episode /\ row.source = attempts[a].source
    BY <1>1 DEF Attempt
  <2>5. ResultConfirmation("paid") = "CONFIRMED_PAID"
    BY DEF ResultConfirmation
  <2> HIDE DEF row
  <2>6. CASE Pending(a)
    BY <1>5, <2>1, <2>2, <2>3, <2>4, <2>6 DEF Pending
  <2>7. CASE ~Pending(a) /\ answer = "paid"
    <3>1. Answered(row) = "paid"
      BY <2>3, <2>5, <2>7 DEF Answered, Pending
    <3>2. Answered(attempts[a]) \in {"paid", "held", "refused", "absent", "unknown"}
      BY <2>7 DEF Answered, Pending
    <3>3. \A old \in {"held", "refused", "absent", "unknown"} :
            "paid" \in Ledger!Later[old]
      BY DEF Ledger!Later
    <3> QED
      BY <2>1, <2>2, <2>4, <3>1, <3>2, <3>3, RowGoesOn
  <2>8. CASE ~Pending(a) /\ answer # "paid"
    <3>1. SameAnswer(row, attempts[a])
      BY <2>3, <2>4, <2>8 DEF SameAnswer, Pending
    <3>2. Answered(row) = Answered(attempts[a])
      BY <3>1, SameAnswerStays
    <3> QED
      BY <2>1, <2>2, <2>4, <3>2, RowGoesOn
  <2> QED
    BY <2>6, <2>7, <2>8
<1>9. CASE RecoverStale(a)
  <2> DEFINE row == [attempts[a] EXCEPT !.outcome = "UNKNOWN"]
  <2>1. row \in Attempt /\ Update(a, row) /\ Pending(a)
    BY <1>1, <1>9 DEF Attempt, Outcomes, RecoverStale, Pending
  <2>2. /\ row.outcome = "UNKNOWN" /\ row.resolution = attempts[a].resolution
        /\ row.episode = attempts[a].episode /\ row.source = attempts[a].source
    BY <1>1 DEF Attempt
  <2> HIDE DEF row
  <2> QED
    BY <1>5, <2>1, <2>2
<1> QED
  BY <1>6, <1>7, <1>8, <1>9 DEF ReservationReturns

(* Readings let the answer of an UNKNOWN attempt or a hold go on.           *)
LEMMA ReadingsGoOn ==
  ASSUME TypeOK, AbsenceIsSettled, NEW a \in Ids, ApplyRead(a)
  PROVE  Commands' = Commands \/ AnswerGoesOn
<1>1. attempts[a] \in Attempt /\ RecordsTypeOK
  BY RowIsAttempt DEF TypeOK
<1>2. /\ Readable(a)
      /\ attempts[a].outcome \in {"PAYMENT_REQUIRED", "UNKNOWN"}
      /\ attempts[a].conf # "CONFIRMED_PAID"
  BY DEF ApplyRead, ReadSignedOut, ReadPaid, ReadHold, DeferRead, ReadHoldEnded,
     ReadMore, StillReading, Readable, ExactPaid
<1>3. attempts[a].resolution # "CONFIRMED_ABSENT"
  BY <1>2, AbsenceNotRead
<1>4. Answered(attempts[a]) =
        IF attempts[a].outcome = "UNKNOWN" THEN "unknown" ELSE "held"
  BY <1>2, <1>3 DEF Answered
<1>5. /\ Ledger!Later["unknown"] = {"held", "absent", "paid"}
      /\ Ledger!Later["held"] = {"paid"}
  BY DEF Ledger!Later
<1>6. ASSUME NEW row \in Attempt, Update(a, row),
             row.episode = attempts[a].episode, row.source = attempts[a].source,
             \/ row.outcome = attempts[a].outcome
             \/ row.outcome = "PAYMENT_REQUIRED"
      PROVE  AnswerGoesOn \/ Commands' = Commands
  <2>1. CASE row.outcome = "PAYMENT_REQUIRED"
    <3>1. Answered(row) \in {"held", "paid"}
      BY <2>1 DEF Answered
    <3> QED
      BY <1>4, <1>5, <1>6, <3>1, RowGoesOn
  <2>2. CASE row.outcome = "UNKNOWN" /\ attempts[a].outcome = "UNKNOWN"
    <3>1. Answered(row) \in {"unknown", "absent", "paid"}
      BY <2>2 DEF Answered
    <3> QED
      BY <1>4, <1>5, <1>6, <2>2, <3>1, RowGoesOn
  <2> QED
    BY <1>2, <1>6, <2>1, <2>2
<1>7. ASSUME NEW read
      PROVE  /\ Counted(a, read) \in Attempt
             /\ Counted(a, read).outcome = attempts[a].outcome
             /\ Counted(a, read).episode = attempts[a].episode
             /\ Counted(a, read).source = attempts[a].source
  <2>1. Counted(a, read) \in Attempt
    BY <1>1, CountedType
  <2> QED
    BY <1>1, <2>1 DEF Counted, Attempt
<1>8. CASE ReadSignedOut(a)
  <2> DEFINE row == [attempts[a] EXCEPT !.conf = "AUTH_REQUIRED",
                                        !.resolution = "none", !.next = FALSE]
  <2>1. row \in Attempt /\ Update(a, row)
    BY <1>1, <1>8 DEF Attempt, Confirmations, Resolutions, ReadSignedOut
  <2>2. /\ row.outcome = attempts[a].outcome
        /\ row.episode = attempts[a].episode /\ row.source = attempts[a].source
    BY <1>1 DEF Attempt
  <2> HIDE DEF row
  <2> QED
    BY <1>6, <2>1, <2>2
<1>9. ASSUME NEW read, Update(a, Counted(a, read))
      PROVE  AnswerGoesOn \/ Commands' = Commands
  BY <1>6, <1>7, <1>9
<1>10. CASE ReadHold(a)
  <2> DEFINE row == [Counted(a, "hold") EXCEPT !.outcome = "PAYMENT_REQUIRED",
                                               !.deadline = "open",
                                               !.seats = FALSE]
  <2>1. row \in Attempt
    BY <1>7 DEF Attempt, Outcomes
  <2>2. Update(a, row)
    BY <1>10 DEF ReadHold
  <2>3. /\ row.outcome = "PAYMENT_REQUIRED"
        /\ row.episode = attempts[a].episode /\ row.source = attempts[a].source
    BY <1>7 DEF Attempt
  <2> HIDE DEF row
  <2> QED
    BY <1>6, <2>1, <2>2, <2>3
<1>11. CASE DeferRead(a)
  <2> DEFINE row == [attempts[a] EXCEPT !.next = TRUE]
  <2>1. row \in Attempt /\ Update(a, row)
    BY <1>1, <1>11 DEF Attempt, DeferRead
  <2>2. /\ row.outcome = attempts[a].outcome
        /\ row.episode = attempts[a].episode /\ row.source = attempts[a].source
    BY <1>1 DEF Attempt
  <2> HIDE DEF row
  <2> QED
    BY <1>6, <2>1, <2>2
<1>12. ASSUME NEW read \in ReadKinds, ReadHoldEnded(a, read)
       PROVE  AnswerGoesOn \/ Commands' = Commands
  <2> DEFINE deadline == IF read = "expiredHold" THEN "past"
                         ELSE Counted(a, read).deadline
             row == [Counted(a, read) EXCEPT !.deadline = deadline]
  <2>1. deadline \in {"none", "open", "past"}
    BY <1>7 DEF Attempt
  <2>2. Update(a, row)
    BY <1>12 DEF ReadHoldEnded
  <2> HIDE DEF deadline
  <2>3. row \in Attempt
    BY <1>7, <2>1 DEF Attempt
  <2>4. /\ row.outcome = attempts[a].outcome
        /\ row.episode = attempts[a].episode /\ row.source = attempts[a].source
    BY <1>7 DEF Attempt
  <2> HIDE DEF row
  <2> QED
    BY <1>6, <2>2, <2>3, <2>4
<1> QED
  BY <1>8, <1>9, <1>10, <1>11, <1>12 DEF ApplyRead, ReadPaid, ReadMore, ReadKinds

(* A login answers nothing.                                                 *)
LEMMA LoginGoesOn ==
  ASSUME TypeOK, NEW version \in Nat, Login(version)
  PROVE  Commands' = Commands
<1>1. /\ Ids' = Ids
      /\ \A a \in Ids :
           \/ attempts'[a] = attempts[a]
           \/ attempts'[a] = [attempts[a] EXCEPT !.next = TRUE,
                                                 !.reads = Refunded(a)]
  BY LoginAttempts DEF TypeOK
<1>2. ASSUME NEW a \in Ids PROVE Command(attempts'[a]) = Command(attempts[a])
  <2>1. attempts[a] \in Attempt
    BY RowIsAttempt DEF TypeOK
  <2>2. SameAnswer(attempts'[a], attempts[a])
    BY <1>1, <2>1 DEF SameAnswer, Attempt
  <2>3. Answered(attempts'[a]) = Answered(attempts[a])
    BY <2>2, SameAnswerStays
  <2> QED
    BY <2>2, <2>3 DEF SameAnswer, Command
<1> QED
  BY <1>1, <1>2 DEF Commands

(* Every step but a claim and a deferral lets one answer go on or none.     *)
LEMMA AnswersGoOn ==
  ASSUME TypeOK, AbsenceIsSettled, [Next]_vars
  PROVE  \/ Commands' = Commands
         \/ AnswerGoesOn
         \/ \E k \in winners : Claim(k)
         \/ \E a \in Ids : DeferReservation(a)
<1>1. ASSUME attempts' = attempts PROVE Commands' = Commands
  BY <1>1 DEF Commands, Ids
<1>2. CASE ObservationStep \/ DropRead \/ UNCHANGED vars
  BY <1>1, <1>2 DEF ObservationStep, PrepareBlocked, Prepare, Persist,
     AbandonObservation, DropRead, records, vars
<1>3. CASE UseWinner
  BY <1>1, <1>3 DEF UseWinner, DropWinner, ReserveDeparted, ReserveSignedOut, records
<1>4. CASE AttemptStep
  <2>1. PICK a \in Ids : \/ ReservationReturns(a) \/ RecoverStale(a)
                         \/ StartRead(a) \/ ApplyRead(a) \/ DeadlinePasses(a)
    BY <1>4 DEF AttemptStep
  <2>2. CASE StartRead(a)
    BY <1>1, <2>2 DEF StartRead, records
  <2>3. CASE DeadlinePasses(a)
    <3> DEFINE row == [attempts[a] EXCEPT !.deadline = "past"]
    <3>1. attempts[a] \in Attempt
      BY RowIsAttempt DEF TypeOK
    <3>2. row \in Attempt /\ Update(a, row)
      BY <2>3, <3>1 DEF Attempt, DeadlinePasses
    <3>3. SameAnswer(row, attempts[a])
      BY <3>1 DEF Attempt, SameAnswer
    <3> HIDE DEF row
    <3>4. Answered(row) = Answered(attempts[a])
      BY <3>3, SameAnswerStays
    <3> QED
      BY <3>2, <3>3, <3>4, RowGoesOn DEF SameAnswer
  <2>4. CASE ApplyRead(a)
    BY <2>4, ReadingsGoOn
  <2>5. CASE ReservationReturns(a) \/ RecoverStale(a)
    BY <2>5, ResultsGoOn
  <2> QED
    BY <2>1, <2>2, <2>3, <2>4, <2>5
<1>5. CASE OutsideStep
  <2>1. CASE VerifyLogin \/ ReplaceCredentials
    <3>1. account.version \in Nat /\ account.version + 1 \in Nat
      BY DEF TypeOK, RecordsTypeOK
    <3> QED
      BY <2>1, <3>1, LoginGoesOn DEF VerifyLogin, ReplaceCredentials
  <2>2. CASE ~(VerifyLogin \/ ReplaceCredentials)
    BY <1>1, <1>5, <2>2 DEF OutsideStep, CircuitNotClosed, SignOut, UserStep, Expire,
       Depart, Rearm, records
  <2> QED
    BY <2>1, <2>2
<1> QED
  BY <1>2, <1>3, <1>4, <1>5 DEF Next

(* The ledger as the operators above see it.                                *)
LEMMA CommandsAreEntries ==
  /\ Commands = CommandsOf(attempts)
  /\ Commands' = CommandsOf(attempts')
  /\ Ledger!Entries = Ids
BY DEF Commands, CommandsOf, Ids, Ledger!Entries

(* The entry of one attempt.                                                *)
LEMMA CommandAt ==
  ASSUME NEW a \in Ids
  PROVE  /\ Commands[a].answer = Answered(attempts[a])
         /\ Commands[a].recovers = IF attempts[a].episode \in RecoveryEpisodes
                                   THEN attempts[a].source ELSE 0
<1>1. Commands[a] = Command(attempts[a])
  BY DEF Commands
<1> QED
  BY <1>1 DEF Command

(* A claim sends: nothing is paid, what is open was abandoned, and what is  *)
(* unknown is recovered from, by this claim at the latest.                  *)
LEMMA ClaimSends ==
  ASSUME TypeOK, HistoryInv, NEW k \in winners, Claim(k), UNCHANGED overtaken
  PROVE  \E source \in {0} \cup Ids : Ledger!Send(source)
<1> DEFINE source == IF k.episode \in RecoveryEpisodes THEN k.source ELSE 0
<1>1. k \in Key /\ Authorized(k) /\ ExactPaid = {} /\ watch.status = "SEAT_FOUND"
  BY DEF TypeOK, Claim, Authorized, Unfenced
<1>2. /\ ActiveUnresolvedUnknown =
           (IF k.episode = "manual-unknown-rearm" THEN {k.source} ELSE {})
  BY <1>1 DEF Authorized, Unfenced
<1>3. source # 0 => /\ k.episode \in RecoveryEpisodes
                    /\ k.source \in Ids
                    /\ \A b \in Ids : ~Recovers(b, k.source)
  BY <1>1, RecoveryIsFirst DEF HistoryInv, Recovers
<1>4. \A a \in Ids : a # 0 /\ a \in Nat
  BY LenProperties DEF TypeOK, RecordsTypeOK, Ids
<1>5. \A a, b \in Ids : Recovers(b, a) <=> Commands[b].recovers = a
  BY <1>4, CommandAt DEF Recovers
<1>6. ASSUME NEW a \in Ids
      PROVE  /\ Commands[a].answer # "paid"
             /\ Commands[a].answer = "open" => Ledger!Excused(a)
             /\ Commands[a].answer = "unknown" => a = source \/ Ledger!Recovered(a)
  <2>1. Commands[a].answer = Answered(attempts[a])
    BY CommandAt
  <2>2. Commands[a].answer # "paid"
    BY <1>1, <2>1 DEF Answered, ExactPaid
  <2>3. ASSUME Commands[a].answer = "open" PROVE Ledger!Excused(a)
    <3>1. Pending(a)
      BY <2>1, <2>3 DEF Answered, Pending
    <3>2. Overtaken(a)
      BY <1>1, <3>1 DEF HistoryInv, PendingAlone, WaitingStatuses
    <3> QED
      BY <3>2 DEF Overtaken, Ledger!Excused
  <2>4. ASSUME Commands[a].answer = "unknown"
        PROVE  a = source \/ Ledger!Recovered(a)
    <3>1. Unresolved(a)
      BY <2>1, <2>4 DEF Answered, Unresolved
    <3>2. CASE Consumed(a)
      <4>1. PICK b \in Ids : Recovers(b, a)
        BY <3>2 DEF Consumed, Recovers
      <4> QED
        BY <1>5, <4>1, CommandsAreEntries DEF Ledger!Recovered
    <3>3. CASE ~Consumed(a)
      <4>1. a \in ActiveUnresolvedUnknown
        BY <3>1, <3>3 DEF ActiveUnresolvedUnknown, Unresolved
      <4>2. k.episode = "manual-unknown-rearm" /\ a = k.source
        BY <1>2, <4>1
      <4> QED
        BY <4>2 DEF RecoveryEpisodes
    <3> QED
      BY <3>2, <3>3
  <2> QED
    BY <2>2, <2>3, <2>4
<1>7. ASSUME source # 0
      PROVE  /\ source \in Ids
             /\ Commands[source].answer \in {"unknown", "absent"}
             /\ ~Ledger!Recovered(source)
  <2>1. source = k.source /\ source \in Ids /\ k.source = Latest(k.cand)
    BY <1>1, <1>3, <1>7, RecoveryFollowsLatest
  <2>2. \/ IsConfirmedAbsentRetrySource(source)
        \/ IsManualRearmSource(source)
    BY <1>1, <1>3, <1>7, <2>1 DEF Authorized, Follows, RecoveryEpisodes
  <2>3. Answered(attempts[source]) \in {"unknown", "absent"}
    BY <2>2 DEF IsConfirmedAbsentRetrySource, IsManualRearmSource, Answered
  <2>4. ~Ledger!Recovered(source)
    BY <1>3, <1>5, <1>7, <2>1, CommandsAreEntries DEF Ledger!Recovered
  <2>5. Commands[source].answer = Answered(attempts[source])
    BY <2>1, CommandAt
  <2> QED
    BY <2>1, <2>3, <2>4, <2>5
<1>8. Commands' = Append(Commands, [answer |-> "open", recovers |-> source])
  <2>1. /\ attempts \in Seq(Attempt)
        /\ NewAttempt(k) \in Attempt
        /\ attempts' = Append(attempts, NewAttempt(k))
    BY NewAttemptType DEF TypeOK, RecordsTypeOK, Claim
  <2>2. Command(NewAttempt(k)) = [answer |-> "open", recovers |-> source]
    BY DEF Command, Answered, NewAttempt
  <2> QED
    BY <2>1, <2>2, CommandsAppend, CommandsAreEntries
<1>9. source \in {0} \cup Ids
  BY <1>3
<1> HIDE DEF source
<1>10. Ledger!Send(source)
  BY <1>6, <1>7, <1>8, CommandsAreEntries DEF Ledger!Send
<1> QED
  BY <1>9, <1>10

(* A deferral withdraws the newest command.                                 *)
LEMMA DeferralLeaves ==
  ASSUME TypeOK, NEW a \in Ids, DeferReservation(a), UNCHANGED overtaken
  PROVE  Ledger!Withdraw
<1>1. /\ attempts \in Seq(Attempt)
      /\ Len(attempts) \in Nat /\ Len(attempts) > 0
      /\ a = Len(attempts)
      /\ attempts' = SubSeq(attempts, 1, Len(attempts) - 1)
      /\ attempts[a].outcome = "PENDING"
  BY LenProperties DEF TypeOK, RecordsTypeOK, DeferReservation, StillClaimed, Ids
<1>2. /\ Commands \in Seq(CommandEntry) /\ Len(Commands) = Len(attempts)
      /\ Commands[a].answer = "open"
  <2>1. Commands[a].answer = "open"
    BY <1>1, CommandAt DEF Answered
  <2> QED
    BY <1>1, <2>1, CommandsType, CommandsAreEntries
<1>3. Commands # <<>>
  BY <1>1, <1>2, EmptySeq
<1>4. Commands' = SubSeq(Commands, 1, Len(Commands) - 1)
  BY <1>1, <1>2, CommandsWithdraw, CommandsAreEntries
<1> QED
  BY <1>1, <1>2, <1>3, <1>4 DEF Ledger!Withdraw

(* Every step of the tracked reservation is one of the ledger, or none.     *)
LEMMA LedgerStep ==
  TypeOK /\ HistoryInv /\ [TrackedNext]_history => [Ledger!Next]_<<Commands, overtaken>>
<1> SUFFICES ASSUME TypeOK, HistoryInv, TrackedNext
             PROVE  Ledger!Next
  <2>1. CASE UNCHANGED history
    BY <2>1 DEF history, vars, Commands, Ids
  <2> QED
    BY <2>1
<1>1. [Next]_vars /\ overtaken' = overtaken \cup StopsWaiting
  BY DEF TrackedNext
<1>2. ASSUME Ids' = Ids PROVE Ledger!MayAbandon
  <2>1. \A a \in Ids : (Commands[a].answer = "open")' <=> attempts'[a].outcome = "PENDING"
    BY <1>2 DEF Commands, Command, Answered
  <2>2. Ledger!Entries' = Ids
    BY <1>2 DEF Ledger!Entries, Commands
  <2>3. StopsWaiting \in {{}, {a \in Ids : Commands'[a].answer = "open"}}
    BY <1>2, <2>1 DEF StopsWaiting
  <2> QED
    BY <1>1, <2>2, <2>3 DEF Ledger!MayAbandon
<1>3. CASE Commands' = Commands
  <2>1. DOMAIN Commands = Ids /\ (DOMAIN Commands = Ids)'
    BY DEF Commands
  <2> QED
    BY <1>2, <1>3, <2>1 DEF Ledger!Next
<1>4. CASE AnswerGoesOn
  <2>1. PICK a \in Ids : \E answer \in Ledger!Later[Answered(attempts[a])] :
          Commands' = [Commands EXCEPT ![a].answer = answer]
    BY <1>4 DEF AnswerGoesOn
  <2>2. Answered(attempts[a]) = Commands[a].answer
    BY CommandAt
  <2>3. Ledger!MayAbandon
    <3>1. DOMAIN Commands' = DOMAIN Commands
      BY <2>1
    <3>2. DOMAIN Commands = Ids /\ DOMAIN Commands' = Ids'
      BY DEF Commands
    <3> QED
      BY <1>2, <3>1, <3>2
  <2>4. Ledger!Answer(a)
    BY <2>1, <2>2, <2>3 DEF Ledger!Answer
  <2> QED
    BY <2>4, CommandsAreEntries DEF Ledger!Next
<1>5. ASSUME NEW k \in winners, Claim(k) PROVE Ledger!Next
  <2>1. UNCHANGED overtaken
    BY <1>1, <1>5 DEF StopsWaiting, Claim
  <2> QED
    BY <1>5, <2>1, ClaimSends, CommandsAreEntries DEF Ledger!Next
<1>6. ASSUME NEW a \in Ids, DeferReservation(a) PROVE Ledger!Next
  <2>1. watch.status = "RESERVING" /\ watch' = GoTo("COOLDOWN")
    BY <1>6 DEF DeferReservation, StillClaimed
  <2>2. watch'.status = "COOLDOWN"
    BY <2>1 DEF GoTo, MoveTo, TypeOK, RecordsTypeOK
  <2>3. UNCHANGED overtaken
    BY <1>1, <2>1, <2>2 DEF StopsWaiting
  <2> QED
    BY <1>6, <2>3, DeferralLeaves DEF Ledger!Next
<1> QED
  BY <1>1, <1>3, <1>4, <1>5, <1>6, AnswersGoOn DEF HistoryInv

(* The reservation of a watch implements the ledger of commands, for any    *)
(* number of candidates, attempts, observations, readings and logins: a     *)
(* command is sent only when no other one is open or unresolved, unless the *)
(* watch had stopped waiting for it, no answer is taken back, an UNKNOWN    *)
(* command is recovered from once, and nothing follows proof of payment.    *)
THEOREM ReservationsKeepLedger == TrackedSpec => KeepsLedger
<1>1. TrackedInit => Ledger!Init
  <2> SUFFICES ASSUME TrackedInit PROVE Ledger!Init
    OBVIOUS
  <2>1. attempts = <<>> /\ overtaken = {}
    BY DEF TrackedInit, Init
  <2>2. Commands = CommandsOf(<<>>)
    BY <2>1, CommandsAreEntries
  <2>3. Commands = <<>>
    BY <2>2, CommandsType, EmptySeq
  <2> QED
    BY <2>1, <2>3 DEF Ledger!Init
<1> QED
  BY HistoryInvariant, LedgerStep, <1>1, PTL DEF TrackedSpec, KeepsLedger, Ledger!Spec

-----------------------------------------------------------------------------
(* What the rules of the ledger give, without looking at the attempts. An   *)
(* open command that was not abandoned is the newest; the command after an  *)
(* unknown one is its recovery; and nothing is recovered from twice.        *)

LedgerTypeOK ==
    /\ Commands \in Seq(CommandEntry)
    /\ overtaken \subseteq Nat

RecoversOnce ==
    \A b \in Ledger!Entries : Commands[b].recovers # 0 =>
      /\ Commands[b].recovers \in 1..(b - 1)
      /\ \A c \in Ledger!Entries :
           Commands[c].recovers = Commands[b].recovers => b = c

OpenIsNewest ==
    \A a \in Ledger!Entries :
      Commands[a].answer = "open" /\ ~Ledger!Excused(a) => a = Len(Commands)

UnknownThenRecovered ==
    \A a \in Ledger!Entries :
      Commands[a].answer = "unknown" /\ ~Ledger!Excused(a) /\ a < Len(Commands)
      => Commands[a + 1].recovers = a

LedgerInv == LedgerTypeOK /\ RecoversOnce /\ OpenIsNewest /\ UnknownThenRecovered

(* The entries are numbered.                                                *)
LEMMA LedgerDomain ==
  ASSUME LedgerTypeOK
  PROVE  /\ Len(Commands) \in Nat
         /\ Ledger!Entries = 1..Len(Commands)
         /\ \A a \in Ledger!Entries : Commands[a] \in CommandEntry
BY LenProperties, ElementOfSeq DEF LedgerTypeOK, Ledger!Entries

(* What is sent is the newest, and the recovery of what is unresolved.      *)
LEMMA SendKeeps ==
  ASSUME LedgerInv, NEW source \in {0} \cup Ledger!Entries, Ledger!Send(source)
  PROVE  LedgerInv'
<1> DEFINE n == Len(Commands)
           sent == [answer |-> "open", recovers |-> source]
<1>1. /\ n \in Nat /\ Ledger!Entries = 1..n
      /\ \A a \in 1..n : Commands[a] \in CommandEntry
  BY LedgerDomain DEF LedgerInv
<1>2. sent \in CommandEntry
  BY <1>1 DEF CommandEntry, AnswerNames
<1>3. Commands' = Append(Commands, sent) /\ overtaken' = overtaken
  BY DEF Ledger!Send
<1>4. /\ Commands' \in Seq(CommandEntry)
      /\ Len(Commands') = n + 1
      /\ \A a \in 1..n : Commands'[a] = Commands[a]
      /\ Commands'[n + 1] = sent
  BY <1>2, <1>3, AppendProperties DEF LedgerInv, LedgerTypeOK
<1>5. LedgerTypeOK'
  BY <1>3, <1>4 DEF LedgerInv, LedgerTypeOK
<1>6. Ledger!Entries' = 1..(n + 1)
  BY <1>1, <1>4, <1>5, LenProperties DEF LedgerTypeOK, Ledger!Entries
<1>7. /\ sent.answer = "open" /\ sent.recovers = source
      /\ source # 0 => source \in 1..n /\ \A b \in 1..n : Commands[b].recovers # source
  BY <1>1 DEF Ledger!Send, Ledger!Recovered
<1>8. \A a : Ledger!Excused(a)' <=> Ledger!Excused(a)
  BY <1>3 DEF Ledger!Excused
<1>9. \A a \in 1..n : /\ Commands[a].answer = "open" => Ledger!Excused(a)
                      /\ Commands[a].answer = "unknown" =>
                           a = source \/ \E b \in 1..n : Commands[b].recovers = a
  BY <1>1 DEF Ledger!Send, Ledger!Recovered
<1> HIDE DEF n, sent
<1>10. RecoversOnce'
  <2> SUFFICES ASSUME NEW b \in 1..(n + 1), Commands'[b].recovers # 0
               PROVE  /\ Commands'[b].recovers \in 1..(b - 1)
                      /\ \A c \in 1..(n + 1) :
                           Commands'[c].recovers = Commands'[b].recovers => b = c
    BY <1>6 DEF RecoversOnce
  <2>1. \A d \in 1..(n + 1) : d \in 1..n \/ d = n + 1
    BY <1>1
  <2>2. \A d \in 1..n : Commands[d].recovers # 0 =>
          /\ Commands[d].recovers \in 1..(d - 1)
          /\ \A c \in 1..n : Commands[c].recovers = Commands[d].recovers => d = c
    BY <1>1 DEF LedgerInv, RecoversOnce
  <2>3. \A d \in 1..(n + 1) : Commands'[d] = IF d \in 1..n THEN Commands[d] ELSE sent
    BY <1>1, <1>4, <2>1
  <2>4. n + 1 \notin 1..n
    BY <1>1
  <2>5. CASE b \in 1..n
    BY <1>7, <2>1, <2>2, <2>3, <2>4, <2>5
  <2>6. CASE b = n + 1
    BY <1>1, <1>7, <2>1, <2>3, <2>4, <2>6
  <2> QED
    BY <2>1, <2>5, <2>6
<1>11. OpenIsNewest'
  BY <1>1, <1>4, <1>6, <1>8, <1>9 DEF OpenIsNewest
<1>12. UnknownThenRecovered'
  <2> SUFFICES ASSUME NEW a \in 1..n, Commands[a].answer = "unknown",
                      ~Ledger!Excused(a)
               PROVE  Commands'[a + 1].recovers = a
    BY <1>1, <1>4, <1>6, <1>8 DEF UnknownThenRecovered
  <2>1. CASE a < n
    BY <1>1, <1>4, <2>1 DEF LedgerInv, UnknownThenRecovered, n
  <2>2. CASE a = n
    <3>1. ASSUME NEW b \in 1..n, Commands[b].recovers = a PROVE FALSE
      <4>1. a \in 1..(b - 1)
        BY <1>1, <2>2, <3>1 DEF LedgerInv, RecoversOnce
      <4> QED
        BY <1>1, <2>2, <4>1
    <3> QED
      BY <1>4, <1>7, <1>9, <2>2, <3>1
  <2> QED
    BY <1>1, <2>1, <2>2
<1> QED
  BY <1>5, <1>10, <1>11, <1>12 DEF LedgerInv

(* What is withdrawn was the newest.                                        *)
LEMMA WithdrawKeeps ==
  ASSUME LedgerInv, Ledger!Withdraw
  PROVE  LedgerInv'
<1> DEFINE n == Len(Commands)
<1>0. n \in Nat /\ Ledger!Entries = 1..n
  BY LedgerDomain DEF LedgerInv
<1>1. /\ n \in Nat /\ n # 0 /\ Ledger!Entries = 1..n
      /\ \A a \in 1..n : Commands[a] \in CommandEntry
  <2>1. Commands \in Seq(CommandEntry) /\ Commands # <<>>
    BY DEF LedgerInv, LedgerTypeOK, Ledger!Withdraw
  <2>2. n # 0
    BY <2>1, EmptySeq
  <2> QED
    BY <1>0, <2>1, <2>2, ElementOfSeq
<1>2. /\ Commands' = SubSeq(Commands, 1, n - 1) /\ overtaken' = overtaken
  BY DEF Ledger!Withdraw
<1>3. /\ Commands' \in Seq(CommandEntry) /\ Len(Commands') = n - 1
      /\ \A a \in 1..(n - 1) : Commands'[a] = Commands[a]
  <2>1. n - 1 \in Nat /\ \A a \in 1..(n - 1) : Commands[a] \in CommandEntry
    BY <1>1
  <2> HIDE DEF n
  <2> QED
    BY <1>1, <1>2, <2>1, SubSeqProperties DEF LedgerInv, LedgerTypeOK
<1>4. LedgerTypeOK'
  BY <1>2, <1>3 DEF LedgerInv, LedgerTypeOK
<1>5. Ledger!Entries' = 1..(n - 1)
  BY <1>1, <1>3, <1>4, LenProperties DEF LedgerTypeOK, Ledger!Entries
<1>6. \A a : Ledger!Excused(a)' <=> Ledger!Excused(a)
  BY <1>2 DEF Ledger!Excused
<1>7. \A a \in 1..(n - 1) : a \in 1..n
  BY <1>1
<1>8. RecoversOnce'
  BY <1>1, <1>3, <1>5, <1>7 DEF LedgerInv, RecoversOnce
<1>9. OpenIsNewest'
  BY <1>1, <1>3, <1>5, <1>6, <1>7 DEF LedgerInv, OpenIsNewest
<1>10. UnknownThenRecovered'
  BY <1>1, <1>3, <1>5, <1>6, <1>7 DEF LedgerInv, UnknownThenRecovered
<1> QED
  BY <1>4, <1>8, <1>9, <1>10 DEF LedgerInv

(* An open command is not an unknown one in the middle of the ledger.       *)
LEMMA AnswerKeeps ==
  ASSUME LedgerInv, NEW a \in Ledger!Entries, Ledger!Answer(a)
  PROVE  LedgerInv'
<1> DEFINE n == Len(Commands)
<1>1. /\ n \in Nat /\ Ledger!Entries = 1..n
      /\ \A b \in 1..n : Commands[b] \in CommandEntry
  BY LedgerDomain DEF LedgerInv
<1>2. PICK answer \in Ledger!Later[Commands[a].answer] :
        Commands' = [Commands EXCEPT ![a].answer = answer]
  BY DEF Ledger!Answer
<1>3. /\ answer \in AnswerNames /\ answer # "open"
      /\ answer = "unknown" => Commands[a].answer = "open"
  BY <1>1, <1>2 DEF Ledger!Later, CommandEntry, AnswerNames
<1>4. /\ Commands' \in Seq(CommandEntry) /\ Len(Commands') = n
      /\ \A b \in 1..n :
           /\ Commands'[b].recovers = Commands[b].recovers
           /\ Commands'[b].answer = IF b = a THEN answer ELSE Commands[b].answer
  <2> DEFINE entry == [Commands[a] EXCEPT !.answer = answer]
  <2>1. entry \in CommandEntry
    BY <1>1, <1>3 DEF CommandEntry
  <2>2. Commands' = [Commands EXCEPT ![a] = entry]
    BY <1>2
  <2>3. entry.answer = answer /\ entry.recovers = Commands[a].recovers
    BY <1>1 DEF CommandEntry
  <2> HIDE DEF entry
  <2>4. /\ Commands' \in Seq(CommandEntry) /\ Len(Commands') = n
        /\ \A b \in 1..n : Commands'[b] = IF b = a THEN entry ELSE Commands[b]
    BY <1>1, <2>1, <2>2, ExceptSeq DEF LedgerInv, LedgerTypeOK
  <2> QED
    BY <2>3, <2>4
<1>5. Ledger!Entries' = 1..n
  BY <1>1, <1>4, LenProperties DEF Ledger!Entries
<1>6. overtaken \subseteq overtaken' /\ overtaken' \subseteq Nat
  BY <1>1, <1>5 DEF Ledger!Answer, Ledger!MayAbandon, LedgerInv, LedgerTypeOK
<1>7. \A b : Ledger!Excused(b) => Ledger!Excused(b)'
  BY <1>6 DEF Ledger!Excused
<1> HIDE DEF n
<1>8. LedgerTypeOK'
  BY <1>4, <1>6 DEF LedgerTypeOK
<1>9. RecoversOnce'
  BY <1>1, <1>4, <1>5 DEF LedgerInv, RecoversOnce
<1>10. OpenIsNewest'
  BY <1>1, <1>3, <1>4, <1>5, <1>7 DEF LedgerInv, OpenIsNewest, n
<1>11. UnknownThenRecovered'
  <2> SUFFICES ASSUME NEW b \in 1..n, Commands'[b].answer = "unknown",
                      ~Ledger!Excused(b), b < n
               PROVE  Commands'[b + 1].recovers = b
    BY <1>4, <1>5, <1>7 DEF UnknownThenRecovered
  <2>1. Commands[b].answer # "open"
    BY <1>1 DEF LedgerInv, OpenIsNewest, n
  <2>2. Commands[b].answer = "unknown"
    BY <1>3, <1>4, <2>1
  <2> QED
    BY <1>1, <1>4, <2>2 DEF LedgerInv, UnknownThenRecovered, n
<1> QED
  BY <1>8, <1>9, <1>10, <1>11 DEF LedgerInv

(* Commands that are given up only add to the exceptions.                   *)
LEMMA AbandonKeeps ==
  ASSUME LedgerInv, UNCHANGED Commands, Ledger!MayAbandon
  PROVE  LedgerInv'
<1>1. Ledger!Entries = 1..Len(Commands) /\ Ledger!Entries' = Ledger!Entries
  BY LedgerDomain DEF LedgerInv, Ledger!Entries
<1>2. Commands' = Commands /\ Len(Commands) \in Nat
  BY LedgerDomain DEF LedgerInv
<1>3. overtaken \subseteq overtaken' /\ overtaken' \subseteq Nat
  <2>1. Ledger!Entries' \subseteq Nat
    BY <1>1, <1>2
  <2> QED
    BY <2>1 DEF Ledger!MayAbandon, LedgerInv, LedgerTypeOK
<1>4. \A b : Ledger!Excused(b) => Ledger!Excused(b)'
  BY <1>3 DEF Ledger!Excused
<1>5. LedgerTypeOK'
  BY <1>2, <1>3 DEF LedgerInv, LedgerTypeOK
<1>6. RecoversOnce'
  BY <1>1, <1>2 DEF LedgerInv, RecoversOnce
<1>7. OpenIsNewest'
  BY <1>1, <1>2, <1>4 DEF LedgerInv, OpenIsNewest
<1>8. UnknownThenRecovered'
  BY <1>1, <1>2, <1>4 DEF LedgerInv, UnknownThenRecovered
<1> QED
  BY <1>5, <1>6, <1>7, <1>8 DEF LedgerInv

(* The rules of the ledger alone leave at most one command that may own a   *)
(* reservation nobody has seen, until the watch stops waiting for one.      *)
THEOREM LedgerHasOneOwner == Ledger!Spec => []OneCommandMayOwn
<1>1. Ledger!Init => LedgerInv
  <2> SUFFICES ASSUME Ledger!Init PROVE LedgerInv
    OBVIOUS
  <2>1. Commands = <<>> /\ overtaken = {}
    BY DEF Ledger!Init
  <2>2. LedgerTypeOK
    BY <2>1 DEF LedgerTypeOK
  <2>3. Ledger!Entries = {}
    BY <2>1 DEF Ledger!Entries
  <2> QED
    BY <2>2, <2>3 DEF LedgerInv, RecoversOnce, OpenIsNewest, UnknownThenRecovered
<1>2. LedgerInv /\ [Ledger!Next]_<<Commands, overtaken>> => LedgerInv'
  <2> SUFFICES ASSUME LedgerInv, [Ledger!Next]_<<Commands, overtaken>>
               PROVE  LedgerInv'
    OBVIOUS
  <2>1. CASE UNCHANGED <<Commands, overtaken>>
    <3>1. Ledger!MayAbandon
      BY <2>1 DEF Ledger!MayAbandon
    <3> QED
      BY <2>1, <3>1, AbandonKeeps
  <2> QED
    BY <2>1, SendKeeps, WithdrawKeeps, AnswerKeeps, AbandonKeeps DEF Ledger!Next
<1>3. LedgerInv => OneCommandMayOwn
  <2> SUFFICES ASSUME LedgerInv,
                      NEW a \in Ledger!Entries, NEW b \in Ledger!Entries,
                      Ledger!MayOwn(a), a < b, ~Ledger!Excused(a)
               PROVE  FALSE
    BY DEF OneCommandMayOwn, Ledger!OneOwner
  <2>1. Len(Commands) \in Nat /\ Ledger!Entries = 1..Len(Commands)
    BY LedgerDomain DEF LedgerInv
  <2>2. CASE Commands[a].answer = "open"
    BY <2>1, <2>2 DEF LedgerInv, OpenIsNewest
  <2>3. CASE Commands[a].answer = "unknown" /\ ~Ledger!Recovered(a)
    <3>1. a < Len(Commands) /\ a + 1 \in Ledger!Entries
      BY <2>1
    <3>2. Commands[a + 1].recovers = a
      BY <2>3, <3>1 DEF LedgerInv, UnknownThenRecovered
    <3> QED
      BY <2>3, <3>1, <3>2 DEF Ledger!Recovered
  <2> QED
    BY <2>2, <2>3 DEF Ledger!MayOwn
<1> QED
  BY <1>1, <1>2, <1>3, PTL DEF Ledger!Spec

(* At most one attempt of a watch may own a reservation nobody has seen,    *)
(* unanswered or UNKNOWN and not recovered from, on whichever candidate,    *)
(* unless the watch had stopped waiting for a claim that is not newer.      *)
THEOREM OneCommandMayOwnAlways == TrackedSpec => []OneCommandMayOwn
BY ReservationsKeepLedger, LedgerHasOneOwner, PTL DEF KeepsLedger
=============================================================================
