----------------------- MODULE NotificationOutbox_proofs -----------------------
(* Machine-checked facts about NotificationOutbox, for any number of        *)
(* channels, workers, events and crashes and any batch size.                *)
(*                                                                          *)
(* One inductive invariant carries them: a locked row is due and belongs to *)
(* one worker, and the calls for a notification are what its row counts,    *)
(* in the outbox or in the hands of a worker, and what rollbacks forgot.    *)
EXTENDS NotificationOutbox, FiniteSetTheorems, SequenceTheorems, TLAPS

(* No worker has the row.                                                   *)
Free(e) == \A w \in Worker : e \notin Locked(w)

(* The rows nobody has count their calls; they are pending before the last  *)
(* one, and only pending ones are deferred.                                 *)
FreeCounted ==
    \A e \in Ids :
      /\ outbox[e].status = "PENDING" => outbox[e].attempts < MAX_DELIVERY_ATTEMPTS
      /\ outbox[e].status # "PENDING" => ~outbox[e].later
      /\ Free(e) => calls[e] = outbox[e].attempts + undone[e]

(* No call was made for a notification that does not exist yet.             *)
NotYetCalled ==
    \A e \in 1..MaxEvents : e \notin Ids => calls[e] = 0 /\ undone[e] = 0

(* A locked row is due; the worker's copy counts the calls, and until it    *)
(* is handled it is the row itself.                                         *)
WorkingCopy(w) ==
    \A e \in Locked(w) :
      /\ outbox[e].status = "PENDING" /\ ~outbox[e].later
      /\ calls[e] = job[w].rows[e].attempts + undone[e]
      /\ outbox[e].attempts <= job[w].rows[e].attempts
      /\ job[w].rows[e].status = "PENDING" =>
           job[w].rows[e].attempts < MAX_DELIVERY_ATTEMPTS
      /\ job[w].rows[e].status # "PENDING" => ~job[w].rows[e].later
      /\ e \in job[w].todo => job[w].rows[e] = outbox[e]

OutboxInv ==
    /\ TypeOK
    /\ OneSender
    /\ FreeCounted
    /\ NotYetCalled
    /\ \A w \in Worker : WorkingCopy(w)

-----------------------------------------------------------------------------
(* Facts about rows and transactions.                                       *)

(* What membership in Job says of the locked rows.                          *)
LEMMA RowsOfJob ==
  ASSUME TypeOK, NEW w \in Worker
  PROVE  /\ Locked(w) \subseteq Ids
         /\ job[w].rows \in [Locked(w) -> Event]
         /\ \A e \in Locked(w) : job[w].rows[e] \in Event /\ outbox[e] \in Event
BY DEF TypeOK, Job, Locked, Ids

(* A row counts with numbers.                                               *)
LEMMA EventNumbers == \A row \in Event : row.attempts \in Nat
BY OutboxAssumption DEF Event

(* A worker whose locks are gone or that has none.                          *)
LEMMA IdleType == Idle \in Job /\ DOMAIN Idle.rows = {}
<1>1. [e \in {} |-> e] \in [{} -> Event]
  OBVIOUS
<1>2. [e \in {} |-> e] \in UNION {[batch -> Event] : batch \in SUBSET Ids}
  BY <1>1
<1> QED
  BY <1>2 DEF Idle, Job

(* The answer leaves a row of the same channel that has been tried once     *)
(* more, and is pending only while a try is left.                           *)
LEMMA AnsweredRow ==
  ASSUME NEW row \in Event, row.status = "PENDING", ~row.later,
         row.attempts < MAX_DELIVERY_ATTEMPTS,
         NEW answer \in {"accepted", "failed", "gone"}
  PROVE  /\ Answered(row, answer) \in Event
         /\ Answered(row, answer).attempts = row.attempts + 1
         /\ Answered(row, answer).status = "PENDING" =>
              row.attempts + 1 < MAX_DELIVERY_ATTEMPTS
         /\ Answered(row, answer).status # "PENDING" => ~Answered(row, answer).later
<1> DEFINE n == row.attempts + 1
<1>1. n \in 0..MAX_DELIVERY_ATTEMPTS
  BY OutboxAssumption DEF Event
<1> HIDE DEF n
<1>2. \A s \in {"PENDING", "SENT", "FAILED"} :
        /\ [row EXCEPT !.attempts = n, !.status = s] \in Event
        /\ [row EXCEPT !.attempts = n, !.status = s].attempts = n
        /\ [row EXCEPT !.attempts = n, !.status = s].status = s
        /\ [row EXCEPT !.attempts = n, !.status = s].later = row.later
  BY <1>1 DEF Event
<1>3. /\ [row EXCEPT !.attempts = n, !.later = TRUE] \in Event
      /\ [row EXCEPT !.attempts = n, !.later = TRUE].attempts = n
      /\ [row EXCEPT !.attempts = n, !.later = TRUE].status = "PENDING"
  BY <1>1 DEF Event
<1> USE DEF n
<1>4. CASE answer = "accepted"
  BY <1>2, <1>4 DEF Answered
<1>5. CASE answer # "accepted" /\ (answer = "gone" \/ n >= MAX_DELIVERY_ATTEMPTS)
  BY <1>2, <1>5 DEF Answered
<1>6. CASE answer # "accepted" /\ ~(answer = "gone" \/ n >= MAX_DELIVERY_ATTEMPTS)
  <2>1. n < MAX_DELIVERY_ATTEMPTS
    BY <1>1, <1>6, OutboxAssumption
  <2> QED
    BY <1>3, <1>6, <2>1 DEF Answered
<1> QED
  BY <1>4, <1>5, <1>6

(* What the session gets is a channel row.                                  *)
LEMMA GetType ==
  ASSUME TypeOK, NEW w \in Worker, NEW c \in Channel
  PROVE  Get(w, c) \in ChannelRow
<1>1. CASE \E config \in 0..MaxConfig : <<c, config>> \in job[w].off
  BY <1>1, OutboxAssumption DEF Get, ChannelRow
<1>2. CASE /\ ~\E config \in 0..MaxConfig : <<c, config>> \in job[w].off
           /\ \E h \in job[w].held : h.channel = c
  <2>1. (CHOOSE h \in job[w].held : h.channel = c) \in job[w].held
    BY <1>2
  <2>2. job[w].held \subseteq [channel : Channel, is : ChannelRow]
    BY DEF TypeOK, Job
  <2> QED
    BY <1>2, <2>1, <2>2 DEF Get
<1>3. CASE /\ ~\E config \in 0..MaxConfig : <<c, config>> \in job[w].off
           /\ ~\E h \in job[w].held : h.channel = c
  BY <1>3 DEF Get, TypeOK
<1> QED
  BY <1>1, <1>2, <1>3

(* A handled row leaves the list of those to do, and nothing else of the    *)
(* locked rows changes.                                                     *)
LEMMA HandledJob ==
  ASSUME TypeOK, NEW w \in Worker, NEW e \in Ids, NEW row \in Event,
         NEW off \in SUBSET (Channel \X (0..MaxConfig)),
         e \in job[w].todo, Handled(w, e, row, off)
  PROVE  /\ job' \in [Worker -> Job]
         /\ \A v \in Worker \ {w} : job'[v] = job[v]
         /\ \A v \in Worker : Locked(v)' = Locked(v)
         /\ e \in Locked(w)
         /\ job'[w].rows[e] = row
         /\ \A f \in Locked(w) \ {e} : job'[w].rows[f] = job[w].rows[f]
         /\ job'[w].todo = job[w].todo \ {e}
         /\ job'[w].off = job[w].off \cup off
         /\ job'[w].live = job[w].live
<1> DEFINE rows == [job[w].rows EXCEPT ![e] = row]
           held == {[channel |-> outbox[e].channel, is |-> Get(w, outbox[e].channel)]}
           new == [rows |-> rows, todo |-> job[w].todo \ {e}, held |-> held,
                   off |-> job[w].off \cup off, live |-> job[w].live]
<1>1. e \in Locked(w) /\ job[w] \in Job /\ job \in [Worker -> Job]
  BY DEF TypeOK
<1>2. rows \in [Locked(w) -> Event] /\ DOMAIN rows = Locked(w)
  BY <1>1, RowsOfJob DEF Locked
<1>3. rows \in UNION {[batch -> Event] : batch \in SUBSET Ids}
  BY <1>2, RowsOfJob
<1>4. outbox[e] \in Event
  BY <1>1, RowsOfJob
<1>5. outbox[e].channel \in Channel
  BY <1>4 DEF Event
<1>6. held \subseteq [channel : Channel, is : ChannelRow]
  BY <1>5, GetType
<1>7. /\ new \in Job
      /\ new.rows = rows /\ new.todo = job[w].todo \ {e}
      /\ new.off = job[w].off \cup off /\ new.live = job[w].live
  BY <1>1, <1>3, <1>6 DEF Job
<1>8. job' = [job EXCEPT ![w] = new]
  BY DEF Handled
<1>9. /\ job'[w] = new
      /\ job' \in [Worker -> Job]
      /\ \A v \in Worker \ {w} : job'[v] = job[v]
  BY <1>1, <1>7, <1>8
<1> HIDE DEF new
<1>10. \A v \in Worker : Locked(v)' = Locked(v)
  BY <1>2, <1>7, <1>9 DEF Locked
<1> QED
  BY <1>1, <1>2, <1>7, <1>9, <1>10

-----------------------------------------------------------------------------
(* The invariant is inductive, action by action.                            *)

(* The tables are empty and no worker has a claim.                          *)
LEMMA OutboxInvInit == Init => OutboxInv
<1> SUFFICES ASSUME Init PROVE OutboxInv
  OBVIOUS
<1>1. Ids = {}
  BY DEF Init, Ids
<1>2. \A w \in Worker : job[w] = Idle /\ Locked(w) = {}
  BY IdleType DEF Init, Locked
<1>3. TypeOK
  <2>1. channel \in [Channel -> ChannelRow]
    BY OutboxAssumption DEF Init, ChannelRow
  <2>2. outbox \in Seq(Event) /\ Len(outbox) <= MaxEvents
    BY OutboxAssumption DEF Init
  <2>3. job \in [Worker -> Job]
    BY IdleType DEF Init
  <2>4. \A w \in Worker : job[w].todo = {}
    BY <1>2 DEF Idle
  <2> QED
    BY <2>1, <2>2, <2>3, <2>4, OutboxAssumption DEF Init, TypeOK
<1>4. OneSender
  BY <1>2 DEF OneSender
<1>5. FreeCounted /\ NotYetCalled
  BY <1>1 DEF FreeCounted, NotYetCalled, Init
<1>6. \A w \in Worker : WorkingCopy(w)
  BY <1>2 DEF WorkingCopy
<1> QED
  BY <1>3, <1>4, <1>5, <1>6 DEF OutboxInv

(* New rows at the end of the outbox.                                       *)
LEMMA AppendedStep ==
  ASSUME OutboxInv, NEW new \in Seq(Event),
         \A i \in 1..Len(new) : new[i].attempts = 0 /\ ~new[i].later,
         outbox' = outbox \o new, Len(outbox) + Len(new) <= MaxEvents,
         UNCHANGED <<channel, job, crashes, calls, undone>>
  PROVE  OutboxInv'
<1> USE DEF OutboxInv
<1>1. /\ outbox' \in Seq(Event)
      /\ Len(outbox') = Len(outbox) + Len(new)
      /\ \A e \in 1..Len(outbox') :
           outbox'[e] = IF e <= Len(outbox) THEN outbox[e] ELSE new[e - Len(outbox)]
  BY ConcatProperties DEF TypeOK
<1>2. Len(outbox) \in Nat /\ Len(new) \in Nat
  BY DEF TypeOK
<1>3. /\ Ids \subseteq Ids'
      /\ \A e \in Ids : outbox'[e] = outbox[e]
      /\ \A e \in Ids' \ Ids :
           /\ e - Len(outbox) \in 1..Len(new)
           /\ outbox'[e] = new[e - Len(outbox)]
           /\ e \in 1..MaxEvents
  BY <1>1, <1>2, OutboxAssumption DEF Ids
<1>4. \A w \in Worker : Locked(w)' = Locked(w) /\ Locked(w) \subseteq Ids
  BY RowsOfJob DEF Locked
<1>5. Job \subseteq Job'
  <2>1. UNION {[batch -> Event] : batch \in SUBSET Ids}
          \subseteq UNION {[batch -> Event] : batch \in SUBSET Ids'}
    BY <1>3
  <2>2. SUBSET Ids \subseteq SUBSET Ids'
    BY <1>3
  <2> QED
    BY <2>1, <2>2 DEF Job
<1>6. TypeOK'
  BY <1>1, <1>4, <1>5 DEF TypeOK
<1>7. OneSender'
  BY <1>4 DEF OneSender
<1>8. FreeCounted'
  <2> SUFFICES ASSUME NEW e \in Ids'
               PROVE  /\ outbox'[e].attempts < MAX_DELIVERY_ATTEMPTS
                           \/ outbox'[e].status # "PENDING"
                      /\ outbox'[e].status # "PENDING" => ~outbox'[e].later
                      /\ Free(e)' => calls'[e] = outbox'[e].attempts + undone'[e]
    BY DEF FreeCounted
  <2>1. CASE e \in Ids
    BY <2>1, <1>3, <1>4 DEF FreeCounted, Free
  <2>2. CASE e \notin Ids
    BY <2>2, <1>3, OutboxAssumption DEF NotYetCalled
  <2> QED
    BY <2>1, <2>2
<1>9. NotYetCalled'
  BY <1>3 DEF NotYetCalled
<1>10. \A w \in Worker : WorkingCopy(w)'
  BY <1>3, <1>4 DEF WorkingCopy
<1> QED
  BY <1>6, <1>7, <1>8, <1>9, <1>10

(* The events of a watch's transition.                                      *)
LEMMA NotifyStep == OutboxInv /\ Notify => OutboxInv'
<1> SUFFICES ASSUME OutboxInv, Notify PROVE OutboxInv'
  OBVIOUS
<1> DEFINE n == Cardinality(EnabledChannels)
<1>1. n \in Nat
  BY FS_Subset, FS_CardinalityType, OutboxAssumption DEF EnabledChannels
<1> HIDE DEF n
<1>2. PICK order \in [1..n -> EnabledChannels] :
        outbox' = outbox \o [i \in 1..n |-> NewEvent(order[i])]
  BY DEF Notify, n
<1> DEFINE new == [i \in 1..n |-> NewEvent(order[i])]
<1>3. \A i \in 1..n : /\ NewEvent(order[i]) \in Event
                      /\ NewEvent(order[i]).attempts = 0 /\ ~NewEvent(order[i]).later
  BY OutboxAssumption DEF NewEvent, Event, EnabledChannels
<1>4. new \in Seq(Event) /\ Len(new) = n
  BY <1>1, <1>3
<1>5. \A i \in 1..Len(new) : new[i].attempts = 0 /\ ~new[i].later
  BY <1>3, <1>4
<1>6. Len(outbox) + n <= MaxEvents
  BY DEF Notify, n
<1>7. UNCHANGED <<channel, job, crashes, calls, undone>>
  BY DEF Notify
<1>8. outbox' = outbox \o new
  BY <1>2
<1> HIDE DEF new
<1> QED
  BY <1>4, <1>5, <1>6, <1>7, <1>8, AppendedStep

(* A test notification.                                                     *)
LEMMA TestStep ==
  ASSUME OutboxInv, NEW c \in Channel, TestSend(c) PROVE OutboxInv'
<1> DEFINE new == <<NewEvent(c)>>
<1>1. NewEvent(c) \in Event /\ NewEvent(c).attempts = 0 /\ ~NewEvent(c).later
  BY OutboxAssumption DEF NewEvent, Event
<1>2. /\ new \in Seq(Event) /\ Len(new) = 1
      /\ \A i \in 1..Len(new) : new[i].attempts = 0 /\ ~new[i].later
  BY <1>1
<1>3. outbox \in Seq(Event)
  BY DEF OutboxInv, TypeOK
<1>4. outbox' = outbox \o new
  BY <1>1, <1>3 DEF TestSend
<1>5. Len(outbox) + Len(new) <= MaxEvents
  BY <1>2, <1>3, OutboxAssumption DEF TestSend
<1>6. UNCHANGED <<channel, job, crashes, calls, undone>>
  BY DEF TestSend
<1> HIDE DEF new
<1> QED
  BY <1>2, <1>4, <1>5, <1>6, AppendedStep

(* The user's changes touch no event.                                       *)
LEMMA WriteStep ==
  ASSUME OutboxInv, NEW c \in Channel, NEW row \in ChannelRow, WriteChannel(c, row)
  PROVE  OutboxInv'
<1> USE DEF OutboxInv
<1>1. UNCHANGED <<outbox, crashes, calls, undone>> /\ Ids' = Ids
  BY DEF WriteChannel, Ids
<1>2. \A w \in Worker : /\ job'[w] \in Job
                        /\ job'[w].rows = job[w].rows
                        /\ job'[w].todo = job[w].todo
  BY DEF WriteChannel, TypeOK, Job
<1>3. DOMAIN job' = Worker /\ job' \in [Worker -> Job]
  BY <1>2 DEF WriteChannel, TypeOK
<1>4. \A w \in Worker : Locked(w)' = Locked(w)
  BY <1>2 DEF Locked
<1>5. Job' = Job
  BY <1>1 DEF Job
<1>6. channel' \in [Channel -> ChannelRow]
  BY DEF WriteChannel, TypeOK
<1>7. TypeOK'
  BY <1>1, <1>2, <1>3, <1>4, <1>5, <1>6 DEF TypeOK
<1>8. OneSender'
  BY <1>4 DEF OneSender
<1>9. FreeCounted' /\ NotYetCalled'
  BY <1>1, <1>4 DEF FreeCounted, NotYetCalled, Free
<1>10. \A w \in Worker : WorkingCopy(w)'
  BY <1>1, <1>2, <1>4 DEF WorkingCopy
<1> QED
  BY <1>7, <1>8, <1>9, <1>10

(* What the user does with the channels leaves the claims alone.            *)
LEMMA ChannelInv == OutboxInv /\ ChannelStep => OutboxInv'
<1> SUFFICES ASSUME OutboxInv, NEW c \in Channel,
                    TestSend(c) \/ Toggle(c) \/ Reconfigure(c) \/ Delete(c)
             PROVE  OutboxInv'
  BY DEF ChannelStep
<1>1. channel[c] \in ChannelRow
  BY DEF OutboxInv, TypeOK
<1>2. CASE TestSend(c)
  BY <1>2, TestStep
<1>3. CASE Toggle(c)
  <2>1. \A r \in {"enabled", "disabled"} : [channel[c] EXCEPT !.row = r] \in ChannelRow
    BY <1>1 DEF ChannelRow
  <2> QED
    BY <1>3, <2>1, WriteStep DEF Toggle
<1>4. CASE Reconfigure(c)
  <2>1. \A row \in {"enabled", "disabled"} :
          [row |-> row, config |-> channel[c].config + 1] \in ChannelRow
    BY <1>1, <1>4, OutboxAssumption DEF ChannelRow, Reconfigure
  <2> QED
    BY <1>4, <2>1, WriteStep DEF Reconfigure
<1>5. CASE Delete(c)
  <2>1. [channel[c] EXCEPT !.row = "deleted"] \in ChannelRow
    BY <1>1 DEF ChannelRow
  <2> QED
    BY <1>5, <2>1, WriteStep DEF Delete
<1> QED
  BY <1>2, <1>3, <1>4, <1>5

(* A batch takes rows that are due and that nobody has.                     *)
LEMMA ReadStep ==
  ASSUME OutboxInv, NEW w \in Worker, ReadBatch(w) PROVE OutboxInv'
<1> USE DEF OutboxInv
<1>1. PICK batch \in SUBSET Available(w) :
        job' = [job EXCEPT ![w] = [rows |-> [e \in batch |-> outbox[e]],
                                  todo |-> batch, held |-> {}, off |-> {},
                                  live |-> EnabledChannels]]
  BY DEF ReadBatch
<1>2. UNCHANGED <<channel, outbox, crashes, calls, undone>> /\ Locked(w) = {}
  BY DEF ReadBatch
<1>3. /\ batch \subseteq Ids
      /\ \A e \in batch : /\ outbox[e].status = "PENDING" /\ ~outbox[e].later
                          /\ outbox[e] \in Event
                          /\ \A v \in Worker \ {w} : e \notin Locked(v)
  <2>1. \A e \in Available(w) :
          /\ e \in Ids /\ outbox[e].status = "PENDING" /\ ~outbox[e].later
          /\ e \notin Elsewhere(w)
    BY DEF Available
  <2>2. \A e \in Ids : outbox[e] \in Event
    BY DEF TypeOK, Ids
  <2>3. \A e, v : v \in Worker \ {w} /\ e \in Locked(v) => e \in Elsewhere(w)
    BY DEF Elsewhere
  <2> QED
    BY <2>1, <2>2, <2>3
<1> DEFINE rows == [e \in batch |-> outbox[e]]
           new == [rows |-> rows, todo |-> batch, held |-> {}, off |-> {},
                   live |-> EnabledChannels]
<1>4. rows \in UNION {[b -> Event] : b \in SUBSET Ids}
  BY <1>3
<1>5. new \in Job
  BY <1>3, <1>4 DEF Job, EnabledChannels
<1>6. /\ job'[w] = new /\ \A v \in Worker \ {w} : job'[v] = job[v]
      /\ job' \in [Worker -> Job]
  BY <1>1, <1>5 DEF TypeOK
<1>7. Locked(w)' = batch /\ \A v \in Worker \ {w} : Locked(v)' = Locked(v)
  BY <1>6 DEF Locked
<1>8. Job' = Job /\ Ids' = Ids
  BY <1>2 DEF Job, Ids
<1>9. TypeOK'
  BY <1>2, <1>6, <1>7, <1>8 DEF TypeOK
<1>10. OneSender'
  BY <1>3, <1>7 DEF OneSender
<1>11. FreeCounted' /\ NotYetCalled'
  BY <1>2, <1>7, <1>8 DEF FreeCounted, NotYetCalled, Free
<1>12. WorkingCopy(w)'
  <2> SUFFICES ASSUME NEW e \in batch
               PROVE  /\ outbox[e].status = "PENDING" /\ ~outbox[e].later
                      /\ calls[e] = outbox[e].attempts + undone[e]
                      /\ outbox[e].attempts <= outbox[e].attempts
                      /\ outbox[e].attempts < MAX_DELIVERY_ATTEMPTS
    BY <1>2, <1>6, <1>7 DEF WorkingCopy
  <2>1. Free(e) /\ e \in Ids
    BY <1>2, <1>3 DEF Free
  <2>2. outbox[e].attempts \in Int
    BY <1>3 DEF Event
  <2> QED
    BY <1>3, <2>1, <2>2 DEF FreeCounted
<1>13. \A v \in Worker \ {w} : WorkingCopy(v)'
  BY <1>2, <1>6, <1>7 DEF WorkingCopy
<1> QED
  BY <1>9, <1>10, <1>11, <1>12, <1>13

(* What is common to a row that is skipped and one that is delivered: the   *)
(* row in hand changes, with as many more attempts as calls.                *)
LEMMA HandledStep ==
  ASSUME OutboxInv, NEW w \in Worker, NEW e \in Ids, NEW row \in Event,
         NEW off \in SUBSET (Channel \X (0..MaxConfig)), NEW n \in 0..1,
         IsNext(w, e), Handled(w, e, row, off),
         row.attempts = job[w].rows[e].attempts + n,
         row.status = "PENDING" => row.attempts < MAX_DELIVERY_ATTEMPTS,
         row.status # "PENDING" => ~row.later,
         calls' = [calls EXCEPT ![e] = @ + n],
         UNCHANGED <<channel, outbox, crashes, undone>>
  PROVE  OutboxInv'
<1> USE DEF OutboxInv
<1>1. e \in job[w].todo
  BY DEF IsNext
<1>2. /\ job' \in [Worker -> Job]
      /\ \A v \in Worker \ {w} : job'[v] = job[v]
      /\ \A v \in Worker : Locked(v)' = Locked(v)
      /\ e \in Locked(w)
      /\ job'[w].rows[e] = row
      /\ \A f \in Locked(w) \ {e} : job'[w].rows[f] = job[w].rows[f]
      /\ job'[w].todo = job[w].todo \ {e}
  BY <1>1, HandledJob
<1>3. Ids' = Ids /\ Job' = Job
  BY DEF Job, Ids
<1>4. e \in 1..MaxEvents
  BY OutboxAssumption DEF Ids, TypeOK
<1>5. /\ calls' \in [1..MaxEvents -> Nat]
      /\ calls'[e] = calls[e] + n
      /\ \A f \in 1..MaxEvents : f # e => calls'[f] = calls[f]
  BY <1>4 DEF TypeOK
<1>6. TypeOK'
  BY <1>2, <1>3, <1>5 DEF TypeOK
<1>7. OneSender'
  BY <1>2 DEF OneSender
<1>8. Ids \subseteq 1..MaxEvents
  BY OutboxAssumption DEF Ids, TypeOK
<1>9. FreeCounted'
  BY <1>2, <1>3, <1>5, <1>8 DEF FreeCounted, Free
<1>10. NotYetCalled'
  BY <1>3, <1>5 DEF NotYetCalled
<1>11. WorkingCopy(w)'
  <2> SUFFICES ASSUME NEW f \in Locked(w)
               PROVE  /\ outbox[f].status = "PENDING" /\ ~outbox[f].later
                      /\ calls'[f] = job'[w].rows[f].attempts + undone[f]
                      /\ outbox[f].attempts <= job'[w].rows[f].attempts
                      /\ job'[w].rows[f].status = "PENDING" =>
                           job'[w].rows[f].attempts < MAX_DELIVERY_ATTEMPTS
                      /\ job'[w].rows[f].status # "PENDING" => ~job'[w].rows[f].later
                      /\ f \in job'[w].todo => job'[w].rows[f] = outbox[f]
    BY <1>2 DEF WorkingCopy
  <2>1. f \in 1..MaxEvents
    BY <1>8, RowsOfJob
  <2>2. CASE f = e
    <3>1. /\ job[w].rows[e].attempts \in Nat /\ outbox[e].attempts \in Nat
          /\ undone[e] \in Nat /\ calls[e] \in Nat
      <4>1. job[w].rows[e] \in Event /\ outbox[e] \in Event
        BY <1>2, RowsOfJob
      <4>2. undone[e] \in Nat /\ calls[e] \in Nat
        BY <1>4 DEF TypeOK
      <4> QED
        BY <4>1, <4>2, EventNumbers
    <3>2. /\ outbox[e].status = "PENDING" /\ ~outbox[e].later
          /\ calls[e] = job[w].rows[e].attempts + undone[e]
          /\ outbox[e].attempts <= job[w].rows[e].attempts
      BY <1>2 DEF WorkingCopy
    <3>3. /\ job'[w].rows[e].attempts = job[w].rows[e].attempts + n
          /\ job'[w].rows[e].status = "PENDING" =>
               job'[w].rows[e].attempts < MAX_DELIVERY_ATTEMPTS
          /\ job'[w].rows[e].status # "PENDING" => ~job'[w].rows[e].later
          /\ e \notin job'[w].todo
      BY <1>2
    <3>4. /\ calls'[e] = job'[w].rows[e].attempts + undone[e]
          /\ outbox[e].attempts <= job'[w].rows[e].attempts
      <4>1. calls'[e] = calls[e] + n /\ n \in Nat
        BY <1>5
      <4>2. calls[e] = job[w].rows[e].attempts + undone[e]
            /\ outbox[e].attempts <= job[w].rows[e].attempts
        BY <3>2
      <4>3. job'[w].rows[e].attempts = job[w].rows[e].attempts + n
        BY <3>3
      <4> HIDE DEF OutboxInv
      <4> QED
        BY <3>1, <4>1, <4>2, <4>3
    <3> QED
      BY <2>2, <3>2, <3>3, <3>4
  <2>3. CASE f # e
    <3>1. /\ job'[w].rows[f] = job[w].rows[f]
          /\ f \in job'[w].todo => f \in job[w].todo
          /\ calls'[f] = calls[f]
      BY <1>2, <1>5, <2>1, <2>3
    <3>2. /\ outbox[f].status = "PENDING" /\ ~outbox[f].later
          /\ calls[f] = job[w].rows[f].attempts + undone[f]
          /\ outbox[f].attempts <= job[w].rows[f].attempts
          /\ job[w].rows[f].status = "PENDING" =>
               job[w].rows[f].attempts < MAX_DELIVERY_ATTEMPTS
          /\ job[w].rows[f].status # "PENDING" => ~job[w].rows[f].later
          /\ f \in job[w].todo => job[w].rows[f] = outbox[f]
      BY DEF WorkingCopy
    <3> QED
      BY <3>1, <3>2
  <2> QED
    BY <2>2, <2>3
<1>12. \A v \in Worker \ {w} : WorkingCopy(v)'
  <2> SUFFICES ASSUME NEW v \in Worker \ {w}, NEW f \in Locked(v)
               PROVE  calls'[f] = calls[f]
    BY <1>2 DEF WorkingCopy
  <2>1. f # e /\ f \in 1..MaxEvents
    BY <1>2, <1>8, RowsOfJob DEF OneSender
  <2> QED
    BY <2>1, <1>5
<1> QED
  BY <1>6, <1>7, <1>9, <1>10, <1>11, <1>12

(* One row of a batch is handled: skipped, or sent and answered.            *)
LEMMA HandleStep ==
  ASSUME OutboxInv, NEW w \in Worker, Handle(w) PROVE OutboxInv'
<1> USE DEF OutboxInv
<1> SUFFICES ASSUME NEW e \in Ids,
                    Skip(w, e) \/ \E answer \in {"accepted", "failed", "gone"} :
                                    Deliver(w, e, answer)
             PROVE  OutboxInv'
  BY DEF Handle
<1>1. IsNext(w, e) /\ e \in Locked(w)
  BY DEF Skip, Deliver, IsNext, TypeOK
<1> DEFINE old == job[w].rows[e]
<1>2. /\ old \in Event /\ outbox[e] \in Event
      /\ old.status = "PENDING" /\ ~old.later /\ old.attempts < MAX_DELIVERY_ATTEMPTS
  BY <1>1, RowsOfJob DEF WorkingCopy, IsNext
<1>3. CASE Skip(w, e)
  <2>1. [old EXCEPT !.status = "FAILED"] \in Event
        /\ [old EXCEPT !.status = "FAILED"].attempts = old.attempts + 0
        /\ [old EXCEPT !.status = "FAILED"].status = "FAILED"
        /\ ~[old EXCEPT !.status = "FAILED"].later
    BY <1>2 DEF Event
  <2>2. calls' = [calls EXCEPT ![e] = @ + 0]
    <3>1. e \in 1..MaxEvents
      BY OutboxAssumption DEF Ids, TypeOK
    <3> QED
      BY <1>3, <3>1 DEF Skip, TypeOK
  <2>3. UNCHANGED <<channel, outbox, crashes, undone>>
        /\ Handled(w, e, [old EXCEPT !.status = "FAILED"], {})
    BY <1>3 DEF Skip
  <2> DEFINE row == [old EXCEPT !.status = "FAILED"]
             n == 0
             off == {}
  <2>4. /\ row \in Event /\ row.attempts = job[w].rows[e].attempts + n
        /\ row.status # "PENDING" /\ ~row.later /\ calls' = [calls EXCEPT ![e] = @ + n]
        /\ Handled(w, e, row, off) /\ n \in 0..1
        /\ off \in SUBSET (Channel \X (0..MaxConfig))
    BY <2>1, <2>2, <2>3
  <2> HIDE DEF row, n, off
  <2> QED
    BY <1>1, <2>3, <2>4, HandledStep
<1>4. ASSUME NEW answer \in {"accepted", "failed", "gone"}, Deliver(w, e, answer)
      PROVE  OutboxInv'
  <2> DEFINE c == outbox[e].channel
             off == IF answer = "gone" THEN {<<c, Get(w, c).config>>} ELSE {}
             row == Answered(old, answer)
  <2>1. c \in Channel /\ Get(w, c) \in ChannelRow
    BY <1>2, GetType DEF Event
  <2>2. off \in SUBSET (Channel \X (0..MaxConfig))
    BY <2>1 DEF ChannelRow
  <2>3. /\ row \in Event /\ row.attempts = old.attempts + 1
        /\ row.status = "PENDING" => row.attempts < MAX_DELIVERY_ATTEMPTS
        /\ row.status # "PENDING" => ~row.later
    BY <1>2, AnsweredRow
  <2>4. /\ Handled(w, e, row, off)
        /\ calls' = [calls EXCEPT ![e] = @ + 1]
        /\ UNCHANGED <<channel, outbox, crashes, undone>>
    BY <1>4 DEF Deliver
  <2> DEFINE n == 1
  <2>5. /\ row.attempts = job[w].rows[e].attempts + n /\ n \in 0..1
        /\ calls' = [calls EXCEPT ![e] = @ + n]
    BY <2>3, <2>4
  <2> HIDE DEF off, row, n, old
  <2> QED
    BY <1>1, <2>2, <2>3, <2>4, <2>5, HandledStep
<1> QED
  BY <1>3, <1>4

(* The locked rows become the rows of the outbox.                           *)
LEMMA CommitStep ==
  ASSUME OutboxInv, NEW w \in Worker, Commit(w) PROVE OutboxInv'
<1> USE DEF OutboxInv
<1>1. /\ outbox' = [e \in 1..Len(outbox) |-> IF e \in Locked(w) THEN job[w].rows[e]
                                             ELSE outbox[e]]
      /\ job' = [job EXCEPT ![w] = Idle]
      /\ UNCHANGED <<crashes, calls, undone>>
  BY DEF Commit, Ids
<1>2. \A e \in 1..Len(outbox) :
        (IF e \in Locked(w) THEN job[w].rows[e] ELSE outbox[e]) \in Event
  BY RowsOfJob DEF TypeOK
<1>3. Len(outbox) \in Nat
  BY DEF TypeOK
<1>4. outbox' \in Seq(Event) /\ Len(outbox') = Len(outbox) /\ Ids' = Ids
  BY <1>1, <1>2, <1>3 DEF Ids
<1>5. /\ job'[w] = Idle /\ \A v \in Worker \ {w} : job'[v] = job[v]
      /\ job' \in [Worker -> Job]
  BY <1>1, IdleType DEF TypeOK
<1>6. Locked(w)' = {} /\ \A v \in Worker \ {w} : Locked(v)' = Locked(v)
  BY <1>5, IdleType DEF Locked
<1>7. channel' \in [Channel -> ChannelRow]
  <2>1. \A c \in Channel : /\ channel[c] \in ChannelRow
                           /\ [channel[c] EXCEPT !.row = "disabled"] \in ChannelRow
    BY DEF TypeOK, ChannelRow
  <2> QED
    BY <2>1 DEF Commit
<1>8. Job' = Job
  BY <1>4 DEF Job
<1>9. TypeOK'
  <2>1. \A v \in Worker : job'[v].todo \subseteq Locked(v)'
    BY <1>5, <1>6 DEF Idle, TypeOK
  <2> QED
    BY <1>1, <1>4, <1>5, <1>7, <1>8, <2>1 DEF TypeOK
<1>10. OneSender'
  BY <1>6 DEF OneSender
<1>11. /\ \A e \in Locked(w) : outbox'[e] = job[w].rows[e]
       /\ \A e \in Ids \ Locked(w) : outbox'[e] = outbox[e]
  BY <1>1, RowsOfJob DEF Ids
<1>12. FreeCounted'
  <2> SUFFICES ASSUME NEW e \in Ids
               PROVE  /\ outbox'[e].status = "PENDING" =>
                           outbox'[e].attempts < MAX_DELIVERY_ATTEMPTS
                      /\ outbox'[e].status # "PENDING" => ~outbox'[e].later
                      /\ Free(e)' => calls[e] = outbox'[e].attempts + undone[e]
    BY <1>1, <1>4 DEF FreeCounted
  <2>1. CASE e \in Locked(w)
    BY <1>11, <2>1 DEF WorkingCopy
  <2>2. CASE e \notin Locked(w)
    BY <1>6, <1>11, <2>2 DEF FreeCounted, Free
  <2> QED
    BY <2>1, <2>2
<1>13. NotYetCalled'
  BY <1>1, <1>4 DEF NotYetCalled
<1>14. \A v \in Worker : WorkingCopy(v)'
  <2>1. ASSUME NEW v \in Worker \ {w} PROVE WorkingCopy(v)'
    <3>1. \A e \in Locked(v) : outbox'[e] = outbox[e]
      BY <1>11, RowsOfJob DEF OneSender
    <3>2. job'[v] = job[v] /\ Locked(v)' = Locked(v)
      BY <1>5, <1>6
    <3>3. UNCHANGED <<calls, undone>>
      BY <1>1
    <3> QED
      BY <3>1, <3>2, <3>3 DEF WorkingCopy
  <2>2. WorkingCopy(w)'
    BY <1>6 DEF WorkingCopy
  <2> QED
    BY <2>1, <2>2
<1> QED
  BY <1>9, <1>10, <1>12, <1>13, <1>14

(* The locks go, and the calls go from the copy to the forgotten ones.      *)
LEMMA RollbackStep ==
  ASSUME OutboxInv, NEW w \in Worker, Rollback(w), crashes' \in 0..MaxCrashes
  PROVE  OutboxInv'
<1> USE DEF OutboxInv
<1>1. UNCHANGED <<channel, outbox, calls>> /\ Ids' = Ids /\ Job' = Job
  BY DEF Rollback, Ids, Job
<1>2. /\ job'[w] = Idle /\ \A v \in Worker \ {w} : job'[v] = job[v]
      /\ job' \in [Worker -> Job]
  BY IdleType DEF Rollback, TypeOK
<1>3. Locked(w)' = {} /\ \A v \in Worker \ {w} : Locked(v)' = Locked(v)
  BY <1>2, IdleType DEF Locked
<1>4. Ids \subseteq 1..MaxEvents
  BY OutboxAssumption DEF Ids, TypeOK
<1>5. ASSUME NEW e \in Locked(w)
      PROVE  /\ undone[e] + job[w].rows[e].attempts - outbox[e].attempts \in Nat
             /\ calls[e] = outbox[e].attempts
                  + (undone[e] + job[w].rows[e].attempts - outbox[e].attempts)
  <2>1. /\ job[w].rows[e].attempts \in Nat /\ outbox[e].attempts \in Nat
        /\ undone[e] \in Nat
    <3>1. job[w].rows[e] \in Event /\ outbox[e] \in Event /\ e \in 1..MaxEvents
      BY <1>4, RowsOfJob
    <3> QED
      BY <3>1, EventNumbers DEF TypeOK
  <2> QED
    BY <2>1 DEF WorkingCopy
<1>6. /\ undone' \in [1..MaxEvents -> Nat]
      /\ \A e \in 1..MaxEvents \ Locked(w) : undone'[e] = undone[e]
      /\ \A e \in Locked(w) :
           undone'[e] = undone[e] + job[w].rows[e].attempts - outbox[e].attempts
  BY <1>4, <1>5, RowsOfJob DEF Rollback, TypeOK
<1>7. TypeOK'
  <2>1. \A v \in Worker : job'[v].todo \subseteq Locked(v)'
    BY <1>2, <1>3 DEF Idle, TypeOK
  <2> QED
    BY <1>1, <1>2, <1>6, <2>1 DEF TypeOK
<1>8. OneSender'
  BY <1>3 DEF OneSender
<1>9. FreeCounted'
  <2> SUFFICES ASSUME NEW e \in Ids, Free(e)'
               PROVE  calls[e] = outbox[e].attempts + undone'[e]
    BY <1>1 DEF FreeCounted
  <2>1. CASE e \in Locked(w)
    BY <1>5, <1>6, <2>1
  <2>2. CASE e \notin Locked(w)
    BY <1>3, <1>4, <1>6, <2>2 DEF FreeCounted, Free
  <2> QED
    BY <2>1, <2>2
<1>10. NotYetCalled'
  BY <1>1, <1>6, RowsOfJob DEF NotYetCalled
<1>11. \A v \in Worker : WorkingCopy(v)'
  <2>1. ASSUME NEW v \in Worker \ {w} PROVE WorkingCopy(v)'
    <3>1. \A e \in Locked(v) : undone'[e] = undone[e]
      BY <1>4, <1>6, RowsOfJob DEF OneSender
    <3> QED
      BY <1>1, <1>2, <1>3, <3>1 DEF WorkingCopy
  <2>2. WorkingCopy(w)'
    BY <1>3 DEF WorkingCopy
  <2> QED
    BY <2>1, <2>2
<1> QED
  BY <1>7, <1>8, <1>9, <1>10, <1>11

(* A deferred row is nobody's.                                              *)
LEMMA AvailableStep ==
  ASSUME OutboxInv, NEW e \in Ids, BecomeAvailable(e) PROVE OutboxInv'
<1> USE DEF OutboxInv
<1>1. outbox[e].later /\ UNCHANGED <<channel, job, crashes, calls, undone>>
      /\ outbox' = [outbox EXCEPT ![e] = [outbox[e] EXCEPT !.later = FALSE]]
  BY DEF BecomeAvailable
<1> DEFINE row == [outbox[e] EXCEPT !.later = FALSE]
<1>2. outbox \in Seq(Event) /\ outbox[e] \in Event /\ e \in 1..Len(outbox)
  BY DEF TypeOK, Ids
<1>3. /\ row \in Event /\ row.attempts = outbox[e].attempts
      /\ row.status = outbox[e].status
  BY <1>2 DEF Event
<1> HIDE DEF row
<1>4. /\ outbox' \in Seq(Event) /\ Len(outbox') = Len(outbox) /\ Ids' = Ids
      /\ outbox'[e] = row /\ \A f \in Ids \ {e} : outbox'[f] = outbox[f]
  <2>1. outbox' = [outbox EXCEPT ![e] = row]
    BY <1>1 DEF row
  <2>2. Len(outbox') = Len(outbox) /\ outbox' \in Seq(Event)
    BY <1>2, <1>3, <2>1
  <2>3. outbox'[e] = row /\ \A f \in 1..Len(outbox) : f # e => outbox'[f] = outbox[f]
    BY <1>2, <2>1
  <2> QED
    BY <2>2, <2>3 DEF Ids
<1>5. \A w \in Worker : e \notin Locked(w) /\ Locked(w)' = Locked(w)
                        /\ Locked(w) \subseteq Ids
  BY <1>1, RowsOfJob DEF WorkingCopy, Locked
<1>6. Job' = Job
  BY <1>4 DEF Job
<1>7. TypeOK'
  BY <1>1, <1>4, <1>5, <1>6 DEF TypeOK
<1>8. OneSender'
  BY <1>5 DEF OneSender
<1>9. FreeCounted' /\ NotYetCalled'
  BY <1>1, <1>3, <1>4, <1>5 DEF FreeCounted, NotYetCalled, Free
<1>10. \A w \in Worker : WorkingCopy(w)'
  BY <1>1, <1>4, <1>5 DEF WorkingCopy
<1> QED
  BY <1>7, <1>8, <1>9, <1>10

(* The invariant is inductive: one group of actions after the other.        *)
LEMMA OutboxInvStep == OutboxInv /\ [Next]_vars => OutboxInv'
<1> SUFFICES ASSUME OutboxInv, [Next]_vars PROVE OutboxInv'
  OBVIOUS
<1>1. CASE Notify
  BY <1>1, NotifyStep
<1>2. CASE ChannelStep
  BY <1>2, ChannelInv
<1>3. ASSUME NEW w \in Worker,
             ReadBatch(w) \/ Handle(w) \/ Commit(w) \/ CommitFails(w) \/ Crash(w)
      PROVE  OutboxInv'
  <2>1. CASE ReadBatch(w)
    BY <2>1, ReadStep
  <2>2. CASE Handle(w)
    BY <2>2, HandleStep
  <2>3. CASE Commit(w)
    BY <2>3, CommitStep
  <2>4. CASE CommitFails(w)
    BY <2>4, RollbackStep DEF CommitFails, OutboxInv, TypeOK
  <2>5. CASE Crash(w)
    <3>1. crashes' \in 0..MaxCrashes
      BY <2>5, OutboxAssumption DEF Crash, OutboxInv, TypeOK
    <3> QED
      BY <2>5, <3>1, RollbackStep DEF Crash
  <2> QED
    BY <1>3, <2>1, <2>2, <2>3, <2>4, <2>5
<1>4. ASSUME NEW e \in Ids, BecomeAvailable(e) PROVE OutboxInv'
  BY <1>4, AvailableStep
<1>5. CASE UNCHANGED vars
  <2>1. UNCHANGED <<channel, outbox, job, crashes, calls, undone>>
    BY <1>5 DEF vars
  <2>2. Ids' = Ids /\ Job' = Job /\ \A w \in Worker : Locked(w)' = Locked(w)
    BY <2>1 DEF Ids, Job, Locked
  <2>3. TypeOK' /\ OneSender'
    BY <2>1, <2>2 DEF OutboxInv, TypeOK, OneSender
  <2>4. FreeCounted' /\ NotYetCalled' /\ \A w \in Worker : WorkingCopy(w)'
    BY <2>1, <2>2 DEF OutboxInv, FreeCounted, NotYetCalled, WorkingCopy, Free
  <2> QED
    BY <2>3, <2>4 DEF OutboxInv
<1> QED
  BY <1>1, <1>2, <1>3, <1>4, <1>5 DEF Next, WorkerStep

(* The invariant that the theorems rest on.                                 *)
THEOREM OutboxInvHolds == Spec => []OutboxInv
BY OutboxInvInit, OutboxInvStep, PTL DEF Spec

(* Every row and every transaction keeps its type.                          *)
THEOREM OutboxTypeCorrect == Spec => []TypeOK
<1>1. OutboxInv => TypeOK
  BY DEF OutboxInv
<1> QED
  BY <1>1, OutboxInvHolds, PTL

(* No notification is ever in the hands of two workers.                     *)
THEOREM OneSenderHolds == Spec => []OneSender
<1>1. OutboxInv => OneSender
  BY DEF OutboxInv
<1> QED
  BY <1>1, OutboxInvHolds, PTL

(* A notification is tried MAX_DELIVERY_ATTEMPTS times, and once more for   *)
(* every call that a rollback forgot.                                       *)
THEOREM CallsAreBounded == Spec => []CallsBounded
<1>1. ASSUME OutboxInv, NEW e \in Ids
      PROVE  calls[e] <= MAX_DELIVERY_ATTEMPTS + undone[e]
  <2>1. e \in 1..MaxEvents /\ outbox[e] \in Event
    BY <1>1, OutboxAssumption DEF OutboxInv, TypeOK, Ids
  <2>2. undone[e] \in Nat
    BY <1>1, <2>1 DEF OutboxInv, TypeOK
  <2>3. \A row \in Event : row.attempts \in Nat /\ row.attempts <= MAX_DELIVERY_ATTEMPTS
    BY OutboxAssumption DEF Event
  <2>4. CASE Free(e)
    BY <1>1, <2>1, <2>2, <2>3, <2>4, OutboxAssumption DEF OutboxInv, FreeCounted
  <2>5. ASSUME NEW w \in Worker, e \in Locked(w)
        PROVE  calls[e] <= MAX_DELIVERY_ATTEMPTS + undone[e]
    <3>1. job[w].rows[e] \in Event
      BY <1>1, <2>5, RowsOfJob DEF OutboxInv
    <3>2. calls[e] = job[w].rows[e].attempts + undone[e]
      BY <1>1, <2>5 DEF OutboxInv, WorkingCopy
    <3> QED
      BY <2>2, <2>3, <3>1, <3>2, OutboxAssumption
  <2> QED
    BY <2>4, <2>5 DEF Free
<1>2. OutboxInv => CallsBounded
  BY <1>1 DEF CallsBounded
<1> QED
  BY <1>2, OutboxInvHolds, PTL

-----------------------------------------------------------------------------
(* What was recorded as sent or failed is locked by nobody and not deferred,*)
(* so that no step changes it.                                              *)
LEMMA SettledStep ==
  ASSUME OutboxInv, Next, NEW e \in Ids, outbox[e].status # "PENDING"
  PROVE  outbox'[e] = outbox[e] /\ calls'[e] = calls[e]
<1> USE DEF OutboxInv
<1>1. /\ outbox \in Seq(Event) /\ e \in 1..Len(outbox)
      /\ calls \in [1..MaxEvents -> Nat]
  BY DEF TypeOK, Ids
<1>2. \A w \in Worker : e \notin Locked(w) /\ e \notin job[w].todo
  BY DEF WorkingCopy, TypeOK
<1>3. CASE Notify
  <2> DEFINE n == Cardinality(EnabledChannels)
  <2>1. n \in Nat
    BY FS_Subset, FS_CardinalityType, OutboxAssumption DEF EnabledChannels
  <2> HIDE DEF n
  <2>2. PICK order \in [1..n -> EnabledChannels] :
          outbox' = outbox \o [i \in 1..n |-> NewEvent(order[i])]
    BY <1>3 DEF Notify, n
  <2>3. \A i \in 1..n : NewEvent(order[i]) \in Event
    BY OutboxAssumption DEF NewEvent, Event, EnabledChannels
  <2>4. [i \in 1..n |-> NewEvent(order[i])] \in Seq(Event)
    BY <2>1, <2>3
  <2>5. outbox'[e] = outbox[e]
    BY <1>1, <2>2, <2>4, ConcatProperties
  <2> QED
    BY <1>3, <2>5 DEF Notify
<1>4. CASE ChannelStep
  <2>1. ASSUME NEW c \in Channel, TestSend(c)
        PROVE  outbox'[e] = outbox[e] /\ calls'[e] = calls[e]
    <3>1. outbox' = Append(outbox, NewEvent(c)) /\ calls' = calls
      BY <2>1 DEF TestSend
    <3>2. NewEvent(c) \in Event
      BY OutboxAssumption DEF NewEvent, Event
    <3> QED
      BY <1>1, <3>1, <3>2, AppendProperties
  <2>2. ASSUME NEW c \in Channel, Toggle(c) \/ Reconfigure(c) \/ Delete(c)
        PROVE  outbox' = outbox /\ calls' = calls
    BY <2>2 DEF Toggle, Reconfigure, Delete, WriteChannel
  <2>3. PICK c \in Channel : TestSend(c) \/ Toggle(c) \/ Reconfigure(c) \/ Delete(c)
    BY <1>4 DEF ChannelStep
  <2>4. CASE TestSend(c)
    BY <2>1, <2>4
  <2>5. CASE Toggle(c) \/ Reconfigure(c) \/ Delete(c)
    BY <2>2, <2>5
  <2> QED
    BY <2>3, <2>4, <2>5
<1>5. ASSUME NEW w \in Worker, Handle(w)
      PROVE  outbox'[e] = outbox[e] /\ calls'[e] = calls[e]
  <2>1. PICK f \in Ids : Skip(w, f) \/ \E answer \in {"accepted", "failed", "gone"} :
                                         Deliver(w, f, answer)
    BY <1>5 DEF Handle
  <2>2. f # e
    BY <1>2, <2>1 DEF Skip, Deliver, IsNext
  <2>3. outbox' = outbox
    BY <2>1 DEF Skip, Deliver
  <2>4. calls' = calls \/ calls' = [calls EXCEPT ![f] = @ + 1]
    BY <2>1 DEF Skip, Deliver
  <2>5. e \in 1..MaxEvents
    BY <1>1, OutboxAssumption DEF TypeOK
  <2>6. CASE calls' = [calls EXCEPT ![f] = @ + 1]
    BY <1>1, <2>2, <2>3, <2>5, <2>6
  <2> QED
    BY <2>3, <2>4, <2>6
<1>6. ASSUME NEW w \in Worker, Commit(w)
      PROVE  outbox'[e] = outbox[e] /\ calls'[e] = calls[e]
  BY <1>2, <1>6 DEF Commit
<1>7. ASSUME NEW w \in Worker, ReadBatch(w) \/ CommitFails(w) \/ Crash(w)
      PROVE  outbox'[e] = outbox[e] /\ calls'[e] = calls[e]
  BY <1>7 DEF ReadBatch, CommitFails, Crash, Rollback
<1>8. ASSUME NEW f \in Ids, BecomeAvailable(f)
      PROVE  outbox'[e] = outbox[e] /\ calls'[e] = calls[e]
  <2>1. outbox[f].later /\ ~outbox[e].later
    BY <1>8 DEF BecomeAvailable, FreeCounted
  <2>2. f # e
    BY <2>1
  <2> QED
    BY <1>1, <1>8, <2>2 DEF BecomeAvailable
<1> QED
  BY <1>3, <1>4, <1>5, <1>6, <1>7, <1>8 DEF Next, WorkerStep

(* A notification recorded as sent or failed stays so and is not delivered  *)
(* again.                                                                   *)
THEOREM SettledIsFinal == Spec => SettledStaysSettled
<1>1. ASSUME OutboxInv, [Next]_vars
      PROVE  [\A e \in Ids : outbox[e].status # "PENDING" =>
                outbox'[e] = outbox[e] /\ calls'[e] = calls[e]]_vars
  BY <1>1, SettledStep
<1> QED
  BY <1>1, OutboxInvHolds, PTL DEF Spec, SettledStaysSettled

-----------------------------------------------------------------------------
(* While a batch is out, every channel it can take for enabled has been     *)
(* enabled since the batch was read.                                        *)
LiveIsKnown ==
    \A w \in Worker : Locked(w) # {} =>
      /\ EnabledChannels \subseteq job[w].live
      /\ \A h \in job[w].held : h.is.row = "enabled" => h.channel \in job[w].live

(* What a session takes for enabled is known to be live.                    *)
LEMMA EnabledIsLive ==
  ASSUME TypeOK, LiveIsKnown, NEW w \in Worker, Locked(w) # {}, NEW c \in Channel,
         Get(w, c).row = "enabled"
  PROVE  c \in job[w].live
<1>1. CASE \E config \in 0..MaxConfig : <<c, config>> \in job[w].off
  BY <1>1 DEF Get
<1>2. CASE /\ ~\E config \in 0..MaxConfig : <<c, config>> \in job[w].off
           /\ \E h \in job[w].held : h.channel = c
  <2> DEFINE h == CHOOSE h \in job[w].held : h.channel = c
  <2>1. h \in job[w].held /\ h.channel = c
    BY <1>2
  <2>2. h.is.row = "enabled"
    BY <1>2 DEF Get
  <2> QED
    BY <2>1, <2>2 DEF LiveIsKnown
<1>3. CASE /\ ~\E config \in 0..MaxConfig : <<c, config>> \in job[w].off
           /\ ~\E h \in job[w].held : h.channel = c
  BY <1>3 DEF Get, LiveIsKnown, EnabledChannels
<1> QED
  BY <1>1, <1>2, <1>3

(* What a batch takes for enabled stays known to be live.                   *)
LEMMA LiveStep == OutboxInv /\ LiveIsKnown /\ [Next]_vars => LiveIsKnown'
<1> SUFFICES ASSUME OutboxInv, LiveIsKnown, [Next]_vars PROVE LiveIsKnown'
  OBVIOUS
<1>0. TypeOK /\ job \in [Worker -> Job]
  BY DEF OutboxInv, TypeOK
<1>1. ASSUME UNCHANGED <<channel, job>> PROVE LiveIsKnown'
  BY <1>1 DEF LiveIsKnown, Locked, EnabledChannels
<1>2. ASSUME NEW c \in Channel, NEW row \in ChannelRow, WriteChannel(c, row)
      PROVE  LiveIsKnown'
  <2>1. \A w \in Worker : /\ job'[w].rows = job[w].rows
                          /\ job'[w].held = job[w].held
                          /\ job[w].live \subseteq job'[w].live
                          /\ row.row = "enabled" => c \in job'[w].live
    BY <1>0, <1>2 DEF WriteChannel, Job
  <2>2. \A d \in EnabledChannels' : d \in EnabledChannels \/ (d = c /\ row.row = "enabled")
    BY <1>0, <1>2 DEF WriteChannel, EnabledChannels, TypeOK
  <2> QED
    BY <2>1, <2>2 DEF LiveIsKnown, Locked
<1>3. CASE ChannelStep
  <2>1. PICK c \in Channel : TestSend(c) \/ Toggle(c) \/ Reconfigure(c) \/ Delete(c)
    BY <1>3 DEF ChannelStep
  <2>2. channel[c] \in ChannelRow
    BY <1>0 DEF TypeOK
  <2>3. \A r \in {"enabled", "disabled", "deleted"} :
          [channel[c] EXCEPT !.row = r] \in ChannelRow
    BY <2>2 DEF ChannelRow
  <2>4. \A row \in {"enabled", "disabled"} : channel[c].config < MaxConfig =>
          [row |-> row, config |-> channel[c].config + 1] \in ChannelRow
    BY <2>2, OutboxAssumption DEF ChannelRow
  <2>5. CASE TestSend(c)
    BY <1>1, <2>5 DEF TestSend
  <2>6. CASE Reconfigure(c)
    BY <1>2, <2>4, <2>6 DEF Reconfigure
  <2>7. CASE Toggle(c) \/ Delete(c)
    BY <1>2, <2>3, <2>7 DEF Toggle, Delete
  <2> QED
    BY <2>1, <2>5, <2>6, <2>7
<1>4. ASSUME NEW w \in Worker, ReadBatch(w) PROVE LiveIsKnown'
  <2>1. /\ job'[w].live = EnabledChannels /\ job'[w].held = {}
        /\ \A v \in Worker \ {w} : job'[v] = job[v]
        /\ EnabledChannels' = EnabledChannels
    BY <1>0, <1>4 DEF ReadBatch, EnabledChannels
  <2> QED
    BY <2>1 DEF LiveIsKnown, Locked
<1>5. ASSUME NEW w \in Worker, Handle(w) PROVE LiveIsKnown'
  <2>0. PICK e \in Ids : Skip(w, e) \/ \E answer \in {"accepted", "failed", "gone"} :
                                         Deliver(w, e, answer)
    BY <1>5 DEF Handle
  <2>1. /\ IsNext(w, e) /\ channel' = channel
        /\ \E row, off : Handled(w, e, row, off)
    BY <2>0 DEF Skip, Deliver
  <2> DEFINE c == outbox[e].channel
  <2>2. e \in Locked(w)
    BY <2>1, <1>0 DEF IsNext, TypeOK
  <2>3. c \in Channel
    BY <1>0, <2>2, RowsOfJob DEF Event
  <2>4. /\ job'[w].live = job[w].live
        /\ job'[w].held = {[channel |-> c, is |-> Get(w, c)]}
        /\ \A v \in Worker \ {w} : job'[v] = job[v]
    BY <1>0, <2>1 DEF Handled
  <2>5. Get(w, c).row = "enabled" => c \in job[w].live
    BY <1>0, <2>2, <2>3, EnabledIsLive
  <2>6. EnabledChannels' = EnabledChannels
    BY <2>1 DEF EnabledChannels
  <2> QED
    BY <2>2, <2>4, <2>5, <2>6 DEF LiveIsKnown, Locked
<1>6. ASSUME NEW w \in Worker, Commit(w) \/ CommitFails(w) \/ Crash(w)
      PROVE  LiveIsKnown'
  <2>1. job'[w] = Idle /\ \A v \in Worker \ {w} : job'[v] = job[v]
    BY <1>0, <1>6 DEF Commit, CommitFails, Crash, Rollback
  <2>2. Locked(w)' = {}
    BY <2>1, IdleType DEF Locked
  <2>3. EnabledChannels' \subseteq EnabledChannels
    <3>1. CASE channel' = channel
      BY <3>1 DEF EnabledChannels
    <3>2. CASE Commit(w)
      <4>1. \A c \in Channel : \/ channel'[c] = channel[c]
                               \/ channel'[c] = [channel[c] EXCEPT !.row = "disabled"]
        BY <3>2 DEF Commit
      <4>2. \A c \in Channel : channel[c] \in ChannelRow
        BY <1>0 DEF TypeOK
      <4> QED
        BY <4>1, <4>2 DEF EnabledChannels, ChannelRow
    <3> QED
      BY <1>6, <3>1, <3>2 DEF CommitFails, Crash, Rollback
  <2> QED
    BY <2>1, <2>2, <2>3 DEF LiveIsKnown, Locked
<1> QED
  BY <1>1, <1>3, <1>4, <1>5, <1>6
     DEF Next, WorkerStep, Notify, BecomeAvailable, vars

(* Only a delivery adds a call, and only for a channel taken for enabled.   *)
LEMMA QuietStep ==
  ASSUME OutboxInv, LiveIsKnown, Next, NEW w \in Worker, NEW e \in Ids,
         calls'[e] > calls[e], e \in job[w].todo
  PROVE  outbox[e].channel \in job[w].live
<1> USE DEF OutboxInv
<1>1. calls \in [1..MaxEvents -> Nat] /\ e \in 1..MaxEvents
  BY OutboxAssumption DEF TypeOK, Ids
<1>2. calls' # calls
  <2>1. calls[e] \in Nat
    BY <1>1
  <2>2. ~(calls[e] > calls[e])
    BY <2>1
  <2> QED
    BY <2>2
<1>3. PICK v \in Worker, f \in Ids, answer \in {"accepted", "failed", "gone"} :
        Deliver(v, f, answer)
  BY <1>2 DEF Next, Notify, ChannelStep, TestSend, Toggle, Reconfigure, Delete,
     WriteChannel, WorkerStep, ReadBatch, Handle, Skip, Commit, CommitFails,
     Crash, Rollback, BecomeAvailable
<1>4. calls' = [calls EXCEPT ![f] = @ + 1]
  BY <1>3 DEF Deliver
<1>5. f = e
  BY <1>1, <1>4
<1>6. e \in Locked(w) /\ e \in Locked(v)
  BY <1>3, <1>5 DEF Deliver, IsNext, TypeOK
<1>7. v = w
  BY <1>6 DEF OneSender
<1>8. Get(w, outbox[e].channel).row = "enabled"
  BY <1>3, <1>5, <1>7 DEF Deliver
<1>9. outbox[e].channel \in Channel
  BY <1>6, RowsOfJob DEF Event
<1> QED
  BY <1>6, <1>8, <1>9, EnabledIsLive

(* A channel that was disabled or deleted before a batch was read, and has  *)
(* not been enabled since, gets nothing of the batch.                       *)
THEOREM DisabledStaysQuiet == Spec => DisabledIsQuiet
<1>1. Init => LiveIsKnown
  BY IdleType DEF Init, LiveIsKnown, Locked
<1>2. ASSUME OutboxInv, LiveIsKnown, [Next]_vars
      PROVE  [\A w \in Worker, e \in Ids :
                calls'[e] > calls[e] /\ e \in job[w].todo /\ job'[w] # job[w] =>
                  outbox[e].channel \in job[w].live]_vars
  BY <1>2, QuietStep
<1> QED
  BY <1>1, <1>2, LiveStep, OutboxInvHolds, PTL DEF Spec, DisabledIsQuiet
=============================================================================
