--------------------------- MODULE NotificationOutbox ---------------------------
(***************************************************************************)
(* Notifications: events are written to the outbox in the transaction that *)
(* changes a watch, and workers deliver them in batches. A batch is one    *)
(* transaction: it locks its rows, calls the endpoints one after the other *)
(* and commits all results at the end, so that a crash forgets calls that  *)
(* were made.                                                              *)
(***************************************************************************)
EXTENDS Integers, Sequences, FiniteSets

CONSTANTS
    Channel,              \* notification channels
    Worker,               \* processes of the notifications queue
    MAX_DELIVERY_ATTEMPTS,
    DELIVERY_BATCH_SIZE,
    MaxEvents,            \* bound: rows of the outbox
    MaxCrashes,           \* bound: transactions that die
    MaxConfig             \* bound: replaced configurations of a channel

ASSUME OutboxAssumption ==
    /\ IsFiniteSet(Channel)
    /\ MAX_DELIVERY_ATTEMPTS \in Nat \ {0}
    /\ DELIVERY_BATCH_SIZE \in Nat \ {0}
    /\ MaxEvents \in Nat
    /\ MaxCrashes \in Nat
    /\ MaxConfig \in Nat

VARIABLES
    channel,   \* notification_channels rows
    outbox,    \* outbox_events rows, by created_at
    job,       \* the transaction of each worker
    crashes,   \* how many died
    calls,     \* history: deliveries tried, per event
    undone     \* history: those whose transaction was rolled back

vars == <<channel, outbox, job, crashes, calls, undone>>

Ids == 1..Len(outbox)

ChannelRow == [row : {"enabled", "disabled", "deleted"}, config : 0..MaxConfig]

(* later: available_at is in the future.                                    *)
Event == [channel : Channel, status : {"PENDING", "SENT", "FAILED"},
          attempts : 0..MAX_DELIVERY_ATTEMPTS, later : BOOLEAN]

NewEvent(c) == [channel |-> c, status |-> "PENDING", attempts |-> 0, later |-> FALSE]

(* The transaction of a worker: the locked rows as the session has them,    *)
(* those still to be handled, the channel object in hand, and the channels  *)
(* the session disables with the configuration that was called. live is     *)
(* history: the channels enabled at some time since the batch was read.     *)
Job == [rows : UNION {[batch -> Event] : batch \in SUBSET Ids},
        todo : SUBSET Ids,
        held : SUBSET [channel : Channel, is : ChannelRow],
        off : SUBSET (Channel \X (0..MaxConfig)),
        live : SUBSET Channel]

Idle == [rows |-> [e \in {} |-> e], todo |-> {}, held |-> {}, off |-> {},
         live |-> {}]

Locked(w) == DOMAIN job[w].rows

TypeOK ==
    /\ channel \in [Channel -> ChannelRow]
    /\ outbox \in Seq(Event)
    /\ Len(outbox) <= MaxEvents
    /\ job \in [Worker -> Job]
    /\ \A w \in Worker : job[w].todo \subseteq Locked(w)
    /\ crashes \in 0..MaxCrashes
    /\ calls \in [1..MaxEvents -> Nat]
    /\ undone \in [1..MaxEvents -> Nat]

Init ==
    /\ channel = [c \in Channel |-> [row |-> "enabled", config |-> 0]]
    /\ outbox = <<>>
    /\ job = [w \in Worker |-> Idle]
    /\ crashes = 0
    /\ calls = [e \in 1..MaxEvents |-> 0]
    /\ undone = [e \in 1..MaxEvents |-> 0]

-----------------------------------------------------------------------------
(* The watch's transaction and the user.                                    *)

EnabledChannels == {c \in Channel : channel[c].row = "enabled"}

(* add_watch_notifications: one event per enabled channel, together.        *)
Notify ==
    LET n == Cardinality(EnabledChannels)
    IN /\ Len(outbox) + n <= MaxEvents
       /\ \E order \in [1..n -> EnabledChannels] :
            /\ \A i, j \in 1..n : order[i] = order[j] => i = j
            /\ outbox' = outbox \o [i \in 1..n |-> NewEvent(order[i])]
    /\ UNCHANGED <<channel, job, crashes, calls, undone>>

TestSend(c) ==
    /\ channel[c].row = "enabled"
    /\ Len(outbox) < MaxEvents
    /\ outbox' = Append(outbox, NewEvent(c))
    /\ UNCHANGED <<channel, job, crashes, calls, undone>>

(* The user's commit, as the batches that are out may get to see it.        *)
WriteChannel(c, row) ==
    /\ channel' = [channel EXCEPT ![c] = row]
    /\ job' = IF row.row = "enabled"
              THEN [w \in Worker |-> [job[w] EXCEPT !.live = job[w].live \cup {c}]]
              ELSE job
    /\ UNCHANGED <<outbox, crashes, calls, undone>>

Toggle(c) ==
    \/ /\ channel[c].row = "enabled"
       /\ WriteChannel(c, [channel[c] EXCEPT !.row = "disabled"])
    \/ /\ channel[c].row = "disabled"
       /\ WriteChannel(c, [channel[c] EXCEPT !.row = "enabled"])

(* A new subscription or a new address for the channel, enabled or not.     *)
Reconfigure(c) ==
    /\ channel[c].row # "deleted"
    /\ channel[c].config < MaxConfig
    /\ \E row \in {"enabled", "disabled"} :
         WriteChannel(c, [row |-> row, config |-> channel[c].config + 1])

Delete(c) ==
    /\ channel[c].row # "deleted"
    /\ WriteChannel(c, [channel[c] EXCEPT !.row = "deleted"])

-----------------------------------------------------------------------------
(* deliver_pending_notifications                                            *)

Elsewhere(w) == UNION {Locked(v) : v \in Worker \ {w}}

(* Mutant of Available: events that are settled are selected again.         *)
AvailableSettled(w) == {e \in Ids \ Elsewhere(w) : ~outbox[e].later}

(* FOR UPDATE SKIP LOCKED, oldest first.                                    *)
Available(w) ==
    {e \in Ids \ Elsewhere(w) : outbox[e].status = "PENDING" /\ ~outbox[e].later}

ReadBatch(w) ==
    LET available == Available(w)
        batch == {e \in available :
                    Cardinality({f \in available : f < e}) < DELIVERY_BATCH_SIZE}
    IN
    /\ Locked(w) = {}
    /\ batch # {}
    /\ job' = [job EXCEPT ![w] = [rows |-> [e \in batch |-> outbox[e]],
                                  todo |-> batch, held |-> {}, off |-> {},
                                  live |-> EnabledChannels]]
    /\ UNCHANGED <<channel, outbox, crashes, calls, undone>>

IsNext(w, e) == e \in job[w].todo /\ \A f \in job[w].todo : e <= f

(* Mutant of Get: the channel's enabled flag is not looked at.              *)
GetIgnoringFlag(w, c) == [row |-> "enabled", config |-> channel[c].config]

(* session.get: the object the session still has, as it was read, and what  *)
(* the session has changed; otherwise the row.                              *)
Get(w, c) ==
    IF \E config \in 0..MaxConfig : <<c, config>> \in job[w].off
    THEN [row |-> "disabled", config |-> 0]
    ELSE IF \E h \in job[w].held : h.channel = c
    THEN (CHOOSE h \in job[w].held : h.channel = c).is
    ELSE channel[c]

Handled(w, e, row, off) ==
    LET c == outbox[e].channel
        tx == job[w]
    IN job' = [job EXCEPT ![w] =
                 [rows |-> [tx.rows EXCEPT ![e] = row],
                  todo |-> tx.todo \ {e},
                  held |-> {[channel |-> c, is |-> Get(w, c)]},
                  off |-> tx.off \cup off,
                  live |-> tx.live]]

(* Mutant of Skip: the event is passed over and stays as it is.             *)
SkipUnsettled(w, e) ==
    /\ IsNext(w, e)
    /\ Get(w, outbox[e].channel).row # "enabled"
    /\ Handled(w, e, job[w].rows[e], {})
    /\ UNCHANGED <<channel, outbox, crashes, calls, undone>>

(* channel_missing_or_disabled                                              *)
Skip(w, e) ==
    /\ IsNext(w, e)
    /\ Get(w, outbox[e].channel).row # "enabled"
    /\ Handled(w, e, [job[w].rows[e] EXCEPT !.status = "FAILED"], {})
    /\ UNCHANGED <<channel, outbox, crashes, calls, undone>>

(* Mutant of Answered: one attempt too many.                                *)
AnsweredLate(row, answer) ==
    LET n == row.attempts + 1
    IN IF answer = "accepted" THEN [row EXCEPT !.attempts = n, !.status = "SENT"]
       ELSE IF answer = "gone" \/ n > MAX_DELIVERY_ATTEMPTS
       THEN [row EXCEPT !.attempts = n, !.status = "FAILED"]
       ELSE [row EXCEPT !.attempts = n, !.later = TRUE]

(* What the answer of the endpoint makes of the row. A call that times out  *)
(* has failed, whether the endpoint has the notification or not.            *)
Answered(row, answer) ==
    LET n == row.attempts + 1
    IN IF answer = "accepted" THEN [row EXCEPT !.attempts = n, !.status = "SENT"]
       ELSE IF answer = "gone" \/ n >= MAX_DELIVERY_ATTEMPTS
       THEN [row EXCEPT !.attempts = n, !.status = "FAILED"]
       ELSE [row EXCEPT !.attempts = n, !.later = TRUE]

Deliver(w, e, answer) ==
    LET c == outbox[e].channel
    IN /\ IsNext(w, e)
       /\ Get(w, c).row = "enabled"
       /\ Handled(w, e, Answered(job[w].rows[e], answer),
                  IF answer = "gone" THEN {<<c, Get(w, c).config>>} ELSE {})
       /\ calls' = [calls EXCEPT ![e] = @ + 1]
    /\ UNCHANGED <<channel, outbox, crashes, undone>>

Handle(w) ==
    \E e \in Ids : \/ Skip(w, e)
                   \/ \E answer \in {"accepted", "failed", "gone"} :
                        Deliver(w, e, answer)

Disabled(w) == {off[1] : off \in job[w].off}

(* Everything the session has changed, rows and channels.                   *)
Commit(w) ==
    /\ Locked(w) # {}
    /\ job[w].todo = {}
    /\ \A c \in Disabled(w) : channel[c].row # "deleted"
    /\ outbox' = [e \in Ids |-> IF e \in Locked(w) THEN job[w].rows[e]
                                ELSE outbox[e]]
    /\ channel' = [c \in Channel |-> IF c \in Disabled(w)
                                     THEN [channel[c] EXCEPT !.row = "disabled"]
                                     ELSE channel[c]]
    /\ job' = [job EXCEPT ![w] = Idle]
    /\ UNCHANGED <<crashes, calls, undone>>

(* The locks are released and the calls that were made are forgotten.       *)
Rollback(w) ==
    /\ job' = [job EXCEPT ![w] = Idle]
    /\ undone' = [e \in 1..MaxEvents |->
         IF e \in Locked(w)
         THEN undone[e] + job[w].rows[e].attempts - outbox[e].attempts
         ELSE undone[e]]
    /\ UNCHANGED <<channel, outbox, calls>>

(* The channel to be disabled was deleted: the UPDATE matches no row, and   *)
(* the whole batch fails with it.                                           *)
CommitFails(w) ==
    /\ job[w].todo = {}
    /\ \E c \in Disabled(w) : channel[c].row = "deleted"
    /\ Rollback(w)
    /\ UNCHANGED crashes

(* The process ends, or a call raises something else than a delivery error. *)
Crash(w) ==
    /\ crashes < MaxCrashes
    /\ Locked(w) # {}
    /\ Rollback(w)
    /\ crashes' = crashes + 1

(* available_at is reached.                                                 *)
BecomeAvailable(e) ==
    /\ outbox[e].later
    /\ outbox' = [outbox EXCEPT ![e] = [@ EXCEPT !.later = FALSE]]
    /\ UNCHANGED <<channel, job, crashes, calls, undone>>

-----------------------------------------------------------------------------
ChannelStep ==
    \E c \in Channel : TestSend(c) \/ Toggle(c) \/ Reconfigure(c) \/ Delete(c)

WorkerStep ==
    \E w \in Worker :
      ReadBatch(w) \/ Handle(w) \/ Commit(w) \/ CommitFails(w) \/ Crash(w)

Next ==
    \/ Notify \/ ChannelStep \/ WorkerStep
    \/ \E e \in Ids : BecomeAvailable(e)

Spec == Init /\ [][Next]_vars

(* The task is started every five seconds, a call ends (a webhook has a time*)
(* limit; that a push service answers is assumed), and available_at comes.  *)
(* Crashes are bounded, not fair.                                           *)
FairSpec ==
    /\ Spec
    /\ \A w \in Worker :
         WF_vars(ReadBatch(w) \/ Handle(w) \/ Commit(w) \/ CommitFails(w))
    /\ \A e \in 1..MaxEvents : WF_vars(e \in Ids /\ BecomeAvailable(e))

-----------------------------------------------------------------------------
(* Properties.                                                              *)

(* No notification is in the hands of two workers, though a batch keeps its *)
(* rows through up to fifty slow calls while the task is started every five *)
(* seconds (FOR UPDATE SKIP LOCKED in _pending_notification_events).        *)
OneSender == \A v, w \in Worker : v # w => Locked(v) \cap Locked(w) = {}

(* MAX_DELIVERY_ATTEMPTS bounds the calls for a notification, but for the   *)
(* calls a rollback has forgotten: duplicates have no other source, neither *)
(* two workers nor a retry after the last attempt.                          *)
CallsBounded ==
    \A e \in Ids : calls[e] <= MAX_DELIVERY_ATTEMPTS + undone[e]

(* A notification that was recorded as sent or as failed stays so and is    *)
(* never delivered again, whatever batches were out when it was recorded.   *)
SettledStaysSettled ==
    [][\A e \in Ids : outbox[e].status # "PENDING" =>
          outbox'[e] = outbox[e] /\ calls'[e] = calls[e]]_vars

(* Nothing is delivered to a channel that was disabled or deleted before    *)
(* the batch was read and has not been enabled since: what a batch may go   *)
(* on delivering with its own copy of the channel ends with the batch.      *)
DisabledIsQuiet ==
    [][\A w \in Worker, e \in Ids :
          calls'[e] > calls[e] /\ e \in job[w].todo /\ job'[w] # job[w] =>
            outbox[e].channel \in job[w].live]_vars

(* Every notification ends as sent or failed: none is left behind by locks, *)
(* by a full batch in front of it, by retries or by batches that failed.    *)
EveryEventEnds ==
    \A e \in 1..MaxEvents :
      e \in Ids ~> (e \in Ids /\ outbox[e].status # "PENDING")
=============================================================================
