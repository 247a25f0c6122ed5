# Railwait: a verification project

Railwait watches Korean train services for seats. A user describes a watch (a
route, a window and an ordered list of candidate trains); workers observe the
candidates on the provider's site, and under the policy
`RESERVE_ONCE_BEFORE_PAYMENT` they reserve the first one that becomes available
and leave the payment to the user. The dangerous operation is the reservation
command: it has an effect on a site the service does not control, its answer may
be lost, and sending it twice may reserve two trains. Most of the service exists
to decide when one more command may be sent, and to know afterwards what became
of it. This project models that in TLA+, from the rows in the database through
the calls between processes down to the browser that presses the button and the
list the user looks at; checks it with TLC; and proves its safety properties with TLAPS.

All source paths below are relative to
`src/apps/api/src/rail_waitlist/` unless they start with `src/` or `docs/`.

## 1. Inventory

| component | state | operations | modelled in |
|---|---|---|---|
| execution lease (`provider_execution/`) | one row per provider and account: owner token, fencing token, expiry | acquire, renew, is_current, lock_current, release | `ExecutionLease`, `EpochFence` |
| observation groups (`observations/group_*`) | watches and candidates, seat records, a group in worker memory | prepare, observe, persist, name a winner, defer | the watch's side in `ReservationFence`, the lease's side in `ExecutionLease` |
| reservation claim, call, result (`reservations/execution_application.py`, `attempt_claim_*`, `attempt_result_*`) | attempts, watch, candidate, account | claim before the call, result after it, late result, deferral | `ReservationFence` |
| stale claim recovery (`reservations/stale_attempt_recovery_application.py`) | attempts | PENDING to UNKNOWN after five minutes | `ReservationFence` |
| reconciliation (`reservations/reconciliation_*`) | attempts, their readings and deadlines | select, read the official list, apply the evidence, close a hold | `ReservationFence` |
| manual rearm (`reservations/manual_rearm_*`) | candidate markers | authorize one more attempt | `ReservationFence` |
| progress stages (`reservations/progress_*`, `korail_sidecar/client.py`) | stages of an attempt, a stream of frames | record a stage, compare the answer with the stages | `BookingCall` |
| confirmation reading (`korail_sidecar/pydoll/confirmation_reader.py`, `reservations/provider_confirmation/`) | pages of the official site | read the tickets and the holds, decide what became of a seat | `ConfirmationReading` |
| watch lifecycle (`watch_management/`) | watch status and version | create, update, start, pause, cancel, expire, delete | `WatchCommands`; start, pause, cancel and expire also in `ReservationFence` |
| idempotency (`idempotency/`) | command records | claim a key, replay, conflict | `WatchCommands` |
| provider accounts (`provider_account_management/`) | credentials, version, authentication status, halt, the session manager's registry | verify, save, delete, recover the session, resume watches | `ProviderSessions`; versions, status and resume in `ReservationFence` |
| provider circuit (`provider_circuit/`) | open / half-open / closed / manual hold | gate calls | its effect on a watch, in `ReservationFence` |
| outbox and notifications (`outbox.py`, `notification_management/`) | outbox events, channels, a batch in worker memory | add in the transaction, deliver in batches, retry, change channels | `NotificationOutbox` |
| due selection (`observations/due_*`) | none of its own | which watch or attempt next | the statuses selected and the predicate, in `ReservationFence`; "later" is any later step |
| KORAIL seat queries (`provider_adapters/korail_browser_query_runtime.py`, `korail_browser_seat_source.py`) | queries shared in one process, holds in Redis, backoffs, a cache | ask, share, hold, back off | `SeatQueries` |
| KORAIL browser sidecar (`korail_sidecar/`) | searches in flight, the cooldown, two browsers with their tabs and logins | search, log in, book, read, close | `SearchCoordinator`, `ProviderCooldown`, `SearchActor`, `ResultPages`, `BrowserTabs`, `SessionActor`, `LoginSubmission`, `ReservationDriver` |
| SRT sidecar and its client (`srt_sidecar/`, `provider_adapters/srt_seat_source.py`) | announced reads, provider calls, one logged-in session | read, drain, reserve, confirm, verify | `SrtReads`, `SrtSession` |
| web client (`src/apps/web/`) | the list of watches, notices, keys of commands | reload, command, notify, close | `LiveWatches`, `WatchNotices`, `WatchCommands` |
| Celery schedule (`worker.py`, `celery_app.py`) | none | due watches 1 s, outbox 5 s, stale claims 30 s, expiry 30 s | as the ground of fairness |
| timetable catalog (`timetable_management/`), admin session, preferences, browser companion, migrations, infrastructure | | | no |

`PROJECT.json` has the same list with a reason per part.

**How they interact.** What must survive is in PostgreSQL rows. A Celery worker
picks a due watch, takes the provider's execution lease, prepares the group in
one transaction, calls the provider outside any transaction, and persists the
results in another, which may name a winner. `execute_reservation` then claims
the winner in a transaction (attempt PENDING, watch RESERVING), commits, calls
the provider, and writes the result in a third. A maintenance task turns a claim
without a result into UNKNOWN. Reconciliation reads the official reservation list
for attempts that are UNKNOWN or hold a seat, under the same lease, and applies
what it saw in a transaction that asks everything again under row locks. The
user and the account change the same rows at any time between these
transactions.

The call to the provider goes to a sidecar: over HTTP to the SRT sidecar, where
threads take turns at one session; over a stream of frames to the KORAIL
sidecar, where coroutines take turns at two browsers. The sidecars share with
the workers a cooldown in Redis, and nothing else. Between the database and the
user there are the outbox, the event stream and the web client's own lists,
which overtake each other.

**What is hard.**

* *Ambiguity*: the answer of a command can be lost in a crash, a broken stream, a
  cancelled wait or a page that never settles. Each layer has to say "unknown" and
  not "nothing happened" from the moment on at which the button may have been pressed.
* *Stale facts*: a winner is named by one transaction and claimed by another; a
  reading is taken under one state of the rows and applied under another; a page is
  read before a login and pressed after it; a body is read for the search before.
* *Fencing*: leases run out while their owner works; credentials change while calls
  of the old ones are out.
* *Work nobody can stop*: provider threads and browser tasks go on when the caller
  has given up.
* *Sharing*: several callers wait for one search, and leave it one by one.
* *Holds*: a refusal is found on a page and stored by a Redis command that may fail,
  while others wait at the gate; and it has to survive restarts.
* *Order*: events, lists, answers and notices overtake each other.
* *Progress*: claims, readings, notifications, bookings, callers and lists must end.

The hazards are listed one by one, with source lines and the properties that
cover them, in `PROJECT.json`.

## 2. Modules

| module | what it is |
|---|---|
| `EpochFence` | abstract: epochs go up by one, and writes are made for the epoch in force |
| `ExecutionLease` | the lease row, its clock, and workers with slow calls, stale clocks and crashes |
| `ReservationRecords` | the durable rows and the predicates a claim is decided with: episodes, fences |
| `WatchObservations` | the state of a watch, its transitions, and the transactions of an observation group |
| `ReservationCalls` | claim, provider call, result, late result, deferral, stale recovery |
| `ReservationReadings` | which attempt the official list is read for and when, the reading, and what its evidence does |
| `ReservationFence` | the user, the account and the clock, and all of it as one specification of a watch |
| `CommandLedger` | abstract: a command is sent only when no other one may own a reservation, and no answer is taken back |
| `FenceHistory` | `ReservationFence` with a history variable, the claims the watch stopped waiting for, and its attempts as a ledger |
| `WatchCommands` | the user's commands with their keys, copies and row locks |
| `NotificationOutbox` | outbox events, notification channels and the batches of the delivery task |
| `BookingCall` | one booking across worker and sidecar: the stream, the stages, the row |
| `ConfirmationPages` | the account at the provider, and the page of the unpaid list with its response |
| `ConfirmationReading` | what a reading of the official pages says of a seat while the user pays |
| `SeatQueries` | the KORAIL queries of one API process: shared, one at a time, held |
| `SrtReads` | SRT reads across worker and sidecar: announce, send, poll, drain |
| `SrtSession` | the SRT executor: one session, jobs in threads, logins, one repetition |
| `LoginSessions` | the stored account, the API's memory of its logins, the sidecar's session, users and bookings |
| `ProviderSessions` | the session manager beside verification, bookings and restarts |
| `ProviderCooldown` | the Redis hold and the copy in memory; operators for the modules that call them |
| `SearchCoordinator` | searches shared by callers in the KORAIL sidecar |
| `SearchActor` | one lookup: replay by a captured client, or the page of a browser |
| `ResultPages` | the trains of a window, from lists that come in parts |
| `BrowserTabs` | a Chromium, its tabs and listeners, and the observer of response bodies |
| `SessionActor` | the logged-in browser and the calls that use it |
| `SubmissionObserver` | the requests of one submitted login form, as CDP events tell of them |
| `LoginSubmission` | the driver of that login and the verdict on it |
| `ReservationDriver` | the loop that presses the booking button |
| `LiveWatches` | the list of watches in one tab of the web client |
| `NoticeCenter` | the notification center: what is shown, closed and remembered |
| `WatchNotices` | the notices of one watch in one tab |
| `ExecutionLease_proofs`, `NotificationOutbox_proofs` | the proofs about these two |
| `ReservationFence_proofs` | the proofs about the rows and their transactions, with `FenceHistory` |
| `BookingCall_proofs` | the proofs about `BookingCall` and `ConfirmationReading` |
| `SrtSession_proofs` | the proofs about `SrtSession`, `SrtReads` and `ProviderSessions` |
| `ReservationDriver_proofs` | the proofs about what a page is asked for: `ReservationDriver`, `BrowserTabs`, `ResultPages`, `LoginSubmission` |
| `KorailActors_proofs` | the proofs about `SessionActor`, `SearchActor`, `SeatQueries`, `ProviderCooldown`, `SearchCoordinator` |
| `WatchCommands_proofs` | the proofs about `WatchCommands`, `LiveWatches` and `WatchNotices` |
| `MCFenceHistory`, `MCReservationFence`, `MCExecutionLease`, `MCWatchCommands`, `MCParts`, `MCService`, `MCProgress` | the instances TLC checks |

`SearchCoordinator` extends `ProviderCooldown`: its tasks make the calls of the
cooldown, one step each. The watch is a chain of extensions, from the rows in
`ReservationRecords` to the specification in `ReservationFence`, because its
transactions share the rows; in the same way `ConfirmationReading`,
`ProviderSessions`, `LoginSubmission` and `WatchNotices` each extend a module with
what goes on around them. Everywhere else the modules meet in a value: what a
`BookingCall` writes is an answer of `ReservationFence`, what
`ConfirmationReading` decides is one of its `Reads`, what `ReservationDriver`
returns is what `BookingCall`'s task returns, and `LoginSubmission` is one login
of `SessionActor`.

An operator with the comment *Mutant of ...* is a slip the code could have had.
Nothing uses it; each property was validated by putting one of them in the place
of the definition it follows and letting TLC find the violation.

### 2.1 ExecutionLease

`lease` is the row; its fencing token is `lease.fence`. `lock` is the row lock a
transaction that ran `lock_execution_lease_current` holds until it ends. A
worker's `pc` says where in its task it is; `grant` is the token of the
`ExecutionLeaseGrant` it got and `startedAt` the clock value it passes to
`acquire`, which the code reads well before the statement runs. `Acquire` is
the upsert with its conflict clause, `Busy` its empty result, `LockLease` and
`CommitWrite` the two ends of a fenced transaction, between which time passes
and others act. `Release` frees the row only for its current owner. `Renew` is
implemented and called by nobody yet; it is modelled where its owner could.
`saved` and `reserved` are history: under which token the last fenced write and
the last reservation write were made. `WriteReservation` has no lease check
because `execute_reservation` has none.

### 2.2 The watch: ReservationRecords to ReservationFence

One watch of an external provider, with its candidates numbered by priority. The rows
are declared in `ReservationRecords` and what workers hold in memory in
`WatchObservations`; each module of the chain adds the transactions of one part of the
code, and `ReservationFence` joins them in `Next`.

| variable | code |
|---|---|
| `watch.status`, `.why` | `Watch.status`; why it is AUTH_REQUIRED, from the transition's reason, as far as a login looks at it |
| `watch.hold` | whose deadline `Watch.payment_deadline` is a copy of |
| `cand[c]` | `WatchCandidate.state`, the suppressor, and the two manual re-arm markers |
| `attempts` | `ReservationAttempt` rows in the order of their creation; `io` says that the call of this attempt is still running somewhere |
| `posted` | the order in which `post_deadline_reconciled_at` was set, with the number of attempts there were then |
| `edges` | which candidate was seen conclusively unavailable after which attempt (the timestamps of the seat records) |
| `account` | credential version, `last_auth_status`, and the rejected attempts `last_auth_at` came after |
| `departed` | trains whose departure has passed |
| `observing`, `winners`, `reading` | worker memory between transactions: the group under the lease, the episode keys handed to `execute_reservation`, the reading under the lease |

Every action is one transaction with everything it does:

| action | code |
|---|---|
| `Prepare`, `PrepareBlocked`, `Persist`, `AbandonObservation` | `observations/group_application.py` `prepare_watch`, `persist_observation_cycle`, the lease checks |
| `CircuitNotClosed` | `provider_circuit_is_closed`, `apply_current_circuit_to_watch` |
| `Claim`, `DropWinner`, `ReserveDeparted`, `ReserveSignedOut` | `execute_reservation` up to the commit before the call, `begin_reservation_attempt` |
| `FinishReservation`, `FenceLateResult`, `LoseResult` | the transaction after the call |
| `DeferReservation` | `release_unadmitted_claim` |
| `RecoverStale` | `recover_stale_reservation_attempts` |
| `StartRead`, `DropRead`, `ReadSignedOut`, `ReadPaid`, `ReadHoldEnded`, `ReadHold`, `ReadMore`, `DeferRead` | `reconcile_reservation_attempt`, `apply_reservation_reconciliation`, by kind of evidence |
| `Rearm` | `authorize_manual_reservation_rearm` |
| `VerifyLogin`, `ReplaceCredentials`, `SignOut` | provider account management, `resume_watches_after_verified_provider_login`, the session manager |
| `UserStep`, `Expire`, `Depart`, `DeadlinePasses` | start, pause, cancel; `expire_elapsed_watches`; the clock |

The inputs (`Seats`, `Answers`, `Reads`, `Env`) are constants, so that a run can
name the surroundings its question needs.

**Abstractions.** Instants are replaced by the order the code derives from
them: a deadline is open or past, an observation or a login came after an
attempt or not. What is due "after some interval" may happen at any later step,
so the model has at least the interleavings of the code; what it does not have
is a bound like "five minutes are less than the deadline", and nothing relies on
one. `open` stands for the candidate states active, observed and seat_found;
AUTH_REQUIRED for PROVIDER_BLOCKED too. The two providers are merged: an UNKNOWN
attempt can be recognised in the official list only with its seats (`seats`),
which covers both of their rules. Whether the circuit is closed and whether a
train has left are inputs. There is one slot for the lease (`observing` or
`reading`): a task whose lease was taken over is taken to have stopped, which
`ExecutionLease` shows for everything but the reservation command, and the model
therefore lets winners and calls outlive the group. An evidence record and the
transaction that stores it are one step as far as its timestamp goes. A group
that fails to observe a candidate has no result for it.

**Left out of these components**: holds without a deadline and rows written by
older releases (the compatibility paths), the MOCK provider, and the deferral of
an attempt that is not the newest of its watch.

**`CommandLedger`** says what all of this is for, in two variables: the commands that
were sent, with what is known of the answer of each and which one it recovers from, and
the commands the watch stopped waiting for. It has no candidates, budgets, observations
or logins. `FenceHistory` reads the attempts as such a ledger (`Commands`) and states
that they are one (`KeepsLedger`).

### 2.3 WatchCommands

Creation, start, pause, cancellation, observation mode and deletion, each a
transaction under READ COMMITTED: a row lock is held until the end, and work
under one lock alone is one action. `remembered` is the table of
`IdempotencyRecord`s, `effects` counts how often a scope and key took effect.
A request is sent again at any time with the key of an earlier one, also while
that one is still served. `CreateLooks`, `CreateCommits` and `CreateAnswered` are
the transaction of a creation with the unique constraint that settles two copies;
`CapacitySelects` and `CapacityLocks` are the count of the focused watches, whose
snapshot and whose locks are two moments. Workers move watches between these
steps. The web client's keys are modelled as it makes them: a registration has
the key of its evidence, a start or a pause a random one for each press.

### 2.4 NotificationOutbox

A transition of a watch writes one event per enabled channel into the outbox, in
its own transaction; a task that starts every five seconds delivers them. One
batch is one transaction: it locks up to `DELIVERY_BATCH_SIZE` events and skips
those other batches have locked, calls the endpoints one after the other, and
commits every result at the end.

| variable | code |
|---|---|
| `channel[c]` | the row in `notification_channels`: enabled, disabled or deleted, and how often its configuration was replaced |
| `outbox` | the events of the two deliverable types in the order of `created_at`; `later` says that `available_at` is not reached |
| `job[w]` | the session of a worker: the working copies of the locked rows (`rows`), those still to do (`todo`), the channel object it holds (`held`), the channels it will disable (`off`); `live` is history, for `DisabledIsQuiet` |
| `calls`, `undone` | history: deliveries tried per event, and those whose batch was rolled back |

| action | code |
|---|---|
| `Notify`, `TestSend` | `add_watch_notifications` in the watch's transaction, `queue_test_notification` |
| `Toggle`, `Reconfigure`, `Delete` | `update_notification_channel`, `create_notification_channel` for a subscription that has a row, `channels_delete` |
| `ReadBatch` | `_pending_notification_events` |
| `Skip`, `Deliver` | one pass of the loop in `deliver_pending_notifications`, by the answer of the endpoint |
| `Commit`, `CommitFails` | `session.commit()`; it fails when a channel the session disables was deleted, because the UPDATE matches no row |
| `Crash` | the end of the process, or an exception that is no `NotificationDeliveryError` |
| `BecomeAvailable` | the clock |

**Abstractions.** The endpoint's answer is accepted, failed or gone: every error
the code calls permanent also disables the channel, and every other one,
a time-out among them, is retried. The session keeps a channel object only
while something refers to it, so `Get` finds the one of the event before or one
the session has changed, and reads the row otherwise. The change of a channel
reaches the database at the commit; a flush may bring it forward, which only
removes interleavings. A channel that is created later is one that was switched
off from the start. Deduplication is left out: the keys of a transition and of
a test contain what makes them unique, so that a new event is always inserted.
Also left out: device keys and their backfill, validation, two requests that
register one subscription at once, and events of other types, which the event
stream reads and nobody delivers.

### 2.5 One booking: BookingCall, ReservationDriver, ConfirmationReading

**`BookingCall`** has the two processes of a KORAIL booking. `sidecarTask` is the
task of the sidecar: it goes through the stages 1 to 4 (session ready, target
rechecked, seat selected, reservation requested), presses the button between the
third and the fourth, and ends with a result. `stream` holds the frames on their
way, `booking` is the worker with the stages it got, `row` the attempt, `owner`
what the rows around it say. The sidecar works on when nobody reads; frames are
lost when the stream breaks or the worker dies; each stage is recorded in a
transaction of its own, which may fail and does not stop the call. `Agrees` is
the comparison of the stages with those in the result, `Projected`
`project_reservation_result`, `StillPending` the fence of every write. Recovery,
new credentials and the end of the watch happen at any time.

**`ReservationDriver`** is the loop of
`korail_sidecar/pydoll/reservation_driver.py`: find the train, press the seat,
look at the page until it says how the request ended, press the booking button
when it shows, answer the dialogs the operator allowed, log in once in place.
A deadline is the number of ticks left; `settle` and `follow` are the deadlines
a dialog moves. Everything the page may show is a choice at each look. `presses`
and `chosen` are history.

**`ConfirmationReading`** reads an account while its user pays, cancels, returns
a ticket or books a twin on the same journey. `looks` is the KORAIL reading with
its three looks (the page of the booking, the issued tickets, the unpaid holds),
`listPage` and `listObserver` are the unpaid list, whose page and whose response are
watched together, `verdict` is the outcome and `absences` counts NOT_FOUND
outcomes in a row, which is what the follow-up acts on. SRT is one list
(`ReadSrt`). The comparison of a record with the target is one test per item;
the shapes of records that cannot be read are one kind of failure. A hold that
was never made is taken not to appear later.

### 2.6 The account: ProviderSessions, SrtSession

**`ProviderSessions`** is the session manager of the API for a KORAIL account.
`railAccount` is the row, a revision (`rev`) one value of `updated_at`; `official`
the login session of the sidecar; `prewarm` the `ProviderRuntimePrewarmRegistry`
with its clock, count and fences; `manager` the run of
`recover_provider_sessions_once` between two awaits. The user verifies and saves
credentials, bookings log in and report what they found, the API and the sidecar
restart. `owed` is history: the logins that were answered by the provider's
protection and whose wait has not passed. Any ready session empties it, an idle one
that was logged in before the protection as well: the code then clears the wait.

**`SrtSession`** is `SrtReservationExecutor`: jobs (reserve, confirm, verify,
prewarm) enter a lock one after the other in threads that go on when their
caller has left. `srtActor` is the session with its credential; `LoginSucceeds`,
`SearchLosesLogin` and `BookingLosesSession` are where SRT may say that the
session is gone; `said` is what each caller was left with.

### 2.7 Seats: SeatQueries, SrtReads, SearchCoordinator, ProviderCooldown, SearchActor, ResultPages, BrowserTabs

**`SeatQueries`** is one API process: `askers` share `queries` per search
(`current`), the queries go to the sidecar one at a time, and before each the
holds are asked for again (`GateIsOpen`). A task that never ran leaves its entry
behind, a cancelled query is asked for anew. The sidecar is what this process sees
of it: it asks its hold in Redis (`holds`), makes up for a write that was not
confirmed (`unwritten`) and looks into its own memory (`recalled`) before it goes
to the provider (`SidecarAdmits`); a refusal is written and remembered before it is
answered (`SidecarHolds`), and answered also when the write failed
(`provider_cooldown.py:339-346`) or out of memory alone, with nothing written
(`SidecarRemembers`). `told` is history: that the sidecar told this process of a
refusal, and which of the holds it was told of Redis has or is sent. `copies` are
the holds in the memory of this process, asked only when Redis does not answer.

**`SrtReads`** is the read protocol: the client announces a read
(`register`), sends it, and polls until the sidecar says it is over; the registry
knows announced, running and ended reads of this instance of the sidecar; the
source shares provider calls among reads and makes them one at a time in threads
that no timeout stops. `Drained` is the end of `drain_pending_calls`, `FencedOff` its limit.
One replica of the sidecar is assumed, as deployed.

**`SearchCoordinator`** is `KorailBrowserAutomation.search` with its tasks. A step
runs from one suspension of a coroutine to the next; the state lock is never held
across one, so a section under it is part of the step around it. `inflight` is
the task callers may join, `waiters` its callers; the last one to leave cancels
it. Holds in memory and in Redis, the backoff of a search and the cache stand
between a caller and a task. **`ProviderCooldown`** has the calls of
`RedisProviderCooldown` as operators: a command may fail and may have been
applied all the same, the copy in memory fills in and is made up for later.

**`SearchActor`** is one lookup under the lock of the search actor: a captured
HTTP client is tried first, then the page of a browser, whose request becomes the
next client. Clients and browsers have a limited number of uses; a page that
fails is replaced once, before its lookup. **`ResultPages`** collects the trains
of a window from pages with a cursor of minutes, or by pressing "more".
**`BrowserTabs`** has one Chromium, its tabs with their listeners, every step of
start, replace and close with its failures and cancellations, and the observer
that reads the bodies of a search's responses, which may arrive when the next
search is observed.

### 2.8 Logins: SessionActor, LoginSubmission

**`SessionActor`** is the browser that is logged in: `active` is bound to one
version of the credential and logged in for one, `signed` is what the provider
thinks of its cookies, `op` the call that has the lock. A step ends where the code awaits the
browser; between two steps the provider may end the login, another actor may open the hold, and
the reuse time may run out. **`LoginSubmission`** is one login form: the requests
of the page arrive as events in any order, some held up by the resolution of
their call stack; the driver decides from them, from the header of the page and
from one official probe.

### 2.9 The web client: LiveWatches, WatchNotices

**`LiveWatches`** is the list of one tab: `watchRows` are the revisions in the
database, `lists` the GETs on their way, each with whether a command has begun or
ended since it was started (`crossed`, the guard epoch), `urgency`, `burst` and
`poll` the reload coordinator. Reasons to reload come at any time.
**`WatchNotices`** is what the tab shows of one watch: notices made from events
and from the difference of two lists, ordered by the time they are about, closed
by the user and remembered over a reload of the page. Changes happen at even
moments and their events are dated one before or after. The limit of 240 notices
and failures of the browser's storage are left out.

## 3. What the runs check

TLC runs are kept few, so that parts that share no state are checked side by
side: in `MCParts`, `MCService` and `MCProgress` the variable `part` is chosen at
the start, one part runs and the others keep an initial state. This loses
nothing, since there is no step in which two parts could take part. Every other
configuration is one question about one module. The bounds are constants, listed
under *bound* where they are declared.

| configuration | checks | what it shows |
|---|---|---|
| `MCFenceHistory` | `KeepsLedger`, `OneCommandMayOwn`, `ShownHoldIsLive`, `CandidatesFollowHolds`, `OneRecoveryPerUnknown`, `PaidIsFinal` | the attempts implement the ledger of commands: one is sent only when no other is unanswered or unresolved, but for the exceptions below, and no answer is taken back; so at most one command may own a reservation nobody has seen; a watch asks for payment of a hold that is not ended, and no candidate waits for a hold nobody has; an UNKNOWN attempt is recovered from once; proof of payment survives late results and later readings |
| `MCFenceReadings` | `ReadFitsBudget`, `PendingEnds`, `ReadingsEnd` | a reading that is due never exceeds the budget, so that the `RuntimeError` of the code is unreachable; no claim is PENDING for ever and no attempt due for ever |
| `MCParts`, fence | `OldCredentialsSettleNothing` | results and readings of replaced credentials settle nothing |
| `MCParts`, commands | `KeysActOnce` | one registration, one transition per key, however copies overlap |
| `MCParts`, driver | `PressIsTold`, `PressKeepsSeat` | one press at most, never reported as nothing done, and after a login only of the seat that was chosen |
| `MCParts`, session | `ClickFollowsEvidence` | a booking clicks only in a browser whose login was proven to this booking, for its credential |
| `MCParts`, login | `VerdictsAreProven` | a credential is rejected only after all its requests had ended and a later probe denied it; a login is accepted only if none was refused |
| `MCParts`, search | `SharedTasks`, `QueriesAreAdmitted` | callers and tasks know of each other, nobody's search is cancelled by another, and nothing is asked within a hold that was reported (a report cut by its deadline is an observation below) |
| `MCParts`, queries | `QueueStopsAtHold` | once told of a refusal, no waiting query leaves the process while Redis has the hold; and whether Redis took it or not, none gets past the sidecar before the refusal is over (exceptions below) |
| `MCParts`, tabs | `CloseLeavesNothing`, `EvidenceIsOfThisSearch` | no Chrome left behind by a close that returns; no verdict from the search before |
| `MCService`, lease | `FencedWrites`, `LiveLeaseKept` | a fenced write is made under the newest token, also when the lease runs out before the commit; a stale clock never takes a live lease |
| `MCService`, lookup, pages | `OneLookup`; `AnswersAreComplete` | one lookup per search; every train of the window |
| `MCService`, outbox | `CallsBounded`, `SettledStaysSettled`, `DisabledIsQuiet` | nothing settled is sent again, only a rollback makes a call uncounted, and one channel that was off all along gets nothing |
| `MCService`, call | `PressIsNeverForgotten`, `StagesAreHistory` | an attempt that may be repeated never reached the button and never will; the stages are those that happened |
| `MCService`, srt, reads | `SrtRetryIsSafe`; `DrainedIsQuiet` | whoever is told to try again was told so of a booking that is not sent; a worker that drained leaves no thread of its reads |
| `MCService`, confirmation | `ReadingsAreTrue` | paid is paid, two absences are absence, and a hold is the one asked for |
| `MCService`, sessions | `ProtectionIsWaitedOut` | the manager waits out the protection it met, also over restarts |
| `MCService`, list, notices | `ListsGoForward`; `NoticesGoForward` | no list takes back what is shown; no notice comes back |
| `MCProgress` | `EveryEventEnds`, `CallersAreAnswered`, `DriverEnds`, `ShownCatchesUp`, `PaymentIsTold` | under the fairness below: notifications are settled, callers are answered, a booking returns, the list reaches the database, and a hold to be paid is told |
| `MCLeaseReservation`, `MCFenceReread`, `MCFenceUnavailable`, `MCFenceRearm`, `MCFenceCancel`, `MCFenceCooldown`, `MCWatchFocused` | one each | violated, see findings |

**Why the bounds are enough.** Two candidates are what the watch-wide fences
need (an attempt of one against an attempt of the other, one that suppresses
another). Three attempts allow an attempt, its successor and a third claim
beside them, the shortest history in which a late result, a recovery
and a new command exist together. `MCFenceHistory` has five sets of surroundings
on the same rows, because one set of all inputs is out of reach: holds and a user
who pauses and starts; the same with rearms and lower limits; late and contradicting
evidence with two winners at a time, rearms, expiry and the circuit; proof of payment
and absence with departures; lost sessions, logins and deferred calls. `MCFenceReadings` has all surroundings at once, with
one candidate, and TLC's coverage of it counts each action of `ReservationFence`. The
reading limits are a third of the real ones (3, 3, 6, 6) there and small elsewhere, in
the same order; that the budget is kept for every such limits is proved. Two workers, callers, readers, jobs or requests
are one that leaves while the other stays, one that holds a lock while the other
waits, or a copy beside its original; two tasks, queries or lookups are one that
ends beside its successor. Two searches or routes compete for one browser; one
cached client is evicted by the second. Three versions of a credential with two
accounts tell a new password from a new account. Four trains with pages of two
are a full page, a last one and a minute shared across them. Two ticks are enough
to be before, at and after each deadline of the driver and the coordinator, in
`MCProgress` too; holds last longer than a backoff, and protection shorter than an
outage, so that each can end first. The cleanup of a search takes at most a fifth of
its caller's time (`Cleanup`), which is nothing at two ticks: a task may begin before
and in its caller's last tick, and hang, fail or report while the caller waits. Two revisions or changes are what can be overtaken; two sign-ins are an
answer for the life before. One crash or failed command each: what it loses is not
lost twice in another way. In `MCProgress` a batch of the outbox does not crash, but its
commit may fail, which undoes as much. Deadlock is not checked in these configurations because
each of the systems may really stop: every attempt used up, every event settled, every
caller answered.

**The exceptions.** `KeepsLedger` and `OneCommandMayOwn` are not absolute
in this code. A superseded or re-armed UNKNOWN attempt may turn out to be a hold
while its successor's call is running; the reading takes the watch from
RESERVING to PAYMENT_REQUIRED, the hold ends, the watch goes on WATCHING, and a
third command is sent while the second is unanswered or unresolved. And the late
result of an older call that finds the session gone takes the watch from
RESERVING to AUTH_REQUIRED, from where the user may start it again (finding 5).
`FenceHistory` records at these two steps the claims that are left PENDING
(`overtaken`, which is `abandoned` in the ledger), and both properties except a claim
when one as old or older is among them (`Excused`); the run reaches both exceptions. Once a
watch has stopped waiting for a claim, more can follow: with four attempts,
beyond the run's bound, TLC finds that the result of the overtaken claim takes the
watch away from the third, so that a fourth is sent beside it. The proofs of
section 4 say that there is no third way. Two stronger statements are
false for related reasons and are therefore not claimed: that no command is sent
while a hold is alive (a hold proven while the watch is paused is not shown, and
starting the watch lets another candidate claim), and that a RESERVING watch has
a PENDING attempt that can still complete (the late result of an older attempt
sets the candidate back; the newer result is then recorded as a late one).

**Fairness** is assumed only for the liveness properties, and stated where they are.

* A watch (`FairSpec`, `DueSpec`): weak fairness of `RecoverStale` (the task runs
  every 30 seconds and commits each row), of `AbandonObservation` and `DropRead`
  (a lease that is not used runs out). Strong fairness of `StartRead` and
  `ApplyRead`: readings are selected every second; workers may crash in the middle
  of some, but not of all. `DueSpec`, for finding 6, adds that due watches are
  looked for. Nothing is assumed of claims, provider answers or
  users. The run leaves out reads that never reach the official page and reads
  deferred by admission, which are not counted and may go on for ever, and logins,
  each of which gives one reading back.
* The outbox: weak fairness of each worker's steps other than a crash, because the
  task starts every five seconds and calls return, and of the clock. A webhook
  returns within ten seconds (`notifications.py:307`); a Web Push call is made
  without a time limit, so that its return is an assumption and not a consequence of
  the code. Crashes are finitely many (`MaxCrashes`): a notification that raises
  every time would hold up its batch for ever, and the code has no defence against it.
* The driver: weak fairness of its own steps. No page has to answer: each look
  spends time, and the deadlines end the loop.
* The coordinator: weak fairness of the clock and of a caller's own steps
  (`asyncio` runs a task that is ready). Nothing is assumed of the browser.
* The web client: weak fairness of its timers and of beginning a GET, strong
  fairness of the answers and their acceptance: not every answer is lost or
  overtaken by a command. `PaymentIsTold` is checked without commands of the
  user in the same tab; see the observations.

### Findings

Disagreements between the documents and the code met while modelling; each has
a run whose counterexample shows it, and an entry in `PROJECT.json` with the
quotations.

1. `ReservationsFenced`: reservation results are not fenced by the execution
   lease (`reservations/execution_application.py:931`; `docs/ARCHITECTURE.md:1691`
   says they are). The row locks and the state of the attempt are what protects them.
2. `EndedHoldsAreNotReread`: an ended hold with exactly `FinalMin` readings is
   read again when a later hold of the watch runs out, and ends that one
   (`reservations/reconciliation_application.py:457`; `docs/ARCHITECTURE.md:441`).
3. `UnavailableReadsCloseNothing`: a final reading that did not reach the
   official page closes the hold
   (`reservations/reconciliation_state_application.py:440`; the comment above it
   and `docs/OPERATIONS.md:1117`).
4. `RearmNeverOverLiveHold`: a rearm is granted while an older attempt is a hold
   that has not ended (`reservations/manual_rearm_application.py:83`;
   `docs/POLICY_AND_SAFETY.md:160`).
5. `CancelHidesNoRequest`: the late result of an older call takes the watch out of
   RESERVING while a newer claim is unanswered, and the user can cancel the watch
   under it (`reservations/execution_application.py:1041`;
   `docs/ARCHITECTURE.md:1367-1369`). It takes a call that outlives its execution
   lease and five minutes of recovery.
6. `CooldownReturns`: nothing selects a watch in COOLDOWN
   (`observations/due_pipeline_application.py:20`); a deferred reservation stops the
   watch until its user starts it again.
7. `FocusedLimit`: two requests at a time both find room for a focused watch
   (`watch_management/update_application.py:107`). The web client of this commit
   never asks for focused observation; the API accepts it.

### Observations

Met while modelling and looked at in the models or the code, without a run of
their own: most because no document promises otherwise.

* *Watches.* An UNKNOWN attempt that was read as an expired hold until its budget
  was spent can neither be resolved nor re-armed, and its watch sends nothing more.
  A registration key belongs to its evidence: within the minutes of one piece of evidence, registering
  again after a cancellation returns the ended watch, and its start is refused;
  after a deletion the creation fails with an IntegrityError each time. A transition
  that changes nothing does not store its key, so that a later copy does apply.
  The handler of a deletion reads the status without a lock
  (`watch_management/http.py:275-282`).
* *Outbox.* The answer "gone" to an old subscription disables the row even when
  the user has replaced the subscription meanwhile (`notification_management/delivery.py:63-64`,
  `docs/ARCHITECTURE.md:372`). Notifications of one channel are not ordered.
* *Sessions.* A clock left over from an earlier failure lets the manager log in
  right after a booking met the protection (`ProtectionIsWaitedOut` is about what the
  manager itself met). A recovery answered by the protection and not written is
  forgotten by a restart. Deleting and creating an account starts its versions again at 1.
* *Readings.* The tickets are read before the holds, so that a payment in between
  yields one NOT_FOUND for a paid seat; one absence is not believed, except by the final
  reading after a deadline (`confirmation_reader.py:315`).
* *Queries.* With several callers waiting, one failed query counts once for each of
  them in the backoff. After a refusal whose hold Redis did not take, the next
  query still leaves the process: its own gate asks Redis, and only the sidecar
  refuses it. `QueueStopsAtHold` leaves out two ways in which a hold is gone before
  its time: the deadline cuts the report of an outage, or Redis does not take it, and
  the hold of this process is only a copy that a working Redis hides; and the sidecar
  restarts while Redis does not have its hold.
  If every SRT reader left, nobody opens the cooldown for what the call found.
* *SRT.* After the limit of the drain the lease may be released while a provider
  thread still runs (`FencedOff`).
* *Pages.* The replay misses trains that depart in the last minute of a page
  (`http_replay.py:391`); `AnswersAreComplete` excepts them by name.
* *Web client.* A GET that began after a command and ended before it is accepted,
  so that the command's answer may take a watch back until the reload it asks for.
  The answer of a command already carries its result, so that the next list shows
  no step: a notice "reserving" may stay (`docs/OPERATIONS.md:1551`). The event
  stream's cursor passes over events that are committed late.

## 4. What is proved

`tlapm` checks every step of the eight modules named `*_proofs`. The theorems hold
for every value of the constants that the assumptions allow, and each module's
assumption is evaluated by TLC in a run.

* `LeaseAssumption`: "no worker" is not a worker, a lease lasts at least one tick.
* `BudgetAssumption`: there is a candidate, and the four reading limits are in
  the order of the real ones. Only `ReadingsFitBudget` uses the order.
* `BoundAssumption`: the bounds are numbers and the inputs are of the known kinds.
* `OutboxAssumption`: channels are finitely many, the attempt limit and the batch
  size are positive, the bounds are numbers.
* `SessionAssumption`: versions are numbers from 1, a browser is used at least once,
  and "no account" is not an account. Only the first is used: no credential is the
  one an open browser that is logged out counts as logged in for.
* `CooldownAssumption`: holds last at least one tick, and the holds after 1, 2 and 3
  refused logins never get shorter (300, 600, 900 s in the code). Without that order a
  hold that is extended could end earlier than the one that was owed.
* `CoordinatorAssumption`: "no task" is not a task, the intervals are numbers.
* `ReadsAssumption`: "no lookup" is not a lookup; the reads of this client and those of
  others are different.
* `TabsAssumption`, `PagesAssumption`: limits are positive numbers, there are finitely
  many trains and response bodies. That every list has a last train needs the second.
* `ConfirmationAssumption`: the seat that was reserved is none of its twins on the same
  journey, and "no item" is no item.
* `LiveAssumption`: revisions start at one and there is at least one life of the page.
* The theorems about `BookingCall`, `SrtSession`, `ProviderSessions`, `ReservationDriver`,
  `LoginSubmission`, `SearchActor`, `SeatQueries`, `WatchCommands` and `WatchNotices` use
  no assumption about a constant.

| theorem | statement | run |
|---|---|---|
| `LeaseTypeCorrect`, `OpenWriteKeepsLease` | `LeaseSpec => []LeaseTypeOK`, `[]OpenWriteOwnsLease` | |
| `WritesAreFenced` | the lease implements `EpochFence` | `MCService` |
| `LiveLeaseIsKept` | `LeaseSpec => LiveLeaseKept` | `MCService` |
| `FenceTypeCorrect` | `Spec => []TypeOK` | |
| `PaidStaysFinal` | `Spec => PaidIsFinal` | `MCFenceHistory` |
| `OldCredentialsAreFenced` | `Spec => OldCredentialsSettleNothing` | `MCParts` |
| `RecoveryIsUnique` | `Spec => []OneRecoveryPerUnknown` | `MCFenceHistory` |
| `ReadingsFitBudget` | `Spec => []ReadFitsBudget` | `MCFenceReadings` |
| `ShownHoldStaysLive` | `Spec => []ShownHoldIsLive` | `MCFenceHistory` |
| `CandidatesFollowLiveHolds` | `Spec => []CandidatesFollowHolds` | `MCFenceHistory` |
| `PendingStaysNewest`, `UnresolvedIsSingle` | `TrackedSpec => []PendingIsNewest`, `[]AtMostOneUnresolved` | |
| `ReservationsKeepLedger` | `TrackedSpec => KeepsLedger`: the watch implements `CommandLedger` | `MCFenceHistory` |
| `LedgerHasOneOwner` | `KeepsLedger => []OneCommandMayOwn`, of the ledger alone | |
| `OneCommandMayOwnAlways` | `TrackedSpec => []OneCommandMayOwn` | `MCFenceHistory` |
| `OutboxTypeCorrect`, `OneSenderHolds` | `Spec => []TypeOK`, `[]OneSender` | |
| `CallsAreBounded` | `Spec => []CallsBounded` | `MCService` |
| `SettledIsFinal` | `Spec => SettledStaysSettled` | `MCService` |
| `DisabledStaysQuiet` | `Spec => DisabledIsQuiet` | `MCService` |
| `PressIsNeverLost` | `BookingSpec => []PressIsNeverForgotten` | `MCService` |
| `StagesStayHistory` | `BookingSpec => StagesAreHistory` | `MCService` |
| `SrtRetryIsAlwaysSafe` | `SrtSpec => []SrtRetryIsSafe` | `MCService` |
| `KeysActOnceAlways` | `CommandsSpec => []KeysActOnce` | `MCParts` |
| `PressIsAlwaysTold` | `DriverSpec => []PressIsTold` | `MCParts` |
| `PressKeepsSeatAlways` | `DriverSpec => PressKeepsSeat` | `MCParts` |
| `ClicksFollowEvidence` | `SessionSpec => ClickFollowsEvidence` | `MCParts` |
| `SearchLooksUpOnce` | `ActorSpec => []OneLookup` | `MCService` |
| `QueueAlwaysStops` | `QueriesSpec => QueueStopsAtHold` | `MCParts` |
| `QueriesWaitForHolds` | `SearchSpec => QueriesAreAdmitted` | `MCParts` |
| `SearchesAreShared` | `SearchSpec => []SharedTasks` | `MCParts` |
| `DrainedStaysQuiet` | `ReadsSpec => []DrainedIsQuiet` | `MCService` |
| `ProtectionIsAlwaysWaitedOut` | `SessionsSpec => ProtectionIsWaitedOut` | `MCService` |
| `VerdictsAreAlwaysProven` | `SubmissionSpec => VerdictsAreProven` | `MCParts` |
| `ClosesLeaveNothing` | `TabsSpec => []CloseLeavesNothing` | `MCParts` |
| `EvidenceIsOwn` | `TabsSpec => []EvidenceIsOfThisSearch` | `MCParts` |
| `SearchesAreComplete` | `PagesSpec => []AnswersAreComplete` | `MCService` |
| `ReadingsStayTrue` | `ConfirmationSpec => []ReadingsAreTrue` | `MCService` |
| `ListsAlwaysGoForward` | `LiveInit /\ [][LiveNext]_liveVars => ListsGoForward` | `MCService` |
| `NoticesAlwaysGoForward` | `NoticesSpec => []NoticesGoForward` | `MCService` |

Type correctness and the two invariants of a single table are left to the proofs; no run
repeats them.

**The lease.** `OpenWriteOwnsLease` is not inductive: a worker that locked the
row keeps it only because nobody can take a locked row, and the row is locked
only by somebody who is writing. `LeaseInv` adds that (`LockHasWriter`), and that
a worker's idea of "now" is never ahead of the clock (`ClockReadEarlier`), from
which a live lease is safe against every stale clock. `FencedWrites` and
`LiveLeaseKept` are action properties that follow from `LeaseInv` step by step.

**The rows.** Type correctness is proved one action at a time. The work is in the
operators: the newest attempt of a candidate is an attempt (`LatestIsNewest`,
from the well-foundedness of the numbers, as every set of attempt ids that is not
empty has a least and a greatest member), an episode key names attempts that
exist (`EpisodeKeysAreKeys`), and an update of one row leaves rows
(`UpdateRow`, `CandidateUpdates`, `WatchUpdates`).

**The attempts.** Four theorems of `ReservationFence_proofs` speak of the attempts alone
and do not look at the thirty transactions again. One lemma, `AttemptSteps`, says that whatever a transaction does to the
attempts is one of three things: it settles them in the ways `Settles` lists, it
appends one claim (`ClaimAppends`), or it withdraws the newest (`DeferralWithdraws`).
Each theorem then goes through those cases, with the small invariant it needs:

* `PaidStaysFinal` needs `PendingUnread`, that an attempt without an answer has no
  evidence. Without it, the withdrawal of an unsent claim, and the transition of
  a stale one, could lose the proof of a payment.
* `OldCredentialsAreFenced` needs `VersionsKnown`, that no attempt was claimed
  under a credential version that does not exist yet. With it a version that is
  not the current one is an old one, and the fences on the version are enough.
* `RecoveryIsUnique` is inductive by itself: a recovery is claimed only from an
  attempt that is the newest of its candidate, and its own claim makes it an
  older one; the withdrawal takes back only the newest, with its recovery.
* `ReadingsFitBudget` needs `ReadsBounded`, the number of readings an attempt can
  have had by its kind. An UNKNOWN attempt that turns out to be a hold changes
  the kind of its budget; the order of the limits is what makes this safe.

**The holds.** That a hold is alive depends on the evidence of its attempt and on
the order in which holds were closed (`posted`). `PostedAreClosed` says what a
closed hold has: its readings are used up, and its deadline has passed if the
official list still showed it. From it follows the summary `HoldsStep`: whatever a
transaction does, a live hold stays one, unless this very step is the reading that
ends it (`LiveKept`). `CandidateStep` says how a candidate's row changes: it keeps its
state, or becomes one that follows no hold, or is written in the step that gives the
watch a new hold. `ShownHoldStaysLive` and `CandidatesFollowLiveHolds` need nothing else,
because the step that ends a hold releases everything that followed it.

**One command at a time.** `HistoryInv` speaks of the watch and the attempts
together. A claim that is unanswered and not overtaken is the newest attempt, and the
watch is in one of the four statuses from which none is claimed (`PendingAlone`);
it gets out of them only by the answer or by the two steps `FenceHistory` records
(`WaitingStep`). The claim that follows an unresolved attempt is its recovery
(`RecoveredNext`), so that two unresolved ones would have the later recover from the
earlier, which then is not unresolved. What makes an attempt unresolved again is what
has to be excluded: a confirmed absence is never read again (`AbsenceIsSettled`).

**The ledger.** `ReservationsKeepLedger` is the refinement: `Command` reads a row as an
entry of `CommandLedger` (open, unknown, absent, held, refused or paid, and the command
it recovers from), and each of the transactions is a step of the ledger or leaves it as
it is. `AttemptSteps` gives the cases. A claim is `Send`: that no other entry is open is
`HistoryInv`, that none is unknown but its source is the fence of the claim itself
(`Unfenced`), and that the source was not recovered from before is `RecoveryIsFirst`
(`ClaimSends`). A deferral is `Withdraw` of the last entry. Everything else is a row that
moves forward: the rows of results, stale recoveries, readings and logins are compared
one by one with `Later` (`AnswersGoOn`), at most one of them changes in a step, and the
watch may stop waiting for the open ones in the same step (`LedgerStep`). What may own a reservation is then a
matter of the ledger alone: `LedgerHasOneOwner` is proved from `Send`, `Answer` and
`Withdraw` and knows nothing of watches, and `OneCommandMayOwnAlways` follows from the
two. It says more than the two theorems before it together, because an unanswered
command and an unresolved one exclude each other as well.

**The outbox.** One invariant, `OutboxInv`, carries four of the theorems. It says
that a locked row is pending, due and locked by one worker, whose working copy
differs from the row only as far as the worker has handled it, and that the calls
made for an event are the attempts counted in its row, or in the working copy of
the batch that has it, plus the undone ones. `CallsBounded` alone is not
inductive: a call is counted in a copy and reaches the row only at the commit,
and a rollback moves the difference to `undone`. `SettledIsFinal` follows because
a settled row is locked by nobody and waits for no time. `DisabledStaysQuiet`
needs `LiveIsKnown`: a channel object the session holds as enabled, or one the
database has as enabled, is one of those enabled since the batch was read.

**The booking call.** `PressIsNeverForgotten` speaks of the row only, which is
written long after the press. `BookingInv` follows the press on its way: where the
task is when the button was pressed (`PressIsKnown`), that the stages of the worker
and of the row are behind those of the task (`StagesAreTold`), and that the frames
on their way are exactly the stages the worker does not have, in order, with the
task's answer last (`FramesInOrder`). An answer after the press either tells of it or
does not agree with the stages (`Honest`), which is why the comparison of the two is
what the proof hangs on. `RepeatIsSafe` is the property for each place a
repeatable outcome passes through.

**The SRT session.** The lock lets one job in (`OneInside`); a thread past its login has the
session of its own credential (`SessionIsOwn`); and a call whose booking was sent is
past the point at which it may ask for a login (`BookingsAreLate`), so that whoever
is told to try again was told so of a call that is over and sent nothing.

**The driver.** While the loop runs, the attempt knows whether the button was
pressed, and no place before the button is reached with a press (`ClickIsKnown`);
without a login nothing takes the page from its seat, and after one it counts as
showing it only when it was seen to (`SeatIsKnown`). The clocks do not occur in the
invariant: no budget, however it is moved by dialogs, can make the driver press twice.

**The KORAIL actors.** A click is several awaits after the proof of the login it relies
on. `SessionInv` keeps the two together: a booking that has a login it did not make
itself got it from a reused browser and had the page asked (`BookingIsProven`), a page
that is loaded is in a browser that counts as logged out (`LoadedIsOut`), and only a
booking gets past the login with the lock still held (`CallIsKnown`). For the search it is
enough that no lookup was made before its stage (`NoneBefore`), which is what allows
the page to be replaced up to there and no further.

**The commands.** `KeysActOnce` says nothing of the table of keys. `KeysRemembered`
adds that a key that took effect is in it; rows are only added, and what adds one
asks for the key first, under the lock or the unique constraint that makes the two one step.

**Readings.** What a reading says is about the past: a page was loaded, its response
came, then the account changed. What makes an absence true all the same is that a seat
never becomes unpaid again; so every fact the page, its observer and the look that read
them carry is of the form "the seat is not unpaid any more" (`ListIsTold`, `SeenIsTold`),
and such a fact survives whatever the user does next. `AbsencesAreTrue` puts two of them
together: one absence says that the seat is not unpaid, and the look at the issued tickets
*after* it that it is not issued either. The looks in the other order would leave a payment
between them. `DeadlineIsOfAHold` says that a deadline on record belongs to a hold that was made.

**Pages.** `ReadUpToCursor` says that the replay has every train of its window that
departs before its cursor, but those it is known to miss; the cursor moves to the last
departure of a page, and a page that is full of one minute is what splits them.
`HasWhatIsLoaded` does the same for the browser, where trains are on a page before they are
read. The least and the greatest departure of a page exist by the well-foundedness of the
numbers, for any page size.

**Tabs.** A browser that was closed stays closed because nothing that could start a
process is under way any more (`ClosedForGood`). A body carries the search it was seen in;
`ObserverInv` says that all that is pending, being drained or read has the generation of
its place, and a verdict is taken only from those.

**Login verdicts.** `KnownIsTrue`: what the driver knows of a request is true of it, in spite of
events that come in any order. `CompletedIsGood`: the summary is "completed" only of a login
all of whose requests finished well, and one more request takes it back. `ProofIsCovered`:
the requests the official probe speaks about had ended when it was sent.

**Queries and searches.** A hold this process was told of is written and copied, or is being
written by a query that still has the gate, and a refusal is in Redis or in the memory of
the sidecar (`ToldIsHeld`): the first stops queries in the process, the second at the
sidecar, also when the write failed. `DueIsKept` is the
same for the sidecar: the hold that is owed is in Redis, or in the memory of a process that
knows its last command failed and asks both. For the tasks behind the searches,
`SharedTasks` follows from `CoordinatorInv`: a task callers may join runs (`InflightRuns`), one
that runs can be joined (`RunningIsJoined`), who waits has a task that knows of it
(`WaitersHaveTasks`), and a task that has begun is cancelled only by a shutdown
(`BegunEndsAlone`), which is why nobody's leaving ends another's search.

**SRT reads.** `PolledWhileAsking`: a read whose handler may still ask, whose provider call
may still run, or which may still be begun, is one the client polls. Each transition of the
registry is shown to keep that, with `AnnouncedFirst` for the reads of an earlier process of
the sidecar. That a worker has left then means that nothing is polled, hence nothing runs.

**The session manager.** A run of the manager is many awaits, between which the user, bookings
and restarts act. While it asks it owes nothing (`AsksFree`). Otherwise, for the account in
the database and for the copy the manager has read, the wait for the protection is running
for that credential and revision, or the clock was lost in a restart and the durable halt
will start it again before the next question (`WaitIsKept`). `RowIsOfItsRevision` makes the
two accounts one as long as the revision is the same, which is what the code's comparison of
`updated_at` buys.

**The client.** A list that is accepted was asked for in this life of the page and crossed by
no command; `ListIsAhead` says that such a list, once answered, is no older than what shows.
For the notices, `MarkIsNewest` says that the watermark of the notification center is behind
nothing that was shown or closed, and equals the rank of the notice that is shown;
`LedgerHasNewest` that the ledger of closed notices, which alone survives a reload of the page,
still has the newest. An accepted list pushes several notices by a fold; that a fold over
a finite domain, and the recursive function that selects events, exist and keep a property of
their parts is proved once (`FoldExists`, `FoldStays`, `ChosenAreThere`).

## 5. What is only model-checked

Every invariant and every action property of the passing runs is proved. What is left to TLC:

* `PendingEnds`, `ReadingsEnd`, `EveryEventEnds`, `CallersAreAnswered`, `DriverEnds`,
  `ShownCatchesUp`, `PaymentIsTold`. Liveness under fairness needs ENABLED, which
  is out of reach of the provers installed here.
* The properties of the runs that end in a violation (section 3): they do not hold.

No module uses a recursive operator: the first and the newest of a set of
attempts are CHOOSE expressions, sums over sets and notices pushed one after the other
are folds, events are selected by a recursive function, and pages are read by steps. The
library's induction theorems take an operator as a parameter, which the provers cannot
instantiate; the proofs use the well-foundedness of the numbers on a set instead (the
least number for which a fact fails), which serves for what is stored in sets, sequences
and functions, but gives no general rule of induction.

## 6. What is not modelled, and what could follow

* *Parsing*: provider pages, selectors, scripts run in a page, the matching of
  records field by field. What they yield is an input, or one choice per look.
* *Timetables, admin session, preferences, read models, browser companion,
  migrations, deployment*: no state that the properties could tell apart. A
  background refresh of a timetable may overwrite a newer snapshot
  (`timetable_snapshot_cache.py`); nothing is decided from it.
* *Due selection*: which of the due watches goes first, and the agreement of the SQL
  predicate with the one asked again under the lock. `Due` is the predicate under the lock;
  comparing the two needs instants, which the model abstracts to an order.
* *Arming* of watches before a booking window, the SRT account's own session
  manager, the SRT seat source's cooldown, holds without a deadline, the MOCK
  provider, and rows of older releases.
* *Wall clock intervals* wherever the code only compares them (section 2.2).

What could follow, in order of weight: the composition of the lease with the group and the reading in
place of the single slot; the agreement of the two due predicates over instants.
