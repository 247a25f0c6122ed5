------------------------- MODULE SearchCoordinator --------------------------
(***************************************************************************)
(* The search coordinator of the KORAIL sidecar (KorailBrowserAutomation): *)
(* callers that ask for the same search share one task, the tasks take     *)
(* turns at the browser, and holds, backoffs and a short cache decide what *)
(* is asked of the provider at all.                                        *)
(*                                                                         *)
(* A step runs from one suspension of a coroutine to the next.  The state  *)
(* lock is never held across one, so a section under it is a part of the   *)
(* step around it.                                                         *)
(***************************************************************************)
EXTENDS ProviderCooldown, Integers, FiniteSets

CONSTANTS
  Callers,      \* bound: calls of search(), one each
  Keys,         \* the searches they ask for
  Tasks,        \* bound: tasks that are not forgotten yet
  NoTask,
  Timeouts,     \* ticks a caller waits at most
  Grace,        \* most ticks of a caller's time kept for the cleanup of the browser
  CacheTicks,   \* ticks a result is kept
  BackoffTicks, \* ticks of the first backoff of a search, doubled by each failure
  MaxBackoff,   \* most ticks of a backoff
  MaxRestarts   \* bound: ends of the process

ASSUME CoordinatorAssumption ==
  /\ NoTask \notin Tasks /\ Timeouts \subseteq Nat /\ Grace \in Nat
  /\ CacheTicks \in Nat /\ BackoffTicks \in Nat /\ MaxBackoff \in Nat /\ MaxRestarts \in Nat

VARIABLES
  callers,   \* what each call waits for, or how it ended
  tasks,     \* the tasks behind the searches
  inflight,  \* the task of a search that callers may join
  heldUntil, \* the hold in the memory of the coordinator
  backoff,   \* end of the backoff of a search
  failures,  \* failures in a row of a search, as counted by the code
  cached,    \* end of the life of the cached result
  shutdown,  \* where the shutdown stands
  restarts   \* ends of the process so far

coordinatorVars ==
  <<callers, tasks, inflight, heldUntil, backoff, failures, cached, shutdown, restarts>>
searchVars == <<cooldownVars, coordinatorVars>>

FreeTask == [pc |-> "free", key |-> NoTask, deadline |-> 0, waiters |-> {},
             started |-> FALSE, cancelling |-> FALSE, kind |-> "query"]
IdleCaller == [pc |-> "idle", key |-> NoTask, deadline |-> 0, left |-> 0, task |-> NoTask]

InGate == {"querying", "reporting"}
Running == {"queued", "querying", "reporting", "reported"}
Ended == {"ok", "failed", "deferred", "held", "deadline", "cancelled"}
GateIsFree == \A t \in Tasks : tasks[t].pc \notin InGate

SearchInit ==
  /\ CooldownInit
  /\ callers = [c \in Callers |-> IdleCaller] /\ tasks = [t \in Tasks |-> FreeTask]
  /\ inflight = [k \in Keys |-> NoTask]
  /\ heldUntil = 0 /\ backoff = [k \in Keys |-> 0] /\ failures = [k \in Keys |-> 0]
  /\ cached = [k \in Keys |-> 0] /\ shutdown = "open" /\ restarts = 0

\* A call ends.  How it ended is kept only as far as the properties tell it apart.
CallerEnds(c, how) ==
  callers' = [callers EXCEPT ![c] =
    [IdleCaller EXCEPT !.pc = IF how = "cancelled" THEN "cancelled" ELSE "answered"]]

\* A task ends: callers can no longer join it.  It is forgotten once nobody
\* waits for it.
EndTask(t, how) ==
  /\ tasks' = [tasks EXCEPT ![t] = IF @.waiters = {} THEN FreeTask
       ELSE [@ EXCEPT !.pc = how, !.deadline = 0, !.cancelling = FALSE, !.kind = "query"]]
  /\ inflight' = [inflight EXCEPT ![tasks[t].key] = IF @ = t THEN NoTask ELSE @]

\* _release_waiter: the last one to leave cancels a task that has not begun.
Released(c) ==
  LET t == callers[c].task
      left == tasks[t].waiters \ {c}
      task == [tasks[t] EXCEPT !.waiters = left] IN
  [tasks EXCEPT ![t] =
     IF task.pc \in Ended /\ left = {} THEN FreeTask
     ELSE IF /\ inflight[task.key] = t /\ left = {} /\ ~task.started /\ task.pc \in Running
       THEN [task EXCEPT !.cancelling = TRUE]
       ELSE task]

\* search() once the shared hold has admitted it: backoffs that ran out are
\* forgotten with their counts, then the call ends or joins a task.
Purged(table, gone) == [k \in Keys |-> IF backoff[k] <= now THEN gone ELSE table[k]]
\* The task the caller joins: the one of its search, or a new one.
\* Mutant of TaskOf: always a new one.
NewTask(k, t) == tasks[t].pc = "free"
TaskOf(k, t) == IF inflight[k] = NoTask THEN tasks[t].pc = "free" ELSE t = inflight[k]
\* cleanup_grace: a fifth of the caller's time at most.
Cleanup(time) == IF Grace < time \div 5 THEN Grace ELSE time \div 5
Join(c, k, until) ==
  /\ backoff' = Purged(backoff, 0)
  /\ failures' = Purged(failures, 0)
  /\ \/ /\ heldUntil > now
        /\ CallerEnds(c, "held") /\ UNCHANGED <<tasks, inflight, heldUntil>>
     \/ /\ heldUntil <= now /\ cached[k] > now
        /\ heldUntil' = 0
        /\ CallerEnds(c, "ok") /\ UNCHANGED <<tasks, inflight>>
     \/ /\ heldUntil <= now /\ cached[k] <= now /\ backoff[k] > now
        /\ heldUntil' = 0
        /\ CallerEnds(c, "backoff") /\ UNCHANGED <<tasks, inflight>>
     \/ /\ heldUntil <= now /\ cached[k] <= now /\ backoff[k] <= now
        /\ heldUntil' = 0
        /\ \E t \in Tasks :
             /\ TaskOf(k, t)
             /\ tasks' = [tasks EXCEPT ![t] =
                  IF @.pc = "free"
                    THEN [FreeTask EXCEPT !.pc = "queued", !.key = k,
                            !.deadline = until - Cleanup(until - now), !.waiters = {c}]
                    ELSE [tasks[t] EXCEPT !.waiters = @ \union {c}]]
             /\ inflight' = [inflight EXCEPT ![k] = t]
             /\ callers' = [callers EXCEPT ![c] =
                  [pc |-> "waiting", key |-> k, deadline |-> until, left |-> 0, task |-> t]]
  /\ UNCHANGED <<cached, shutdown, restarts>>

Enter(c, k, until) ==
  \/ CheckAdmits /\ Join(c, k, until)
  \/ /\ CheckRefuses /\ CallerEnds(c, "deferred")
     /\ UNCHANGED <<tasks, inflight, heldUntil, backoff, failures, cached, shutdown, restarts>>

Call(c, k, timeout) ==
  /\ shutdown = "open" /\ callers[c].pc = "idle" /\ now + timeout <= MaxNow
  /\ Enter(c, k, now + timeout)

\* The task was cancelled before it asked anything, for callers who are gone:
\* the one who joined meanwhile starts over with the time that is left.
Retry(c) ==
  /\ callers[c].pc = "retry"
  /\ Enter(c, callers[c].key, now + callers[c].left)

\* The caller takes what its task ended with.
Resume(c) ==
  LET t == callers[c].task IN
  /\ callers[c].pc = "waiting" /\ tasks[t].pc \in Ended
  /\ tasks' = Released(c)
  /\ IF tasks[t].pc = "cancelled" /\ ~tasks[t].started
       THEN IF now < callers[c].deadline
              THEN callers' = [callers EXCEPT ![c] =
                     [@ EXCEPT !.pc = "retry", !.left = callers[c].deadline - now, !.task = NoTask]]
              ELSE CallerEnds(c, "deadline")
       ELSE CallerEnds(c, tasks[t].pc)
  /\ UNCHANGED <<cooldownVars, inflight, heldUntil, backoff, failures, cached, shutdown, restarts>>

\* The caller's own time is up, or the caller goes away.
GiveUp(c) ==
  /\ callers[c].pc = "waiting"
  /\ tasks' = Released(c)
  /\ CallerEnds(c, "deadline")
  /\ UNCHANGED <<cooldownVars, inflight, heldUntil, backoff, failures, cached, shutdown, restarts>>
\* Mutant of CallerTimesOut: the time of a caller is never up.
CallerNeverTimesOut(c) == FALSE /\ GiveUp(c)
CallerTimesOut(c) == now >= callers[c].deadline /\ GiveUp(c)
Leaves(c) == now < callers[c].deadline /\ GiveUp(c)

\* _load, with the gate: the shared hold and the coordinator's own are asked once
\* more, and the query begins for those who still wait.
BeginQuery(t) ==
  /\ tasks[t].pc = "queued" /\ ~tasks[t].cancelling /\ GateIsFree /\ now < tasks[t].deadline
  /\ \/ CheckRefuses /\ EndTask(t, "deferred") /\ UNCHANGED heldUntil
     \/ /\ CheckAdmits
        /\ heldUntil' = IF heldUntil <= now THEN 0 ELSE heldUntil
        /\ CASE heldUntil > now -> EndTask(t, "held")
             [] heldUntil <= now /\ tasks[t].waiters = {} -> EndTask(t, "cancelled")
             [] OTHER -> /\ tasks' = [tasks EXCEPT ![t] = [@ EXCEPT !.pc = "querying", !.started = TRUE]]
                         /\ UNCHANGED inflight
  /\ UNCHANGED <<callers, backoff, failures, cached, shutdown, restarts>>

Querying(t) == tasks[t].pc = "querying" /\ ~tasks[t].cancelling
Doubled(n) == IF BackoffTicks * 2 ^ (n - 1) > MaxBackoff THEN MaxBackoff ELSE BackoffTicks * 2 ^ (n - 1)

\* A result in time, for somebody, is kept and clears the failures.
QueryAnswers(t) ==
  /\ Querying(t)
  /\ IF now < tasks[t].deadline /\ tasks[t].waiters # {}
       THEN /\ EndTask(t, "ok")
            /\ cached' = [cached EXCEPT ![tasks[t].key] = now + CacheTicks]
            /\ backoff' = [backoff EXCEPT ![tasks[t].key] = 0]
            /\ failures' = [failures EXCEPT ![tasks[t].key] = 0]
       ELSE EndTask(t, "deadline") /\ UNCHANGED <<cached, backoff, failures>>
  /\ UNCHANGED <<cooldownVars, callers, heldUntil, shutdown, restarts>>

\* A failure of the pages themselves holds back this one search.
QueryFails(t) ==
  /\ Querying(t)
  /\ LET k == tasks[t].key IN
       /\ failures' = [failures EXCEPT ![k] = @ + 1]
       /\ backoff' = [backoff EXCEPT ![k] = now + Doubled(failures[k] + 1)]
  /\ EndTask(t, "failed")
  /\ UNCHANGED <<cooldownVars, callers, heldUntil, cached, shutdown, restarts>>

\* The browser client asks the shared hold again and is refused.
QueryDeferred(t) ==
  /\ Querying(t) /\ EndTask(t, "deferred")
  /\ UNCHANGED <<cooldownVars, callers, heldUntil, backoff, failures, cached, shutdown, restarts>>

\* The page proves an outage, a protection or a rate limit: the report to the
\* shared hold begins.
QueryProves(t, kind) ==
  /\ Querying(t)
  /\ tasks' = [tasks EXCEPT ![t] = [@ EXCEPT !.pc = "reporting", !.kind = kind]]
  /\ UNCHANGED <<cooldownVars, callers, inflight, heldUntil, backoff, failures, cached, shutdown, restarts>>

\* An outage is reported and held in memory before the gate is left; protection
\* is reported, the gate left, and then reported again with the hold in memory.
Report(t) ==
  /\ tasks[t].pc \in {"reporting", "reported"} /\ ~tasks[t].cancelling
  /\ Observe(tasks[t].kind)
  /\ IF tasks[t].pc = "reporting" /\ tasks[t].kind = "protection"
       THEN /\ tasks' = [tasks EXCEPT ![t].pc = "reported"]
            /\ UNCHANGED <<inflight, heldUntil>>
       ELSE /\ EndTask(t, "held")
            /\ heldUntil' = Later(heldUntil, now + HoldOf(tasks[t].kind))
  /\ UNCHANGED <<callers, backoff, failures, cached, shutdown, restarts>>

\* The task is stopped where it stands: by its deadline up to the gate, by a
\* cancellation anywhere.  A report that is under way is cut.
StopTask(t, how) ==
  /\ IF tasks[t].pc \in {"reporting", "reported"}
       THEN ObserveCut(tasks[t].kind) ELSE UNCHANGED cooldownVars
  /\ EndTask(t, how)
  /\ UNCHANGED <<callers, heldUntil, backoff, failures, cached, shutdown, restarts>>
TaskDeadline(t) ==
  tasks[t].pc \in {"queued", "querying", "reporting"} /\ now >= tasks[t].deadline /\ StopTask(t, "deadline")
TaskCancelled(t) ==
  tasks[t].pc \in Running /\ tasks[t].cancelling /\ StopTask(t, "cancelled")

Pending == {t \in Tasks : \E k \in Keys : inflight[k] = t}

\* Shutdown, which the server begins when its requests are over: wait for the
\* tasks, then cancel them, then close the browser, or leave it open when a task
\* does not end.
Drain ==
  LET pending == Pending IN
  /\ \/ /\ shutdown = "open" /\ \A c \in Callers : callers[c].pc \notin {"waiting", "retry"}
        /\ shutdown' = "draining" /\ UNCHANGED tasks
     \/ /\ shutdown = "draining" /\ pending # {} /\ shutdown' = "cancelling"
        /\ tasks' = [t \in Tasks |-> IF t \in pending THEN [tasks[t] EXCEPT !.cancelling = TRUE] ELSE tasks[t]]
     \/ /\ shutdown = "draining" /\ pending = {} /\ shutdown' = "closed" /\ UNCHANGED tasks
     \/ /\ shutdown = "cancelling" /\ UNCHANGED tasks
        /\ shutdown' = IF \E t \in pending : tasks[t].cancelling THEN "given_up" ELSE "draining"
  /\ UNCHANGED <<cooldownVars, callers, inflight, heldUntil, backoff, failures, cached, restarts>>

\* The other actors of the process report what their pages prove.  Bound: none
\* is told of while a hold stands, for they are refused then as well.
OthersProve ==
  /\ Admitted
  /\ \E kind \in {"query", "protection", "login"} : Observe(kind)
  /\ UNCHANGED coordinatorVars

CoordinatorRestarts ==
  /\ restarts < MaxRestarts /\ restarts' = restarts + 1
  /\ ProcessRestarts
  /\ callers' = [c \in Callers |-> IF callers[c].pc = "idle" THEN IdleCaller ELSE [IdleCaller EXCEPT !.pc = "answered"]]
  /\ tasks' = [t \in Tasks |-> FreeTask] /\ inflight' = [k \in Keys |-> NoTask]
  /\ heldUntil' = 0 /\ backoff' = [k \in Keys |-> 0] /\ failures' = [k \in Keys |-> 0]
  /\ cached' = [k \in Keys |-> 0] /\ shutdown' = "open"

\* Bound: the check before a second try takes less than a tick.
TimePasses ==
  /\ \A c \in Callers : callers[c].pc # "retry"
  /\ CooldownTick /\ UNCHANGED coordinatorVars

SearchNext ==
  \/ \E c \in Callers, k \in Keys, d \in Timeouts : Call(c, k, d)
  \/ \E c \in Callers : Retry(c) \/ Resume(c) \/ CallerTimesOut(c) \/ Leaves(c)
  \/ \E t \in Tasks : BeginQuery(t) \/ QueryAnswers(t) \/ QueryFails(t) \/ QueryDeferred(t)
                      \/ Report(t) \/ TaskDeadline(t) \/ TaskCancelled(t)
  \/ \E t \in Tasks, kind \in {"query", "protection"} : QueryProves(t, kind)
  \/ Drain \/ OthersProve \/ CoordinatorRestarts
  \/ TimePasses

SearchSpec == SearchInit /\ [][SearchNext]_searchVars

-----------------------------------------------------------------------------
SearchTypeOK ==
  /\ CooldownTypeOK
  /\ callers \in [Callers -> [pc : {"idle", "waiting", "retry", "answered", "cancelled"},
       key : Keys \union {NoTask}, deadline : Nat, left : Nat, task : Tasks \union {NoTask}]]
  /\ tasks \in [Tasks -> [pc : {"free"} \union Running \union Ended, key : Keys \union {NoTask},
       deadline : Int, waiters : SUBSET Callers, started : BOOLEAN, cancelling : BOOLEAN,
       kind : {"query", "protection"}]]
  /\ inflight \in [Keys -> Tasks \union {NoTask}]
  /\ heldUntil \in Nat /\ backoff \in [Keys -> Nat] /\ failures \in [Keys -> Nat]
  /\ cached \in [Keys -> Nat] /\ restarts \in Nat
  /\ shutdown \in {"open", "draining", "cancelling", "closed", "given_up"}

\* Every running task is the one callers of its search join.
OneTaskPerSearch == \A t \in Tasks : tasks[t].pc \in Running => inflight[tasks[t].key] = t
\* Whoever waits is among the waiters of a task that is not forgotten.
WaitersAreKnown ==
  \A c \in Callers : callers[c].pc = "waiting" => c \in tasks[callers[c].task].waiters
\* A caller never ends with the cancellation of a task that others had left.
NoForeignCancellation == \A c \in Callers : callers[c].pc # "cancelled"
\* The browser is closed only when nothing runs in it.
ClosedIsQuiet == shutdown = "closed" => \A t \in Tasks : tasks[t].pc \notin Running

\* Callers share the task of a search and nothing else: no search is under way
\* twice, whoever waits is known to a task that runs or is kept, nobody is hit by
\* the cancellation another caller caused, and a shutdown leaves no task behind.
SharedTasks == OneTaskPerSearch /\ WaitersAreKnown /\ NoForeignCancellation /\ ClosedIsQuiet

Begun(t) == tasks'[t].pc = "querying" /\ tasks[t].pc # "querying"

\* A query begins only when no other is at the browser or still reporting what it
\* proved, and never while a hold stands that Redis knows or that this process was
\* told of in full, however the commands to Redis went and whichever process or
\* actor proved it.  A report that a deadline or a cancellation cut counts only for
\* what Redis made of it: the code owes nothing for such a one.
QueriesAreAdmitted ==
  [][\A t \in Tasks : Begun(t) =>
       /\ due <= now
       /\ \A u \in Tasks \ {t} : tasks'[u].pc \notin InGate]_searchVars

SearchFairSpec ==
  /\ SearchSpec
  /\ WF_searchVars(TimePasses)
  /\ \A c \in Callers : WF_searchVars(Retry(c)) /\ WF_searchVars(Resume(c)) /\ WF_searchVars(CallerTimesOut(c))

\* Every caller is answered.
CallersAreAnswered ==
  \A c \in Callers : callers[c].pc = "waiting" ~> callers[c].pc \notin {"waiting", "retry"}
=============================================================================
