----------------------------- MODULE SeatQueries -----------------------------
(***************************************************************************)
(* The queries of one API process for KORAIL seats                         *)
(* (KorailBrowserQueryRuntime with the seat source around it): callers of  *)
(* one search share a query, the queries go to the sidecar one at a time,  *)
(* and holds and backoffs keep them from it.  The sidecar asks its own     *)
(* holds before it goes to the provider.  Time is left out: a deadline may *)
(* pass, a hold and a backoff may end, at any moment.  A command to Redis  *)
(* may fail, and a write that fails may have been applied.                 *)
(***************************************************************************)
EXTENDS Integers, FiniteSets

CONSTANTS
  Askers,     \* bound: calls of the process
  Searches,   \* what they ask for (cache_key)
  Queries,    \* bound: queries that somebody still looks at
  NoQuery,
  MaxHolds    \* bound: holds that come to be

ASSUME QueriesAssumption == NoQuery \notin Queries /\ MaxHolds \in Nat

VARIABLES
  askers,  \* each call
  queries, \* each query: _InflightQuery and the task behind it
  current, \* _inflight: the query callers of a search may join
  fresh,   \* searches with a result in the cache
  waits,   \* searches in backoff
  counted, \* _query_failure_counts
  holds,   \* holds in Redis: "shared" with the sidecar, "outage", "restricted"
  copies,  \* those this process has a copy of in its memory
  recalled, \* sidecar: what the hold in the memory of its coordinator is for
  unwritten, \* sidecar: a write of the shared hold was not confirmed
  told,    \* history: "refused", since the sidecar told this process of a refusal,
           \*   and the holds this process was told of that Redis has or is sent
  made     \* holds that came to be

holdVars == <<holds, copies, recalled, unwritten, told, made>>
queryVars == <<askers, queries, current, fresh, waits, counted, holdVars>>

NewAsker == [pc |-> "idle", search |-> NoQuery, query |-> NoQuery]
NewQuery == [pc |-> "free", search |-> NoQuery, waiters |-> {}, started |-> FALSE, end |-> "none"]
Holds == {"shared", "outage", "restricted"}

QueriesInit ==
  /\ askers = [c \in Askers |-> NewAsker] /\ queries = [q \in Queries |-> NewQuery]
  /\ current = [s \in Searches |-> NoQuery] /\ fresh = {} /\ waits = {}
  /\ counted = [s \in Searches |-> 0] /\ holds = {} /\ copies = {}
  /\ recalled = "none" /\ unwritten = FALSE /\ told = {} /\ made = 0

AskerEnds(c, how) == askers' = [askers EXCEPT ![c].pc = how, ![c].query = NoQuery]
SameHolds == UNCHANGED holdVars
SameEvidence == UNCHANGED <<fresh, waits, counted>>

-----------------------------------------------------------------------------
(* search: holds first, then the cache, the backoff, and a query to share.  *)

Joinable(s) == current[s] # NoQuery /\ queries[current[s]].pc # "done"
Follow(c, s, q) == askers' = [askers EXCEPT ![c] = [pc |-> "waiting", search |-> s, query |-> q]]

\* The shared hold refuses when Redis does not answer; for the others the process
\* falls back on its copies, and may miss one.
Unmissable == holds \intersect (copies \union {"shared"})

Ask(c, s) ==
  /\ askers[c].pc = "idle" /\ askers[c].search \in {s, NoQuery}
  /\ SameHolds /\ SameEvidence
  /\ \/ AskerEnds(c, "held") /\ UNCHANGED <<queries, current>>  \* a hold, or no answer of Redis
     \/ /\ Unmissable = {} /\ s \in fresh
        /\ AskerEnds(c, "answered") /\ UNCHANGED <<queries, current>>
     \/ /\ Unmissable = {} /\ s \notin fresh \union waits /\ Joinable(s)
        /\ Follow(c, s, current[s]) /\ UNCHANGED current
        /\ queries' = [queries EXCEPT ![current[s]].waiters = @ \union {c}]
     \/ /\ Unmissable = {} /\ s \notin fresh \union waits /\ ~Joinable(s)
        /\ \E q \in Queries :
             /\ queries[q].pc = "free" /\ Follow(c, s, q)
             /\ queries' = [queries EXCEPT ![q] = [NewQuery EXCEPT !.pc = "new", !.search = s, !.waiters = {c}]]
             /\ current' = [current EXCEPT ![s] = q]

\* _release_waiter: a query nobody waits for is cancelled, but not at the sidecar.
StopsWaiting(c) ==
  LET q == askers[c].query
      rest == queries[q].waiters \ {c}
  IN queries' = [queries EXCEPT ![q].waiters = rest,
                                ![q].pc = IF rest = {} /\ @ \in {"new", "queued"} /\ current[queries[q].search] = q
                                          THEN IF @ = "new" THEN "stillborn" ELSE "cancelling"
                                          ELSE @]
AskerTimesOut(c) ==
  /\ askers[c].pc = "waiting" /\ AskerEnds(c, "late") /\ StopsWaiting(c)
  /\ UNCHANGED current /\ SameHolds /\ SameEvidence
AskerIsCancelled(c) ==
  /\ askers[c].pc = "waiting" /\ AskerEnds(c, "cancelled") /\ StopsWaiting(c)
  /\ UNCHANGED current /\ SameHolds /\ SameEvidence

-----------------------------------------------------------------------------
(* load: the gate, the holds again, the sidecar.                            *)

AtSidecar == {"sent", "searching", "reporting"}
\* Mutant of GateIsOpen: the gate opens before the hold is written.
GateOpensEarly == \A q \in Queries : queries[q].pc \notin {"sent", "searching"}
GateIsOpen == \A q \in Queries : queries[q].pc \notin AtSidecar

\* The end of a query; a task that never ran leaves its entry behind.
QueryEnds(q, how) ==
  /\ queries' = [queries EXCEPT ![q].pc = "done", ![q].end = how]
  /\ current' = [current EXCEPT ![queries[q].search] = IF @ = q /\ queries[q].pc # "stillborn" THEN NoQuery ELSE @]
QueryRuns(q) ==
  /\ queries[q].pc = "new" /\ queries' = [queries EXCEPT ![q].pc = "queued"]
  /\ UNCHANGED <<askers, current>> /\ SameHolds /\ SameEvidence
CancelLands(q) ==
  /\ queries[q].pc \in {"cancelling", "stillborn"} /\ QueryEnds(q, "cancelled")
  /\ UNCHANGED askers /\ SameHolds /\ SameEvidence

SearchBegins(q) ==
  /\ queries[q].pc = "queued" /\ GateIsOpen
  /\ \/ QueryEnds(q, "held")
     \/ /\ Unmissable \intersect {"shared", "outage"} = {}
        /\ queries' = [queries EXCEPT ![q].pc = "sent", ![q].started = TRUE]
        /\ UNCHANGED current
  /\ UNCHANGED askers /\ SameHolds /\ SameEvidence

\* A result is kept only if somebody still waits for it.
SearchAnswers(q) ==
  LET s == queries[q].search IN
  /\ queries[q].pc = "searching" /\ UNCHANGED askers /\ SameHolds
  /\ IF queries[q].waiters = {} THEN QueryEnds(q, "late") /\ SameEvidence
     ELSE /\ QueryEnds(q, "answered")
          /\ fresh' = fresh \union {s} /\ waits' = waits \ {s} /\ counted' = [counted EXCEPT ![s] = 0]

\* An answer for another search, or any other failure.
SearchFails(q) ==
  /\ queries[q].pc \in {"sent", "searching"} /\ QueryEnds(q, "failed")
  /\ UNCHANGED askers /\ SameHolds /\ SameEvidence
SearchTimesOut(q) ==
  /\ queries[q].pc \in {"queued", "sent", "searching"} /\ QueryEnds(q, "late")
  /\ UNCHANGED askers /\ SameHolds /\ SameEvidence

-----------------------------------------------------------------------------
(* The sidecar (SearchCoordinator, ProviderCooldown) as this process sees   *)
(* it: the record in Redis, the write it owes and the hold in its memory.   *)

\* Mutant of SidecarHolds: a write that fails is taken for one that was made.
SidecarForgets(kind) ==
  recalled' = recalled /\ holds' \in {holds, holds \union {"shared"}} /\ UNCHANGED unwritten
\* A refusal of the provider is written to Redis and kept in memory before it is
\* answered; of two holds in memory the longer one stands.
SidecarHolds(kind) ==
  /\ recalled' \in {kind, recalled} \ {"none"}
  /\ \/ holds' = holds \union {"shared"} /\ UNCHANGED unwritten
     \/ holds' \in {holds, holds \union {"shared"}} /\ unwritten' = TRUE
\* The process is told of a refusal, whether Redis has it or not.
HoldsTold == told \union {"refused"} \union (holds' \intersect {"shared"})

SidecarAdmits(q) ==
  /\ queries[q].pc = "sent" /\ "shared" \notin holds /\ ~unwritten /\ recalled = "none"
  /\ queries' = [queries EXCEPT ![q].pc = "searching"]
  /\ UNCHANGED <<askers, current>> /\ SameHolds /\ SameEvidence
\* It makes up for the write it owes, reads the hold and defers the query ...
SidecarDefers(q) ==
  /\ queries[q].pc = "sent" /\ QueryEnds(q, "held")
  /\ \/ /\ "shared" \in holds \/ unwritten
        /\ holds' = holds \union {"shared"} /\ unwritten' = FALSE /\ told' = HoldsTold
     \/ /\ holds' \in {holds, IF unwritten THEN holds \union {"shared"} ELSE holds}  \* no answer of Redis
        /\ UNCHANGED <<unwritten, told>>
  /\ UNCHANGED <<askers, copies, recalled, made>> /\ SameEvidence
\* ... or refuses it out of its memory, and writes nothing.
SidecarRemembers(q) ==
  /\ queries[q].pc = "sent" /\ "shared" \notin holds /\ ~unwritten
  /\ \/ /\ recalled = "protection" /\ QueryEnds(q, "protected")
        /\ told' = told \union {"refused"} /\ UNCHANGED made
     \/ /\ recalled = "outage" /\ made < MaxHolds /\ made' = made + 1
        /\ queries' = [queries EXCEPT ![q].pc = "reporting"] /\ UNCHANGED current
        /\ told' = told \union {"refused", "outage"}
  /\ UNCHANGED <<askers, holds, copies, recalled, unwritten>> /\ SameEvidence

\* The page is protected, or the rate is limited.
SearchIsProtected(q) ==
  /\ queries[q].pc = "searching" /\ made < MaxHolds /\ QueryEnds(q, "protected")
  /\ SidecarHolds("protection") /\ told' = HoldsTold /\ made' = made + 1
  /\ UNCHANGED <<askers, copies>> /\ SameEvidence
\* The page tells of an outage: this process writes a hold of its own, while the
\* gate is held.
SearchFindsOutage(q) ==
  /\ queries[q].pc = "searching" /\ made < MaxHolds
  /\ queries' = [queries EXCEPT ![q].pc = "reporting"]
  /\ SidecarHolds("outage") /\ told' = HoldsTold \union {"outage"} /\ made' = made + 1
  /\ UNCHANGED <<askers, current, copies>> /\ SameEvidence
ReportOutage(q) ==
  /\ queries[q].pc = "reporting" /\ QueryEnds(q, "held")
  /\ holds' = holds \union {"outage"} /\ copies' = copies \union {"outage"}
  /\ UNCHANGED <<askers, recalled, unwritten, told, made>> /\ SameEvidence
\* Redis does not answer, or the deadline passes first: the hold may be lost.
ReportIsLost(q) ==
  /\ queries[q].pc = "reporting" /\ \E how \in {"held", "late"} : QueryEnds(q, how)
  /\ holds' \in {holds, holds \union {"outage"}} /\ copies' = copies \union {"outage"}
  /\ told' = told \ ({"outage"} \ holds')
  /\ UNCHANGED <<askers, recalled, unwritten, made>> /\ SameEvidence

-----------------------------------------------------------------------------
(* The callers of a query that ended: overlay, observe, search_timetable.   *)

\* open_cooldown: every one of them counts the failure.
AskerGetsFailure(c, s) ==
  /\ AskerEnds(c, "failed") /\ waits' = waits \union {s}
  /\ counted' = [counted EXCEPT ![s] = IF @ < 5 THEN @ + 1 ELSE @] /\ UNCHANGED fresh /\ SameHolds
AskerGetsProtection(c) ==
  /\ AskerEnds(c, "failed")
  /\ holds' \in {holds, holds \union {"restricted"}} /\ copies' = copies \union {"restricted"}
  /\ UNCHANGED <<recalled, unwritten, told, made>> /\ SameEvidence
\* A cancelled query is asked for anew by those who still have time.
AskerTriesAgain(c) ==
  /\ askers' = [askers EXCEPT ![c].pc = "idle", ![c].query = NoQuery] /\ SameHolds /\ SameEvidence

AskerResumes(c) ==
  LET q == askers[c].query IN
  /\ askers[c].pc = "waiting" /\ queries[q].pc = "done" /\ UNCHANGED current
  /\ queries' = [queries EXCEPT ![q].waiters = @ \ {c}]
  /\ \/ queries[q].end \in {"answered", "held", "late"} /\ AskerEnds(c, queries[q].end) /\ SameHolds /\ SameEvidence
     \/ queries[q].end = "failed" /\ AskerGetsFailure(c, queries[q].search)
     \/ queries[q].end = "protected" /\ AskerGetsProtection(c)
     \/ queries[q].end = "cancelled" /\ ~queries[q].started /\ AskerTriesAgain(c)

ForgetQuery(q) ==
  /\ queries[q].pc = "done" /\ queries[q].waiters = {} /\ \A s \in Searches : current[s] # q
  /\ queries' = [queries EXCEPT ![q] = NewQuery] /\ UNCHANGED <<askers, current>> /\ SameHolds /\ SameEvidence
DropEntry(s) ==
  /\ current[s] # NoQuery /\ ~Joinable(s) /\ current' = [current EXCEPT ![s] = NoQuery]
  /\ UNCHANGED <<askers, queries>> /\ SameHolds /\ SameEvidence

-----------------------------------------------------------------------------
\* Time, and the other processes that write holds.
ResultExpires(s) == s \in fresh /\ fresh' = fresh \ {s} /\ UNCHANGED <<askers, queries, current, waits, counted>> /\ SameHolds
BackoffEnds(s) ==
  /\ s \in waits /\ waits' = waits \ {s} /\ counted' = [counted EXCEPT ![s] = 0]
  /\ UNCHANGED <<askers, queries, current, fresh>> /\ SameHolds
\* A refusal is over when no hold of the sidecar stands for it any more.
HoldRunsOut(h) ==
  /\ h \in holds \union copies /\ holds' = holds \ {h} /\ copies' = copies \ {h}
  /\ told' = told \ (IF h = "shared" /\ recalled = "none" THEN {h, "refused"} ELSE {h})
  /\ UNCHANGED <<askers, queries, current, recalled, unwritten, made>> /\ SameEvidence
MemoryRunsOut ==
  /\ recalled # "none" /\ recalled' = "none"
  /\ told' = told \ (IF "shared" \in holds THEN {} ELSE {"refused"})
  /\ UNCHANGED <<askers, queries, current, holds, copies, unwritten, made>> /\ SameEvidence
\* The copy the sidecar would write again is over.
DebtRunsOut == unwritten /\ unwritten' = FALSE /\ UNCHANGED <<askers, queries, current, holds, copies, recalled, told, made>> /\ SameEvidence
HeldElsewhere(h) ==
  /\ h \notin holds /\ made < MaxHolds /\ holds' = holds \union {h} /\ made' = made + 1
  /\ UNCHANGED <<askers, queries, current, copies, recalled, unwritten, told>> /\ SameEvidence
\* Logins, bookings, queries of other processes and those this one gave up meet
\* refusals as well.
SidecarIsRefused ==
  /\ made < MaxHolds /\ made' = made + 1
  /\ \/ \E kind \in {"protection", "outage"} : SidecarHolds(kind)
     \/ holds' \in {holds, holds \union {"shared"}} /\ unwritten' = TRUE /\ UNCHANGED recalled
  /\ UNCHANGED <<askers, queries, current, copies, told>> /\ SameEvidence
\* Only what Redis has outlives the sidecar.  A query that is there has failed first.
MemoryIsLost ==
  /\ \A q \in Queries : queries[q].pc \notin {"sent", "searching"}
  /\ recalled' = "none" /\ unwritten' = FALSE
  /\ told' = told \ (IF "shared" \in holds THEN {} ELSE {"refused"})
  /\ UNCHANGED <<askers, queries, current, holds, copies, made>> /\ SameEvidence

QueriesNext ==
  \/ \E c \in Askers :
       (\E s \in Searches : Ask(c, s)) \/ AskerTimesOut(c) \/ AskerIsCancelled(c) \/ AskerResumes(c)
  \/ \E q \in Queries :
       \/ QueryRuns(q) \/ CancelLands(q) \/ SearchBegins(q) \/ SearchAnswers(q) \/ SearchFails(q)
       \/ SidecarAdmits(q) \/ SidecarDefers(q) \/ SidecarRemembers(q)
       \/ SearchIsProtected(q) \/ SearchFindsOutage(q) \/ ReportOutage(q) \/ ReportIsLost(q)
       \/ SearchTimesOut(q) \/ ForgetQuery(q)
  \/ \E s \in Searches : DropEntry(s) \/ ResultExpires(s) \/ BackoffEnds(s)
  \/ \E h \in Holds : HoldRunsOut(h) \/ HeldElsewhere(h)
  \/ MemoryRunsOut \/ DebtRunsOut \/ SidecarIsRefused \/ MemoryIsLost

QueriesSpec == QueriesInit /\ [][QueriesNext]_queryVars

-----------------------------------------------------------------------------
\* Once the sidecar has told this process of an outage or of a protected page, no
\* query that was waiting at the gate leaves the process before that hold has ended,
\* if Redis took it; and whether Redis took it or not, none that leaves gets past
\* the sidecar before the refusal is over.
QueueStopsAtHold ==
  [][\A q \in Queries :
       /\ queries[q].pc = "queued" /\ queries'[q].pc = "sent" => told \subseteq {"refused"}
       /\ queries[q].pc = "sent" /\ queries'[q].pc = "searching" => "refused" \notin told]_queryVars
=============================================================================
