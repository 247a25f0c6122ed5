------------------------------- MODULE SrtReads -------------------------------
(***************************************************************************)
(* Reading SRT seats across two processes.  A worker announces each read   *)
(* to the sidecar, sends it, and polls until the sidecar says that it is   *)
(* over (SrtProviderAdapterClient); only then it gives up its lease.  The  *)
(* sidecar keeps the announced reads (SrtReadOnlyCallRegistry) and shares  *)
(* provider calls, one at a time, between them (SrtLiveSeatSource); a      *)
(* provider call is a thread that no timeout stops.  The limits of time    *)
(* are left out: each may be reached at any moment.                        *)
(***************************************************************************)
EXTENDS Integers, FiniteSets

CONSTANTS
  Reads,        \* bound: reads of the worker
  OtherReads,   \* bound: reads of other processes
  Batches,      \* the route and the day of a provider call
  Lookups,      \* bound: provider calls that matter at once
  NoLookup,
  MaxInstance   \* bound: processes of the sidecar

ASSUME ReadsAssumption == NoLookup \notin Lookups /\ Reads \intersect OtherReads = {}

VARIABLES
  reader,     \* the worker: "working", "draining", "left", or "fenced" off
  pending,    \* _pending_read_only_calls: each read, and the instance that took it
  sentReads,       \* reads on their way to the sidecar
  instance,   \* the process of the sidecar
  registry,   \* the phase of each read there
  handlers,   \* its handler
  lookups,    \* provider calls: _InflightCall and the thread
  sharedLookup,   \* the call that a read of a batch may join
  knownBatches,      \* batches in the cache
  cooling     \* the cooldown "srt" in Redis

readVars == <<reader, pending, sentReads, instance, registry, handlers, lookups, sharedLookup, knownBatches, cooling>>

AllReads == Reads \union OtherReads
FreeLookup == [at |-> "free", batch |-> NoLookup, waiters |-> {}, asked |-> {}, good |-> FALSE]

ReadsInit ==
  /\ reader = "working" /\ pending = [c \in Reads |-> [at |-> "unused", instance |-> 0]] /\ sentReads = {}
  /\ instance = 1 /\ registry = [c \in Reads |-> "none"] /\ handlers = [c \in AllReads |-> "none"]
  /\ lookups = [l \in Lookups |-> FreeLookup] /\ sharedLookup = [b \in Batches |-> NoLookup]
  /\ knownBatches = {} /\ cooling = FALSE

ReaderSide == UNCHANGED <<reader, pending, sentReads>>
Source == UNCHANGED <<lookups, sharedLookup, knownBatches, cooling>>
PendingIs(c, there) == pending' = [pending EXCEPT ![c].at = there]

-----------------------------------------------------------------------------
(* The client.                                                              *)

\* _request of a tracked path: the read is announced before it is sent.
Announce(c) ==
  /\ reader = "working" /\ pending[c].at = "unused" /\ PendingIs(c, "registering")
  /\ UNCHANGED <<reader, sentReads, instance, registry, handlers>> /\ Source
\* register: accepted once.  If its answer is lost the read is not sent.
AnnounceArrives(c) ==
  /\ pending[c].at = "registering" /\ registry[c] = "none"
  /\ registry' = [registry EXCEPT ![c] = "registered"]
  /\ \/ pending' = [pending EXCEPT ![c] = [at |-> "pending", instance |-> instance]] /\ sentReads' = sentReads \union {c}
     \/ PendingIs(c, "over") /\ UNCHANGED sentReads
  /\ UNCHANGED <<reader, instance, handlers>> /\ Source
AnnounceFails(c) ==
  /\ pending[c].at = "registering" /\ PendingIs(c, "over")
  /\ UNCHANGED <<reader, sentReads, instance, registry, handlers>> /\ Source
ReadIsLost(c) ==
  /\ c \in sentReads /\ sentReads' = sentReads \ {c}
  /\ UNCHANGED <<reader, pending, instance, registry, handlers>> /\ Source

-----------------------------------------------------------------------------
(* The registry.                                                            *)

\* Mutant of Linked: only while the read still waits for the provider call.
LinkedWhileWaiting(c) == \E l \in Lookups : c \in lookups[l].waiters
\* read_only_call_pending: a provider call it asked for has not ended.
Linked(c) == \E l \in Lookups : c \in lookups[l].asked /\ lookups[l].at \in {"queued", "running"}

IsOver(c) == registry[c] = "terminal" \/ (registry[c] = "awaiting" /\ ~Linked(c))

\* The poll for a read that has ended, or whose process has; other answers, and
\* "unknown" is one of them, change nothing.
PollEnds(c) ==
  /\ reader \in {"working", "draining"} /\ pending[c].at = "pending"
  /\ pending[c].instance # instance \/ IsOver(c)
  /\ PendingIs(c, "over")
  /\ registry' = [registry EXCEPT ![c] = IF pending[c].instance = instance THEN "terminal" ELSE @]
  /\ UNCHANGED <<reader, sentReads, instance, handlers>> /\ Source

Unpolled == {c \in Reads : pending[c].at \in {"registering", "pending"}}
\* drain_pending_calls returns when the polls have ended; with their limit reached,
\* the client is fenced, and its owner goes on without it.
DrainReads ==
  /\ reader = "working" /\ reader' = "draining"
  /\ UNCHANGED <<pending, sentReads, instance, registry, handlers>> /\ Source
Drained ==
  /\ reader = "draining" /\ Unpolled = {} /\ reader' = "left"
  /\ UNCHANGED <<pending, sentReads, instance, registry, handlers>> /\ Source
FencedOff ==
  /\ reader \in {"working", "draining"} /\ Unpolled # {} /\ reader' = "fenced"
  /\ UNCHANGED <<pending, sentReads, instance, registry, handlers>> /\ Source

\* begin: only a read that is announced, once and in time.
ReadArrives(c) ==
  /\ c \in sentReads /\ sentReads' = sentReads \ {c}
  /\ IF registry[c] = "registered"
     THEN registry' = [registry EXCEPT ![c] = "active"] /\ handlers' = [handlers EXCEPT ![c] = "arrived"]
     ELSE UNCHANGED <<registry, handlers>>
  /\ UNCHANGED <<reader, pending, instance>> /\ Source
OtherArrives(c) ==
  /\ handlers[c] = "none" /\ handlers' = [handlers EXCEPT ![c] = "arrived"]
  /\ UNCHANGED <<instance, registry>> /\ ReaderSide /\ Source
\* finish: the handler is over, its provider call need not be.
HandlerEnds(c) ==
  /\ handlers[c] = "ended" /\ handlers' = [handlers EXCEPT ![c] = "over"]
  /\ registry' = [r \in Reads |-> IF r = c /\ registry[r] = "active" THEN "awaiting" ELSE registry[r]]
  /\ UNCHANGED instance /\ ReaderSide /\ Source
\* _prune_records: an announcement is good for a minute, an end is kept for five.
AnnouncementExpires(c) ==
  /\ registry[c] = "registered" /\ registry' = [registry EXCEPT ![c] = "terminal"]
  /\ UNCHANGED <<instance, handlers>> /\ ReaderSide /\ Source
TombstoneGoes(c) ==
  /\ registry[c] = "terminal" /\ registry' = [registry EXCEPT ![c] = "none"]
  /\ UNCHANGED <<instance, handlers>> /\ ReaderSide /\ Source

-----------------------------------------------------------------------------
(* The source: _search, _load and the gate.                                 *)

HandlerIs(c, there) == handlers' = [handlers EXCEPT ![c] = there]
JoinLookup(c, l) == lookups' = [lookups EXCEPT ![l].waiters = @ \union {c}, ![l].asked = @ \union {c}]
LookUp(c, b) ==
  /\ handlers[c] = "arrived" /\ UNCHANGED <<instance, registry, knownBatches, cooling>> /\ ReaderSide
  /\ \/ (b \in knownBatches \/ cooling) /\ HandlerIs(c, "ended") /\ UNCHANGED <<lookups, sharedLookup>>
     \/ /\ b \notin knownBatches /\ ~cooling /\ HandlerIs(c, "waiting")
        /\ IF sharedLookup[b] # NoLookup THEN JoinLookup(c, sharedLookup[b]) /\ UNCHANGED sharedLookup
           ELSE \E l \in Lookups :
                  /\ lookups[l].at = "free" /\ sharedLookup' = [sharedLookup EXCEPT ![b] = l]
                  /\ lookups' = [lookups EXCEPT ![l] =
                       [FreeLookup EXCEPT !.at = "queued", !.batch = b, !.waiters = {c}, !.asked = {c}]]

NoLonger(l) == sharedLookup' = [b \in Batches |-> IF sharedLookup[b] = l THEN NoLookup ELSE sharedLookup[b]]

\* _release_waiter: a call that has not begun and nobody waits for is dropped.
StopWaiting(c, l) ==
  IF lookups[l].waiters = {c} /\ lookups[l].at = "queued"
  THEN lookups' = [lookups EXCEPT ![l].waiters = {}, ![l].at = "done"] /\ NoLonger(l)
  ELSE lookups' = [lookups EXCEPT ![l].waiters = @ \ {c}] /\ UNCHANGED sharedLookup
\* The time of the read is up, or its connection is gone; the call goes on.
WaiterLeaves(c, l) ==
  /\ c \in lookups[l].waiters /\ lookups[l].at # "done" /\ HandlerIs(c, "ended") /\ StopWaiting(c, l)
  /\ UNCHANGED <<instance, registry, knownBatches, cooling>> /\ ReaderSide
\* observe, overlay, search_timetable: a failure of the provider opens the cooldown.
WaiterResumes(c, l) ==
  /\ c \in lookups[l].waiters /\ lookups[l].at = "done" /\ HandlerIs(c, "ended") /\ StopWaiting(c, l)
  /\ cooling' \in {cooling, cooling \/ ~lookups[l].good}
  /\ UNCHANGED <<instance, registry, knownBatches>> /\ ReaderSide

\* The gate: one thread at a time; a call whose readers ran out of time ends here.
LookupRuns(l) ==
  /\ lookups[l].at = "queued" /\ \A o \in Lookups : lookups[o].at # "running"
  /\ \/ lookups' = [lookups EXCEPT ![l].at = "running"] /\ UNCHANGED sharedLookup
     \/ lookups' = [lookups EXCEPT ![l].at = "done", ![l].good = TRUE] /\ NoLonger(l)
  /\ UNCHANGED <<instance, registry, handlers, knownBatches, cooling>> /\ ReaderSide
LookupReturns(l) ==
  /\ lookups[l].at = "running" /\ NoLonger(l)
  /\ \E good \in BOOLEAN :
       /\ lookups' = [lookups EXCEPT ![l].at = "done", ![l].good = good]
       /\ knownBatches' = IF good THEN knownBatches \union {lookups[l].batch} ELSE knownBatches
  /\ UNCHANGED <<instance, registry, handlers, cooling>> /\ ReaderSide
ForgetLookup(l) ==
  /\ lookups[l].at = "done" /\ lookups[l].waiters = {} /\ lookups' = [lookups EXCEPT ![l] = FreeLookup]
  /\ UNCHANGED <<instance, registry, handlers, sharedLookup, knownBatches, cooling>> /\ ReaderSide
BatchExpires(b) ==
  /\ b \in knownBatches /\ knownBatches' = knownBatches \ {b}
  /\ UNCHANGED <<instance, registry, handlers, lookups, sharedLookup, cooling>> /\ ReaderSide
CooldownEnds ==
  /\ cooling /\ cooling' = FALSE
  /\ UNCHANGED <<instance, registry, handlers, lookups, sharedLookup, knownBatches>> /\ ReaderSide

\* The sidecar is killed with its threads, and another takes its place.
SidecarRestarts ==
  /\ instance < MaxInstance /\ instance' = instance + 1
  /\ registry' = [c \in Reads |-> "none"]
  /\ handlers' = [c \in AllReads |-> IF handlers[c] = "none" THEN "none" ELSE "over"]
  /\ lookups' = [l \in Lookups |-> FreeLookup] /\ sharedLookup' = [b \in Batches |-> NoLookup] /\ knownBatches' = {}
  /\ UNCHANGED cooling /\ ReaderSide

ReadsNext ==
  \/ \E c \in Reads : Announce(c) \/ AnnounceArrives(c) \/ AnnounceFails(c) \/ ReadIsLost(c) \/ ReadArrives(c)
  \/ \E c \in Reads : PollEnds(c) \/ AnnouncementExpires(c) \/ TombstoneGoes(c)
  \/ DrainReads \/ Drained \/ FencedOff
  \/ \E c \in OtherReads : OtherArrives(c)
  \/ \E c \in AllReads : HandlerEnds(c) \/ \E b \in Batches : LookUp(c, b)
  \/ \E c \in AllReads, l \in Lookups : WaiterLeaves(c, l) \/ WaiterResumes(c, l)
  \/ \E l \in Lookups : LookupRuns(l) \/ LookupReturns(l) \/ ForgetLookup(l)
  \/ \E b \in Batches : BatchExpires(b)
  \/ CooldownEnds \/ SidecarRestarts

ReadsSpec == ReadsInit /\ [][ReadsNext]_readVars

-----------------------------------------------------------------------------
\* A worker that has drained its client, and gives up its lease, leaves no thread at
\* the provider that one of its reads asked for: no read of it arrives late and starts
\* one, and none outlives the reader that was told its read is over.
DrainedIsQuiet ==
  reader = "left" => \A l \in Lookups : lookups[l].at = "running" => lookups[l].asked \subseteq OtherReads
=============================================================================
