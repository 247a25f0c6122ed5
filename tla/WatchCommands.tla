---------------------------- MODULE WatchCommands ----------------------------
(***************************************************************************)
(* The user's commands on watches (watch_management/http.py): creation,    *)
(* start, pause, cancellation, observation mode and deletion, each a       *)
(* transaction of its own, with the Idempotency-Key a command is sent      *)
(* with.  A request may be sent again at any time, also while the first    *)
(* copy is still served.                                                   *)
(*                                                                         *)
(* PostgreSQL, READ COMMITTED: a row lock is held until the transaction    *)
(* ends, and what is locked alone is one action.  Of a watch's settings    *)
(* only the focused observation is kept, of a creation's body whether it   *)
(* asks for it.                                                            *)
(***************************************************************************)
EXTENDS Integers, FiniteSets

CONSTANTS
  Serving,        \* requests being served at a time
  NoHolder,       \* nobody holds a row lock
  EvidenceIds,    \* registration evidence, the keys of creations
  CommandKeys,    \* crypto.randomUUID(), the keys of starts and pauses
  MaxStored,      \* bound: watches ever created
  MaxFocused,     \* MAX_FOCUSED_WATCHES_PER_PROVIDER
  WorkerTargets   \* the statuses the workers and schedules move watches to

ASSUME CommandsAssumption == MaxStored \in Nat \ {0} /\ MaxFocused \in Nat \ {0}

VARIABLES
  stored,         \* the table of watches
  holder,         \* who holds the row lock
  remembered,     \* IdempotencyRecord: scope, key, watch and what was asked
  sent,           \* the command each random key was made for
  request,        \* the requests
  effects         \* history: how often a scope and key took effect

commandVars == <<stored, holder, remembered, sent, request, effects>>

WatchIds == 1..MaxStored
EndedStatuses == {"COMPLETED", "EXPIRED", "FAILED"}
WatchEdges ==
  [DRAFT |-> {"SCHEDULED", "EXPIRED"},
   SCHEDULED |-> {"WATCHING", "PAUSED", "EXPIRED"},
   WATCHING |-> {"OFFICIAL_WAITLIST", "SEAT_FOUND", "PAYMENT_REQUIRED", "COMPLETED",
                 "PAUSED", "COOLDOWN", "AUTH_REQUIRED", "EXPIRED", "FAILED"},
   OFFICIAL_WAITLIST |-> {"WATCHING", "SEAT_FOUND", "PAYMENT_REQUIRED", "PAUSED",
                          "COOLDOWN", "AUTH_REQUIRED", "EXPIRED"},
   SEAT_FOUND |-> {"WATCHING", "OFFICIAL_WAITLIST", "RESERVING", "PAYMENT_REQUIRED",
                   "PAUSED", "COOLDOWN", "AUTH_REQUIRED", "EXPIRED"},
   RESERVING |-> {"WATCHING", "PAYMENT_REQUIRED", "AUTH_REQUIRED", "COOLDOWN",
                  "EXPIRED", "FAILED"},
   PAYMENT_REQUIRED |-> {"WATCHING", "COMPLETED", "EXPIRED", "FAILED"},
   PAUSED |-> {"SCHEDULED", "EXPIRED"},
   COOLDOWN |-> {"SCHEDULED", "PAUSED", "EXPIRED"},
   AUTH_REQUIRED |-> {"PAUSED", "SCHEDULED", "EXPIRED"},
   COMPLETED |-> {}, EXPIRED |-> {}, FAILED |-> {}]
CommandTargets == [start |-> "SCHEDULED", pause |-> "PAUSED", cancel |-> "EXPIRED"]

Unstored == [status |-> "none", focused |-> FALSE]
IsStored(w) == stored[w].status \in DOMAIN WatchEdges
NoRequest == [pc |-> "idle"]
ScopedKeys == ({"create"} \X EvidenceIds) \union ({"start", "pause"} \X CommandKeys)
                \union ({"cancel"} \X WatchIds)

CommandsInit ==
  /\ stored = [w \in WatchIds |-> Unstored] /\ holder = [w \in WatchIds |-> NoHolder]
  /\ remembered = {} /\ sent = [k \in CommandKeys |-> [scope |-> "none", watch |-> 0]]
  /\ request = [r \in Serving |-> NoRequest] /\ effects = [k \in ScopedKeys |-> 0]

-----------------------------------------------------------------------------
(* Rows, locks and keys.                                                   *)

Unlocked(r, w) == holder[w] \in {r, NoHolder}
LocksFreed(r) == [w \in WatchIds |-> IF holder[w] = r THEN NoHolder ELSE holder[w]]

RecordsOf(scope, key) == {x \in remembered : x.scope = scope /\ x.key = key}

\* Mutant of KeyTaken: the table has no unique constraint on scope and key.
KeyTakenNever(scope, key) == FALSE
\* uq_idempotency_scope_key, at the end of a transaction.
KeyTaken(scope, key) == RecordsOf(scope, key) # {}

TakesEffect(scope, key, w, asked) ==
  /\ remembered' = remembered \union
       {[scope |-> scope, key |-> key, watch |-> w, asked |-> asked]}
  /\ effects' = [effects EXCEPT ![<<scope, key>>] = @ + 1]

Replies(r) == request' = [request EXCEPT ![r] = NoRequest]
SameRows == UNCHANGED <<stored, holder, remembered, effects>>
GoesOn(r, pc) == request' = [request EXCEPT ![r].pc = pc]

-----------------------------------------------------------------------------
(* What the user sends.  A random key belongs to one command; the same     *)
(* request may be sent again.                                              *)

SendsCreate(r, e, focused) ==
  /\ request[r] = NoRequest
  /\ request' = [request EXCEPT ![r] = [pc |-> "create", key |-> e, focused |-> focused]]
  /\ SameRows /\ UNCHANGED sent

SendsCommand(r, scope, k, w) ==
  /\ request[r] = NoRequest /\ stored[w].status # "none"
  /\ \/ sent[k].scope = "none" /\ sent' = [sent EXCEPT ![k] = [scope |-> scope, watch |-> w]]
     \/ sent[k] = [scope |-> scope, watch |-> w] /\ UNCHANGED sent
  /\ request' = [request EXCEPT ![r] = [pc |-> "find", scope |-> scope, key |-> k, watch |-> w]]
  /\ SameRows

\* Cancellations have the key watch-cancel:<id>; the others have none.
SendsOther(r, scope, w) ==
  /\ request[r] = NoRequest /\ stored[w].status # "none"
  /\ request' = [request EXCEPT ![r] = [pc |-> "find", scope |-> scope, key |-> w, watch |-> w]]
  /\ SameRows /\ UNCHANGED sent

-----------------------------------------------------------------------------
(* create_watch.                                                           *)

Created(r, w) ==
  /\ request' = [request EXCEPT ![r] = [pc |-> "created", watch |-> w]]
  /\ holder' = LocksFreed(r)
Ends(r) == Replies(r) /\ holder' = LocksFreed(r)

\* get_idempotent_resource, and the watch it names if there is one.
Replays(r) ==
  \E x \in RecordsOf("create", request[r].key) :
    IF x.asked # request[r].focused THEN Ends(r) ELSE IsStored(x.watch) /\ Created(r, x.watch)
Replayable(r) ==
  \E x \in RecordsOf("create", request[r].key) : x.asked # request[r].focused \/ IsStored(x.watch)

CreateLooks(r) ==
  /\ request[r].pc = "create"
  /\ IF Replayable(r) THEN Replays(r)
     ELSE GoesOn(r, IF request[r].focused THEN "count" ELSE "insert") /\ UNCHANGED holder
  /\ UNCHANGED <<stored, remembered, sent, effects>>

\* The gates on mode, channels and evidence; the evidence may have expired.
CreateRefused(r) ==
  /\ request[r].pc = "insert" /\ Ends(r)
  /\ UNCHANGED <<stored, remembered, sent, effects>>

FreeIds == {w \in WatchIds : stored[w].status = "none"}
CreateCommits(r) ==
  /\ request[r].pc = "insert"
  /\ IF KeyTaken("create", request[r].key)
     THEN /\ IF Replayable(r) THEN Replays(r) ELSE Ends(r)
          /\ UNCHANGED <<stored, remembered, effects>>
     ELSE \E w \in FreeIds :
            /\ \A v \in FreeIds : w <= v
            /\ stored' = [stored EXCEPT ![w] = [status |-> "DRAFT", focused |-> request[r].focused]]
            /\ TakesEffect("create", request[r].key, w, request[r].focused)
            /\ Created(r, w)
  /\ UNCHANGED sent

CreateAnswered(r) ==
  /\ request[r].pc = "created" /\ Replies(r) /\ SameRows /\ UNCHANGED sent

-----------------------------------------------------------------------------
(* ensure_focused_observation_capacity: the focused watches are counted    *)
(* under their row locks.  The statement waits for rows of its snapshot    *)
(* and reads those again; rows that came later it does not see.            *)

IsFocused(w) == IsStored(w) /\ stored[w].focused /\ stored[w].status \notin EndedStatuses
IsUpdate(r) == "watch" \in DOMAIN request[r]
CountedFor(r) == {w \in WatchIds : IsFocused(w) /\ (IsUpdate(r) => request[r].watch # w)}

CapacitySelects(r) ==
  /\ request[r].pc = "count"
  /\ request' = [request EXCEPT ![r] = [x \in DOMAIN request[r] \union {"rows"} |->
       IF x = "rows" THEN CountedFor(r) ELSE IF x = "pc" THEN "lock" ELSE request[r][x]]]
  /\ SameRows /\ UNCHANGED sent

CapacityLocks(r) ==
  /\ request[r].pc = "lock" /\ \A w \in request[r].rows : Unlocked(r, w)
  /\ LET live == {w \in request[r].rows : IsFocused(w)} IN
     IF Cardinality(live) >= MaxFocused THEN Ends(r)
     ELSE /\ GoesOn(r, IF IsUpdate(r) THEN "write" ELSE "insert")
          /\ holder' = [w \in WatchIds |-> IF w \in live THEN r ELSE holder[w]]
  /\ UNCHANGED <<stored, remembered, sent, effects>>

-----------------------------------------------------------------------------
(* The commands on a watch that exists.                                    *)

\* _find_watch_or_404, and for a deletion the status that was read.
Finds(r) ==
  /\ request[r].pc = "find"
  /\ LET w == request[r].watch IN
     IF ~ IsStored(w) THEN Replies(r)
     ELSE IF request[r].scope = "delete" /\ stored[w].status \notin {"DRAFT", "EXPIRED", "FAILED"}
     THEN Replies(r)
     ELSE GoesOn(r, request[r].scope)
  /\ SameRows /\ UNCHANGED sent

\* decide_watch_transition with the target of the command.
MayMove(scope, w) == CommandTargets[scope] \in WatchEdges[stored[w].status]

\* cancel_watch refuses what the reservation claim has begun.
CancelBlocked(scope, w) ==
  scope = "cancel" /\ stored[w].status \in {"RESERVING", "PAYMENT_REQUIRED"}

\* apply_watch_transition: a key that took effect before, a target that is
\* reached already and one that is out of reach change nothing.
Applies(scope, key, w) ==
  IF KeyTaken(scope, key) \/ ~ MayMove(scope, w)
  THEN UNCHANGED <<stored, remembered, effects>>
  ELSE /\ stored' = [stored EXCEPT ![w].status = CommandTargets[scope]]
       /\ TakesEffect(scope, key, w, TRUE)

\* transition_watch and cancel_watch, from the row lock to the commit.
Transitions(r) ==
  /\ request[r].pc \in DOMAIN CommandTargets /\ Unlocked(r, request[r].watch)
  /\ LET w == request[r].watch
         scope == request[r].scope
     IN IF IsStored(w) /\ ~ CancelBlocked(scope, w) THEN Applies(scope, request[r].key, w)
        ELSE UNCHANGED <<stored, remembered, effects>>
  /\ Replies(r) /\ UNCHANGED <<holder, sent>>

\* watches_delete: the row goes whatever its status has become.
Deletes(r) ==
  /\ request[r].pc = "delete" /\ Unlocked(r, request[r].watch)
  /\ stored' = [stored EXCEPT ![request[r].watch] = [Unstored EXCEPT !.status = "deleted"]]
  /\ Replies(r) /\ UNCHANGED <<holder, remembered, sent, effects>>

\* update_watch: the row lock, and what may be edited.
Editable == DOMAIN WatchEdges \ (EndedStatuses \union {"RESERVING", "PAYMENT_REQUIRED"})
UpdateLocks(r) ==
  /\ request[r].pc \in {"focus", "relax"} /\ Unlocked(r, request[r].watch)
  /\ LET w == request[r].watch IN
     IF stored[w].status \notin Editable THEN Ends(r) /\ UNCHANGED stored
     ELSE IF request[r].pc = "focus" /\ ~ stored[w].focused
     THEN GoesOn(r, "count") /\ holder' = [holder EXCEPT ![w] = r] /\ UNCHANGED stored
     ELSE stored' = [stored EXCEPT ![w].focused = (request[r].pc = "focus")] /\ Ends(r)
  /\ UNCHANGED <<remembered, sent, effects>>
UpdateCommits(r) ==
  /\ request[r].pc = "write"
  /\ stored' = [stored EXCEPT ![request[r].watch].focused = TRUE]
  /\ Ends(r) /\ UNCHANGED <<remembered, sent, effects>>

\* The workers and the schedules move a watch under its row lock.
WorkerMoves(w, target) ==
  /\ IsStored(w) /\ holder[w] = NoHolder /\ target \in WatchEdges[stored[w].status]
  /\ stored' = [stored EXCEPT ![w].status = target]
  /\ UNCHANGED <<holder, remembered, sent, request, effects>>

-----------------------------------------------------------------------------
CommandsNext ==
  \/ \E r \in Serving :
       \/ \E e \in EvidenceIds, focused \in BOOLEAN : SendsCreate(r, e, focused)
       \/ \E scope \in {"start", "pause"}, k \in CommandKeys, w \in WatchIds :
            SendsCommand(r, scope, k, w)
       \/ \E scope \in {"cancel", "delete", "focus", "relax"}, w \in WatchIds :
            SendsOther(r, scope, w)
       \/ CreateLooks(r) \/ CreateRefused(r) \/ CreateCommits(r) \/ CreateAnswered(r)
       \/ CapacitySelects(r) \/ CapacityLocks(r)
       \/ Finds(r) \/ Transitions(r) \/ Deletes(r) \/ UpdateLocks(r) \/ UpdateCommits(r)
  \/ \E w \in WatchIds, target \in WorkerTargets : WorkerMoves(w, target)

CommandsSpec == CommandsInit /\ [][CommandsNext]_commandVars

\* A command takes effect once, however often it is sent and however its copies
\* overlap: one watch for a registration, and a copy of an old start that comes
\* late does not start a watch the user has paused since.
KeysActOnce == \A k \in ScopedKeys : effects[k] <= 1

\* What update_application.py says when it refuses; the code disagrees when
\* two watches become focused at a time.
FocusedLimit == Cardinality({w \in WatchIds : IsFocused(w)}) <= MaxFocused
=============================================================================
