-------------------------- MODULE ProviderCooldown --------------------------
(***************************************************************************)
(* The provider-wide hold of the KORAIL sidecar: a Redis record that every *)
(* process and every restart sees, and the copy in the memory of this      *)
(* process that fills in when a write to Redis was not confirmed.          *)
(*                                                                         *)
(* The operators below are the calls of RedisProviderCooldown.  They are   *)
(* steps of the modules that make the calls.  A call is one step: the      *)
(* calls of a process are serialised by a lock that is held across the     *)
(* Redis command.  A command is answered, or it fails; a failed one may    *)
(* have been applied all the same.                                         *)
(***************************************************************************)
EXTENDS Naturals

CONSTANTS
  QueryHold,       \* ticks of a hold after an outage page
  ProtectionHold,  \* ticks of a hold after a protection or rate limit page
  LoginHold,       \* ticks after the 1st, 2nd and 3rd failed login in a row
  LoginInterval,   \* least ticks between a submission and a background login
  MaxNow,          \* bound: the clock of the model stops here
  MaxFaults        \* bound: Redis commands that fail

ASSUME CooldownAssumption ==
  /\ QueryHold \in Nat \ {0} /\ ProtectionHold \in Nat \ {0}
  /\ LoginHold \in [1 .. 3 -> Nat \ {0}]
  /\ \A i, j \in 1 .. 3 : i <= j => LoginHold[i] <= LoginHold[j]
  /\ LoginInterval \in Nat /\ MaxNow \in Nat /\ MaxFaults \in Nat

VARIABLES
  now,          \* wall clock, shared by Redis and the processes
  store,        \* the record in Redis
  fallback,     \* the copy in memory
  storeFailed,  \* a write was not confirmed and has not been made up for
  ledger,       \* Redis: when credentials were last submitted (0: never)
  noted,        \* memory: the same
  faults,       \* commands that failed so far
  due           \* history: end of the holds this process was told of in full,
                \*   or that Redis knows

cooldownVars ==
  <<now, store, fallback, storeFailed, ledger, noted, faults, due>>

Record == [until : Nat, restricted : BOOLEAN, count : 0 .. 3]
Empty == [until |-> 0, restricted |-> FALSE, count |-> 0]

Later(a, b) == IF a < b THEN b ELSE a
UpToThree(n) == IF n > 3 THEN 3 ELSE n

\* The longer hold stands; of two that end together, the protection hold.
\* Mutant of Open: the newer hold stands.
OpenNewest(record, until, restricted) == [record EXCEPT !.until = until, !.restricted = restricted]
Open(record, until, restricted) ==
  IF until > record.until \/ (until = record.until /\ restricted)
    THEN [record EXCEPT !.until = until, !.restricted = restricted]
    ELSE record

\* What _SCRIPT makes of a record for the three kinds of evidence.  known is
\* the number of failed logins the caller knows of, this one included.
Scripted(record, kind, known) ==
  LET failed == UpToThree(Later(record.count + 1, known)) IN
  CASE kind = "query"      -> Open(record, now + QueryHold, FALSE)
    [] kind = "protection" -> Open(record, now + ProtectionHold, TRUE)
    [] kind = "login"      -> Open([record EXCEPT !.count = failed],
                                   now + LoginHold[failed], FALSE)

Remembered(kind) == Scripted(fallback, kind, 0)
Written(kind) == Scripted(store, kind, Remembered(kind).count)
HoldOf(kind) == CASE kind = "query"      -> QueryHold
                  [] kind = "protection" -> ProtectionHold
                  [] kind = "login"      -> LoginHold[Remembered(kind).count]

CooldownInit ==
  /\ now = 1 /\ store = Empty /\ fallback = Empty /\ storeFailed = FALSE
  /\ ledger = 0 /\ noted = 0 /\ faults = 0 /\ due = 0

CommandAnswered == faults' = faults
CommandFails == faults < MaxFaults /\ faults' = faults + 1

\* Evidence of an outage, a protection page or a failed login.  When Redis does
\* not answer, the process remembers that it owes the write.
Observe(kind) ==
  /\ due' = Later(due, now + HoldOf(kind))
  /\ \/ /\ CommandAnswered
        /\ store' = Written(kind)
        /\ fallback' = [Remembered(kind) EXCEPT !.count = store'.count]
        /\ UNCHANGED storeFailed
     \/ /\ CommandFails
        /\ store' \in {store, Written(kind)}
        /\ fallback' = Remembered(kind)
        /\ storeFailed' = TRUE
  /\ UNCHANGED <<now, ledger, noted>>

\* The same call, cut short by a deadline or a cancellation while the command
\* is under way: CancelledError is no Exception and nothing is owed afterwards.
ObserveCut(kind) ==
  /\ store' \in {store, Written(kind)}
  /\ fallback' = Remembered(kind)
  /\ due' = Later(due, store'.until)
  /\ UNCHANGED <<now, storeFailed, ledger, noted, faults>>

\* Official proof of a login ends the sequence of failures, not the hold.
AuthenticationSucceeded ==
  /\ \/ /\ CommandAnswered
        /\ store' = [store EXCEPT !.count = 0]
        /\ UNCHANGED storeFailed
     \/ /\ CommandFails
        /\ store' \in {store, [store EXCEPT !.count = 0]}
        /\ storeFailed' = TRUE
  /\ fallback' = [fallback EXCEPT !.count = 0]
  /\ UNCHANGED <<now, ledger, noted, due>>

\* An owed write is made up for before the record is read: the longer hold and
\* the higher count stand.
Confirmed ==
  IF storeFailed
    THEN Open([store EXCEPT !.count = Later(store.count, fallback.count)],
              Later(fallback.until, now), fallback.restricted)
    ELSE store

Admitted == Confirmed.until <= now

\* check(): the record is read, or the call is refused for want of an answer.
CheckAnswers ==
  /\ CommandAnswered
  /\ store' = Confirmed
  /\ storeFailed' = FALSE
  /\ fallback' = [fallback EXCEPT !.count = Confirmed.count]
  /\ UNCHANGED <<now, ledger, noted, due>>
CheckAdmits == Admitted /\ CheckAnswers
CheckRefuses ==
  \/ ~Admitted /\ CheckAnswers
  \/ /\ CommandFails
     /\ store' \in {store, Confirmed}
     /\ UNCHANGED <<now, fallback, storeFailed, ledger, noted, due>>

\* Logins that can wait keep their distance from the last submission, seen from
\* Redis and from this process.
Paced(last) == last = 0 \/ last + LoginInterval <= now
LoginAdmits ==
  /\ LoginInterval = 0 \/ (Paced(ledger) /\ Paced(noted))
  /\ UNCHANGED cooldownVars
LoginDefers ==
  /\ LoginInterval # 0
  /\ \/ CommandAnswered /\ ~(Paced(ledger) /\ Paced(noted))
     \/ CommandFails
  /\ UNCHANGED <<now, store, fallback, storeFailed, ledger, noted, due>>
RecordLogin ==
  /\ noted' = now
  /\ \/ CommandAnswered /\ ledger' = now
     \/ CommandFails /\ ledger' \in {ledger, now}
  /\ UNCHANGED <<now, store, fallback, storeFailed, due>>

\* The process ends and another takes over: only Redis remembers.
ProcessRestarts ==
  /\ fallback' = Empty /\ storeFailed' = FALSE /\ noted' = 0
  /\ due' = store.until
  /\ UNCHANGED <<now, store, ledger, faults>>

CooldownTick ==
  /\ now < MaxNow /\ now' = now + 1
  /\ UNCHANGED <<store, fallback, storeFailed, ledger, noted, faults, due>>

CooldownTypeOK ==
  /\ now \in Nat /\ due \in Nat /\ ledger \in Nat /\ noted \in Nat /\ faults \in Nat
  /\ store \in Record /\ fallback \in Record
  /\ storeFailed \in BOOLEAN
=============================================================================
