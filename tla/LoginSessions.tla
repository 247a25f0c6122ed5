--------------------------- MODULE LoginSessions ----------------------------
(***************************************************************************)
(* The stored KORAIL account, what the API remembers of its logins, and    *)
(* the login session of the sidecar; and beside the session manager        *)
(* (ProviderSessions) the user, who verifies and saves new credentials,    *)
(* and the bookings, which log in and report what they found. A revision   *)
(* of the account is one value of updated_at: every write of a login       *)
(* status makes a new one.                                                 *)
(***************************************************************************)
EXTENDS Integers, FiniteSets

CONSTANTS
  RecoveryAttempts,  \* AUTH_RECOVERY_MAX_ATTEMPTS
  MaxRevision,       \* bound: login statuses written
  MaxFailures        \* bound: restarts, writes and answers that fail

ASSUME SessionsAssumption == RecoveryAttempts \in Nat /\ MaxRevision \in Nat \ {0} /\ MaxFailures \in Nat

VARIABLES
  railAccount, \* the account in the database
  official,    \* the login session of the sidecar
  prewarm,     \* ProviderRuntimePrewarmRegistry
  manager,     \* the run of the manager: where it is, and the account it has read
  saving,      \* the request of the user that verifies a login; 0, or its version
  accountUse,  \* the login of a booking; 0, or its version
  mishaps,     \* failures so far
  owed         \* history: revisions whose logins owe a wait, and who met the protection

sessionsVars == <<railAccount, official, prewarm, manager, saving, accountUse, mishaps, owed>>

CallFails == mishaps < MaxFailures /\ mishaps' = mishaps + 1
CallWorks == UNCHANGED mishaps

-----------------------------------------------------------------------------
(* The account.                                                             *)

Recoverable == {"auth_required", "provider_blocked"}
NoHalt == [version |-> 0, rev |-> 0]
NoRailAccount(rev) == [version |-> 0, on |-> FALSE, auth |-> "not_checked", rev |-> rev, halt |-> NoHalt]
HaltFence(account) == [version |-> account.version, rev |-> account.rev]
Halted(account) == account.halt # NoHalt /\ account.halt = HaltFence(account)

\* update_provider_auth_status: a result of another version changes nothing.
Current(version) == railAccount.version = version
StatusWritten(status) ==
  /\ railAccount.rev < MaxRevision
  /\ railAccount' = [railAccount EXCEPT !.auth = status, !.rev = @ + 1,
                        !.halt = IF status = "authenticated" THEN NoHalt ELSE @]

-----------------------------------------------------------------------------
(* The registry, lost when the API restarts.                                *)

NoClock == [version |-> 0, wait |-> "none", over |-> FALSE]
NoCount == [rev |-> 0, started |-> 0, verdicts |-> 0]
FreshRegistry == [clock |-> NoClock, unanswered |-> 0, deferred |-> FALSE, halted |-> NoHalt, count |-> NoCount]

Count(reg, rev) == IF reg.count.rev = rev THEN reg.count ELSE [NoCount EXCEPT !.rev = rev]
Started(reg, rev) == [reg EXCEPT !.count = [Count(reg, rev) EXCEPT !.started = IF @ = 0 THEN 1 ELSE @]]
\* The count stops where more would change nothing.
Attempted(reg, rev) ==
  [reg EXCEPT !.count = [Count(reg, rev) EXCEPT !.verdicts = IF @ < RecoveryAttempts THEN @ + 1 ELSE @]]
MayRecover(reg, account) ==
  account.auth = "provider_blocked" \/ Count(reg, account.rev).verdicts < RecoveryAttempts

\* record_submission_failure: a login sent and not answered has a pace of its own.
Unanswered(reg, version) ==
  [reg EXCEPT !.unanswered = version, !.clock = IF reg.unanswered = version THEN @ ELSE NoClock]
SubmissionAnswered(reg) == [reg EXCEPT !.unanswered = 0, !.clock = IF reg.unanswered = 0 THEN @ ELSE NoClock]

\* backoff_seconds: from 30 minutes on after protection, from one minute after a
\* rejection, from 5 seconds after a failure of our own.
Wait(reg, version, outcome) ==
  CASE outcome = "provider_blocked" -> "protection"
    [] outcome = "failed" /\ reg.unanswered = version -> "unanswered"
    [] outcome \in {"failed", "not_checked"} -> "local"
    [] OTHER -> "rejection"
Clocked(reg, version, outcome) ==
  [reg EXCEPT !.clock = [version |-> version, wait |-> Wait(reg, version, outcome), over |-> FALSE]]
\* finish_prewarm.
Finished(reg, version, outcome) ==
  CASE outcome = "authenticated" -> [reg EXCEPT !.clock = NoClock, !.unanswered = 0]
    [] outcome = "none" -> reg
    [] outcome = "failed" -> Clocked(reg, version, outcome)
    [] OTHER -> Clocked(SubmissionAnswered(reg), version, outcome)

HasClock(reg, version) == reg.clock.version = version
\* begin_prewarm, with its own forgetting of an unanswered login of another version.
Forgotten(reg, version) == IF reg.unanswered \in {0, version} THEN reg ELSE SubmissionAnswered(reg)
AdmitsPrewarm(reg, version, bypass) ==
  /\ ~reg.deferred
  /\ \/ bypass /\ reg.unanswered = 0
     \/ ~HasClock(reg, version)
     \/ reg.clock.over

-----------------------------------------------------------------------------
(* What is owed: after a protection verdict a login waits out a protection  *)
(* backoff that began after it.  A new revision owes nothing.               *)

Debt(who, durable, timed) == [who |-> who, durable |-> durable, timed |-> timed]
TimedBy(clock) == clock.wait = "protection" /\ ~clock.over
\* A clock that starts times every debt, and one that is replaced or lost none.
StillOwed(debts) ==
  IF prewarm'.clock = prewarm.clock THEN debts
  ELSE {[d EXCEPT !.timed = TimedBy(prewarm'.clock)] : d \in debts}

\* Time: the clock of a failure runs out; so does a cooldown of the provider.
ClockRunsOut ==
  /\ prewarm.clock # NoClock /\ ~prewarm.clock.over
  /\ prewarm' = [prewarm EXCEPT !.clock.over = TRUE]
  /\ owed' = IF TimedBy(prewarm.clock) THEN {d \in owed : ~d.timed} ELSE owed
  /\ UNCHANGED <<railAccount, official, manager, saving, accountUse, mishaps>>
CooldownRunsOut ==
  /\ prewarm.deferred /\ prewarm' = [prewarm EXCEPT !.deferred = FALSE]
  /\ UNCHANGED <<railAccount, official, manager, saving, accountUse, mishaps, owed>>

-----------------------------------------------------------------------------
(* The login session of the sidecar; its lock lets one login in at a time.  *)

Cold == [state |-> "cold", version |-> 0, age |-> "none", by |-> "none"]
Ready(version) == [state |-> "ready", version |-> version, age |-> "fresh", by |-> "none"]
Answers == {"authenticated", "auth_required", "provider_blocked", "failed", "unanswered", "deferred"}
After(answer) ==
  CASE answer = "authenticated" -> Ready(official.version)
    [] answer = "auth_required" -> [official EXCEPT !.state = "auth_required", !.by = "none"]
    [] answer = "provider_blocked" -> [official EXCEPT !.state = "blocked", !.by = "none"]
    [] OTHER -> [official EXCEPT !.state = "stale", !.by = "none"]

IsAuthenticating == official.state = "authenticating"
LoginBegins(by, version) ==
  /\ ~IsAuthenticating
  /\ official' = [state |-> "authenticating", version |-> version, age |-> "none", by |-> by]
LoginEnds(by, answer) == IsAuthenticating /\ official.by = by /\ official' = After(answer)
\* A session that proves itself needs no login.
Probed(version) ==
  official.state = "ready" /\ official.version = version /\ official' = Ready(version)

\* Idle for the keepalive interval, near the end of its reuse, and past it.
SessionAges ==
  /\ official.state = "ready"
  /\ official' = CASE official.age = "fresh" -> [official EXCEPT !.age = "idle"]
                   [] official.age = "idle" -> [official EXCEPT !.age = "ending"]
                   [] official.age = "ending" -> [official EXCEPT !.state = "stale", !.age = "none"]
  /\ UNCHANGED <<railAccount, prewarm, manager, saving, accountUse, mishaps, owed>>
\* A login nobody waits for any more ends too.
OrphanLoginEnds(answer) ==
  /\ LoginEnds("nobody", answer)
  /\ UNCHANGED <<railAccount, prewarm, manager, saving, accountUse, mishaps, owed>>

-----------------------------------------------------------------------------
(* The user: verifies new credentials, saves or deletes the account.        *)

BeginSaving ==
  /\ saving = 0 /\ railAccount.rev < MaxRevision /\ saving' = railAccount.version + 1
  /\ LoginBegins("user", railAccount.version + 1)
  /\ UNCHANGED <<railAccount, prewarm, manager, accountUse, mishaps, owed>>
\* upsert_provider_account, if the login was answered authenticated.
SaveAccount(on) ==
  /\ railAccount' = [version |-> saving, on |-> on, auth |-> "authenticated", rev |-> railAccount.rev + 1, halt |-> NoHalt]
  /\ owed' = {}
EndSaving(answer, on) ==
  /\ LoginEnds("user", answer) /\ saving' = 0
  /\ IF answer = "authenticated" /\ saving = railAccount.version + 1 /\ railAccount.rev < MaxRevision
       THEN SaveAccount(on) ELSE UNCHANGED <<railAccount, owed>>
  /\ UNCHANGED <<prewarm, manager, accountUse, mishaps>>
DeleteAccount ==
  /\ railAccount.version # 0 /\ railAccount' = NoRailAccount(railAccount.rev)
  /\ UNCHANGED <<official, prewarm, manager, saving, accountUse, mishaps, owed>>

-----------------------------------------------------------------------------
(* A booking, or a reading of one, logs in when it has to; what it found    *)
(* is written for the version it used.                                      *)

BeginBooking ==
  /\ accountUse = 0 /\ railAccount.on /\ railAccount.auth = "authenticated" /\ accountUse' = railAccount.version
  /\ LoginBegins("booking", railAccount.version)
  /\ UNCHANGED <<railAccount, prewarm, manager, saving, mishaps, owed>>
BookingReports(answer) ==
  IF answer \in Recoverable /\ Current(accountUse)
    THEN /\ StatusWritten(answer)
         /\ owed' = IF answer = "provider_blocked" THEN {Debt("booking", TRUE, FALSE)} ELSE {}
    ELSE UNCHANGED <<railAccount, owed>>
EndBooking(answer) ==
  /\ LoginEnds("booking", answer) /\ accountUse' = 0 /\ BookingReports(answer)
  /\ UNCHANGED <<prewarm, manager, saving, mishaps>>
=============================================================================
