------------------------- MODULE ProviderSessions ---------------------------
(***************************************************************************)
(* The session manager of the API: every ten seconds it looks at the       *)
(* stored account and at the login session of the sidecar, and logs in     *)
(* when it has to. It runs beside the users and the bookings of            *)
(* LoginSessions; the watch resumes, and the API and the sidecar restart.  *)
(***************************************************************************)
EXTENDS LoginSessions

(* The manager: recover_provider_sessions_once.                             *)

ManagerIdle == [at |-> "idle", row |-> NoRailAccount(0), recovers |-> FALSE, answer |-> "none"]
GoesIdle == manager' = ManagerIdle
Goes(there) == manager' = [manager EXCEPT !.at = there]
Mine == manager.row.version
ManagerElse == UNCHANGED <<saving, accountUse>>

\* The account is read, and a halt in it is taken over before anything is decided.
\* Mutant of Rehydrated: a restart begins with no fence.
RehydratedNever(reg) == reg
Rehydrated(reg) ==
  IF Halted(railAccount) THEN [reg EXCEPT !.halted = HaltFence(railAccount)] ELSE reg
LoadAccount ==
  /\ manager.at = "idle" /\ UNCHANGED <<railAccount, official>> /\ CallWorks /\ ManagerElse
  /\ IF ~railAccount.on
       THEN /\ prewarm' = [FreshRegistry EXCEPT !.deferred = prewarm.deferred] /\ GoesIdle
       ELSE LET reg == Rehydrated(Forgotten(prewarm, railAccount.version))
                recovers == railAccount.auth \in Recoverable /\ MayRecover(reg, railAccount)
            IN /\ prewarm' = reg
               /\ manager' = [at |-> IF recovers THEN "restore" ELSE IF railAccount.auth \in Recoverable THEN "idle" ELSE "look",
                              row |-> railAccount, recovers |-> recovers, answer |-> "none"]
  /\ owed' = StillOwed(owed)

\* Whether a login is asked for now, from a registry brought up to date.
StartsWait(reg) ==
  /\ ~HasClock(reg, Mine)
  /\ IF manager.recovers THEN manager.row.auth = "provider_blocked" ELSE reg.halted = HaltFence(manager.row)
Bypasses(reg) ==
  manager.recovers /\ manager.row.auth # "provider_blocked" /\ Count(reg, manager.row.rev).started = 0
Decide(reg) ==
  CASE StartsWait(reg) -> prewarm' = Finished(reg, Mine, "provider_blocked") /\ GoesIdle
    [] ~StartsWait(reg) /\ AdmitsPrewarm(Forgotten(reg, Mine), Mine, Bypasses(reg)) ->
         prewarm' = Forgotten(reg, Mine) /\ Goes("ask")
    [] OTHER -> prewarm' = Forgotten(reg, Mine) /\ GoesIdle

\* _restore_locally_reusable_session: a session that is there is written down at once.
MineIsReady == official.state = "ready" /\ official.version = Mine
FindSession ==
  /\ manager.at = "restore" /\ UNCHANGED <<railAccount, official>> /\ ManagerElse
  /\ \/ MineIsReady /\ CallWorks /\ Goes("restoring") /\ prewarm' = prewarm
     \/ ~MineIsReady /\ CallWorks /\ Decide(prewarm)
     \/ MineIsReady /\ CallFails /\ Decide(prewarm)
  /\ owed' = StillOwed(owed)

\* The write of a verified login: done, of an old version, or failed.
StatusAfter(outcome) ==
  \/ outcome = "authenticated" /\ Current(Mine) /\ StatusWritten("authenticated") /\ CallWorks
  \/ outcome = "not_checked" /\ ~Current(Mine) /\ UNCHANGED railAccount /\ CallWorks
  \/ outcome = "failed" /\ UNCHANGED railAccount /\ CallFails
RestoreSession(outcome) ==
  /\ manager.at = "restoring" /\ StatusAfter(outcome) /\ GoesIdle
  /\ prewarm' = Attempted(Started(SubmissionAnswered(prewarm), manager.row.rev), manager.row.rev)
  /\ owed' = IF outcome = "authenticated" THEN {} ELSE StillOwed(owed)
  /\ UNCHANGED official /\ ManagerElse

\* A session that was just verified supersedes the halt, and ends the waiting.
Superseded(reg) == [reg EXCEPT !.halted = NoHalt]
ProvenNow(reg) == Superseded([reg EXCEPT !.clock = NoClock, !.unanswered = 0])
LookAtBlocked ==
  /\ official.state = "blocked"
  /\ IF ~HasClock(prewarm, Mine)
       THEN prewarm' = Finished(prewarm, Mine, "provider_blocked") /\ GoesIdle
       ELSE IF prewarm.clock.over THEN Decide(prewarm) ELSE UNCHANGED prewarm /\ GoesIdle
  /\ owed' = StillOwed(owed)
\* has_session_keepalive_demand: a watch may still book, or none, or the lookup fails.
Demand == BOOLEAN
LookAtReady(demand) ==
  /\ MineIsReady /\ official.age # "ending" /\ owed' = {}
  /\ LET due == official.age = "idle"
         reg == IF due THEN Superseded(prewarm) ELSE ProvenNow(prewarm)
     IN IF Halted(manager.row) THEN prewarm' = reg /\ Goes(IF due /\ demand THEN "clearToProbe" ELSE "clear")
        ELSE IF due /\ demand THEN Decide(reg) ELSE prewarm' = reg /\ GoesIdle
LookAtSession(demand) ==
  /\ manager.at = "look" /\ UNCHANGED <<railAccount, official>> /\ ManagerElse
  /\ \/ IsAuthenticating /\ CallWorks /\ GoesIdle /\ UNCHANGED <<prewarm, owed>>
     \/ LookAtBlocked /\ CallWorks
     \/ LookAtReady(demand) /\ CallWorks
     \/ /\ ~IsAuthenticating /\ official.state # "blocked" /\ (MineIsReady => official.age = "ending")
        /\ CallWorks /\ Decide(prewarm) /\ owed' = StillOwed(owed)
     \/ CallFails /\ Decide(prewarm) /\ owed' = StillOwed(owed)

\* clear_provider_protection_halt: only the halt that was read, on the revision read.
HaltIsAsRead == HaltFence(railAccount) = HaltFence(manager.row) /\ Halted(railAccount)
ClearHalt ==
  /\ manager.at \in {"clear", "clearToProbe"} /\ UNCHANGED official /\ ManagerElse
  /\ \/ /\ HaltIsAsRead
        /\ railAccount' = [railAccount EXCEPT !.halt = NoHalt] /\ CallWorks
     \/ ~HaltIsAsRead /\ UNCHANGED railAccount /\ CallWorks
     \/ CallFails /\ UNCHANGED railAccount
  /\ IF manager.at = "clearToProbe" THEN Decide(prewarm) ELSE GoesIdle /\ UNCHANGED prewarm
  /\ owed' = StillOwed(owed)

\* The prewarm call: the sidecar proves the session it has, or logs in.
AskProbe ==
  /\ manager.at = "ask" /\ Probed(Mine) /\ manager' = [manager EXCEPT !.at = "answered", !.answer = "authenticated"]
  /\ UNCHANGED <<railAccount, prewarm, mishaps, owed>> /\ ManagerElse
AskLogin ==
  /\ manager.at = "ask" /\ LoginBegins("manager", Mine) /\ Goes("asked")
  /\ UNCHANGED <<railAccount, prewarm, mishaps, owed>> /\ ManagerElse
\* No call is admitted: the provider cools down, or a background login came too soon.
AskDeferred ==
  /\ manager.at = "ask" /\ GoesIdle /\ prewarm' = [prewarm EXCEPT !.deferred = TRUE]
  /\ UNCHANGED <<railAccount, official, mishaps, owed>> /\ ManagerElse
LoginAnswers(answer) ==
  /\ manager.at = "asked" /\ LoginEnds("manager", answer)
  /\ manager' = [manager EXCEPT !.at = "answered", !.answer = answer]
  /\ UNCHANGED <<railAccount, prewarm, mishaps, owed>> /\ ManagerElse
CallLost ==
  /\ manager.at \in {"ask", "asked"} /\ CallFails
  /\ official' = IF manager.at = "asked" /\ official.by = "manager" THEN [official EXCEPT !.by = "nobody"] ELSE official
  /\ manager' = [manager EXCEPT !.at = "answered", !.answer = "failed"]
  /\ UNCHANGED <<railAccount, prewarm, owed>> /\ ManagerElse

\* finish_prewarm and what follows it in the same step.
Counted(reg, answer) ==
  LET started == IF manager.recovers THEN Started(reg, manager.row.rev) ELSE reg
  IN IF manager.recovers /\ answer \notin {"failed", "not_checked"} THEN Attempted(started, manager.row.rev) ELSE started
ProtectsRow(answer) == answer = "provider_blocked" /\ ~manager.recovers
ConcludePrewarm(answer, kind) ==
  LET noted == IF kind = "unanswered" THEN Unanswered(prewarm, Mine) ELSE SubmissionAnswered(prewarm)
      ended == Counted(Finished(noted, Mine, answer), answer)
      verdict == answer = "provider_blocked" /\ railAccount.rev = manager.row.rev
  IN /\ prewarm' = IF ProtectsRow(answer) THEN [ended EXCEPT !.halted = HaltFence(manager.row)] ELSE ended
     /\ IF ProtectsRow(answer) THEN Goes("persist") ELSE GoesIdle
     /\ owed' = IF answer = "authenticated" THEN {}
                ELSE StillOwed(owed) \union (IF verdict THEN {Debt("manager", FALSE, TRUE)} ELSE {})
ConcludeLogin(outcome) ==
  /\ manager.at = "answered" /\ manager.answer = "authenticated" /\ StatusAfter(outcome)
  /\ ConcludePrewarm(outcome, outcome) /\ UNCHANGED official /\ ManagerElse
ConcludeRefusal ==
  /\ manager.at = "answered" /\ manager.answer \notin {"authenticated", "deferred"}
  /\ ConcludePrewarm(IF manager.answer = "unanswered" THEN "failed" ELSE manager.answer, manager.answer)
  /\ UNCHANGED <<railAccount, official>> /\ CallWorks /\ ManagerElse
ConcludeDeferred ==
  /\ manager.at = "answered" /\ manager.answer = "deferred" /\ GoesIdle
  /\ prewarm' = [prewarm EXCEPT !.deferred = TRUE]
  /\ UNCHANGED <<railAccount, official, mishaps, owed>> /\ ManagerElse

\* record_provider_protection_halt: on the revision that met the protection.
RecordsHalt == railAccount' = [railAccount EXCEPT !.halt = HaltFence(manager.row)]
PersistHalt ==
  /\ manager.at = "persist" /\ GoesIdle
  /\ \/ /\ HaltFence(railAccount) = HaltFence(manager.row) /\ RecordsHalt /\ CallWorks
        /\ owed' = {[d EXCEPT !.durable = TRUE] : d \in owed}
     \/ HaltFence(railAccount) # HaltFence(manager.row) /\ CallWorks /\ UNCHANGED <<railAccount, owed>>
     \/ CallFails /\ UNCHANGED <<railAccount, owed>>
  /\ UNCHANGED <<official, prewarm>> /\ ManagerElse

-----------------------------------------------------------------------------
(* Restarts.                                                                *)

\* What the API knew is lost; a halt that was not written is lost with it.
ApiRestarts ==
  /\ CallFails /\ prewarm' = FreshRegistry /\ GoesIdle /\ saving' = 0
  /\ official' = IF IsAuthenticating /\ official.by \in {"manager", "user"} THEN [official EXCEPT !.by = "nobody"] ELSE official
  /\ owed' = {[d EXCEPT !.timed = FALSE] : d \in {o \in owed : o.durable}}
  /\ UNCHANGED <<railAccount, accountUse>>
SessionsSidecarRestarts ==
  /\ CallFails /\ official' = Cold
  /\ manager' = IF manager.at = "asked" THEN [manager EXCEPT !.at = "answered", !.answer = "failed"] ELSE manager
  /\ saving' = 0 /\ accountUse' = 0
  /\ UNCHANGED <<railAccount, prewarm, owed>>

SessionsInit ==
  /\ railAccount = [version |-> 1, on |-> TRUE, auth |-> "authenticated", rev |-> 1, halt |-> NoHalt]
  /\ official = Cold /\ prewarm = FreshRegistry /\ manager = ManagerIdle
  /\ saving = 0 /\ accountUse = 0 /\ mishaps = 0 /\ owed = {}

SessionsNext ==
  \/ ClockRunsOut \/ CooldownRunsOut \/ SessionAges
  \/ \E answer \in Answers : OrphanLoginEnds(answer)
  \/ BeginSaving \/ DeleteAccount
  \/ \E answer \in Answers, on \in BOOLEAN : EndSaving(answer, on)
  \/ BeginBooking
  \/ \E answer \in Answers : EndBooking(answer)
  \/ LoadAccount \/ FindSession \/ ClearHalt
  \/ \E outcome \in {"authenticated", "not_checked", "failed"} : RestoreSession(outcome) \/ ConcludeLogin(outcome)
  \/ \E demand \in Demand : LookAtSession(demand)
  \/ AskProbe \/ AskLogin \/ AskDeferred \/ CallLost
  \/ \E answer \in Answers : LoginAnswers(answer)
  \/ ConcludeRefusal \/ ConcludeDeferred \/ PersistHalt
  \/ ApiRestarts \/ SessionsSidecarRestarts

SessionsSpec == SessionsInit /\ [][SessionsNext]_sessionsVars

-----------------------------------------------------------------------------
(* Properties.                                                              *)

Submits == official'.state = "authenticating" /\ official'.by = "manager" /\ official' # official
Owing(who) == \E d \in owed : d.who = who
\* Once the provider has answered a login of the manager with its protection, the
\* manager sends the same account no further login before a protection backoff has
\* passed; the revision's halt keeps this true when the API restarts in between
\* (halt_after_protection_verdict, _persist_protection_halt, "a restart must wait out
\* the protection backoff").
ProtectionIsWaitedOut ==
  [][Submits => ~(Owing("manager") /\ railAccount.rev = manager.row.rev)]_sessionsVars
=============================================================================
