---------------------------- MODULE SessionActor ----------------------------
(***************************************************************************)
(* The authenticated browser of the KORAIL sidecar: one Chrome that is     *)
(* bound to a version of the stored credential, and the calls that use it  *)
(* one at a time under the lock of the authentication actor: a booking, a  *)
(* verification, a prewarm, a reading of the confirmation, the close.      *)
(*                                                                         *)
(* A step of a call ends where the code awaits the browser.  Between two   *)
(* steps the provider may end the login, other actors may open the shared  *)
(* hold, and the reuse time of the browser may run out.                    *)
(***************************************************************************)
EXTENDS Naturals

CONSTANTS
  Versions,     \* versions of the stored credential, numbers from 1
  Fingerprint,  \* what the user entered for each of them
  NoAccount,
  ProfileModes, \* where the cookies live: "ephemeral", "dedicated_auto", "dedicated_manual"
  MaxSessionUses   \* uses of one browser

ASSUME SessionAssumption ==
  /\ Versions \subseteq Nat \ {0} /\ MaxSessionUses \in Nat \ {0}
  /\ ProfileModes \subseteq {"ephemeral", "dedicated_auto", "dedicated_manual"}
  /\ NoAccount \notin {Fingerprint[v] : v \in Versions}

VARIABLES
  mode,    \* the profile mode of this process
  active,  \* the browser: the version it is bound to, the one it is logged in for, its uses
  aged,    \* its reuse time is over
  actor,   \* the state the actor shows
  signed,  \* the account that its cookies are logged in to at the provider
  held,    \* a hold stands in the shared cooldown
  recent,  \* credentials were submitted within the least interval
  op,      \* the call that has the lock
  evidence \* history: the official page proved the login of this browser to op

sessionVars == <<mode, active, aged, actor, signed, held, recent, op, evidence>>
world == <<mode, aged, held, recent>>

NoBrowser == [bound |-> 0, auth |-> 0, uses |-> 0]
NoOp == [kind |-> "none", version |-> 0, at |-> "free", warm |-> FALSE, fresh |-> FALSE, touched |-> FALSE]
States == {"cold", "authenticating", "ready", "stale", "auth_required", "blocked"}
IsOpen == active # NoBrowser
Manual == mode = "dedicated_manual"

SessionInit ==
  /\ mode \in ProfileModes
  /\ active = NoBrowser /\ aged = FALSE /\ actor = "cold" /\ signed = NoAccount
  /\ held = FALSE /\ recent = FALSE /\ op = NoOp /\ evidence = FALSE

-----------------------------------------------------------------------------
\* Steps of the actor.

\* The browser is closed.  A profile of its own may keep the cookies.
CookiesAfterClose == {NoAccount} \union (IF mode = "ephemeral" THEN {} ELSE {signed})
Discard(state) ==
  /\ active' = NoBrowser /\ actor' = state /\ evidence' = FALSE
  /\ signed' \in (IF IsOpen THEN CookiesAfterClose ELSE {signed})

Keep == UNCHANGED <<active, actor, signed>>
Done == op' = NoOp /\ evidence' = FALSE
At(place) == op' = [op EXCEPT !.at = place]

\* acquire_session: the browser there is, if it may be used once more, or a new one.
Reusable == IsOpen /\ ~aged /\ active.uses < MaxSessionUses
Reuse == active' = [active EXCEPT !.uses = @ + 1] /\ UNCHANGED <<actor, signed, aged, evidence>>
Launch ==
  /\ active' = [bound |-> op.version, auth |-> 0, uses |-> 1]
  /\ aged' = FALSE /\ evidence' = FALSE
  /\ actor' = IF active.auth # 0 THEN "stale" ELSE actor
  /\ signed' \in (IF IsOpen THEN CookiesAfterClose ELSE {signed})

Restricting == {"outage", "protected", "unavailable"}

\* How a step of a booking ends that raises: the browser is given up, but for an
\* error of another kind before the first click.
BookingFails(fault) ==
  /\ held' = (held \/ fault \in Restricting)
  /\ IF fault = "error" /\ ~op.touched THEN Keep
     ELSE Discard(IF fault = "protected" THEN "blocked" ELSE "stale")
  /\ Done /\ UNCHANGED <<mode, aged, recent>>

\* The same for a verification.  A browser that waits for the user's own login
\* is kept for it.
VerificationFails(fault) ==
  /\ held' = (held \/ fault \in Restricting)
  /\ IF fault = "manual_login_required"
       THEN /\ active' = [active EXCEPT !.bound = op.version, !.auth = 0]
            /\ actor' = "auth_required" /\ UNCHANGED signed
       ELSE Discard(IF fault = "protected" THEN "blocked" ELSE "stale")
  /\ Done /\ UNCHANGED <<mode, aged, recent>>

Faults == {"source", "outage", "protected", "error"}
SessionFails(fault) ==
  IF op.kind = "reserve"
    THEN BookingFails(IF fault = "manual_login_required" THEN "source" ELSE fault)
    ELSE VerificationFails(fault)

\* A call that finds the hold raises and leaves the browser as it is.
SessionDeferred == held /\ Keep /\ Done /\ UNCHANGED world
SessionCancelled ==
  /\ op.kind # "none" /\ Discard("stale") /\ op' = NoOp /\ UNCHANGED world

-----------------------------------------------------------------------------
\* The calls take the lock.

Take(kind, v) == [NoOp EXCEPT !.kind = kind, !.version = v]
Changed(v) == IsOpen /\ (active.bound # v \/ (active.auth # 0 /\ Fingerprint[active.auth] # Fingerprint[v]))

Reserve(v) ==
  /\ op = NoOp /\ ~held
  /\ op' = [Take("reserve", v) EXCEPT !.at = "acquire"]
  /\ IF Changed(v) THEN Discard("stale") ELSE Keep /\ UNCHANGED evidence
  /\ UNCHANGED world

\* _verify_credentials_locked: what is done with the browser there is.
SessionResumes(v) == Manual /\ IsOpen /\ actor = "auth_required" /\ active.bound = v /\ active.auth = 0
Reverifies(v) ==
  /\ Manual /\ IsOpen /\ actor \in {"ready", "stale"}
  /\ active.auth # 0 /\ Fingerprint[active.auth] = Fingerprint[v]
VerifyLocked(kind, v) ==
  /\ IF SessionResumes(v) \/ Reverifies(v)
       THEN /\ op' = [Take(kind, v) EXCEPT !.at = "login", !.fresh = Reverifies(v)]
            /\ Keep /\ evidence' = FALSE
       ELSE /\ op' = [Take(kind, v) EXCEPT !.at = "acquire"]
            /\ IF IsOpen THEN Discard("stale") ELSE Keep /\ UNCHANGED evidence
  /\ UNCHANGED world
Verify(v) == op = NoOp /\ ~held /\ VerifyLocked("verify", v)

\* A prewarm first asks after a browser that shows itself ready.
IsReady(v) == actor = "ready" /\ active.auth = v /\ Reusable
Prewarm(v) ==
  /\ op = NoOp /\ ~held
  /\ IF IsReady(v)
       THEN op' = [Take("prewarm", v) EXCEPT !.at = "probe", !.warm = TRUE] /\ Keep /\ UNCHANGED <<world, evidence>>
       ELSE VerifyLocked("prewarm", v)

\* read_reservation_detail
Read(v) ==
  /\ op = NoOp /\ ~held /\ active.auth = v
  /\ op' = [Take("read", v) EXCEPT !.at = "read"] /\ Keep /\ UNCHANGED <<world, evidence>>
ReadEnds(how) ==
  /\ op.at = "read" /\ Done
  /\ held' = (held \/ how \in Restricting)
  /\ CASE how \in {"evidence", "rejected_locally"}       -> Keep
       [] how \in {"protected", "provider_blocked"}      -> Discard("blocked")
       [] how = "auth_required"                          -> Discard("auth_required")
       [] how \in {"source", "outage", "error"}          -> Discard("stale")
  /\ UNCHANGED <<mode, aged, recent>>

CloseSession == op = NoOp /\ Discard("cold") /\ UNCHANGED <<world, op>>
SessionRestarts == Discard("cold") /\ op' = NoOp /\ UNCHANGED world

-----------------------------------------------------------------------------
\* The calls go on.

\* Mutant of AsksFirst: a browser that shows itself ready is not asked again.
AsksUnlessReady == active.auth # 0 /\ actor # "ready"
AsksFirst == active.auth # 0
Acquires == op.at = "acquire" \/ (op.at = "again" /\ ~held)
AcquireSession ==
  /\ Acquires /\ UNCHANGED <<mode, held, recent>>
  /\ IF Reusable
       THEN /\ Reuse
            /\ op' = [op EXCEPT !.warm = (active.auth # 0), !.at = IF AsksFirst THEN "probe" ELSE "load"]
       ELSE Launch /\ At("load")
LaunchFails ==
  /\ Acquires /\ ~Reusable
  /\ Discard("stale") /\ op' = NoOp /\ UNCHANGED world

\* probe_reused_authenticated_session.  A booking or a prewarm starts over with a
\* new browser when the page does not confirm the login.
StartsOver == At("again")
ProbeAnswers(answer) ==
  /\ op.at = "probe" /\ ~held
  /\ CASE answer = "yes" ->
            /\ signed # NoAccount /\ actor' = "ready"
            /\ IF op.kind = "prewarm" THEN Done /\ aged' = FALSE
               ELSE At("login") /\ evidence' = TRUE /\ aged' = FALSE
            /\ UNCHANGED <<active, signed, held>>
       [] answer = "no" ->
            signed = NoAccount /\ Discard("stale") /\ StartsOver /\ UNCHANGED <<held, aged>>
       [] answer \in {"source", "outage", "error"} ->
            Discard("stale") /\ StartsOver /\ held' = (answer = "outage") /\ UNCHANGED aged
       [] answer = "protected" ->
            Discard("blocked") /\ op' = NoOp /\ held' = TRUE /\ UNCHANGED aged
  /\ UNCHANGED <<mode, recent>>

Load(fault) ==
  /\ op.at = "load"
  /\ IF fault = "none" THEN At("login") /\ Keep /\ UNCHANGED <<world, evidence>> ELSE SessionFails(fault)

\* ensure_authenticated_session: a browser logged in for this very credential is
\* taken as it is; otherwise the login driver has it.
LoggedIn == active.auth = op.version /\ ~op.fresh
Proceeds == IF op.kind = "reserve" THEN At("go") ELSE op' = NoOp
EnsureLogin ==
  /\ op.at = "login" /\ ~held /\ UNCHANGED <<active, signed, world, evidence>>
  /\ IF LoggedIn THEN actor' = "ready" /\ Proceeds
     ELSE actor' = "authenticating" /\ At("authenticate")

\* The login shows: without a submission, or after it.
Authenticated ==
  /\ op.at \in {"authenticate", "submitted"} /\ signed # NoAccount
  /\ active' = [active EXCEPT !.bound = op.version, !.auth = op.version]
  /\ actor' = "ready" /\ aged' = FALSE
  /\ Proceeds /\ evidence' = (op.kind = "reserve")
  /\ UNCHANGED <<mode, signed, held, recent>>
Refused ==
  /\ op.at \in {"authenticate", "submitted"}
  /\ Discard("auth_required") /\ op' = NoOp /\ UNCHANGED world
LoginRaises(fault) ==
  /\ op.at \in {"authenticate", "form", "submitted"}
  /\ fault = "unavailable" => op.at = "submitted"
  /\ SessionFails(fault)
AsksTheUser == op.at = "authenticate" /\ Manual /\ SessionFails("manual_login_required")

\* A background login is put off for some time after the last submission.  It is
\* admitted before the login page is opened, and recorded before the click.
IsBackground == op.kind = "prewarm"
IsPaced ==
  /\ op.at = "authenticate" /\ ~Manual /\ signed = NoAccount /\ IsBackground /\ recent
  /\ Discard("stale") /\ op' = NoOp /\ UNCHANGED world
Admit ==
  /\ op.at = "authenticate" /\ ~Manual /\ signed = NoAccount /\ ~(IsBackground /\ recent)
  /\ At("form") /\ Keep /\ UNCHANGED <<world, evidence>>
SubmitLogin ==
  /\ op.at = "form" /\ At("submitted") /\ recent' = TRUE
  /\ signed' \in {signed, Fingerprint[op.version]}
  /\ UNCHANGED <<mode, active, aged, actor, held, evidence>>

\* Navigation to the train and everything before the first click.
GoTo(fault) ==
  /\ op.at = "go"
  /\ IF fault = "none" THEN At("book") /\ Keep /\ UNCHANGED <<world, evidence>> ELSE SessionFails(fault)

\* The pages of the booking.  The login page may come up once more before the
\* reservation button; the credential is then submitted in place.
SeatClick == op.at = "book" /\ op' = [op EXCEPT !.at = "seat", !.touched = TRUE] /\ Keep /\ UNCHANGED <<world, evidence>>
LoginInPlace ==
  /\ op.at = "seat" /\ ~Manual /\ signed = NoAccount
  /\ signed' = Fingerprint[op.version] /\ recent' = TRUE
  /\ UNCHANGED <<mode, active, aged, actor, held, op, evidence>>
ReservationClick == op.at = "seat" /\ At("clicked") /\ Keep /\ UNCHANGED <<world, evidence>>
BookingEnds(how) ==
  /\ op.at \in {"book", "seat", "clicked"} /\ Done /\ UNCHANGED world
  /\ CASE how = "payment_required" -> op.at = "clicked" /\ Keep
       [] how = "failed"           -> IF op.touched THEN Discard("stale") ELSE Keep
       [] how = "stopped"          -> IF op.at = "clicked" THEN Discard("stale") ELSE Keep
       [] how = "auth_required"    -> Discard("auth_required")
       [] how = "provider_blocked" -> Discard("blocked")
BookingRaises(fault) == op.at \in {"book", "seat", "clicked"} /\ SessionFails(fault)

HoldFound == op.at \in {"probe", "again", "login"} /\ SessionDeferred

-----------------------------------------------------------------------------
\* What happens around the calls.

LogsOut == IsOpen /\ signed' = NoAccount /\ UNCHANGED <<mode, active, aged, actor, held, recent, op, evidence>>
\* The user logs in by hand, to the account of the credential that was asked for.
UserLogsIn ==
  /\ Manual /\ IsOpen /\ signed' = Fingerprint[active.bound]
  /\ UNCHANGED <<mode, active, aged, actor, held, recent, op, evidence>>
TimeGoesOn ==
  /\ \/ aged' = IsOpen /\ UNCHANGED <<held, recent>>
     \/ held' = ~held /\ UNCHANGED <<aged, recent>>
     \/ recent' = FALSE /\ UNCHANGED <<aged, held>>
  /\ UNCHANGED <<mode, active, actor, signed, op, evidence>>

SessionNext ==
  \/ \E v \in Versions : Reserve(v) \/ Verify(v) \/ Prewarm(v) \/ Read(v)
  \/ \E how \in {"evidence", "rejected_locally", "provider_blocked", "auth_required"} \union Faults : ReadEnds(how)
  \/ CloseSession \/ SessionRestarts \/ AcquireSession \/ LaunchFails
  \/ \E answer \in {"yes", "no"} \union Faults : ProbeAnswers(answer)
  \/ \E fault \in {"none"} \union Faults : Load(fault) \/ GoTo(fault)
  \/ EnsureLogin \/ Authenticated \/ Refused \/ AsksTheUser \/ IsPaced \/ Admit \/ SubmitLogin
  \/ \E fault \in {"unavailable", "source", "protected", "error"} : LoginRaises(fault)
  \/ SeatClick \/ LoginInPlace \/ ReservationClick
  \/ \E how \in {"payment_required", "failed", "stopped", "auth_required", "provider_blocked"} : BookingEnds(how)
  \/ \E fault \in Faults : BookingRaises(fault)
  \/ HoldFound \/ SessionCancelled \/ LogsOut \/ UserLogsIn \/ TimeGoesOn

SessionSpec == SessionInit /\ [][SessionNext]_sessionVars

-----------------------------------------------------------------------------
\* A click of a booking happens only in a browser whose login the official page
\* has proven since the booking took the lock, for the credential of the booking.
ClickFollowsEvidence ==
  [][op'.at # op.at /\ op'.at \in {"seat", "clicked"} =>
       evidence /\ active.auth = op.version]_sessionVars
=============================================================================
