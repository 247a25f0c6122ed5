------------------------- MODULE KorailActors_proofs -------------------------
(***************************************************************************)
(* Proofs about the KORAIL sidecar: SessionActor books in a logged-in      *)
(* browser, SearchActor searches without a login, SeatQueries works        *)
(* through the seats a caller asks about, and SearchCoordinator with       *)
(* ProviderCooldown shares searches and keeps them from a provider on      *)
(* hold; for any number of credentials, accounts, routes, uses, clients,   *)
(* questions and calls.                                                    *)
(***************************************************************************)
EXTENDS SessionActor, SearchActor, SeatQueries, SearchCoordinator, TLAPS

-----------------------------------------------------------------------------
(* SessionActor.                                                            *)

Booking == {"go", "book", "seat", "clicked"}
Kinds == {"none", "reserve", "verify", "prewarm", "read"}
Places == {"free", "acquire", "again", "probe", "load", "login", "authenticate", "form",
           "submitted", "read"} \union Booking

SessionTypeOK ==
  /\ op \in [kind : Kinds, version : Versions \union {0}, at : Places,
             warm : BOOLEAN, fresh : BOOLEAN, touched : BOOLEAN]
  /\ active \in [bound : Versions \union {0}, auth : Versions \union {0}, uses : Nat]

(* The call that has the lock: whose it is, and the steps only a booking    *)
(* gets to.                                                                 *)
CallIsKnown ==
  /\ op.kind = "none" \/ op.version \in Versions
  /\ op.kind = "none" => op.at = "free"
  /\ op.at \in Booking => op.kind = "reserve"

(* A page that is loaded is not logged in: one that was is asked first.     *)
LoadedIsOut == op.at = "load" => active.auth = 0

(* A booking that takes a login as it is has had it proven, and from there  *)
(* on the browser is logged in for the credential of the booking.           *)
BookingIsProven ==
  /\ op.kind = "reserve" /\ op.at = "login" /\ active.auth # 0 => evidence
  /\ op.at \in Booking => evidence /\ active.auth = op.version

SessionInv == SessionTypeOK /\ CallIsKnown /\ LoadedIsOut /\ BookingIsProven

(* Nobody has the lock and no browser is open.                              *)
LEMMA SessionStart == SessionInit => SessionInv
  BY DEF SessionInit, SessionInv, SessionTypeOK, CallIsKnown, LoadedIsOut, BookingIsProven,
         NoOp, NoBrowser, Booking, Kinds, Places

(* What the browser may become: closed, used once more, bound anew.         *)
Browsers == [bound : Versions \union {0}, auth : Versions \union {0}, uses : Nat]

(* A step that ends the call leaves nothing to show but a browser.          *)
LEMMA CallOver ==
  ASSUME op' = NoOp, active' \in Browsers
  PROVE  SessionInv'
  BY DEF SessionInv, SessionTypeOK, CallIsKnown, LoadedIsOut, BookingIsProven,
         NoOp, Booking, Kinds, Places, Browsers

(* What a step that raises or discards makes of the browser.                *)
LEMMA Discarded ==
  ASSUME NEW state, Discard(state)
  PROVE  active' \in Browsers
  BY DEF Discard, NoBrowser, Browsers

(* A call that raises is over.                                              *)
LEMMA Raised ==
  ASSUME SessionInv, op.kind # "none", NEW fault, SessionFails(fault)
  PROVE  SessionInv'
<1>1. op' = NoOp
  BY DEF SessionFails, BookingFails, VerificationFails, Done
<1>2. active' \in Browsers
  <2>1. active \in Browsers /\ op.version \in Versions
    BY DEF SessionInv, SessionTypeOK, CallIsKnown, Browsers
  <2>2. [active EXCEPT !.bound = op.version, !.auth = 0] \in Browsers
    BY <2>1 DEF Browsers
  <2>3. QED
    BY <2>1, <2>2, Discarded
       DEF SessionFails, BookingFails, VerificationFails, Keep
<1>3. QED
  BY <1>1, <1>2, CallOver

(* The calls take the lock.                                                 *)
LEMMA LockTaken ==
  ASSUME SessionInv, op = NoOp, NEW v \in Versions,
         Reserve(v) \/ Verify(v) \/ Prewarm(v) \/ Read(v)
  PROVE  SessionInv'
<1>1. active' \in Browsers
  BY Discarded DEF Reserve, Verify, Prewarm, Read, VerifyLocked, Keep, SessionInv, SessionTypeOK, Browsers
<1>2. /\ op'.kind \in Kinds \ {"none"} /\ op'.version = v
      /\ op'.at \in {"acquire", "login", "probe", "read"}
      /\ op'.kind = "reserve" => op'.at = "acquire"
      /\ op' \in [kind : Kinds, version : Versions \union {0}, at : Places,
                  warm : BOOLEAN, fresh : BOOLEAN, touched : BOOLEAN]
  <2>1. SessionResumes(v) \in BOOLEAN /\ Reverifies(v) \in BOOLEAN
    BY DEF SessionResumes, Reverifies
  <2>2. CASE Reserve(v)
    BY <2>2 DEF Reserve, Take, NoOp, Kinds, Places, Booking
  <2>3. ASSUME NEW kind \in {"verify", "prewarm"}, VerifyLocked(kind, v)
        PROVE  /\ op'.kind = kind /\ op'.version = v /\ op'.at \in {"acquire", "login"}
               /\ op' \in [kind : Kinds, version : Versions \union {0}, at : Places,
                           warm : BOOLEAN, fresh : BOOLEAN, touched : BOOLEAN]
    BY <2>1, <2>3 DEF VerifyLocked, Take, NoOp, Kinds, Places, Booking
  <2>4. CASE Verify(v)
    BY <2>3, <2>4 DEF Verify, Kinds
  <2>5. CASE Prewarm(v)
    <3>1. CASE IsReady(v)
      BY <2>5, <3>1 DEF Prewarm, Take, NoOp, Kinds, Places, Booking
    <3>2. CASE ~IsReady(v)
      BY <2>3, <2>5, <3>2 DEF Prewarm, Kinds
    <3>3. QED BY <3>1, <3>2
  <2>6. CASE Read(v)
    BY <2>6 DEF Read, Take, NoOp, Kinds, Places, Booking
  <2>7. QED
    BY <2>2, <2>4, <2>5, <2>6
<1>3. QED
  BY <1>1, <1>2 DEF SessionInv, SessionTypeOK, CallIsKnown, LoadedIsOut, BookingIsProven, Booking, Browsers

(* The browser of a call is acquired, asked, and loaded.                    *)
LEMMA BrowserAcquired ==
  ASSUME SessionInv, AcquireSession
  PROVE  SessionInv'
<1> USE DEF SessionInv, SessionTypeOK, CallIsKnown
<1>1. op.kind # "none" /\ op.at \notin Booking /\ op.version \in Versions
  BY DEF AcquireSession, Acquires, Booking
<1>2. CASE Reusable
  <2>1. active' = [active EXCEPT !.uses = @ + 1]
        /\ op' = [op EXCEPT !.warm = (active.auth # 0), !.at = IF AsksFirst THEN "probe" ELSE "load"]
    BY <1>2 DEF AcquireSession, Reuse
  <2>2. active' \in Browsers /\ active'.auth = active.auth
    BY <2>1 DEF Browsers
  <2>3. /\ op' \in [kind : Kinds, version : Versions \union {0}, at : Places,
                    warm : BOOLEAN, fresh : BOOLEAN, touched : BOOLEAN]
        /\ op'.kind = op.kind /\ op'.version = op.version /\ op'.at \in {"probe", "load"}
        /\ op'.at = "load" => active.auth = 0
    <3>1. CASE AsksFirst BY <2>1, <3>1 DEF Places, Booking
    <3>2. CASE ~AsksFirst BY <2>1, <3>2 DEF Places, Booking, AsksFirst
    <3>3. QED BY <3>1, <3>2
  <2>4. QED
    BY <1>1, <2>2, <2>3 DEF LoadedIsOut, BookingIsProven, Booking, Browsers
<1>3. CASE ~Reusable
  <2>1. active' = [bound |-> op.version, auth |-> 0, uses |-> 1] /\ op' = [op EXCEPT !.at = "load"]
    BY <1>3 DEF AcquireSession, Launch, At
  <2>2. /\ op' \in [kind : Kinds, version : Versions \union {0}, at : Places,
                    warm : BOOLEAN, fresh : BOOLEAN, touched : BOOLEAN]
        /\ op'.kind = op.kind /\ op'.version = op.version /\ op'.at = "load"
    BY <2>1 DEF Places, Booking
  <2>3. QED
    BY <1>1, <2>1, <2>2 DEF LoadedIsOut, BookingIsProven, Booking
<1>4. QED BY <1>2, <1>3

(* A step that moves a call on, without touching the browser's login.       *)
LEMMA CallMoves ==
  ASSUME SessionInv, op.kind # "none", NEW place \in Places \ {"free", "load"}, At(place),
         active' = active,
         place \in Booking => op.kind = "reserve" /\ evidence' /\ active.auth = op.version,
         place = "login" => active.auth = 0 \/ evidence'
  PROVE  SessionInv'
<1>1. /\ op' \in [kind : Kinds, version : Versions \union {0}, at : Places,
                  warm : BOOLEAN, fresh : BOOLEAN, touched : BOOLEAN]
      /\ op'.kind = op.kind /\ op'.version = op.version /\ op'.at = place
  BY DEF At, SessionInv, SessionTypeOK
<1>2. QED
  BY <1>1 DEF SessionInv, SessionTypeOK, CallIsKnown, LoadedIsOut, BookingIsProven, Booking

(* The page answers whether the login is there, and only that proves it.    *)
LEMMA BrowserProbed ==
  ASSUME SessionInv, NEW answer \in {"yes", "no"} \union Faults, ProbeAnswers(answer)
  PROVE  SessionInv'
<1>1. op.kind # "none" /\ op.version \in Versions
  BY DEF ProbeAnswers, SessionInv, CallIsKnown
<1>2. CASE answer = "yes"
  <2>1. active' = active
    BY <1>2 DEF ProbeAnswers
  <2>2. CASE op.kind = "prewarm"
    <3>1. op' = NoOp
      BY <1>2, <2>2 DEF ProbeAnswers, Done
    <3>2. QED BY <2>1, <3>1, CallOver DEF SessionInv, SessionTypeOK, Browsers
  <2>3. CASE op.kind # "prewarm"
    <3>1. At("login") /\ evidence'
      BY <1>2, <2>3 DEF ProbeAnswers
    <3>2. QED BY <1>1, <2>1, <3>1, CallMoves DEF Places, Booking
  <2>4. QED BY <2>2, <2>3
<1>3. CASE answer \in {"no", "source", "outage", "error"}
  <2>1. At("again") /\ Discard("stale")
    BY <1>3 DEF ProbeAnswers, StartsOver
  <2>2. /\ op' \in [kind : Kinds, version : Versions \union {0}, at : Places,
                    warm : BOOLEAN, fresh : BOOLEAN, touched : BOOLEAN]
        /\ op'.kind = op.kind /\ op'.version = op.version /\ op'.at = "again"
    BY <2>1 DEF At, SessionInv, SessionTypeOK, Places
  <2>3. active' \in Browsers
    BY <2>1, Discarded
  <2>4. QED
    BY <1>1, <2>2, <2>3
       DEF SessionInv, SessionTypeOK, CallIsKnown, LoadedIsOut, BookingIsProven, Booking, Browsers
<1>4. CASE answer = "protected"
  <2>1. op' = NoOp /\ Discard("blocked")
    BY <1>4 DEF ProbeAnswers
  <2>2. QED BY <2>1, Discarded, CallOver
<1>5. QED
  BY <1>2, <1>3, <1>4 DEF Faults

(* A login that is taken as it is was proven for the booking: a browser is   *)
(* logged in for version 0 only while it is logged out.                     *)
LEMMA LoginEnsured ==
  ASSUME SessionInv, EnsureLogin
  PROVE  SessionInv'
<1>1. op.kind # "none" /\ op.version \in Versions /\ active' = active /\ evidence' = evidence
  BY DEF EnsureLogin, SessionInv, CallIsKnown
<1>2. CASE LoggedIn /\ op.kind = "reserve"
  <2>1. At("go") /\ active.auth = op.version /\ active.auth # 0
    BY <1>1, <1>2, SessionAssumption DEF EnsureLogin, Proceeds, LoggedIn
  <2>2. evidence
    BY <1>2, <2>1 DEF EnsureLogin, SessionInv, BookingIsProven
  <2>3. QED
    BY <1>1, <1>2, <2>1, <2>2, CallMoves DEF Places, Booking
<1>3. CASE LoggedIn /\ op.kind # "reserve"
  <2>1. op' = NoOp
    BY <1>3 DEF EnsureLogin, Proceeds
  <2>2. QED
    BY <1>1, <2>1, CallOver DEF SessionInv, SessionTypeOK, Browsers
<1>4. CASE ~LoggedIn
  BY <1>1, <1>4, CallMoves DEF EnsureLogin, Places, Booking
<1>5. QED
  BY <1>2, <1>3, <1>4

(* The login that shows proves the browser to the call.                     *)
LEMMA LoginShows ==
  ASSUME SessionInv, Authenticated
  PROVE  SessionInv'
<1>1. /\ op.kind # "none" /\ op.version \in Versions
      /\ active' = [active EXCEPT !.bound = op.version, !.auth = op.version]
  BY DEF Authenticated, SessionInv, CallIsKnown
<1>2. active' \in Browsers /\ active'.auth = op.version
  BY <1>1 DEF SessionInv, SessionTypeOK, Browsers
<1>3. CASE op.kind = "reserve"
  <2>1. At("go") /\ evidence'
    BY <1>3 DEF Authenticated, Proceeds
  <2>2. /\ op' \in [kind : Kinds, version : Versions \union {0}, at : Places,
                    warm : BOOLEAN, fresh : BOOLEAN, touched : BOOLEAN]
        /\ op'.kind = op.kind /\ op'.version = op.version /\ op'.at = "go"
    BY <2>1 DEF At, SessionInv, SessionTypeOK, Places, Booking
  <2>3. QED
    BY <1>1, <1>2, <1>3, <2>1, <2>2
       DEF SessionInv, SessionTypeOK, CallIsKnown, LoadedIsOut, BookingIsProven, Booking, Browsers
<1>4. CASE op.kind # "reserve"
  <2>1. op' = NoOp
    BY <1>4 DEF Authenticated, Proceeds
  <2>2. QED BY <1>2, <2>1, CallOver
<1>5. QED
  BY <1>3, <1>4

(* The steps of the pages of a booking.                                     *)
LEMMA BookingMoves ==
  ASSUME SessionInv, SeatClick \/ LoginInPlace \/ ReservationClick
  PROVE  SessionInv'
<1>1. /\ op.kind = "reserve" /\ op.version \in Versions /\ evidence /\ active.auth = op.version
      /\ op.at \in Booking
  BY DEF SeatClick, LoginInPlace, ReservationClick, SessionInv, CallIsKnown, BookingIsProven, Booking
<1>2. CASE SeatClick
  <2>1. /\ op' \in [kind : Kinds, version : Versions \union {0}, at : Places,
                    warm : BOOLEAN, fresh : BOOLEAN, touched : BOOLEAN]
        /\ op'.kind = op.kind /\ op'.version = op.version /\ op'.at = "seat"
    BY <1>2 DEF SeatClick, SessionInv, SessionTypeOK, Places, Booking
  <2>2. active' = active /\ evidence' = evidence
    BY <1>2 DEF SeatClick, Keep
  <2>3. QED
    BY <1>1, <2>1, <2>2 DEF SessionInv, SessionTypeOK, CallIsKnown, LoadedIsOut, BookingIsProven, Booking
<1>3. CASE LoginInPlace
  <2>1. op' = op /\ active' = active /\ evidence' = evidence
    BY <1>3 DEF LoginInPlace
  <2>2. QED
    BY <2>1 DEF SessionInv, SessionTypeOK, CallIsKnown, LoadedIsOut, BookingIsProven
<1>4. CASE ReservationClick
  <2>1. At("clicked") /\ active' = active /\ evidence' = evidence
    BY <1>4 DEF ReservationClick, Keep
  <2>2. QED
    BY <1>1, <2>1, CallMoves DEF Places, Booking
<1>5. QED
  BY <1>2, <1>3, <1>4

(* Every step of the actor and of what is around it.                        *)
LEMMA SessionStep ==
  ASSUME SessionInv, [SessionNext]_sessionVars
  PROVE  SessionInv'
<1>0. active \in Browsers
  BY DEF SessionInv, SessionTypeOK, Browsers
<1>1. ASSUME NEW v \in Versions, Reserve(v) \/ Verify(v) \/ Prewarm(v) \/ Read(v)
      PROVE  SessionInv'
  BY <1>1, LockTaken DEF Reserve, Verify, Prewarm, Read
<1>2. ASSUME NEW how \in {"evidence", "rejected_locally", "provider_blocked", "auth_required"} \union Faults,
             ReadEnds(how)
      PROVE  SessionInv'
  <2>1. op' = NoOp
    BY <1>2 DEF ReadEnds, Done
  <2>2. active' \in Browsers
    <3>1. CASE how \in {"evidence", "rejected_locally"}
      BY <1>0, <1>2, <3>1 DEF ReadEnds, Keep
    <3>2. CASE how \in {"protected", "provider_blocked"}
      BY <1>2, <3>2, Discarded DEF ReadEnds
    <3>3. CASE how = "auth_required"
      BY <1>2, <3>3, Discarded DEF ReadEnds
    <3>4. CASE how \in {"source", "outage", "error"}
      BY <1>2, <3>4, Discarded DEF ReadEnds
    <3>5. QED
      BY <3>1, <3>2, <3>3, <3>4 DEF Faults
  <2>3. QED BY <2>1, <2>2, CallOver
<1>3. CASE CloseSession \/ SessionRestarts \/ LaunchFails \/ Refused \/ IsPaced \/ SessionCancelled
  <2>1. op' = NoOp /\ active' \in Browsers
    BY <1>3, Discarded DEF CloseSession, SessionRestarts, LaunchFails, Refused, IsPaced, SessionCancelled
  <2>2. QED BY <2>1, CallOver
<1>4. CASE AcquireSession
  BY <1>4, BrowserAcquired
<1>5. ASSUME NEW answer \in {"yes", "no"} \union Faults, ProbeAnswers(answer)
      PROVE  SessionInv'
  BY <1>5, BrowserProbed
<1>6. ASSUME NEW fault \in {"none"} \union Faults, Load(fault) \/ GoTo(fault)
      PROVE  SessionInv'
  <2>1. op.kind # "none"
    BY <1>6 DEF Load, GoTo, SessionInv, CallIsKnown
  <2>2. CASE fault # "none"
    BY <1>6, <2>1, <2>2, Raised DEF Load, GoTo
  <2>3. CASE fault = "none" /\ Load(fault)
    <3>1. At("login") /\ active' = active /\ active.auth = 0
      BY <2>3 DEF Load, Keep, SessionInv, LoadedIsOut
    <3>2. QED BY <2>1, <3>1, CallMoves DEF Places, Booking
  <2>4. CASE fault = "none" /\ GoTo(fault)
    <3>1. /\ At("book") /\ active' = active /\ evidence' = evidence
          /\ op.kind = "reserve" /\ evidence /\ active.auth = op.version
      BY <2>4 DEF GoTo, Keep, SessionInv, CallIsKnown, BookingIsProven, Booking
    <3>2. QED BY <2>1, <3>1, CallMoves DEF Places, Booking
  <2>5. QED BY <1>6, <2>2, <2>3, <2>4
<1>7. CASE EnsureLogin
  BY <1>7, LoginEnsured
<1>8. CASE Authenticated
  BY <1>8, LoginShows
<1>9. CASE AsksTheUser
  BY <1>9, Raised DEF AsksTheUser, SessionInv, CallIsKnown
<1>10. CASE Admit \/ SubmitLogin
  <2>1. op.kind # "none" /\ active' = active
    BY <1>10 DEF Admit, SubmitLogin, Keep, SessionInv, CallIsKnown
  <2>2. At("form") \/ At("submitted")
    BY <1>10 DEF Admit, SubmitLogin
  <2>3. QED BY <2>1, <2>2, CallMoves DEF Places, Booking
<1>11. ASSUME NEW fault, LoginRaises(fault) \/ BookingRaises(fault)
       PROVE  SessionInv'
  BY <1>11, Raised DEF LoginRaises, BookingRaises, SessionInv, CallIsKnown
<1>12. CASE SeatClick \/ LoginInPlace \/ ReservationClick
  BY <1>12, BookingMoves
<1>13. ASSUME NEW how \in {"payment_required", "failed", "stopped", "auth_required", "provider_blocked"},
              BookingEnds(how)
       PROVE  SessionInv'
  <2>1. op' = NoOp
    BY <1>13 DEF BookingEnds, Done
  <2>2. Keep \/ Discard("stale") \/ Discard("auth_required") \/ Discard("blocked")
    BY <1>13 DEF BookingEnds
  <2>3. active' \in Browsers
    BY <1>0, <2>2, Discarded DEF Keep
  <2>4. QED BY <2>1, <2>3, CallOver
<1>14. CASE HoldFound
  <2>1. op' = NoOp /\ active' = active
    BY <1>14 DEF HoldFound, SessionDeferred, Done, Keep
  <2>2. QED BY <1>0, <2>1, CallOver
<1>15. CASE LogsOut \/ UserLogsIn \/ TimeGoesOn \/ UNCHANGED sessionVars
  <2>1. op' = op /\ active' = active /\ evidence' = evidence
    BY <1>15 DEF LogsOut, UserLogsIn, TimeGoesOn, sessionVars
  <2>2. QED
    BY <2>1 DEF SessionInv, SessionTypeOK, CallIsKnown, LoadedIsOut, BookingIsProven
<1>16. QED
  BY <1>1, <1>2, <1>3, <1>4, <1>5, <1>6, <1>7, <1>8, <1>9, <1>10, <1>11, <1>12, <1>13, <1>14, <1>15
     DEF SessionNext

(* What a call knows of the browser it has, in every state.                 *)
LEMMA SessionIsKnown == SessionSpec => []SessionInv
<1>1. QED
  BY SessionStart, SessionStep, PTL DEF SessionSpec

(* No other step brings a booking to a click.                               *)
LEMMA OnlyClicksClick ==
  ASSUME SessionInv, [SessionNext]_sessionVars, op'.at \in {"seat", "clicked"}
  PROVE  SeatClick \/ ReservationClick \/ op' = op
<1>1. op \in [kind : Kinds, version : Versions \union {0}, at : Places,
              warm : BOOLEAN, fresh : BOOLEAN, touched : BOOLEAN]
  BY DEF SessionInv, SessionTypeOK
<1>2. op' # NoOp
  BY DEF NoOp
<1>3. ASSUME NEW place \in {"again", "login", "load", "go", "book", "authenticate", "form", "submitted"}, At(place)
      PROVE  FALSE
  <2>1. op'.at = place
    BY <1>1, <1>3 DEF At
  <2>2. QED BY <2>1
<1>4. ASSUME NEW v, Reserve(v) \/ Verify(v) \/ Prewarm(v) \/ Read(v)
      PROVE  FALSE
  BY <1>4 DEF Reserve, Verify, Prewarm, Read, VerifyLocked, Take, NoOp
<1>5. ASSUME NEW fault, SessionFails(fault)
      PROVE  FALSE
  BY <1>2, <1>5 DEF SessionFails, BookingFails, VerificationFails, Done
<1>6. ASSUME NEW how, ReadEnds(how) \/ BookingEnds(how)
      PROVE  FALSE
  BY <1>2, <1>6 DEF ReadEnds, BookingEnds, Done
<1>7. ~(CloseSession /\ op' # op) /\ ~SessionRestarts /\ ~LaunchFails /\ ~Refused /\ ~IsPaced /\ ~SessionCancelled /\ ~HoldFound
  BY <1>2 DEF CloseSession, SessionRestarts, LaunchFails, Refused, IsPaced, SessionCancelled,
              HoldFound, SessionDeferred, Done
<1>8. ~AcquireSession
  <2>1. ASSUME op' = [op EXCEPT !.warm = (active.auth # 0), !.at = IF AsksFirst THEN "probe" ELSE "load"]
        PROVE  FALSE
    <3>1. op'.at = IF AsksFirst THEN "probe" ELSE "load"
      BY <1>1, <2>1
    <3>2. QED BY <3>1
  <2>2. QED BY <1>3, <2>1 DEF AcquireSession
<1>9. ASSUME NEW answer \in {"yes", "no"} \union Faults, ProbeAnswers(answer)
      PROVE  FALSE
  <2>1. CASE answer = "yes"
    BY <1>2, <1>3, <1>9, <2>1 DEF ProbeAnswers, Done
  <2>2. CASE answer \in {"no", "source", "outage", "error"}
    BY <1>3, <1>9, <2>2 DEF ProbeAnswers, StartsOver
  <2>3. CASE answer = "protected"
    BY <1>2, <1>9, <2>3 DEF ProbeAnswers
  <2>4. QED BY <2>1, <2>2, <2>3 DEF Faults
<1>10. ASSUME NEW fault, Load(fault) \/ GoTo(fault)
       PROVE  FALSE
  BY <1>3, <1>5, <1>10 DEF Load, GoTo
<1>11. ~EnsureLogin /\ ~Authenticated
  BY <1>2, <1>3 DEF EnsureLogin, Authenticated, Proceeds
<1>12. ASSUME NEW fault, LoginRaises(fault) \/ BookingRaises(fault) \/ AsksTheUser
       PROVE  FALSE
  BY <1>5, <1>12 DEF LoginRaises, BookingRaises, AsksTheUser
<1>13. ~Admit /\ ~SubmitLogin
  BY <1>3 DEF Admit, SubmitLogin
<1>14. LoginInPlace \/ LogsOut \/ UserLogsIn \/ TimeGoesOn \/ UNCHANGED sessionVars => op' = op
  BY DEF LoginInPlace, LogsOut, UserLogsIn, TimeGoesOn, sessionVars
<1>15. QED
  BY <1>4, <1>6, <1>7, <1>8, <1>9, <1>10, <1>11, <1>12, <1>13, <1>14 DEF SessionNext

(* A booking clicks only in a browser whose login the official page has     *)
(* proven since the booking took the lock, and for the credential of the    *)
(* booking: however logins end, browsers are reused and calls follow each   *)
(* other in between.                                                        *)
THEOREM ClicksFollowEvidence == SessionSpec => ClickFollowsEvidence
<1>1. ASSUME SessionInv, [SessionNext]_sessionVars
      PROVE  [op'.at # op.at /\ op'.at \in {"seat", "clicked"} =>
                evidence /\ active.auth = op.version]_sessionVars
  <2>1. SUFFICES ASSUME op'.at # op.at, op'.at \in {"seat", "clicked"}
                 PROVE  evidence /\ active.auth = op.version
    OBVIOUS
  <2>2. SeatClick \/ ReservationClick
    BY <1>1, <2>1, OnlyClicksClick
  <2>3. op.at \in Booking
    BY <2>2 DEF SeatClick, ReservationClick, Booking
  <2>4. QED
    BY <1>1, <2>3 DEF SessionInv, BookingIsProven
<1>2. QED
  BY <1>1, SessionIsKnown, PTL DEF SessionSpec, ClickFollowsEvidence

-----------------------------------------------------------------------------
(* SearchActor.                                                             *)

Stages == {"none", "replay", "resolve", "acquire", "form", "capture", "lookup", "result", "install", "prune"}

ActorTypeOK ==
  search \in [at : Stages, route : Routes \union {"none"}, direct : BOOLEAN, again : BOOLEAN,
              reused : BOOLEAN, capturing : BOOLEAN, lookups : {0, 1}]

(* Up to the lookup none was made, so a page that fails before it may be    *)
(* replaced.                                                                *)
NoneBefore == search.at \notin {"result", "install", "prune"} => search.lookups = 0

ActorInv == ActorTypeOK /\ NoneBefore

(* No search was taken yet.                                                 *)
LEMMA ActorStart == ActorInit => ActorInv
  BY DEF ActorInit, ActorInv, ActorTypeOK, NoneBefore, NoSearch, Stages

(* A search that leaves made no lookup yet in the next.                     *)
LEMMA SearchOver ==
  ASSUME Leave
  PROVE  ActorInv'
  BY DEF Leave, NoSearch, ActorInv, ActorTypeOK, NoneBefore, Stages

(* A search that only goes on to another stage.                             *)
LEMMA SearchMoves ==
  ASSUME ActorInv, NEW place \in Stages, To(place),
         search.lookups = 0 \/ place \in {"result", "install", "prune"}
  PROVE  ActorInv'
  BY DEF To, ActorInv, ActorTypeOK, NoneBefore, Stages

(* The invariant is inductive: one group of actions after the other.        *)
LEMMA ActorStep ==
  ASSUME ActorInv, [ActorNext]_actorVars
  PROVE  ActorInv'
<1> USE DEF ActorInv
<1>0. ASSUME search' = search
      PROVE  ActorInv'
  BY <1>0 DEF ActorTypeOK, NoneBefore
<1>1. ASSUME NEW how, StageFails(how)
      PROVE  ActorInv'
  BY <1>1, SearchOver DEF StageFails
<1>2. ASSUME NEW r \in Routes, BeginSearch(r)
      PROVE  ActorInv'
  BY <1>2 DEF BeginSearch, NoSearch, ActorTypeOK, NoneBefore, Stages
<1>3. CASE NoReplay \/ ReplaySucceeds \/ ReplayCancelled \/ \E how \in {"restricted", "rotten", "session"} : ReplayFails(how)
  <2>1. search.lookups = 0 /\ (Leave \/ To("resolve"))
    BY <1>3 DEF NoReplay, ReplaySucceeds, ReplayCancelled, ReplayFails, NoneBefore
  <2>2. QED BY <2>1, SearchOver, SearchMoves DEF Stages
<1>4. CASE ResolveRoute
  <2>1. CASE Leave BY <2>1, SearchOver
  <2>2. CASE \E direct \in BOOLEAN : search' = [search EXCEPT !.at = "acquire", !.direct = direct]
    BY <1>4, <2>2 DEF ResolveRoute, ActorTypeOK, NoneBefore, Stages
  <2>3. QED BY <1>4, <2>1, <2>2 DEF ResolveRoute
<1>5. CASE AcquireBrowser
  <2>1. CASE Leave BY <2>1, SearchOver
  <2>2. CASE search' = [search EXCEPT !.at = IF search.direct THEN "capture" ELSE "form", !.reused = Usable]
    <3>1. Usable \in BOOLEAN
      BY DEF Usable
    <3>2. QED BY <1>5, <2>2, <3>1 DEF AcquireBrowser, ActorTypeOK, NoneBefore, Stages
  <2>3. QED BY <1>5, <2>1, <2>2 DEF AcquireBrowser, StageDeferred
<1>6. CASE Form
  <2>1. CASE To("capture")
    BY <1>6, <2>1, SearchMoves DEF Form, NoneBefore, Stages
  <2>2. QED BY <1>1, <1>6, <2>1 DEF Form
<1>7. CASE Repeat
  BY <1>7 DEF Repeat, MayRepeat, ActorTypeOK, NoneBefore, Stages
<1>8. CASE Capture
  <2>1. PICK begun \in {CanCapture, FALSE} : search' = [search EXCEPT !.at = "lookup", !.capturing = begun]
    BY <1>8 DEF Capture
  <2>2. begun \in BOOLEAN
    BY <2>1 DEF CanCapture
  <2>3. QED BY <1>8, <2>1, <2>2 DEF Capture, ActorTypeOK, NoneBefore, Stages
<1>9. CASE Lookup
  <2>1. CASE search' = [search EXCEPT !.at = "result", !.lookups = @ + 1]
    <3>1. search.lookups + 1 = 1
      BY <1>9 DEF Lookup, NoneBefore
    <3>2. search' = [search EXCEPT !.at = "result", !.lookups = 1]
      BY <2>1, <3>1
    <3>3. QED BY <3>2 DEF ActorTypeOK, NoneBefore, Stages
  <2>2. QED BY <1>1, <1>9, <2>1, SearchOver DEF Lookup, StageDeferred
<1>10. CASE Result
  BY <1>1, <1>10, SearchOver, SearchMoves DEF Result, Stages
<1>11. CASE Install \/ InstallCancelled
  BY <1>11, SearchOver, SearchMoves DEF Install, InstallCancelled, Stages
<1>12. CASE Prune
  BY <1>0, <1>12, SearchOver DEF Prune
<1>13. CASE SearchCancelled
  BY <1>1, <1>13 DEF SearchCancelled
<1>14. CASE \/ \E r \in Routes : ClientGetsOld(r)
            \/ CloseSearches \/ PageGetsOld \/ CapturesResume \/ OthersHold \/ UNCHANGED actorVars
  BY <1>0, <1>14 DEF ClientGetsOld, CloseSearches, PageGetsOld, CapturesResume, OthersHold, actorVars
<1>15. QED
  BY <1>2, <1>3, <1>4, <1>5, <1>6, <1>7, <1>8, <1>9, <1>10, <1>11, <1>12, <1>13, <1>14 DEF ActorNext

(* A search asks the provider once, for any number of routes and uses and   *)
(* whenever its page is replaced or the hold is opened.                     *)
THEOREM SearchLooksUpOnce == ActorSpec => []OneLookup
<1>1. ActorInv => OneLookup
  BY DEF ActorInv, ActorTypeOK, OneLookup
<1>2. QED
  BY <1>1, ActorStart, ActorStep, PTL DEF ActorSpec

-----------------------------------------------------------------------------
(* SeatQueries.                                                             *)

QueryPlaces ==
  {"free", "new", "queued", "cancelling", "stillborn", "sent", "searching", "reporting", "done"}
QueryEndings == {"none", "answered", "held", "late", "failed", "protected", "cancelled"}
QueryRecords ==
  [pc : QueryPlaces, search : Searches \union {NoQuery}, waiters : SUBSET Askers,
   started : BOOLEAN, end : QueryEndings]

(* What the process was told of is written and copied, or being written by  *)
(* a query that still has the gate, and a refusal is kept by Redis or by    *)
(* the memory of the sidecar.                                               *)
ToldIsHeld ==
  /\ told \subseteq {"refused", "shared", "outage"}
  /\ "shared" \in told => "shared" \in holds
  /\ "outage" \in told =>
       "outage" \in holds \intersect copies \/ \E q \in Queries : queries[q].pc = "reporting"
  /\ "refused" \in told => "shared" \in holds \/ recalled # "none"

QueriesInv == queries \in [Queries -> QueryRecords] /\ ToldIsHeld

(* A step that lets no query go on to the sidecar or to the provider, and   *)
(* leaves the reports.                                                      *)
NoneGoes ==
  /\ queries' \in [Queries -> QueryRecords]
  /\ \A q \in Queries : /\ queries'[q].pc = "sent" => queries[q].pc = "sent"
                        /\ queries'[q].pc = "searching" => queries[q].pc = "searching"
                        /\ queries[q].pc = "reporting" => queries'[q].pc = "reporting"

(* A step that ends no hold, in Redis or in memory.                         *)
HoldsStand ==
  /\ holds \subseteq holds' /\ copies \subseteq copies'
  /\ recalled # "none" => recalled' # "none"

(* One query is written and goes no further than it was.                    *)
LEMMA OneQueryWritten ==
  ASSUME queries \in [Queries -> QueryRecords], NEW q \in Queries, NEW row \in QueryRecords,
         queries' = [queries EXCEPT ![q] = row],
         row.pc = "sent" => queries[q].pc = "sent",
         row.pc = "searching" => queries[q].pc = "searching",
         queries[q].pc = "reporting" => row.pc = "reporting"
  PROVE  NoneGoes
BY DEF NoneGoes

(* A query that ends leaves the others where they are.                      *)
LEMMA QueryEndsAlone ==
  ASSUME queries \in [Queries -> QueryRecords], NEW q \in Queries, NEW how \in QueryEndings,
         QueryEnds(q, how)
  PROVE  /\ queries' \in [Queries -> QueryRecords] /\ queries'[q].pc = "done"
         /\ \A k \in Queries : k # q => queries'[k] = queries[k]
<1> DEFINE row == [queries[q] EXCEPT !.pc = "done", !.end = how]
<1>1. queries' = [queries EXCEPT ![q] = row]
  BY DEF QueryEnds
<1>2. row \in QueryRecords /\ row.pc = "done"
  <2>1. queries[q] \in QueryRecords
    OBVIOUS
  <2> QED
    BY <2>1 DEF QueryRecords, QueryPlaces
<1> HIDE DEF row
<1> QED
  BY <1>1, <1>2

(* The steps of the callers.                                                *)
LEMMA AskersSendNone ==
  ASSUME QueriesInv, NEW c \in Askers,
         (\E s \in Searches : Ask(c, s)) \/ AskerTimesOut(c) \/ AskerIsCancelled(c) \/ AskerResumes(c)
  PROVE  NoneGoes
<1> USE DEF QueriesInv
<1>1. CASE UNCHANGED queries
  BY <1>1 DEF NoneGoes
<1>2. ASSUME NEW q, NEW rest, rest \subseteq Askers, NEW p \in QueryPlaces,
             queries' = [queries EXCEPT ![q].waiters = rest, ![q].pc = p],
             q \in Queries => p \notin {"sent", "searching"} \/ queries[q].pc = p,
             q \in Queries => (queries[q].pc = "reporting" => p = "reporting")
      PROVE  NoneGoes
  <2>1. CASE q \in Queries
    <3> DEFINE row == [queries[q] EXCEPT !.waiters = rest, !.pc = p]
    <3>1. queries' = [queries EXCEPT ![q] = row]
      BY <1>2, <2>1
    <3>2. queries[q] \in QueryRecords
      BY <2>1
    <3>3. row \in QueryRecords /\ row.pc = p
      BY <1>2, <3>2 DEF QueryRecords
    <3> HIDE DEF row
    <3> QED
      BY <1>2, <2>1, <3>1, <3>3, OneQueryWritten
  <2>2. CASE q \notin Queries
    <3>1. queries' = queries
      BY <1>2, <2>2
    <3> QED
      BY <1>1, <3>1
  <2> QED
    BY <2>1, <2>2
<1>3. ASSUME NEW q, NEW rest, queries' = [queries EXCEPT ![q].waiters = rest],
             q \in Queries => rest \subseteq Askers
      PROVE  NoneGoes
  <2>1. CASE q \in Queries
    <3> DEFINE row == [queries[q] EXCEPT !.waiters = rest]
    <3>1. queries' = [queries EXCEPT ![q] = row]
      BY <1>3, <2>1
    <3>2. queries[q] \in QueryRecords
      BY <2>1
    <3>3. row \in QueryRecords /\ row.pc = queries[q].pc
      BY <1>3, <2>1, <3>2 DEF QueryRecords
    <3> HIDE DEF row
    <3> QED
      BY <2>1, <3>1, <3>3, OneQueryWritten
  <2>2. CASE q \notin Queries
    <3>1. queries' = queries
      BY <1>3, <2>2
    <3> QED
      BY <1>1, <3>1
  <2> QED
    BY <2>1, <2>2
<1>4. ASSUME NEW s \in Searches, Ask(c, s) PROVE NoneGoes
  <2>1. CASE queries' = [queries EXCEPT ![current[s]].waiters = @ \union {c}]
    <3>1. current[s] \in Queries => queries[current[s]].waiters \union {c} \subseteq Askers
      BY DEF QueryRecords
    <3> QED
      BY <1>3, <2>1, <3>1
  <2>2. CASE \E q \in Queries :
               /\ queries[q].pc = "free"
               /\ queries' = [queries EXCEPT ![q] = [NewQuery EXCEPT !.pc = "new", !.search = s, !.waiters = {c}]]
    <3> PICK q \in Queries :
               /\ queries[q].pc = "free"
               /\ queries' = [queries EXCEPT ![q] = [NewQuery EXCEPT !.pc = "new", !.search = s, !.waiters = {c}]]
      BY <2>2
    <3> DEFINE row == [NewQuery EXCEPT !.pc = "new", !.search = s, !.waiters = {c}]
    <3>1. NewQuery \in QueryRecords
      BY DEF NewQuery, QueryRecords, QueryPlaces, QueryEndings
    <3>2. row \in QueryRecords /\ row.pc = "new"
      BY <3>1 DEF QueryRecords, QueryPlaces
    <3>3. queries' = [queries EXCEPT ![q] = row]
      OBVIOUS
    <3> HIDE DEF row
    <3> QED
      BY <3>2, <3>3, OneQueryWritten
  <2> QED
    BY <1>1, <1>4, <2>1, <2>2 DEF Ask
<1>5. ASSUME StopsWaiting(c) PROVE NoneGoes
  <2> DEFINE q == askers[c].query
             rest == queries[q].waiters \ {c}
             p == IF rest = {} /\ queries[q].pc \in {"new", "queued"} /\ current[queries[q].search] = q
                  THEN IF queries[q].pc = "new" THEN "stillborn" ELSE "cancelling"
                  ELSE queries[q].pc
  <2>1. queries' = [queries EXCEPT ![q].waiters = rest, ![q].pc = p]
    BY <1>5 DEF StopsWaiting
  <2>2. CASE q \in Queries
    <3>1. queries[q] \in QueryRecords
      BY <2>2
    <3>2. rest \subseteq Askers /\ p \in QueryPlaces
      BY <3>1 DEF QueryRecords, QueryPlaces
    <3>3. p \notin {"sent", "searching"} \/ queries[q].pc = p
      OBVIOUS
    <3>4. queries[q].pc = "reporting" => p = "reporting"
      OBVIOUS
    <3> HIDE DEF q, rest, p
    <3> QED
      BY <1>2, <2>1, <2>2, <3>2, <3>3, <3>4
  <2>3. CASE q \notin Queries
    <3>1. queries' = queries
      BY <2>1, <2>3
    <3> QED
      BY <1>1, <3>1
  <2> QED
    BY <2>2, <2>3
<1>6. ASSUME AskerResumes(c) PROVE NoneGoes
  <2>1. queries' = [queries EXCEPT ![askers[c].query].waiters = @ \ {c}]
    BY <1>6 DEF AskerResumes
  <2>2. askers[c].query \in Queries => queries[askers[c].query].waiters \ {c} \subseteq Askers
    BY DEF QueryRecords
  <2> QED
    BY <1>3, <2>1, <2>2
<1> QED
  BY <1>4, <1>5, <1>6 DEF AskerTimesOut, AskerIsCancelled

(* A caller may write the hold that restricts its own source.               *)
LEMMA AskersKeepHolds ==
  ASSUME NEW c \in Askers,
         (\E s \in Searches : Ask(c, s)) \/ AskerTimesOut(c) \/ AskerIsCancelled(c) \/ AskerResumes(c)
  PROVE  told' = told /\ HoldsStand
BY DEF Ask, AskerTimesOut, AskerIsCancelled, AskerResumes, SameHolds, holdVars, AskerGetsFailure,
       AskerGetsProtection, AskerTriesAgain, HoldsStand

(* A report that goes on, or none that could.                               *)
ReportStays ==
  \/ \E q \in Queries : queries'[q].pc = "reporting"
  \/ \A q \in Queries : queries[q].pc # "reporting"

(* While no hold ends, what the process is told of is held if the report of *)
(* an outage goes on, and a refusal is told of once it is remembered.       *)
LEMMA ToldStaysHeld ==
  ASSUME ToldIsHeld, HoldsStand,
         told' \subseteq told \union {"refused", "outage"} \union (holds' \intersect {"shared"}),
         "refused" \in told' => "refused" \in told \/ "shared" \in holds' \/ recalled' # "none",
         ReportStays,
         "outage" \in told' => "outage" \in told \/ \E q \in Queries : queries'[q].pc = "reporting"
  PROVE  ToldIsHeld'
BY DEF ToldIsHeld, HoldsStand, ReportStays

(* A step that lets no query go keeps every hold it was told of.            *)
LEMMA NoneGoesKeepsTold ==
  ASSUME QueriesInv, NoneGoes, told' = told, HoldsStand
  PROVE  QueriesInv'
BY DEF QueriesInv, NoneGoes, ToldIsHeld, HoldsStand

(* The evidence the sidecar answers with is in its memory by then.          *)
LEMMA SidecarHoldsFirst ==
  ASSUME NEW kind, SidecarHolds(kind)
  PROVE  holds \subseteq holds' /\ recalled' # "none"
BY DEF SidecarHolds

Stops(q) ==
  /\ queries[q].pc = "queued" /\ queries'[q].pc = "sent" => told \subseteq {"refused"}
  /\ queries[q].pc = "sent" /\ queries'[q].pc = "searching" => "refused" \notin told

(* No query was made and no hold is known.                                  *)
LEMMA QueriesStart == QueriesInit => QueriesInv
<1>1. NewQuery \in QueryRecords
  BY DEF NewQuery, QueryRecords, QueryPlaces, QueryEndings
<1> QED
  BY <1>1 DEF QueriesInit, QueriesInv, ToldIsHeld

(* The invariant is inductive, and each step stops the queries at a hold.   *)
LEMMA QueriesStep ==
  ASSUME QueriesInv, [QueriesNext]_queryVars
  PROVE  QueriesInv' /\ \A q \in Queries : Stops(q)
<1> USE DEF QueriesInv
<1>1. CASE NoneGoes /\ told' = told /\ HoldsStand
  BY <1>1, NoneGoesKeepsTold DEF Stops, NoneGoes
<1>2. CASE \E c \in Askers :
       (\E s \in Searches : Ask(c, s)) \/ AskerTimesOut(c) \/ AskerIsCancelled(c) \/ AskerResumes(c)
  BY <1>1, <1>2, AskersSendNone, AskersKeepHolds
<1>3. ASSUME NEW q \in Queries, NEW how \in QueryEndings, QueryEnds(q, how),
             queries[q].pc # "reporting"
      PROVE  NoneGoes /\ \A k \in Queries : Stops(k)
  <2>1. NoneGoes
    BY <1>3, QueryEndsAlone DEF NoneGoes
  <2> QED
    BY <2>1 DEF NoneGoes, Stops
<1>4. ASSUME NEW q \in Queries, QueryRuns(q) PROVE QueriesInv' /\ \A k \in Queries : Stops(k)
  <2> DEFINE row == [queries[q] EXCEPT !.pc = "queued"]
  <2>1. queries' = [queries EXCEPT ![q] = row] /\ queries[q].pc = "new" /\ told' = told /\ HoldsStand
    BY <1>4 DEF QueryRuns, SameHolds, holdVars, HoldsStand
  <2>2. row \in QueryRecords /\ row.pc = "queued"
    <3>1. queries[q] \in QueryRecords
      OBVIOUS
    <3> QED
      BY <3>1 DEF QueryRecords, QueryPlaces
  <2> HIDE DEF row
  <2>3. NoneGoes
    BY <2>1, <2>2, OneQueryWritten
  <2> QED
    BY <1>1, <2>1, <2>3
<1>5. ASSUME NEW q \in Queries, CancelLands(q) \/ SearchAnswers(q) \/ SearchFails(q) \/ SearchTimesOut(q)
      PROVE  QueriesInv' /\ \A k \in Queries : Stops(k)
  <2>1. /\ told' = told /\ HoldsStand /\ queries[q].pc # "reporting"
        /\ \E how \in QueryEndings : QueryEnds(q, how)
    BY <1>5 DEF CancelLands, SearchAnswers, SearchFails, SearchTimesOut, SameHolds, holdVars,
                QueryEndings, HoldsStand
  <2> QED
    BY <1>1, <1>3, <2>1
<1>6. ASSUME NEW q \in Queries, SearchBegins(q) PROVE QueriesInv' /\ \A k \in Queries : Stops(k)
  <2>1. /\ UNCHANGED <<holds, copies, recalled, told>> /\ queries[q].pc = "queued"
        /\ \A k \in Queries : queries[k].pc \notin {"sent", "searching", "reporting"}
    BY <1>6 DEF SearchBegins, GateIsOpen, AtSidecar, SameHolds, holdVars
  <2>2. CASE QueryEnds(q, "held")
    BY <1>1, <1>3, <2>1, <2>2 DEF QueryEndings, HoldsStand
  <2>3. CASE /\ Unmissable \intersect {"shared", "outage"} = {}
             /\ queries' = [queries EXCEPT ![q].pc = "sent", ![q].started = TRUE]
    <3> DEFINE row == [queries[q] EXCEPT !.pc = "sent", !.started = TRUE]
    <3>1. queries' = [queries EXCEPT ![q] = row]
      BY <2>3
    <3>2. row \in QueryRecords /\ row.pc = "sent"
      <4>1. queries[q] \in QueryRecords
        OBVIOUS
      <4> QED
        BY <4>1 DEF QueryRecords, QueryPlaces
    <3> HIDE DEF row
    <3>3. /\ queries' \in [Queries -> QueryRecords] /\ queries'[q].pc = "sent"
          /\ \A k \in Queries : k # q => queries'[k] = queries[k]
      BY <3>1, <3>2
    <3>4. told \subseteq {"refused"}
      BY <2>1, <2>3 DEF ToldIsHeld, Unmissable
    <3>5. ToldIsHeld'
      BY <2>1, <3>4 DEF ToldIsHeld
    <3> QED
      BY <2>1, <3>3, <3>4, <3>5 DEF Stops
  <2> QED
    BY <1>6, <2>2, <2>3 DEF SearchBegins
<1>7. ASSUME NEW q \in Queries, SidecarAdmits(q) PROVE QueriesInv' /\ \A k \in Queries : Stops(k)
  <2> DEFINE row == [queries[q] EXCEPT !.pc = "searching"]
  <2>1. /\ UNCHANGED <<holds, copies, recalled, told>> /\ queries[q].pc = "sent"
        /\ "shared" \notin holds /\ recalled = "none" /\ queries' = [queries EXCEPT ![q] = row]
    BY <1>7 DEF SidecarAdmits, SameHolds, holdVars
  <2>2. row \in QueryRecords /\ row.pc = "searching"
    <3>1. queries[q] \in QueryRecords
      OBVIOUS
    <3> QED
      BY <3>1 DEF QueryRecords, QueryPlaces
  <2> HIDE DEF row
  <2>3. /\ queries' \in [Queries -> QueryRecords] /\ queries'[q].pc = "searching"
        /\ \A k \in Queries : k # q => queries'[k] = queries[k]
    BY <2>1, <2>2
  <2>4. "refused" \notin told
    BY <2>1 DEF ToldIsHeld
  <2>5. ToldIsHeld'
    BY <2>1, <2>3 DEF ToldIsHeld
  <2> QED
    BY <2>1, <2>3, <2>4, <2>5 DEF Stops
<1>8. ASSUME NEW q \in Queries, SidecarDefers(q) PROVE QueriesInv' /\ \A k \in Queries : Stops(k)
  <2>1. /\ QueryEnds(q, "held") /\ queries[q].pc = "sent" /\ HoldsStand
        /\ \/ "shared" \in holds' /\ told' = told \union {"refused", "shared"}
           \/ told' = told
    BY <1>8 DEF SidecarDefers, HoldsTold, HoldsStand
  <2>2. NoneGoes /\ \A k \in Queries : Stops(k)
    BY <1>3, <2>1 DEF QueryEndings
  <2>3. ReportStays /\ ToldIsHeld
    BY <2>2 DEF NoneGoes, ReportStays
  <2>4. /\ told' \subseteq told \union {"refused", "outage"} \union (holds' \intersect {"shared"})
        /\ "refused" \in told' => "refused" \in told \/ "shared" \in holds'
        /\ "outage" \in told' => "outage" \in told
    BY <2>1
  <2>5. ToldIsHeld'
    BY <2>1, <2>3, <2>4, ToldStaysHeld
  <2> QED
    BY <2>2, <2>5 DEF NoneGoes
<1>9. ASSUME NEW q \in Queries, QueryEnds(q, "protected"), queries[q].pc \in {"sent", "searching"},
             HoldsStand, recalled' # "none",
             told' \subseteq told \union {"refused"} \union (holds' \intersect {"shared"})
      PROVE  QueriesInv' /\ \A k \in Queries : Stops(k)
  <2>1. NoneGoes /\ \A k \in Queries : Stops(k)
    BY <1>3, <1>9 DEF QueryEndings
  <2>2. ReportStays /\ ToldIsHeld
    BY <2>1 DEF NoneGoes, ReportStays
  <2>3. /\ told' \subseteq told \union {"refused", "outage"} \union (holds' \intersect {"shared"})
        /\ "outage" \in told' => "outage" \in told
    BY <1>9
  <2>4. ToldIsHeld'
    BY <1>9, <2>2, <2>3, ToldStaysHeld
  <2> QED
    BY <2>1, <2>4 DEF NoneGoes
<1>10. ASSUME NEW q \in Queries, queries' = [queries EXCEPT ![q].pc = "reporting"],
              queries[q].pc \in {"sent", "searching"}, HoldsStand, recalled' # "none",
              told' \subseteq told \union {"refused", "outage"} \union (holds' \intersect {"shared"})
       PROVE  QueriesInv' /\ \A k \in Queries : Stops(k)
  <2> DEFINE row == [queries[q] EXCEPT !.pc = "reporting"]
  <2>1. queries' = [queries EXCEPT ![q] = row]
    BY <1>10
  <2>2. row \in QueryRecords /\ row.pc = "reporting"
    <3>1. queries[q] \in QueryRecords
      OBVIOUS
    <3> QED
      BY <3>1 DEF QueryRecords, QueryPlaces
  <2> HIDE DEF row
  <2>3. NoneGoes /\ queries'[q].pc = "reporting"
    BY <1>10, <2>1, <2>2, OneQueryWritten
  <2>4. ReportStays /\ ToldIsHeld /\ \E k \in Queries : queries'[k].pc = "reporting"
    BY <2>3 DEF ReportStays
  <2>5. ToldIsHeld'
    BY <1>10, <2>4, ToldStaysHeld
  <2> QED
    BY <2>3, <2>5 DEF NoneGoes, Stops
<1>11. ASSUME NEW q \in Queries, SidecarRemembers(q) \/ SearchIsProtected(q) \/ SearchFindsOutage(q)
       PROVE  QueriesInv' /\ \A k \in Queries : Stops(k)
  <2>1. HoldsStand /\ recalled' # "none" /\ queries[q].pc \in {"sent", "searching"}
    BY <1>11, SidecarHoldsFirst
    DEF SidecarRemembers, SearchIsProtected, SearchFindsOutage, HoldsStand
  <2>2. \/ /\ QueryEnds(q, "protected")
           /\ told' \subseteq told \union {"refused"} \union (holds' \intersect {"shared"})
        \/ /\ queries' = [queries EXCEPT ![q].pc = "reporting"]
           /\ told' \subseteq told \union {"refused", "outage"} \union (holds' \intersect {"shared"})
    <3>1. CASE SidecarRemembers(q)
      BY <3>1 DEF SidecarRemembers
    <3>2. CASE SearchIsProtected(q)
      BY <3>2 DEF SearchIsProtected, HoldsTold
    <3>3. CASE SearchFindsOutage(q)
      BY <3>3 DEF SearchFindsOutage, HoldsTold
    <3> QED
      BY <1>11, <3>1, <3>2, <3>3
  <2> QED
    BY <1>9, <1>10, <2>1, <2>2
<1>12. ASSUME NEW q \in Queries, ReportOutage(q) \/ ReportIsLost(q)
       PROVE  QueriesInv' /\ \A k \in Queries : Stops(k)
  <2>1. /\ \E how \in QueryEndings : QueryEnds(q, how)
        /\ queries[q].pc = "reporting" /\ HoldsStand /\ "outage" \in copies' /\ told' \subseteq told
        /\ "outage" \in told' => "outage" \in holds'
    BY <1>12 DEF ReportOutage, ReportIsLost, QueryEndings, HoldsStand
  <2>2. /\ queries' \in [Queries -> QueryRecords] /\ queries'[q].pc = "done"
        /\ \A k \in Queries : k # q => queries'[k] = queries[k]
    BY <2>1, QueryEndsAlone
  <2>3. ToldIsHeld'
    BY <2>1 DEF ToldIsHeld, HoldsStand
  <2> QED
    BY <2>1, <2>2, <2>3 DEF Stops
<1>13. ASSUME NEW q \in Queries, ForgetQuery(q) PROVE QueriesInv' /\ \A k \in Queries : Stops(k)
  <2>1. /\ queries' = [queries EXCEPT ![q] = NewQuery] /\ queries[q].pc = "done"
        /\ told' = told /\ HoldsStand
    BY <1>13 DEF ForgetQuery, SameHolds, holdVars, HoldsStand
  <2>2. NewQuery \in QueryRecords /\ NewQuery.pc = "free"
    BY DEF NewQuery, QueryRecords, QueryPlaces, QueryEndings
  <2>3. NoneGoes
    BY <2>1, <2>2, OneQueryWritten
  <2> QED
    BY <1>1, <2>1, <2>3
<1>14. CASE \/ \E s \in Searches : DropEntry(s) \/ ResultExpires(s) \/ BackoffEnds(s)
            \/ \E h \in Holds : HeldElsewhere(h)
            \/ DebtRunsOut \/ SidecarIsRefused \/ UNCHANGED queryVars
  <2>1. UNCHANGED <<queries, told>> /\ HoldsStand
    BY <1>14, SidecarHoldsFirst
    DEF DropEntry, ResultExpires, BackoffEnds, HeldElsewhere, DebtRunsOut, SidecarIsRefused,
        SameHolds, holdVars, queryVars, HoldsStand
  <2> QED
    BY <1>1, <2>1 DEF NoneGoes
<1>15. CASE \/ \E h \in Holds : HoldRunsOut(h)
            \/ MemoryRunsOut \/ MemoryIsLost
  <2>1. UNCHANGED queries
    BY <1>15 DEF HoldRunsOut, MemoryRunsOut, MemoryIsLost
  <2>2. ToldIsHeld'
    BY <1>15, <2>1 DEF HoldRunsOut, MemoryRunsOut, MemoryIsLost, ToldIsHeld
  <2> QED
    BY <2>1, <2>2 DEF Stops
<1> QED
  BY <1>2, <1>4, <1>5, <1>6, <1>7, <1>8, <1>11, <1>12, <1>13, <1>14, <1>15 DEF QueriesNext

(* QueueStopsAtHold: once the sidecar has told of an outage or of a         *)
(* protected page, no query that was waiting at the gate leaves the process *)
(* before that hold has ended, if Redis took it, and none gets past the     *)
(* sidecar before the refusal is over, whatever Redis took (seat query      *)
(* queue), for any number of questions.                                     *)
THEOREM QueueAlwaysStops == QueriesSpec => QueueStopsAtHold
<1>1. QueriesInv /\ [QueriesNext]_queryVars => QueriesInv'
  BY QueriesStep
<1>2. QueriesInv /\ [QueriesNext]_queryVars =>
        [\A q \in Queries :
           /\ queries[q].pc = "queued" /\ queries'[q].pc = "sent" => told \subseteq {"refused"}
           /\ queries[q].pc = "sent" /\ queries'[q].pc = "searching" => "refused" \notin told]_queryVars
  BY QueriesStep DEF Stops
<1> QED
  BY <1>1, <1>2, QueriesStart, PTL DEF QueriesSpec, QueueStopsAtHold

-----------------------------------------------------------------------------
(* SearchCoordinator and ProviderCooldown.                                  *)

CallerRecords ==
  [pc : {"idle", "waiting", "retry", "answered", "cancelled"},
   key : Keys \union {NoTask}, deadline : Nat, left : Nat, task : Tasks \union {NoTask}]
TaskRecords ==
  [pc : {"free"} \union Running \union Ended, key : Keys \union {NoTask},
   deadline : Int, waiters : SUBSET Callers, started : BOOLEAN, cancelling : BOOLEAN,
   kind : {"query", "protection"}]

(* The hold that is due is one Redis knows, or one that this process        *)
(* remembers and owes to Redis.                                             *)
DueIsKept == due <= store.until \/ (storeFailed /\ due <= fallback.until)

CooldownInv == CooldownTypeOK /\ DueIsKept

CoordinatorTypes ==
  /\ callers \in [Callers -> CallerRecords]
  /\ tasks \in [Tasks -> TaskRecords]
  /\ inflight \in [Keys -> Tasks \union {NoTask}]
  /\ heldUntil \in Nat
  /\ shutdown \in {"open", "draining", "cancelling", "closed", "given_up"}

(* A task that callers may join runs, for the search they ask for.          *)
InflightRuns ==
  \A k \in Keys : inflight[k] # NoTask =>
    tasks[inflight[k]].pc \in Running /\ tasks[inflight[k]].key = k

RunningIsJoined ==
  \A t \in Tasks : tasks[t].pc \in Running => tasks[t].key \in Keys /\ inflight[tasks[t].key] = t

FreeIsEmpty == \A t \in Tasks : tasks[t].pc = "free" => tasks[t].waiters = {}

WaitersHaveTasks ==
  \A c \in Callers :
    /\ callers[c].pc = "waiting" => callers[c].task \in Tasks /\ c \in tasks[callers[c].task].waiters
    /\ callers[c].pc \in {"waiting", "retry"} => callers[c].key \in Keys /\ shutdown = "open"

(* A task that has begun is cancelled only by a shutdown.                   *)
BegunEndsAlone ==
  \A t \in Tasks :
    tasks[t].started /\ (tasks[t].pc = "cancelled" \/ tasks[t].cancelling) => shutdown # "open"

CoordinatorInv ==
  /\ CoordinatorTypes /\ InflightRuns /\ RunningIsJoined /\ FreeIsEmpty /\ WaitersHaveTasks
  /\ BegunEndsAlone /\ NoForeignCancellation /\ ClosedIsQuiet

SearchInv == CooldownInv /\ CoordinatorInv

-----------------------------------------------------------------------------
(* The cooldown.                                                            *)

CooldownKinds == {"query", "protection", "login"}

(* A record that is opened holds at least as long as before, and as asked.  *)
LEMMA OpenKeeps ==
  ASSUME NEW record \in Record, NEW until \in Nat, NEW restricted \in BOOLEAN
  PROVE  /\ Open(record, until, restricted) \in Record
         /\ Open(record, until, restricted).until >= record.until
         /\ Open(record, until, restricted).until >= until
         /\ Open(record, until, restricted).count = record.count
<1> DEFINE row == [record EXCEPT !.until = until, !.restricted = restricted]
<1>1. row \in Record /\ row.until = until /\ row.count = record.count
  BY DEF Record
<1>2. record.until \in Nat
  BY DEF Record
<1> HIDE DEF row
<1>3. CASE until > record.until \/ (until = record.until /\ restricted)
  <2>1. Open(record, until, restricted) = row
    BY <1>3 DEF Open, row
  <2> QED
    BY <1>1, <1>2, <1>3, <2>1
<1>4. CASE ~(until > record.until \/ (until = record.until /\ restricted))
  <2>1. Open(record, until, restricted) = record
    BY <1>4 DEF Open
  <2>2. record.until >= until
    BY <1>2, <1>4
  <2> QED
    BY <1>2, <2>1, <2>2
<1> QED
  BY <1>3, <1>4

(* The script of Redis never makes a hold shorter.                          *)
LEMMA ScriptedKeeps ==
  ASSUME NEW record \in Record, NEW kind \in CooldownKinds, NEW known \in 0 .. 3, now \in Nat
  PROVE  /\ Scripted(record, kind, known) \in Record
         /\ Scripted(record, kind, known).until >= record.until
         /\ kind = "query" => Scripted(record, kind, known).until >= now + QueryHold
         /\ kind = "protection" => Scripted(record, kind, known).until >= now + ProtectionHold
         /\ kind = "login" =>
              /\ Scripted(record, kind, known).count \in 1 .. 3
              /\ Scripted(record, kind, known).count >= known
              /\ Scripted(record, kind, known).until >= now + LoginHold[Scripted(record, kind, known).count]
<1> DEFINE failed == UpToThree(Later(record.count + 1, known))
<1>1. failed \in 1 .. 3 /\ failed >= known
  BY DEF UpToThree, Later, Record
<1>2. CASE kind = "query"
  <2>1. Scripted(record, kind, known) = Open(record, now + QueryHold, FALSE) /\ now + QueryHold \in Nat
    BY <1>2, CooldownAssumption DEF Scripted
  <2> QED
    BY <1>2, <2>1, OpenKeeps
<1>3. CASE kind = "protection"
  <2>1. Scripted(record, kind, known) = Open(record, now + ProtectionHold, TRUE) /\ now + ProtectionHold \in Nat
    BY <1>3, CooldownAssumption DEF Scripted
  <2> QED
    BY <1>3, <2>1, OpenKeeps
<1>4. CASE kind = "login"
  <2> DEFINE tallied == [record EXCEPT !.count = failed]
  <2>1. tallied \in Record /\ tallied.until = record.until /\ tallied.count = failed
    BY <1>1 DEF Record
  <2>2. now + LoginHold[failed] \in Nat
    BY <1>1, CooldownAssumption
  <2>3. Scripted(record, kind, known) = Open(tallied, now + LoginHold[failed], FALSE)
    BY <1>4 DEF Scripted
  <2> HIDE DEF tallied, failed
  <2> QED
    BY <1>1, <1>4, <2>1, <2>2, <2>3, OpenKeeps
<1> QED
  BY <1>2, <1>3, <1>4 DEF CooldownKinds

(* What is remembered and what is written hold as long as the caller was    *)
(* told; the later failed logins are held longer.                           *)
LEMMA HoldIsWritten ==
  ASSUME CooldownTypeOK, NEW kind \in CooldownKinds
  PROVE  /\ HoldOf(kind) \in Nat
         /\ Remembered(kind) \in Record /\ Remembered(kind).until >= fallback.until
         /\ Remembered(kind).until >= now + HoldOf(kind)
         /\ Written(kind) \in Record /\ Written(kind).until >= store.until
         /\ Written(kind).until >= now + HoldOf(kind)
<1> USE DEF CooldownTypeOK
<1>1. now \in Nat /\ store \in Record /\ fallback \in Record
  OBVIOUS
<1> DEFINE memory == Remembered(kind)
           count == memory.count
           redis == Written(kind)
<1>2. /\ memory \in Record /\ memory.until >= fallback.until
      /\ kind = "query" => memory.until >= now + QueryHold
      /\ kind = "protection" => memory.until >= now + ProtectionHold
      /\ kind = "login" => memory.count \in 1 .. 3 /\ memory.until >= now + LoginHold[memory.count]
  <2>1. memory = Scripted(fallback, kind, 0) /\ 0 \in 0 .. 3
    BY DEF Remembered
  <2> HIDE DEF memory
  <2> QED
    BY <1>1, <2>1, ScriptedKeeps
<1>3. count \in 0 .. 3
  BY <1>2 DEF Record
<1>4. /\ redis \in Record /\ redis.until >= store.until
      /\ kind = "query" => redis.until >= now + QueryHold
      /\ kind = "protection" => redis.until >= now + ProtectionHold
      /\ kind = "login" => /\ redis.count \in 1 .. 3 /\ redis.count >= count
                           /\ redis.until >= now + LoginHold[redis.count]
  <2>1. redis = Scripted(store, kind, count)
    BY DEF Written
  <2> HIDE DEF count
  <2> QED
    BY <1>1, <1>3, <2>1, ScriptedKeeps
<1>5. /\ kind = "query" => HoldOf(kind) = QueryHold
      /\ kind = "protection" => HoldOf(kind) = ProtectionHold
      /\ kind = "login" => HoldOf(kind) = LoginHold[count]
  BY DEF HoldOf
<1> HIDE DEF memory, redis
<1>6. CASE kind = "login"
  <2>1. count \in 1 .. 3 /\ LoginHold[count] \in Nat
    BY <1>2, <1>6, CooldownAssumption DEF count
  <2>2. redis.count \in 1 .. 3 /\ redis.count >= count /\ LoginHold[redis.count] \in Nat
    BY <1>4, <1>6, CooldownAssumption
  <2>3. LoginHold[redis.count] >= LoginHold[count]
    BY <2>1, <2>2, CooldownAssumption
  <2>4. redis.until \in Nat
    BY <1>4 DEF Record
  <2>5. redis.until >= now + LoginHold[count]
    BY <1>1, <1>4, <1>6, <2>1, <2>2, <2>3, <2>4
  <2> QED
    BY <1>2, <1>4, <1>5, <1>6, <2>1, <2>5 DEF memory, redis, count
<1>7. CASE kind # "login"
  BY <1>2, <1>4, <1>5, <1>7, CooldownAssumption DEF memory, redis, CooldownKinds
<1> QED
  BY <1>6, <1>7

(* What the process confirms is at least what Redis and its own copy say.   *)
LEMMA ConfirmedKeeps ==
  ASSUME CooldownTypeOK
  PROVE  /\ Confirmed \in Record /\ Confirmed.until >= store.until
         /\ storeFailed => Confirmed.until >= fallback.until
<1> USE DEF CooldownTypeOK
<1>1. CASE storeFailed
  <2> DEFINE tallied == [store EXCEPT !.count = Later(store.count, fallback.count)]
             until == Later(fallback.until, now)
  <2>1. tallied \in Record /\ tallied.until = store.until
    BY DEF Record, Later
  <2>2. until \in Nat /\ until >= fallback.until /\ fallback.restricted \in BOOLEAN
    BY DEF Record, Later
  <2>3. Confirmed = Open(tallied, until, fallback.restricted)
    BY <1>1 DEF Confirmed
  <2> HIDE DEF tallied, until
  <2>5. /\ Confirmed \in Record /\ Confirmed.until >= tallied.until /\ Confirmed.until >= until
    BY <2>1, <2>2, <2>3, OpenKeeps
  <2>6. Confirmed.until \in Nat /\ fallback.until \in Nat
    BY <2>5 DEF Record
  <2> QED
    BY <2>1, <2>2, <2>5, <2>6
<1>2. CASE ~storeFailed
  BY <1>2 DEF Confirmed, Record
<1> QED
  BY <1>1, <1>2

(* An observation is written, or its command is cut off; what it proved is  *)
(* held.                                                                    *)
LEMMA ObserveKeepsHold ==
  ASSUME CooldownInv, NEW kind \in CooldownKinds, Observe(kind) \/ ObserveCut(kind)
  PROVE  CooldownInv'
<1> USE DEF CooldownInv, CooldownTypeOK
<1> DEFINE memory == Remembered(kind)
           redis == Written(kind)
           span == HoldOf(kind)
<1>1. /\ span \in Nat
      /\ memory \in Record /\ memory.until >= fallback.until /\ memory.until >= now + span
      /\ redis \in Record /\ redis.until >= store.until /\ redis.until >= now + span
  BY HoldIsWritten
<1>2. memory.until \in Nat /\ redis.until \in Nat /\ store.until \in Nat /\ fallback.until \in Nat
  BY <1>1 DEF Record
<1>3. CASE CommandAnswered /\ Observe(kind) /\ store' = redis
           /\ fallback' = [memory EXCEPT !.count = store'.count] /\ UNCHANGED storeFailed
  <2>1. /\ due' = Later(due, now + span) /\ UNCHANGED <<now, ledger, noted>> /\ faults' = faults
    BY <1>3 DEF Observe, CommandAnswered
  <2> HIDE DEF memory, redis, span
  <2>2. fallback' \in Record /\ fallback'.until = memory.until
    BY <1>1, <1>3 DEF Record
  <2>3. CooldownTypeOK'
    BY <1>1, <1>3, <2>1, <2>2 DEF Later
  <2>4. DueIsKept'
    BY <1>1, <1>2, <1>3, <2>1, <2>2 DEF DueIsKept, Later
  <2> QED
    BY <2>3, <2>4
<1>4. CASE CommandFails /\ Observe(kind) /\ store' \in {store, redis} /\ fallback' = memory /\ storeFailed' = TRUE
  <2>1. /\ due' = Later(due, now + span) /\ UNCHANGED <<now, ledger, noted>> /\ faults' = faults + 1
    BY <1>4 DEF Observe, CommandFails
  <2> HIDE DEF memory, redis, span
  <2>2. CooldownTypeOK'
    BY <1>1, <1>4, <2>1 DEF Later
  <2>3. DueIsKept'
    BY <1>1, <1>2, <1>4, <2>1 DEF DueIsKept, Later
  <2> QED
    BY <2>2, <2>3
<1>5. CASE ObserveCut(kind)
  <2>1. /\ due' = Later(due, store'.until) /\ UNCHANGED <<now, storeFailed, ledger, noted, faults>>
        /\ store' \in {store, redis} /\ fallback' = memory
    BY <1>5 DEF ObserveCut
  <2> HIDE DEF memory, redis, span
  <2>2. CooldownTypeOK'
    BY <1>1, <1>2, <2>1 DEF Later
  <2>3. DueIsKept'
    BY <1>1, <1>2, <2>1 DEF DueIsKept, Later
  <2> QED
    BY <2>2, <2>3
<1> QED
  BY <1>3, <1>4, <1>5 DEF Observe

(* A check reads the hold and makes up for a write that is owed, or is      *)
(* refused.                                                                 *)
LEMMA CheckKeepsHold ==
  ASSUME CooldownInv, CheckAnswers \/ CheckRefuses
  PROVE  CooldownInv'
<1> USE DEF CooldownInv, CooldownTypeOK
<1> DEFINE redis == Confirmed
<1>1. /\ redis \in Record /\ redis.until >= store.until
      /\ storeFailed => redis.until >= fallback.until
  BY ConfirmedKeeps
<1>2. redis.until \in Nat /\ redis.count \in 0 .. 3 /\ store.until \in Nat /\ fallback.until \in Nat
  BY <1>1 DEF Record
<1>3. CASE CheckAnswers
  <2>1. /\ store' = redis /\ storeFailed' = FALSE /\ fallback' = [fallback EXCEPT !.count = redis.count]
        /\ UNCHANGED <<now, ledger, noted, due, faults>>
    BY <1>3 DEF CheckAnswers, CommandAnswered
  <2> HIDE DEF redis
  <2>2. CooldownTypeOK'
    BY <1>1, <1>2, <2>1 DEF Record
  <2>3. DueIsKept'
    BY <1>1, <1>2, <2>1 DEF DueIsKept
  <2> QED
    BY <2>2, <2>3
<1>4. CASE CommandFails /\ store' \in {store, redis}
           /\ UNCHANGED <<now, fallback, storeFailed, ledger, noted, due>>
  <2> HIDE DEF redis
  <2>1. CooldownTypeOK'
    BY <1>1, <1>4 DEF CommandFails
  <2>2. DueIsKept'
    BY <1>1, <1>2, <1>4 DEF DueIsKept
  <2> QED
    BY <2>1, <2>2
<1> QED
  BY <1>3, <1>4 DEF CheckRefuses

(* A check that admits says that no hold is due.                            *)
LEMMA AdmittedIsNotDue ==
  ASSUME CooldownInv, CheckAdmits
  PROVE  due <= now
<1>1. Confirmed.until <= now /\ due' = due
  BY DEF CheckAdmits, Admitted, CheckAnswers
<1>2. /\ Confirmed.until \in Nat /\ store.until \in Nat /\ fallback.until \in Nat
      /\ now \in Nat /\ due \in Nat
  BY ConfirmedKeeps DEF CooldownInv, CooldownTypeOK, Record
<1> QED
  BY <1>1, <1>2, ConfirmedKeeps DEF CooldownInv, DueIsKept

(* Nothing held is a record.                                                *)
LEMMA EmptyIsRecord == Empty \in Record /\ Empty.until = 0
BY DEF Empty, Record

(* Nothing is held at the start.                                            *)
LEMMA CooldownStart == CooldownInit => CooldownInv
<1> SUFFICES ASSUME CooldownInit PROVE CooldownInv
  OBVIOUS
<1>1. CooldownTypeOK
  BY EmptyIsRecord DEF CooldownInit, CooldownTypeOK
<1>2. DueIsKept
  BY EmptyIsRecord DEF CooldownInit, DueIsKept
<1> QED
  BY <1>1, <1>2 DEF CooldownInv

(* Time passes, or the process restarts with what Redis remembers.          *)
LEMMA ClockKeepsHold ==
  ASSUME CooldownInv, CooldownTick \/ ProcessRestarts \/ UNCHANGED cooldownVars
  PROVE  CooldownInv'
<1>1. CASE CooldownTick \/ UNCHANGED cooldownVars
  BY <1>1 DEF CooldownTick, cooldownVars, CooldownInv, CooldownTypeOK, DueIsKept
<1>2. CASE ProcessRestarts
  <2>1. store.until \in Nat
    BY DEF CooldownInv, CooldownTypeOK, Record
  <2>2. CooldownTypeOK'
    BY <1>2, <2>1, EmptyIsRecord DEF ProcessRestarts, CooldownInv, CooldownTypeOK
  <2>3. DueIsKept'
    BY <1>2, <2>1 DEF ProcessRestarts, DueIsKept
  <2> QED
    BY <2>2, <2>3 DEF CooldownInv
<1> QED
  BY <1>1, <1>2

-----------------------------------------------------------------------------
(* The coordinator.                                                         *)

NoneBegins == \A t \in Tasks : tasks'[t].pc = "querying" => tasks[t].pc = "querying"

(* A task that is free has nobody who waits.                                *)
LEMMA FreeTaskIsRecord ==
  /\ FreeTask \in TaskRecords /\ FreeTask.pc = "free" /\ FreeTask.waiters = {} /\ ~FreeTask.started
  /\ ~FreeTask.cancelling
BY DEF FreeTask, TaskRecords

(* A caller that is idle waits for no task.                                 *)
LEMMA IdleIsRecord == IdleCaller \in CallerRecords /\ IdleCaller.pc = "idle"
BY DEF IdleCaller, CallerRecords

(* A task goes on.                                                          *)
LEMMA TaskGoesOn ==
  ASSUME CoordinatorInv, NEW t \in Tasks, tasks[t].pc \in Running, NEW row \in TaskRecords,
         tasks' = [tasks EXCEPT ![t] = row], row.pc \in Running, row.key = tasks[t].key,
         row.waiters = tasks[t].waiters, row.cancelling = tasks[t].cancelling,
         ~row.cancelling \/ row.started = tasks[t].started,
         UNCHANGED <<callers, inflight, shutdown>>, heldUntil' \in Nat
  PROVE  CoordinatorInv'
<1> USE DEF CoordinatorInv, CoordinatorTypes
<1>1. CoordinatorTypes'
  OBVIOUS
<1>2. InflightRuns' /\ RunningIsJoined'
  BY DEF InflightRuns, RunningIsJoined
<1>3. FreeIsEmpty' /\ WaitersHaveTasks'
  BY DEF FreeIsEmpty, WaitersHaveTasks, Running
<1>4. BegunEndsAlone'
  BY DEF BegunEndsAlone, Running
<1>5. NoForeignCancellation' /\ ClosedIsQuiet'
  BY DEF NoForeignCancellation, ClosedIsQuiet
<1> QED
  BY <1>1, <1>2, <1>3, <1>4, <1>5

(* A task ends: whoever waits still finds it.                               *)
LEMMA EndTaskKeeps ==
  ASSUME CoordinatorInv, NEW t \in Tasks, tasks[t].pc \in Running, NEW how \in Ended,
         how = "cancelled" => tasks[t].waiters = {} \/ tasks[t].cancelling,
         EndTask(t, how), UNCHANGED <<callers, shutdown>>, heldUntil' \in Nat
  PROVE  /\ CoordinatorInv'
         /\ tasks'[t].pc \notin Running
         /\ \A u \in Tasks : u # t => tasks'[u] = tasks[u]
<1> USE DEF CoordinatorInv, CoordinatorTypes
<1> DEFINE ended == [tasks[t] EXCEPT !.pc = how, !.deadline = 0, !.cancelling = FALSE, !.kind = "query"]
           row == IF tasks[t].waiters = {} THEN FreeTask ELSE ended
           key == tasks[t].key
<1>1. tasks' = [tasks EXCEPT ![t] = row]
  BY DEF EndTask
<1>2. key \in Keys /\ inflight[key] = t
  BY DEF RunningIsJoined
<1>3. inflight' = [inflight EXCEPT ![key] = NoTask]
  BY <1>2 DEF EndTask
<1>4. tasks[t] \in TaskRecords
  OBVIOUS
<1>5. /\ ended \in TaskRecords /\ ended.pc = how /\ ended.waiters = tasks[t].waiters
      /\ ended.started = tasks[t].started /\ ended.cancelling = FALSE
  <2>1. how \in {"free"} \union Running \union Ended /\ 0 \in Int
    OBVIOUS
  <2> QED
    BY <1>4, <2>1 DEF TaskRecords
<1> HIDE DEF ended
<1>6. /\ row \in TaskRecords /\ row.pc \in {"free"} \union Ended /\ row.waiters = tasks[t].waiters
      /\ row.pc = "free" => row.waiters = {}
      /\ row.started /\ (row.pc = "cancelled" \/ row.cancelling) => tasks[t].started /\ tasks[t].cancelling
  BY <1>5, FreeTaskIsRecord DEF Ended
<1> HIDE DEF row
<1>7. row.pc \notin Running
  BY <1>6 DEF Running, Ended
<1>8. CoordinatorTypes'
  BY <1>1, <1>2, <1>3, <1>6
<1>9. InflightRuns'
  <2> SUFFICES ASSUME NEW k \in Keys, inflight'[k] # NoTask
               PROVE  tasks'[inflight'[k]].pc \in Running /\ tasks'[inflight'[k]].key = k
    BY DEF InflightRuns
  <2>1. k # key /\ inflight'[k] = inflight[k]
    BY <1>2, <1>3
  <2>2. tasks[inflight[k]].pc \in Running /\ tasks[inflight[k]].key = k /\ inflight[k] \in Tasks
    BY <2>1 DEF InflightRuns
  <2>3. inflight[k] # t
    BY <2>1, <2>2
  <2> QED
    BY <1>1, <2>1, <2>2, <2>3
<1>10. RunningIsJoined'
  <2> SUFFICES ASSUME NEW u \in Tasks, tasks'[u].pc \in Running
               PROVE  tasks'[u].key \in Keys /\ inflight'[tasks'[u].key] = u
    BY DEF RunningIsJoined
  <2>1. u # t /\ tasks'[u] = tasks[u]
    BY <1>1, <1>7
  <2>2. tasks[u].key \in Keys /\ inflight[tasks[u].key] = u
    BY <2>1 DEF RunningIsJoined
  <2>3. tasks[u].key # key
    BY <1>2, <2>1, <2>2
  <2> QED
    BY <1>3, <2>1, <2>2, <2>3
<1>11. FreeIsEmpty' /\ WaitersHaveTasks'
  BY <1>1, <1>6 DEF FreeIsEmpty, WaitersHaveTasks
<1>12. BegunEndsAlone'
  <2> SUFFICES ASSUME NEW u \in Tasks, tasks'[u].started, tasks'[u].pc = "cancelled" \/ tasks'[u].cancelling
               PROVE  shutdown # "open"
    BY DEF BegunEndsAlone
  <2>1. tasks'[t] = row /\ (u # t => tasks'[u] = tasks[u])
    BY <1>1
  <2> QED
    BY <1>6, <2>1 DEF BegunEndsAlone
<1>13. NoForeignCancellation' /\ ClosedIsQuiet'
  BY <1>1, <1>7 DEF NoForeignCancellation, ClosedIsQuiet
<1> QED
  BY <1>1, <1>7, <1>8, <1>9, <1>10, <1>11, <1>12, <1>13

(* A caller leaves its task.                                                *)
LEMMA ReleasedKeeps ==
  ASSUME CoordinatorInv, NEW c \in Callers, callers[c].pc = "waiting", tasks' = Released(c),
         NEW row \in CallerRecords, callers' = [callers EXCEPT ![c] = row],
         row.pc \in {"retry", "answered"}, row.pc = "retry" => row.key \in Keys,
         UNCHANGED <<inflight, shutdown, heldUntil>>
  PROVE  CoordinatorInv' /\ NoneBegins
<1> USE DEF CoordinatorInv, CoordinatorTypes
<1> PICK t \in Tasks : t = callers[c].task /\ c \in tasks[t].waiters
  BY DEF WaitersHaveTasks
<1> DEFINE left == tasks[t].waiters \ {c}
           stays == [tasks[t] EXCEPT !.waiters = left]
           stopped == [stays EXCEPT !.cancelling = TRUE]
           after == IF stays.pc \in Ended /\ left = {} THEN FreeTask
                    ELSE IF /\ inflight[stays.key] = t /\ left = {} /\ ~stays.started /\ stays.pc \in Running
                      THEN stopped ELSE stays
<1>1. tasks' = [tasks EXCEPT ![t] = after]
  BY DEF Released
<1>2. tasks[t] \in TaskRecords /\ shutdown = "open"
  BY DEF WaitersHaveTasks
<1>3. /\ stays \in TaskRecords /\ stays.pc = tasks[t].pc /\ stays.key = tasks[t].key /\ stays.waiters = left
      /\ stays.started = tasks[t].started /\ stays.cancelling = tasks[t].cancelling
  BY <1>2 DEF TaskRecords
<1> HIDE DEF stays
<1>4. /\ stopped \in TaskRecords /\ stopped.pc = tasks[t].pc /\ stopped.key = tasks[t].key
      /\ stopped.waiters = left /\ stopped.started = tasks[t].started /\ stopped.cancelling = TRUE
  BY <1>3 DEF TaskRecords
<1> HIDE DEF stopped
<1>5. \/ after = FreeTask /\ tasks[t].pc \in Ended /\ left = {}
      \/ after = stopped /\ ~tasks[t].started
      \/ after = stays
  BY <1>3
<1>6. /\ after \in TaskRecords /\ after.waiters = left
      /\ \/ after.pc = tasks[t].pc /\ after.key = tasks[t].key
         \/ after.pc = "free" /\ tasks[t].pc \in Ended
      /\ after.pc = "free" => left = {} \/ tasks[t].pc = "free"
      /\ after.started => tasks[t].started
      /\ after.started /\ (after.pc = "cancelled" \/ after.cancelling) =>
           tasks[t].pc = "cancelled" \/ tasks[t].cancelling
  BY <1>3, <1>4, <1>5, FreeTaskIsRecord
<1> HIDE DEF after
<1>7. after.pc \in Running <=> tasks[t].pc \in Running
  BY <1>6 DEF Running, Ended
<1>8. tasks[t].pc \in Running => after.key = tasks[t].key
  BY <1>6 DEF Running, Ended
<1>9. CoordinatorTypes'
  BY <1>1, <1>6
<1>10. InflightRuns'
  BY <1>1, <1>7, <1>8 DEF InflightRuns
<1>11. RunningIsJoined'
  BY <1>1, <1>7, <1>8 DEF RunningIsJoined
<1>12. FreeIsEmpty'
  BY <1>1, <1>6 DEF FreeIsEmpty
<1>13. WaitersHaveTasks'
  <2> SUFFICES ASSUME NEW d \in Callers
               PROVE  /\ callers'[d].pc = "waiting" => callers'[d].task \in Tasks /\ d \in tasks'[callers'[d].task].waiters
                      /\ callers'[d].pc \in {"waiting", "retry"} => callers'[d].key \in Keys /\ shutdown' = "open"
    BY DEF WaitersHaveTasks
  <2>1. CASE d = c
    BY <1>2, <2>1
  <2>2. CASE d # c
    <3>1. callers'[d] = callers[d]
      BY <2>2
    <3>2. \A u \in Tasks : d \in tasks[u].waiters => d \in tasks'[u].waiters
      BY <1>1, <1>6, <2>2
    <3> QED
      BY <1>2, <3>1, <3>2 DEF WaitersHaveTasks
  <2> QED
    BY <2>1, <2>2
<1>14. BegunEndsAlone'
  BY <1>1, <1>6 DEF BegunEndsAlone
<1>15. NoForeignCancellation' /\ ClosedIsQuiet'
  BY <1>2 DEF NoForeignCancellation, ClosedIsQuiet
<1>16. NoneBegins
  BY <1>1, <1>6 DEF NoneBegins
<1> QED
  BY <1>9, <1>10, <1>11, <1>12, <1>13, <1>14, <1>15, <1>16

(* A call that does not wait.                                               *)
LEMMA CallerEndsKeeps ==
  ASSUME CoordinatorInv, NEW c \in Callers, NEW how, how # "cancelled", CallerEnds(c, how),
         UNCHANGED <<tasks, inflight, shutdown>>, heldUntil' \in Nat
  PROVE  CoordinatorInv' /\ NoneBegins
<1> USE DEF CoordinatorInv, CoordinatorTypes
<1> DEFINE row == [IdleCaller EXCEPT !.pc = "answered"]
<1>1. callers' = [callers EXCEPT ![c] = row]
  BY DEF CallerEnds
<1>2. row \in CallerRecords /\ row.pc = "answered"
  BY IdleIsRecord DEF CallerRecords
<1> HIDE DEF row
<1>3. CoordinatorTypes'
  BY <1>1, <1>2
<1>4. InflightRuns' /\ RunningIsJoined' /\ FreeIsEmpty' /\ BegunEndsAlone' /\ ClosedIsQuiet'
  BY DEF InflightRuns, RunningIsJoined, FreeIsEmpty, BegunEndsAlone, ClosedIsQuiet
<1>5. WaitersHaveTasks' /\ NoForeignCancellation'
  BY <1>1, <1>2 DEF WaitersHaveTasks, NoForeignCancellation
<1>6. NoneBegins
  BY DEF NoneBegins
<1> QED
  BY <1>3, <1>4, <1>5, <1>6

(* A caller joins the task of its search, or begins one.                    *)
LEMMA JoinKeeps ==
  ASSUME CoordinatorInv, NEW c \in Callers, callers[c].pc \in {"idle", "retry"}, shutdown = "open",
         NEW k \in Keys, NEW until \in Nat, now \in Nat, Join(c, k, until)
  PROVE  CoordinatorInv' /\ NoneBegins
<1> USE DEF CoordinatorInv, CoordinatorTypes
<1>1. UNCHANGED shutdown
  BY DEF Join
<1>2. CASE /\ \E how \in {"held", "ok", "backoff"} : CallerEnds(c, how)
           /\ UNCHANGED <<tasks, inflight>> /\ heldUntil' \in {heldUntil, 0}
  BY <1>1, <1>2, CallerEndsKeeps
<1>3. ASSUME NEW t \in Tasks, TaskOf(k, t), heldUntil' = 0,
             tasks' = [tasks EXCEPT ![t] =
               IF @.pc = "free"
                 THEN [FreeTask EXCEPT !.pc = "queued", !.key = k,
                         !.deadline = until - Cleanup(until - now), !.waiters = {c}]
                 ELSE [tasks[t] EXCEPT !.waiters = @ \union {c}]],
             inflight' = [inflight EXCEPT ![k] = t],
             callers' = [callers EXCEPT ![c] =
               [pc |-> "waiting", key |-> k, deadline |-> until, left |-> 0, task |-> t]]
      PROVE  CoordinatorInv' /\ NoneBegins
  <2> DEFINE begun == [FreeTask EXCEPT !.pc = "queued", !.key = k, !.deadline = until - Cleanup(until - now), !.waiters = {c}]
             joined == [tasks[t] EXCEPT !.waiters = @ \union {c}]
             row == IF tasks[t].pc = "free" THEN begun ELSE joined
             caller == [pc |-> "waiting", key |-> k, deadline |-> until, left |-> 0, task |-> t]
  <2>1. tasks' = [tasks EXCEPT ![t] = row] /\ callers' = [callers EXCEPT ![c] = caller]
    <3>1. tasks' = [tasks EXCEPT ![t] = row]
      BY <1>3
    <3>2. callers' = [callers EXCEPT ![c] = caller]
      BY <1>3
    <3> QED
      BY <3>1, <3>2
  <2>2. caller \in CallerRecords /\ caller.pc = "waiting" /\ caller.task = t /\ caller.key = k
    BY DEF CallerRecords
  <2>3. /\ begun \in TaskRecords /\ begun.pc = "queued" /\ begun.key = k /\ begun.waiters = {c}
        /\ begun.started = FALSE /\ begun.cancelling = FALSE
    <3>1. until - Cleanup(until - now) \in Int
      <4>1. until \in Int /\ now \in Int
        OBVIOUS
      <4>2. (until - now) \div 5 \in Int
        BY <4>1
      <4> QED
        BY <4>1, <4>2, CoordinatorAssumption DEF Cleanup
    <3>2. "queued" \in {"free"} \union Running \union Ended
      BY DEF Running
    <3> QED
      BY <3>1, <3>2, FreeTaskIsRecord DEF TaskRecords
  <2>4. tasks[t] \in TaskRecords
    OBVIOUS
  <2>5. /\ joined \in TaskRecords /\ joined.pc = tasks[t].pc /\ joined.key = tasks[t].key
        /\ joined.waiters = tasks[t].waiters \union {c}
        /\ joined.started = tasks[t].started /\ joined.cancelling = tasks[t].cancelling
    BY <2>4 DEF TaskRecords
  <2> HIDE DEF begun, joined, caller
  <2>6. CASE inflight[k] = NoTask
    <3>1. tasks[t].pc = "free" /\ row = begun
      BY <1>3, <2>6 DEF TaskOf
    <3>2. CoordinatorTypes'
      BY <1>1, <1>3, <2>1, <2>2, <2>3, <3>1
    <3>3. \A l \in Keys : inflight[l] # t
      BY <3>1, CoordinatorAssumption DEF InflightRuns, Running
    <3>4. InflightRuns'
      BY <1>3, <2>1, <2>3, <3>1, <3>3 DEF InflightRuns, Running
    <3>5. RunningIsJoined'
      BY <1>3, <2>1, <2>3, <2>6, <3>1, CoordinatorAssumption DEF RunningIsJoined
    <3>6. FreeIsEmpty' /\ BegunEndsAlone'
      BY <2>1, <2>3, <3>1 DEF FreeIsEmpty, BegunEndsAlone
    <3>7. WaitersHaveTasks'
      BY <1>1, <2>1, <2>2, <2>3, <3>1 DEF WaitersHaveTasks, FreeIsEmpty
    <3>8. NoForeignCancellation' /\ ClosedIsQuiet' /\ NoneBegins
      BY <1>1, <2>1, <2>2, <2>3, <3>1 DEF NoForeignCancellation, ClosedIsQuiet, NoneBegins
    <3> QED
      BY <3>2, <3>4, <3>5, <3>6, <3>7, <3>8
  <2>7. CASE inflight[k] # NoTask
    <3>1. t = inflight[k] /\ tasks[t].pc \in Running /\ tasks[t].key = k
      BY <1>3, <2>7 DEF TaskOf, InflightRuns
    <3>2. row = joined /\ inflight' = inflight
      BY <1>3, <3>1 DEF Running
    <3>3. CoordinatorTypes'
      <4>1. tasks' \in [Tasks -> TaskRecords] /\ callers' \in [Callers -> CallerRecords]
        BY <2>1, <2>2, <2>5, <3>2
      <4>2. inflight' \in [Keys -> Tasks \union {NoTask}] /\ heldUntil' \in Nat
        BY <1>3, <3>2
      <4> QED
        BY <1>1, <4>1, <4>2
    <3>4. InflightRuns' /\ RunningIsJoined'
      BY <2>1, <2>5, <3>2 DEF InflightRuns, RunningIsJoined
    <3>5. FreeIsEmpty' /\ BegunEndsAlone'
      BY <1>1, <2>1, <2>5, <3>1, <3>2 DEF FreeIsEmpty, BegunEndsAlone, Running
    <3>6. WaitersHaveTasks'
      BY <1>1, <2>1, <2>2, <2>5, <3>2 DEF WaitersHaveTasks
    <3>7. NoForeignCancellation' /\ ClosedIsQuiet' /\ NoneBegins
      BY <1>1, <2>1, <2>2, <2>5, <3>2 DEF NoForeignCancellation, ClosedIsQuiet, NoneBegins
    <3> QED
      BY <3>3, <3>4, <3>5, <3>6, <3>7
  <2> QED
    BY <2>6, <2>7
<1> QED
  BY <1>2, <1>3 DEF Join

(* A caller joins the task of its search, or makes one.                     *)
LEMMA EnterKeeps ==
  ASSUME CoordinatorInv, NEW c \in Callers, callers[c].pc \in {"idle", "retry"}, shutdown = "open",
         NEW k \in Keys, NEW until \in Nat, now \in Nat, Enter(c, k, until)
  PROVE  CoordinatorInv' /\ NoneBegins
<1>1. CASE Join(c, k, until)
  BY <1>1, JoinKeeps
<1>2. CASE CallerEnds(c, "deferred") /\ UNCHANGED <<tasks, inflight, heldUntil, shutdown>>
  BY <1>2, CallerEndsKeeps DEF CoordinatorInv, CoordinatorTypes
<1> QED
  BY <1>1, <1>2 DEF Enter

(* What a query that begins must find.                                      *)
AdmittedBegins ==
  \A t \in Tasks : Begun(t) => due <= now /\ \A u \in Tasks \ {t} : tasks'[u].pc \notin InGate

(* A step in which no query begins admits none.                             *)
LEMMA NoneIsAdmitted == NoneBegins => AdmittedBegins
BY DEF NoneBegins, AdmittedBegins, Begun

(* A query begins only after the hold was checked and the report before was *)
(* made.                                                                    *)
LEMMA BeginKeeps ==
  ASSUME SearchInv, NEW t \in Tasks, BeginQuery(t)
  PROVE  CoordinatorInv' /\ AdmittedBegins
<1> USE DEF SearchInv
<1>1. /\ tasks[t].pc = "queued" /\ tasks[t].pc \in Running /\ ~tasks[t].cancelling
      /\ GateIsFree /\ UNCHANGED <<callers, shutdown>>
  BY DEF BeginQuery, Running
<1>2. heldUntil \in Nat /\ heldUntil' \in Nat
  BY DEF BeginQuery, CoordinatorInv, CoordinatorTypes
<1>3. CASE \/ EndTask(t, "deferred") \/ EndTask(t, "held")
           \/ EndTask(t, "cancelled") /\ tasks[t].waiters = {}
  <2>1. PICK how \in Ended : EndTask(t, how) /\ (how = "cancelled" => tasks[t].waiters = {})
    BY <1>3 DEF Ended
  <2>2. /\ CoordinatorInv'
        /\ tasks'[t].pc \notin Running
        /\ \A u \in Tasks : u # t => tasks'[u] = tasks[u]
    BY <1>1, <1>2, <2>1, EndTaskKeeps
  <2>3. NoneBegins
    BY <2>2 DEF NoneBegins, Running
  <2> QED
    BY <2>2, <2>3, NoneIsAdmitted
<1>4. CASE /\ CheckAdmits /\ UNCHANGED inflight
           /\ tasks' = [tasks EXCEPT ![t] = [@ EXCEPT !.pc = "querying", !.started = TRUE]]
  <2> DEFINE row == [tasks[t] EXCEPT !.pc = "querying", !.started = TRUE]
  <2>1. tasks' = [tasks EXCEPT ![t] = row]
    BY <1>4
  <2>2. tasks[t] \in TaskRecords /\ "querying" \in Running
    BY DEF CoordinatorInv, CoordinatorTypes, Running
  <2>3. /\ row \in TaskRecords /\ row.pc = "querying" /\ row.key = tasks[t].key
        /\ row.waiters = tasks[t].waiters /\ row.cancelling = tasks[t].cancelling
    BY <2>2 DEF TaskRecords
  <2> HIDE DEF row
  <2>4. CoordinatorInv'
    <3>1. UNCHANGED <<callers, inflight, shutdown>> /\ ~row.cancelling
      BY <1>1, <1>4, <2>3
    <3>2. row.pc \in Running
      BY <2>2, <2>3
    <3>3. CoordinatorInv /\ tasks[t].pc \in Running /\ heldUntil' \in Nat
      BY <1>1, <1>2
    <3> QED
      BY <2>1, <2>3, <3>1, <3>2, <3>3, TaskGoesOn
  <2>5. \A u \in Tasks \ {t} : tasks'[u] = tasks[u] /\ tasks[u].pc \notin InGate
    BY <1>1, <2>1 DEF GateIsFree, CoordinatorInv, CoordinatorTypes
  <2>6. due <= now
    BY <1>4, AdmittedIsNotDue
  <2>7. AdmittedBegins
    BY <2>5, <2>6 DEF AdmittedBegins, Begun, InGate
  <2> QED
    BY <2>4, <2>7
<1> QED
  BY <1>3, <1>4 DEF BeginQuery

(* A task that ends while nothing is asked of the shared hold, or the       *)
(* report it stands in is cut.                                              *)
LEMMA EndsQuietly ==
  ASSUME CoordinatorInv, NEW t \in Tasks, tasks[t].pc \in Running, NEW how \in Ended,
         how = "cancelled" => tasks[t].cancelling,
         EndTask(t, how), UNCHANGED <<callers, shutdown>>, heldUntil' \in Nat
  PROVE  CoordinatorInv' /\ AdmittedBegins
<1>1. /\ CoordinatorInv'
      /\ tasks'[t].pc \notin Running
      /\ \A u \in Tasks : u # t => tasks'[u] = tasks[u]
  BY EndTaskKeeps
<1>2. NoneBegins
  BY <1>1 DEF NoneBegins, Running
<1> QED
  BY <1>1, <1>2, NoneIsAdmitted

(* A task that is there has the fields of a task.                           *)
LEMMA TaskKinds ==
  ASSUME CoordinatorInv, NEW t \in Tasks
  PROVE  tasks[t] \in TaskRecords /\ tasks[t].kind \in CooldownKinds
BY DEF CoordinatorInv, CoordinatorTypes, TaskRecords, CooldownKinds

(* The sidecar answers, fails, defers, or proves that the provider has to   *)
(* be left alone.                                                           *)
LEMMA QueryKeeps ==
  ASSUME SearchInv, NEW t \in Tasks,
         QueryAnswers(t) \/ QueryFails(t) \/ QueryDeferred(t)
           \/ \E kind \in {"query", "protection"} : QueryProves(t, kind)
  PROVE  SearchInv' /\ AdmittedBegins
<1> USE DEF SearchInv
<1>1. /\ tasks[t].pc = "querying" /\ tasks[t].pc \in Running /\ ~tasks[t].cancelling
      /\ UNCHANGED <<cooldownVars, callers, heldUntil, shutdown>>
  BY DEF QueryAnswers, QueryFails, QueryDeferred, QueryProves, Querying, Running
<1>2. CooldownInv'
  BY <1>1, ClockKeepsHold
<1>3. heldUntil' \in Nat
  BY <1>1 DEF CoordinatorInv, CoordinatorTypes
<1>4. CASE \E how \in {"ok", "deadline", "failed", "deferred"} : EndTask(t, how)
  <2>1. PICK how \in Ended : EndTask(t, how) /\ how # "cancelled"
    BY <1>4 DEF Ended
  <2> QED
    BY <1>1, <1>2, <1>3, <2>1, EndsQuietly
<1>5. ASSUME NEW kind \in {"query", "protection"}, QueryProves(t, kind)
      PROVE  SearchInv' /\ AdmittedBegins
  <2> DEFINE row == [tasks[t] EXCEPT !.pc = "reporting", !.kind = kind]
  <2>1. tasks' = [tasks EXCEPT ![t] = row] /\ UNCHANGED inflight
    BY <1>5 DEF QueryProves
  <2>2. tasks[t] \in TaskRecords /\ "reporting" \in Running
    BY TaskKinds DEF Running
  <2>3. /\ row \in TaskRecords /\ row.pc = "reporting" /\ row.key = tasks[t].key
        /\ row.waiters = tasks[t].waiters /\ row.cancelling = tasks[t].cancelling
        /\ row.started = tasks[t].started
    BY <2>2 DEF TaskRecords
  <2> HIDE DEF row
  <2>4. CoordinatorInv'
    BY <1>1, <1>3, <2>1, <2>2, <2>3, TaskGoesOn
  <2>5. NoneBegins
    BY <2>1, <2>3 DEF NoneBegins, CoordinatorInv, CoordinatorTypes
  <2> QED
    BY <1>2, <2>4, <2>5, NoneIsAdmitted
<1> QED
  BY <1>4, <1>5 DEF QueryAnswers, QueryFails, QueryDeferred

(* A task reports what it proved; until then its place at the browser is    *)
(* taken.                                                                   *)
LEMMA ReportKeeps ==
  ASSUME SearchInv, NEW t \in Tasks, Report(t)
  PROVE  SearchInv' /\ AdmittedBegins
<1> USE DEF SearchInv
<1>1. /\ tasks[t].pc \in {"reporting", "reported"} /\ tasks[t].pc \in Running
      /\ Observe(tasks[t].kind) /\ UNCHANGED <<callers, shutdown>>
  BY DEF Report, Running
<1>2. CooldownInv'
  BY <1>1, TaskKinds, ObserveKeepsHold
<1>3. CASE EndTask(t, "held") /\ heldUntil' = Later(heldUntil, now + HoldOf(tasks[t].kind))
  <2>1. heldUntil' \in Nat
    BY <1>3, TaskKinds, HoldIsWritten
      DEF Later, CoordinatorInv, CoordinatorTypes, CooldownInv, CooldownTypeOK
  <2>2. "held" \in Ended
    BY DEF Ended
  <2> QED
    BY <1>1, <1>2, <1>3, <2>1, <2>2, EndsQuietly
<1>4. CASE tasks' = [tasks EXCEPT ![t].pc = "reported"] /\ UNCHANGED <<inflight, heldUntil>>
  <2> DEFINE row == [tasks[t] EXCEPT !.pc = "reported"]
  <2>1. tasks' = [tasks EXCEPT ![t] = row]
    BY <1>4
  <2>2. tasks[t] \in TaskRecords /\ "reported" \in Running
    BY TaskKinds DEF Running
  <2>3. /\ row \in TaskRecords /\ row.pc = "reported" /\ row.key = tasks[t].key
        /\ row.waiters = tasks[t].waiters /\ row.cancelling = tasks[t].cancelling
        /\ row.started = tasks[t].started
    BY <2>2 DEF TaskRecords
  <2> HIDE DEF row
  <2>4. heldUntil' \in Nat
    BY <1>4 DEF CoordinatorInv, CoordinatorTypes
  <2>5. CoordinatorInv'
    <3>1. UNCHANGED <<callers, inflight, shutdown>>
      BY <1>1, <1>4
    <3>2. row.pc \in Running
      BY <2>2, <2>3
    <3>3. CoordinatorInv /\ tasks[t].pc \in Running
      BY <1>1
    <3> QED
      BY <2>1, <2>3, <2>4, <3>1, <3>2, <3>3, TaskGoesOn
  <2>6. NoneBegins
    BY <2>1, <2>3 DEF NoneBegins, CoordinatorInv, CoordinatorTypes
  <2> QED
    BY <1>2, <2>5, <2>6, NoneIsAdmitted
<1> QED
  BY <1>3, <1>4 DEF Report

(* A task whose time is up, or that is cancelled, gives its place back.     *)
LEMMA StopKeeps ==
  ASSUME SearchInv, NEW t \in Tasks, TaskDeadline(t) \/ TaskCancelled(t)
  PROVE  SearchInv' /\ AdmittedBegins
<1> USE DEF SearchInv
<1>1. PICK how \in Ended :
        StopTask(t, how) /\ tasks[t].pc \in Running /\ (how = "cancelled" => tasks[t].cancelling)
  BY DEF TaskDeadline, TaskCancelled, Running, Ended
<1>2. CooldownInv'
  BY <1>1, TaskKinds, ObserveKeepsHold, ClockKeepsHold DEF StopTask
<1>3. EndTask(t, how) /\ UNCHANGED <<callers, shutdown>> /\ heldUntil' \in Nat
  BY <1>1 DEF StopTask, CoordinatorInv, CoordinatorTypes
<1> QED
  BY <1>1, <1>2, <1>3, EndsQuietly

(* A caller asks, or asks again.                                            *)
LEMMA CallsKeep ==
  ASSUME SearchInv, NEW c \in Callers,
         (\E k \in Keys, d \in Timeouts : Call(c, k, d)) \/ Retry(c)
  PROVE  SearchInv' /\ AdmittedBegins
<1> USE DEF SearchInv
<1>1. PICK k \in Keys, until \in Nat :
        Enter(c, k, until) /\ callers[c].pc \in {"idle", "retry"} /\ shutdown = "open"
  <2>1. ASSUME NEW k \in Keys, NEW d \in Timeouts, Call(c, k, d)
        PROVE  /\ now + d \in Nat /\ Enter(c, k, now + d)
               /\ callers[c].pc \in {"idle", "retry"} /\ shutdown = "open"
    BY <2>1, CoordinatorAssumption DEF Call, CooldownInv, CooldownTypeOK
  <2>2. ASSUME Retry(c)
        PROVE  /\ callers[c].key \in Keys /\ now + callers[c].left \in Nat
               /\ Enter(c, callers[c].key, now + callers[c].left)
               /\ callers[c].pc \in {"idle", "retry"} /\ shutdown = "open"
    <3>1. callers[c] \in CallerRecords /\ now \in Nat
      BY DEF CoordinatorInv, CoordinatorTypes, CooldownInv, CooldownTypeOK
    <3>2. callers[c].left \in Nat
      BY <3>1 DEF CallerRecords
    <3> QED
      BY <2>2, <3>1, <3>2 DEF Retry, CoordinatorInv, WaitersHaveTasks
  <2> QED
    BY <2>1, <2>2
<1>2. CooldownInv'
  BY <1>1, CheckKeepsHold DEF Enter, CheckAdmits
<1>3. now \in Nat
  BY DEF CooldownInv, CooldownTypeOK
<1> QED
  BY <1>1, <1>2, <1>3, EnterKeeps, NoneIsAdmitted

(* A caller gets the answer, or leaves without one; the last one that       *)
(* leaves cancels the task.                                                 *)
LEMMA LeavesKeep ==
  ASSUME SearchInv, NEW c \in Callers, Resume(c) \/ CallerTimesOut(c) \/ Leaves(c)
  PROVE  SearchInv' /\ AdmittedBegins
<1> USE DEF SearchInv
<1>1. /\ callers[c].pc = "waiting" /\ tasks' = Released(c)
      /\ UNCHANGED <<cooldownVars, inflight, heldUntil, shutdown>>
  BY DEF Resume, CallerTimesOut, Leaves, GiveUp
<1>2. CooldownInv'
  BY <1>1, ClockKeepsHold
<1>3. callers[c] \in CallerRecords /\ callers[c].key \in Keys /\ callers[c].task \in Tasks /\ shutdown = "open"
  BY <1>1 DEF CoordinatorInv, CoordinatorTypes, WaitersHaveTasks
<1>4. CASE \E how : CallerEnds(c, how) /\ how # "cancelled"
  <2> DEFINE row == [IdleCaller EXCEPT !.pc = "answered"]
  <2>1. callers' = [callers EXCEPT ![c] = row]
    BY <1>4 DEF CallerEnds
  <2>2. row \in CallerRecords /\ row.pc = "answered"
    BY IdleIsRecord DEF CallerRecords
  <2> HIDE DEF row
  <2>3. CoordinatorInv' /\ NoneBegins
    BY <1>1, <2>1, <2>2, ReleasedKeeps
  <2> QED
    BY <1>2, <2>3, NoneIsAdmitted
<1>5. CASE /\ now < callers[c].deadline
           /\ callers' = [callers EXCEPT ![c] =
                [@ EXCEPT !.pc = "retry", !.left = callers[c].deadline - now, !.task = NoTask]]
  <2> DEFINE row == [callers[c] EXCEPT !.pc = "retry", !.left = callers[c].deadline - now, !.task = NoTask]
  <2>1. callers' = [callers EXCEPT ![c] = row]
    BY <1>5
  <2>2. callers[c].deadline \in Nat /\ now \in Nat
    BY <1>3 DEF CallerRecords, CooldownInv, CooldownTypeOK
  <2>3. callers[c].deadline - now \in Nat
    BY <1>5, <2>2
  <2>4. row \in CallerRecords /\ row.pc = "retry" /\ row.key = callers[c].key
    BY <1>3, <2>3 DEF CallerRecords
  <2> HIDE DEF row
  <2>5. CoordinatorInv' /\ NoneBegins
    BY <1>1, <1>3, <2>1, <2>4, ReleasedKeeps
  <2> QED
    BY <1>2, <2>5, NoneIsAdmitted
<1>6. CASE Resume(c)
  <2> DEFINE t == callers[c].task
  <2>1. tasks[t].pc = "cancelled" => ~tasks[t].started
    BY <1>3 DEF CoordinatorInv, BegunEndsAlone
  <2> QED
    BY <1>4, <1>5, <1>6, <2>1 DEF Resume
<1>7. CASE CallerTimesOut(c) \/ Leaves(c)
  BY <1>4, <1>7 DEF CallerTimesOut, Leaves, GiveUp
<1> QED
  BY <1>6, <1>7

(* A shutdown begins when nobody waits, and closes when nothing runs.       *)
LEMMA DrainKeeps ==
  ASSUME SearchInv, Drain
  PROVE  SearchInv' /\ AdmittedBegins
<1> USE DEF SearchInv, CoordinatorInv, CoordinatorTypes
<1>1. /\ UNCHANGED <<cooldownVars, callers, inflight, heldUntil>>
      /\ shutdown' \in {"draining", "cancelling", "closed", "given_up"}
  BY DEF Drain
<1>2. CooldownInv'
  BY <1>1, ClockKeepsHold
<1>3. \A c \in Callers : callers[c].pc \notin {"waiting", "retry"}
  BY DEF Drain, WaitersHaveTasks
<1>4. WaitersHaveTasks' /\ NoForeignCancellation' /\ BegunEndsAlone'
  BY <1>1, <1>3 DEF WaitersHaveTasks, NoForeignCancellation, BegunEndsAlone
<1>5. CASE UNCHANGED tasks
  <2>1. CoordinatorTypes' /\ InflightRuns' /\ RunningIsJoined' /\ FreeIsEmpty' /\ NoneBegins
    BY <1>1, <1>5 DEF InflightRuns, RunningIsJoined, FreeIsEmpty, NoneBegins
  <2>2. ClosedIsQuiet'
    <3> SUFFICES ASSUME shutdown' = "closed", NEW t \in Tasks PROVE tasks[t].pc \notin Running
      BY <1>5 DEF ClosedIsQuiet
    <3>1. Pending = {}
      BY DEF Drain
    <3> QED
      BY <3>1 DEF Pending, RunningIsJoined
  <2> QED
    BY <1>2, <1>4, <2>1, <2>2, NoneIsAdmitted
<1>6. CASE /\ shutdown' = "cancelling"
           /\ tasks' = [t \in Tasks |-> IF t \in Pending THEN [tasks[t] EXCEPT !.cancelling = TRUE] ELSE tasks[t]]
  <2>1. ASSUME NEW t \in Tasks
        PROVE  /\ tasks'[t] \in TaskRecords /\ tasks'[t].pc = tasks[t].pc
               /\ tasks'[t].key = tasks[t].key /\ tasks'[t].waiters = tasks[t].waiters
    <3> DEFINE row == [tasks[t] EXCEPT !.cancelling = TRUE]
    <3>1. tasks[t] \in TaskRecords
      OBVIOUS
    <3>2. /\ row \in TaskRecords /\ row.pc = tasks[t].pc /\ row.key = tasks[t].key
          /\ row.waiters = tasks[t].waiters
      BY <3>1 DEF TaskRecords
    <3>3. tasks'[t] = row \/ tasks'[t] = tasks[t]
      BY <1>6
    <3> HIDE DEF row
    <3> QED
      BY <3>1, <3>2, <3>3
  <2>2. CoordinatorTypes'
    <3>1. tasks' \in [Tasks -> TaskRecords]
      BY <1>6, <2>1
    <3> QED
      BY <1>1, <3>1
  <2>3. InflightRuns' /\ RunningIsJoined' /\ FreeIsEmpty' /\ NoneBegins /\ ClosedIsQuiet'
    BY <1>1, <1>6, <2>1 DEF InflightRuns, RunningIsJoined, FreeIsEmpty, NoneBegins, ClosedIsQuiet
  <2> QED
    BY <1>2, <1>4, <2>2, <2>3, NoneIsAdmitted
<1> QED
  BY <1>5, <1>6 DEF Drain

(* A restart has no task, and begins with the hold that Redis kept.         *)
LEMMA RestartKeeps ==
  ASSUME SearchInv, CoordinatorRestarts
  PROVE  SearchInv' /\ AdmittedBegins
<1> USE DEF SearchInv
<1>1. CooldownInv'
  BY ClockKeepsHold DEF CoordinatorRestarts
<1>2. /\ tasks' = [t \in Tasks |-> FreeTask] /\ inflight' = [k \in Keys |-> NoTask]
      /\ heldUntil' = 0 /\ shutdown' = "open"
  BY DEF CoordinatorRestarts
<1>3. \A c \in Callers : callers'[c] \in CallerRecords /\ callers'[c].pc \in {"idle", "answered"}
  <2> DEFINE row == [IdleCaller EXCEPT !.pc = "answered"]
  <2>1. row \in CallerRecords /\ row.pc = "answered"
    BY IdleIsRecord DEF CallerRecords
  <2>2. callers' = [c \in Callers |-> IF callers[c].pc = "idle" THEN IdleCaller ELSE row]
    BY DEF CoordinatorRestarts
  <2> HIDE DEF row
  <2> QED
    BY <2>1, <2>2, IdleIsRecord
<1>4. callers' \in [Callers -> CallerRecords]
  BY <1>3 DEF CoordinatorRestarts
<1>5. CoordinatorTypes'
  BY <1>2, <1>4, FreeTaskIsRecord DEF CoordinatorTypes
<1>6. InflightRuns' /\ RunningIsJoined' /\ FreeIsEmpty' /\ BegunEndsAlone' /\ ClosedIsQuiet' /\ NoneBegins
  BY <1>2, FreeTaskIsRecord
    DEF InflightRuns, RunningIsJoined, FreeIsEmpty, BegunEndsAlone, ClosedIsQuiet, NoneBegins, Running
<1>7. WaitersHaveTasks' /\ NoForeignCancellation'
  BY <1>3 DEF WaitersHaveTasks, NoForeignCancellation
<1> QED
  BY <1>1, <1>5, <1>6, <1>7, NoneIsAdmitted DEF CoordinatorInv

(* The other actors of the process prove their holds, and time passes.      *)
LEMMA OthersKeep ==
  ASSUME SearchInv, OthersProve \/ TimePasses \/ UNCHANGED searchVars
  PROVE  SearchInv' /\ AdmittedBegins
<1> USE DEF SearchInv
<1>1. UNCHANGED coordinatorVars
  BY DEF OthersProve, TimePasses, searchVars
<1>2. CooldownInv'
  BY ObserveKeepsHold, ClockKeepsHold DEF OthersProve, TimePasses, searchVars, CooldownKinds
<1>3. CoordinatorInv' /\ NoneBegins
  BY <1>1
    DEF coordinatorVars, CoordinatorInv, CoordinatorTypes, InflightRuns, RunningIsJoined, FreeIsEmpty,
        WaitersHaveTasks, BegunEndsAlone, NoForeignCancellation, ClosedIsQuiet, NoneBegins
<1> QED
  BY <1>2, <1>3, NoneIsAdmitted

(* No caller asked yet and nothing is held.                                 *)
LEMMA SearchStarts == SearchInit => SearchInv
<1> SUFFICES ASSUME SearchInit PROVE SearchInv
  OBVIOUS
<1>1. CooldownInv
  BY CooldownStart DEF SearchInit
<1>2. CoordinatorTypes
  BY FreeTaskIsRecord, IdleIsRecord DEF SearchInit, CoordinatorTypes
<1>3. /\ InflightRuns /\ RunningIsJoined /\ FreeIsEmpty /\ WaitersHaveTasks
      /\ BegunEndsAlone /\ NoForeignCancellation /\ ClosedIsQuiet
  BY FreeTaskIsRecord, IdleIsRecord
    DEF SearchInit, InflightRuns, RunningIsJoined, FreeIsEmpty, WaitersHaveTasks, BegunEndsAlone,
        NoForeignCancellation, ClosedIsQuiet, Running
<1> QED
  BY <1>1, <1>2, <1>3 DEF SearchInv, CoordinatorInv

(* The invariant is inductive, and each step admits its queries.            *)
LEMMA SearchStep ==
  ASSUME SearchInv, [SearchNext]_searchVars
  PROVE  SearchInv' /\ AdmittedBegins
<1>1. ASSUME NEW t \in Tasks, BeginQuery(t)
      PROVE  SearchInv' /\ AdmittedBegins
  <2>1. CooldownInv'
    BY <1>1, CheckKeepsHold DEF SearchInv, BeginQuery, CheckAdmits
  <2> QED
    BY <1>1, <2>1, BeginKeeps DEF SearchInv
<1> QED
  BY <1>1, CallsKeep, LeavesKeep, QueryKeeps, ReportKeeps, StopKeeps, DrainKeeps, RestartKeeps, OthersKeep
    DEF SearchNext

(* SharedTasks: no search is under way twice, whoever waits is known to a   *)
(* task, nobody is hit by the cancellation another caused, and a shutdown   *)
(* leaves no task, for any number of searches, callers and tasks.           *)
THEOREM SearchesAreShared == SearchSpec => []SharedTasks
<1>1. SearchInv => SharedTasks
  BY DEF SearchInv, CoordinatorInv, RunningIsJoined, WaitersHaveTasks, SharedTasks, OneTaskPerSearch,
         WaitersAreKnown
<1>2. SearchInv /\ [SearchNext]_searchVars => SearchInv'
  BY SearchStep
<1> QED
  BY <1>1, <1>2, SearchStarts, PTL DEF SearchSpec

(* QueriesAreAdmitted: a query begins only when no hold stands that is owed *)
(* and no other is at the browser or reporting, however the commands to     *)
(* Redis went, for any length of the holds in the order of the real ones.   *)
THEOREM QueriesWaitForHolds == SearchSpec => QueriesAreAdmitted
<1>1. SearchInv /\ [SearchNext]_searchVars => SearchInv'
  BY SearchStep
<1>2. SearchInv /\ [SearchNext]_searchVars =>
        [\A t \in Tasks : Begun(t) =>
           /\ due <= now
           /\ \A u \in Tasks \ {t} : tasks'[u].pc \notin InGate]_searchVars
  BY SearchStep DEF AdmittedBegins
<1> QED
  BY <1>1, <1>2, SearchStarts, PTL DEF SearchSpec, QueriesAreAdmitted
=============================================================================
