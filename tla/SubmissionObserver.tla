------------------------ MODULE SubmissionObserver --------------------------
(***************************************************************************)
(* The requests that the page sends after the click on the login form, and *)
(* the observer that watches them through CDP events                       *)
(* (PydollLoginSubmission). The page, the provider and the browser go on   *)
(* while the driver (LoginSubmission) awaits. The event of a request may   *)
(* be held up, until the browser has resolved the call stack behind it;    *)
(* the events of its response are not.                                     *)
(***************************************************************************)
EXTENDS Naturals, FiniteSets

CONSTANT Requests  \* bound: requests the page may send that are told apart

VARIABLES
  wire,       \* where each request stands: see Wire
  kind,       \* the role of each request, by its path and the place of its call
  resolving,  \* requests whose event waits for the call stack
  signedIn,   \* what the provider would answer an official probe
  window,     \* the watch: "off", "open", "expired"
  known,      \* watched requests: "none", "posted", "in_flight", "completed"
  rows,       \* the diagnostics of the requests that were watched
  evidenceOK, \* FALSE once an event could not be told to a request
  summary,    \* the snapshot: state, status and failure of all of them
  driver,     \* where the driver stands
  probe,      \* the one probe: whether it was made and what it showed
  look,       \* mode and requests when the driver last looked, before it awaits
  proof,      \* requests that a negative probe was told of, if one was
  covered     \* history: requests finished when the probe was sent

submissionVars == <<wire, kind, resolving, signedIn, window, known, rows, evidenceOK,
                    summary, driver, probe, look, proof, covered>>

Roles == {"login_submission", "integration_check", "login_bootstrap", "unresolved", "conflicting"}
Protective == {"403", "429"}
Statuses == {"ok", "redirect", "5xx", "invalid"} \union Protective
Wire == {"unsent", "sent", "answered", "finished", "failed"}
NoRow == [status |-> "none", terminal |-> "none", complete |-> FALSE]
Watched == {r \in Requests : rows[r] # NoRow}
FreshSubmission == [state |-> "missing", status |-> "none", failure |-> "none"]
NoLook == [mode |-> "blocked", group |-> {}]

SubmissionInit ==
  /\ wire = [r \in Requests |-> "unsent"] /\ kind \in [Requests -> Roles]
  /\ resolving = {} /\ signedIn = FALSE /\ window = "off"
  /\ known = [r \in Requests |-> "none"] /\ rows = [r \in Requests |-> NoRow]
  /\ evidenceOK = TRUE /\ summary = FreshSubmission
  /\ driver = "form" /\ probe = "unmade" /\ look = NoLook /\ proof = {} /\ covered = {}

-----------------------------------------------------------------------------
\* The observer.

decision == <<driver, probe, look, proof, covered>>
Final == {"failed", "ambiguous"}

\* _fail: the first failure stays, but for a protection status after another one.
Failed(failure, status) ==
  IF summary.state \in Final /\ (status \notin Protective \/ summary.status \in Protective)
    THEN summary
    ELSE [state |-> IF failure = "ambiguous" THEN "ambiguous" ELSE "failed",
          status |-> IF status # "none" THEN status ELSE summary.status,
          failure |-> failure]

\* _refresh: the requests that can decide about the login are those that are
\* not the fetch of its key; all of them must have been completed.
Refreshed(states, table) ==
  LET all == {r \in Requests : table[r] # NoRow}
      deciding == {r \in all : kind[r] # "login_bootstrap"}
      answered == {r \in deciding : states[r] \in {"in_flight", "completed"}} IN
  CASE summary.state \in Final                  -> summary
    [] summary.state \notin Final /\ deciding = {} -> FreshSubmission
    [] OTHER ->
         [state |-> IF \A r \in all : states[r] = "completed" THEN "completed"
                    ELSE IF answered # {} THEN "in_flight" ELSE "posted",
          status |-> IF answered # {} THEN "ok" ELSE "none",
          failure |-> "none"]

SafeToProbe == summary.state = "completed" /\ summary.status = "ok" /\ summary.failure = "none"

Bad(r) == rows[r].terminal = "failed" \/ rows[r].status \in Protective \union {"5xx"}
Good(r) == rows[r].terminal = "completed" /\ rows[r].status \in {"ok", "redirect"}

\* authentication_verification_mode
Mode ==
  LET logins == {r \in Watched : kind[r] = "login_submission"} IN
  CASE SafeToProbe -> "standard"
    [] ~SafeToProbe /\
       \/ Watched = {} \/ summary.state = "ambiguous" \/ ~evidenceOK
       \/ \E r \in Watched : \/ ~rows[r].complete \/ kind[r] = "conflicting"
                             \/ rows[r].status \in Protective
                             \/ Bad(r) /\ kind[r] # "integration_check"
       \/ ~\E r \in Watched : Bad(r)
       \/ logins = {}                                -> "blocked"
    [] OTHER -> IF \E r \in Watched : rows[r].terminal = "incomplete" THEN "pending"
                ELSE IF \A r \in logins : Good(r) THEN "independent" ELSE "blocked"

UnderWay == driver \in {"look", "header", "probe", "classify"}

\* The events change nothing once the window has expired.
Register(r) ==
  IF window # "open" THEN UNCHANGED <<known, rows, summary>>
  ELSE /\ known' = [known EXCEPT ![r] = "posted"]
       /\ rows' = [rows EXCEPT ![r] = [status |-> "none", terminal |-> "incomplete", complete |-> evidenceOK]]
       /\ summary' = Refreshed(known', rows')

\* An event that names no request, or one request more than are watched.
Untold(failure) ==
  /\ UnderWay /\ window = "open" /\ evidenceOK
  /\ failure = "invalid_response" => Watched # {}
  /\ evidenceOK' = FALSE
  /\ rows' = [r \in Requests |-> IF rows[r] = NoRow THEN NoRow ELSE [rows[r] EXCEPT !.complete = FALSE]]
  /\ summary' = Failed(failure, "none")
  /\ UNCHANGED <<wire, kind, resolving, signedIn, window, known, decision>>

Seen(r) == window = "open" /\ known[r] # "none"

\* requestWillBeSent, at once or after the call stack was resolved.  Bound: what
\* the page sends before the click or after the login ended is left out.
Send(r) ==
  /\ UnderWay /\ wire[r] = "unsent"
  /\ wire' = [wire EXCEPT ![r] = "sent"]
  /\ \/ resolving' = resolving \union {r} /\ UNCHANGED <<known, rows, summary>>
     \/ UNCHANGED resolving /\ Register(r)
  /\ UNCHANGED <<kind, signedIn, window, evidenceOK, decision>>
ResolveRequest(r) ==
  /\ UnderWay /\ r \in resolving /\ resolving' = resolving \ {r}
  /\ Register(r)
  /\ UNCHANGED <<wire, kind, signedIn, window, evidenceOK, decision>>

\* responseReceived.  The provider has logged the user in, or not, by then.
Respond(r, status) ==
  /\ UnderWay /\ wire[r] = "sent" /\ wire' = [wire EXCEPT ![r] = "answered"]
  /\ signedIn' \in {signedIn, signedIn \/ (kind[r] = "login_submission" /\ status = "ok")}
  /\ IF Seen(r)
       THEN LET bad == status \notin {"ok", "redirect"}
                row == IF status = "invalid"
                         THEN [rows[r] EXCEPT !.terminal = "incomplete", !.complete = FALSE]
                         ELSE [rows[r] EXCEPT !.status = status,
                                 !.complete = @ /\ status # "redirect"] IN
            /\ rows' = [rows EXCEPT ![r] = row]
            /\ known' = [known EXCEPT ![r] = IF ~bad /\ @ = "posted" THEN "in_flight" ELSE @]
            /\ summary' = CASE status = "invalid" -> Failed("invalid_response", "none")
                            [] status \in Protective \union {"5xx"} -> Failed("http_error", status)
                            [] ~bad -> IF known[r] = "posted" THEN Refreshed(known', rows') ELSE summary
       ELSE UNCHANGED <<known, rows, summary>>
  /\ UNCHANGED <<kind, resolving, window, evidenceOK, decision>>

\* loadingFinished
Finish(r) ==
  /\ UnderWay /\ wire[r] = "answered" /\ wire' = [wire EXCEPT ![r] = "finished"]
  /\ IF Seen(r)
       THEN /\ rows' = [rows EXCEPT ![r] =
                 IF @.status # "none" THEN [@ EXCEPT !.terminal = "completed"]
                 ELSE [@ EXCEPT !.complete = FALSE]]
            /\ known' = [known EXCEPT ![r] = IF @ = "in_flight" THEN "completed" ELSE @]
            /\ summary' = CASE known[r] = "in_flight" -> Refreshed(known', rows')
                            [] known[r] = "posted" -> Failed("invalid_response", "none")
                            [] OTHER -> summary
       ELSE UNCHANGED <<known, rows, summary>>
  /\ UNCHANGED <<kind, resolving, signedIn, window, evidenceOK, decision>>

\* loadingFailed
Break(r) ==
  /\ UnderWay /\ wire[r] \in {"sent", "answered"} /\ wire' = [wire EXCEPT ![r] = "failed"]
  /\ IF Seen(r)
       THEN /\ rows' = [rows EXCEPT ![r].terminal = "failed"]
            /\ summary' = Failed("network_error", "none")
       ELSE UNCHANGED <<rows, summary>>
  /\ UNCHANGED <<kind, resolving, signedIn, window, known, evidenceOK, decision>>

\* _expire_if_due: the time of the window runs from before the click, the time of
\* the driver from after it.
Expire ==
  /\ UnderWay /\ window = "open" /\ window' = "expired"
  /\ known' = [r \in Requests |-> "none"]
  /\ summary' = IF summary.state \in {"missing", "posted", "in_flight"}
       THEN [state |-> "failed", status |-> summary.status,
             failure |-> IF summary.state = "missing" THEN "missing" ELSE "timeout"]
       ELSE summary
  /\ UNCHANGED <<wire, kind, resolving, signedIn, rows, evidenceOK, decision>>
=============================================================================
