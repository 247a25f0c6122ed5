-------------------------- MODULE LoginSubmission ---------------------------
(***************************************************************************)
(* One login through the official form: the driver that decides from the   *)
(* requests its page sends (SubmissionObserver), from the header of the    *)
(* page and from one official probe how the login ended.                   *)
(***************************************************************************)
EXTENDS SubmissionObserver

observed == <<wire, kind, resolving, signedIn, window, known, rows, evidenceOK, summary>>
SubmissionEnds(how) == driver' = how /\ look' = NoLook /\ UNCHANGED <<probe, proof, covered>>
NextRound == driver' = "look" /\ look' = NoLook /\ UNCHANGED <<proof, covered>>

\* _login_response_failure
Failure == IF summary.state = "missing" \/ summary.failure = "missing" THEN "source" ELSE "unavailable"
StatusVerdict == CASE summary.status = "429" -> "limited" [] summary.status = "403" -> "protected"
                   [] OTHER -> Failure

\* The form is filled in and its values attested; then the watch is armed,
\* the submission recorded and the button clicked.  A login page that does not offer
\* the form ends the submission before.
SubmitForm ==
  /\ driver = "form" /\ window' = "open" /\ driver' = "look"
  /\ UNCHANGED <<wire, kind, resolving, signedIn, known, rows, evidenceOK, summary, probe, look, proof, covered>>
NoForm == driver = "form" /\ \E how \in {"no_form", "source", "protected"} : SubmissionEnds(how) /\ UNCHANGED observed

\* One round: the page is read, then the requests decide whether to go on.
\* page: what the reading of the page shows or raises.
Look(page) ==
  /\ driver = "look" /\ UNCHANGED observed
  /\ CASE page \in {"protected", "limited", "outage"} -> SubmissionEnds(page)
       [] page = "unreadable" -> SubmissionEnds(StatusVerdict)
       [] page \in {"server_error", "fine"} ->
            IF page = "server_error" /\ ~(summary.state = "failed" /\ summary.status = "5xx") THEN SubmissionEnds("outage")
            ELSE IF page = "server_error" /\ Mode \notin {"pending", "independent"} THEN SubmissionEnds(Failure)
            ELSE IF summary.status = "429" THEN SubmissionEnds("limited")
            ELSE IF summary.status = "403" THEN SubmissionEnds("protected")
            ELSE IF summary.state \in Final /\ Mode \notin {"pending", "independent"} THEN SubmissionEnds(Failure)
            ELSE IF (summary.state \in Final /\ Mode = "pending") \/ (summary.state \notin Final /\ ~SafeToProbe)
              THEN UNCHANGED decision
            ELSE /\ driver' = "header" /\ look' = [mode |-> Mode, group |-> Watched]
                 /\ UNCHANGED <<probe, proof, covered>>

SameGroup == Watched = look.group /\ Mode = look.mode

\* The header of the page, read; then a probe, if it is still to be made.
Header(shown) ==
  /\ driver = "header" /\ UNCHANGED observed
  /\ CASE shown = "unreadable" -> SubmissionEnds(StatusVerdict)
       [] shown # "unreadable" /\ ~SameGroup -> NextRound /\ UNCHANGED probe
       [] shown = "yes" /\ SameGroup /\ look.mode = "standard" -> SubmissionEnds("accepted")
       [] OTHER ->
            IF probe # "unmade" \/ (look.mode = "independent" /\ shown = "no")
              THEN NextRound /\ UNCHANGED probe
              ELSE /\ driver' = "probe" /\ probe' = "made" /\ UNCHANGED <<look, proof>>
                   /\ covered' = {r \in Requests : wire[r] = "finished"}

\* The official probe.
Probe(answer) ==
  /\ driver = "probe" /\ UNCHANGED observed
  /\ CASE answer \in {"protected", "limited"} -> SubmissionEnds(answer)
       [] answer \in {"yes", "no"} /\ SameGroup /\ look.mode = "independent" ->
            SubmissionEnds(IF answer = "yes" THEN "accepted" ELSE Failure)
       [] answer = "unreadable" /\ (look.mode = "independent" \/ summary.status \in Protective) ->
            SubmissionEnds(StatusVerdict)
       [] answer = "yes" /\ SameGroup /\ look.mode = "standard" -> SubmissionEnds("accepted")
       [] answer = "no" /\ SameGroup /\ look.mode = "standard" ->
            /\ driver' = "classify" /\ proof' = Watched /\ UNCHANGED <<probe, look, covered>>
       [] OTHER -> NextRound /\ probe' = "void"

\* classify_completed_response, after a negative probe: the body of the one request
\* that decides is read for a protection code.  The list of requests is emptied
\* when the window expires, the list of rows is not, and the two are zipped.
ClassifyRaises == window = "expired" /\ Watched # {}
Classify(body) ==
  /\ driver = "classify" /\ UNCHANGED observed
  /\ IF ClassifyRaises THEN SubmissionEnds("crashed")
     ELSE IF body = "protection" THEN SubmissionEnds("protected")
     ELSE NextRound /\ probe' = (IF SameGroup THEN "no" ELSE "void")

\* The time is up: only the negative probe of this very group rejects a credential.
\* Mutant of Denied: any negative probe will do.
DeniedOnce == SafeToProbe /\ probe = "no"
Denied == SafeToProbe /\ probe = "no" /\ proof = Watched
Deadline ==
  /\ driver = "look" /\ window = "expired" /\ UNCHANGED observed
  /\ IF Denied THEN SubmissionEnds("rejected") ELSE SubmissionEnds(Failure)

\* Back to the search page, where the login must show once more.
Confirm(shown) ==
  /\ driver = "accepted" /\ UNCHANGED observed
  /\ shown = "yes" => signedIn
  /\ SubmissionEnds(CASE shown = "yes" -> "authenticated" [] shown = "no" -> "not_shown" [] OTHER -> shown)

Pages == {"fine", "unreadable", "server_error", "outage", "protected", "limited"}
Shown(answers) == answers \ (IF signedIn THEN {} ELSE {"yes"})

SubmissionNext ==
  \/ \E r \in Requests : Send(r) \/ ResolveRequest(r) \/ Finish(r) \/ Break(r)
  \/ \E r \in Requests, status \in Statuses : Respond(r, status)
  \/ \E failure \in {"ambiguous", "invalid_response"} : Untold(failure)
  \/ Expire \/ SubmitForm \/ NoForm \/ Deadline
  \/ \E page \in Pages : Look(page)
  \/ \E shown \in Shown({"yes", "no", "unreadable"}) : Header(shown)
  \/ \E answer \in Shown({"yes", "unreadable", "protected", "limited"}) \union (IF signedIn THEN {} ELSE {"no"}) : Probe(answer)
  \/ \E body \in {"protection", "other"} : Classify(body)
  \/ \E shown \in {"yes", "no", "source", "protected", "limited"} : Confirm(shown)

SubmissionSpec == SubmissionInit /\ [][SubmissionNext]_submissionVars

-----------------------------------------------------------------------------
\* A credential is rejected only when all the requests of its login had finished
\* before the official probe that denies it was sent.  A login is accepted only
\* when each of its requests came to an end, none was met by a protection and none
\* failed but an integration check.
VerdictsAreProven ==
  [][/\ driver' = "rejected" => Watched \subseteq covered
     /\ driver' = "accepted" => \A r \in Watched :
          /\ rows[r].terminal # "incomplete" /\ rows[r].status \notin Protective
          /\ rows[r].terminal = "failed" \/ rows[r].status = "5xx" => kind[r] = "integration_check"
    ]_submissionVars
=============================================================================
