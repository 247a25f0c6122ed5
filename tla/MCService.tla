----------------------------- MODULE MCService -----------------------------
(***************************************************************************)
(* The parts between the workers, the sidecars and the web client that     *)
(* share no state, side by side for TLC: a behaviour runs one of them, and *)
(* the others stay as they began.  Parts share the model values they are   *)
(* symmetric in.                                                           *)
(***************************************************************************)
EXTENDS ExecutionLease, SearchActor, ResultPages, NotificationOutbox, BookingCall,
        SrtReads, SrtSession, ConfirmationReading, ProviderSessions, LiveWatches, WatchNotices, TLC

VARIABLE part  \* the part that runs

Symmetry == Permutations(Worker) \union Permutations(Channel)

Parts == {"lease", "lookup", "pages", "outbox", "call", "reads", "srt", "confirmation",
          "sessions", "list", "notices"}

\* A part that does not run is given one of its initial states.
IfIdle(p, Choice) == IF part = p THEN TRUE ELSE Choice

ServiceInit ==
  /\ part \in Parts
  /\ IfIdle("pages", /\ departs = [t \in Trains |-> 0]
                     /\ asked = [from |-> 0, to |-> 0]
                     /\ reading = "replay")
  /\ IfIdle("call", sidecar = "up")
  /\ IfIdle("confirmation",
       /\ target = [provider |-> "KORAIL", purpose |-> "initial", exact |-> FALSE, deadline |-> FALSE]
       /\ account = [i \in Items |-> "none"])
  /\ IfIdle("list", watchRows = [w \in Watches |-> 1] /\ visible = TRUE)
  /\ LeaseInit /\ ActorInit /\ PagesInit /\ Init /\ BookingInit /\ ReadsInit /\ SrtInit
  /\ ConfirmationInit /\ SessionsInit /\ LiveInit /\ NoticesInit

Rest(p) ==
  /\ UNCHANGED part
  /\ IF p = "lease" THEN TRUE ELSE UNCHANGED leaseVars
  /\ IF p = "lookup" THEN TRUE ELSE UNCHANGED actorVars
  /\ IF p = "pages" THEN TRUE ELSE UNCHANGED pagesVars
  /\ IF p = "outbox" THEN TRUE ELSE UNCHANGED vars
  /\ IF p = "call" THEN TRUE ELSE UNCHANGED bookingVars
  /\ IF p = "reads" THEN TRUE ELSE UNCHANGED readVars
  /\ IF p = "srt" THEN TRUE ELSE UNCHANGED srtVars
  /\ IF p = "confirmation" THEN TRUE ELSE UNCHANGED confirmationVars
  /\ IF p = "sessions" THEN TRUE ELSE UNCHANGED sessionsVars
  /\ IF p = "list" THEN TRUE ELSE UNCHANGED liveVars
  /\ IF p = "notices" THEN TRUE ELSE UNCHANGED noticeVars

ServiceNext ==
  \/ part = "lease" /\ LeaseNext /\ Rest("lease")
  \/ part = "lookup" /\ ActorNext /\ Rest("lookup")
  \/ part = "pages" /\ PagesNext /\ Rest("pages")
  \/ part = "outbox" /\ Next /\ Rest("outbox")
  \/ part = "call" /\ BookingNext /\ Rest("call")
  \/ part = "reads" /\ ReadsNext /\ Rest("reads")
  \/ part = "srt" /\ SrtNext /\ Rest("srt")
  \/ part = "confirmation" /\ ConfirmationNext /\ Rest("confirmation")
  \/ part = "sessions" /\ SessionsNext /\ Rest("sessions")
  \/ part = "list" /\ LiveNext /\ Rest("list")
  \/ part = "notices" /\ NoticesNext /\ Rest("notices")

serviceVars ==
  <<part, leaseVars, actorVars, pagesVars, vars, bookingVars, readVars, srtVars,
    confirmationVars, sessionsVars, liveVars, noticeVars>>
ServiceSpec == ServiceInit /\ [][ServiceNext]_serviceVars
=============================================================================
