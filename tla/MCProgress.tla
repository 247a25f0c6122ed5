----------------------------- MODULE MCProgress -----------------------------
(***************************************************************************)
(* What must go on, for the parts whose liveness is checked: as in MCParts *)
(* a behaviour runs one of them.  Each has the fairness of its own         *)
(* specification (FairSpec, SearchFairSpec, DriverSpec).  In the web       *)
(* client timers fire, and lists are asked for, again and again; not every *)
(* answer is lost, nor overtaken by a command.                             *)
(***************************************************************************)
EXTENDS NotificationOutbox, SearchCoordinator, ReservationDriver, LiveWatches, WatchNotices

VARIABLE part  \* the part that runs

LoginHolds == <<1, 1, 2>>

Parts == {"outbox", "search", "driver", "list", "notices"}

\* A part that does not run is given one of its initial states.
\* Dialogs are answered: a booking that leaves them alone has fewer steps.
ProgressInit ==
  /\ part \in Parts
  /\ Init /\ SearchInit /\ DriverInit /\ LiveInit /\ NoticesInit
  /\ auto
  /\ part # "list" => watchRows = [w \in Watches |-> 1] /\ visible

Rest(p) ==
  /\ UNCHANGED part
  /\ IF p = "outbox" THEN TRUE ELSE UNCHANGED vars
  /\ IF p = "search" THEN TRUE ELSE UNCHANGED searchVars
  /\ IF p = "driver" THEN TRUE ELSE UNCHANGED driverVars
  /\ IF p = "list" THEN TRUE ELSE UNCHANGED liveVars
  /\ IF p = "notices" THEN TRUE ELSE UNCHANGED noticeVars

ProgressNext ==
  \/ part = "outbox" /\ Next /\ Rest("outbox")
  \/ part = "search" /\ SearchNext /\ Rest("search")
  \/ part = "driver" /\ DriverNext /\ Rest("driver")
  \/ part = "list" /\ LiveNext /\ Rest("list")
  \/ part = "notices" /\ NoticesNext /\ Rest("notices")

progressVars == <<part, vars, searchVars, driverVars, liveVars, noticeVars>>

ProgressSpec ==
  /\ ProgressInit /\ [][ProgressNext]_progressVars
  /\ \A w \in Worker :
       WF_progressVars(/\ part = "outbox" /\ Rest("outbox")
                       /\ ReadBatch(w) \/ Handle(w) \/ Commit(w) \/ CommitFails(w))
  /\ \A e \in 1 .. MaxEvents :
       WF_progressVars(part = "outbox" /\ e \in Ids /\ BecomeAvailable(e) /\ Rest("outbox"))
  /\ WF_progressVars(part = "driver" /\ DriverStep /\ Rest("driver"))
  /\ WF_progressVars(part = "search" /\ TimePasses /\ Rest("search"))
  /\ \A c \in Callers :
       /\ WF_progressVars(part = "search" /\ Retry(c) /\ Rest("search"))
       /\ WF_progressVars(part = "search" /\ Resume(c) /\ Rest("search"))
       /\ WF_progressVars(part = "search" /\ CallerTimesOut(c) /\ Rest("search"))
  /\ WF_progressVars(part = "list" /\ BurstTimerEnds /\ Rest("list"))
  /\ WF_progressVars(part = "list" /\ PollTimerEnds /\ Rest("list"))
  /\ WF_progressVars(part = "notices" /\ BeginGet /\ Rest("notices"))
  /\ SF_progressVars(
       \/ part = "list" /\ (\E g \in lists : ServerLists(g) \/ DropList(g)) /\ Rest("list")
       \/ part = "notices" /\ ServerAnswers /\ Rest("notices"))
  /\ SF_progressVars(
       \/ part = "list" /\ (\E g \in lists : AcceptList(g)) /\ Rest("list")
       \/ part = "notices" /\ AcceptGet /\ Rest("notices"))
=============================================================================
