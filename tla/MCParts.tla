------------------------------ MODULE MCParts ------------------------------
(***************************************************************************)
(* The parts of the system that share no state, side by side for TLC: a    *)
(* behaviour runs one of them, and the others stay as they began.  Parts   *)
(* share the model values they are symmetric in.                           *)
(***************************************************************************)
EXTENDS SeatQueries, SearchCoordinator, LoginSubmission, SessionActor,
        BrowserTabs, ReservationDriver, WatchCommands, TLC

CONSTANTS A, B  \* two accounts

\* The part of ReservationFence; MaxAttempts is the number BrowserTabs has.
CONSTANTS N, RearmMin, FinalMin, UnknownLimit, HoldLimit, MaxVersion, MaxWinners,
          Seats, Answers, Reads, Env
VARIABLES watch, cand, attempts, posted, edges, account, departed, observing,
          winners, officialRead
fenceVars ==
  <<watch, cand, attempts, posted, edges, account, departed, observing, winners, officialRead>>
Attempts == INSTANCE ReservationFence WITH reading <- officialRead

VARIABLE part  \* the part that runs

Symmetry == Permutations(Requests) \union Permutations(Tasks) \union Permutations(Searches)
LoginHolds == <<1, 1, 2>>
Accounts == <<A, A, B>>

Parts == {"queries", "search", "login", "session", "tabs", "driver", "commands",
          "fence"}

\* A part that does not run is given one of its initial states.
IfIdle(p, Choice) == IF part = p THEN TRUE ELSE Choice

PartsInit ==
  /\ part \in Parts
  /\ IfIdle("login", kind = [r \in Requests |-> "unresolved"])
  /\ IfIdle("session", mode = "ephemeral")
  /\ IfIdle("driver", auto = TRUE)
  /\ QueriesInit /\ SearchInit /\ SubmissionInit /\ SessionInit
  /\ TabsInit /\ DriverInit /\ CommandsInit /\ Attempts!Init

Rest(p) ==
  /\ UNCHANGED part
  /\ IF p = "queries" THEN TRUE ELSE UNCHANGED queryVars
  /\ IF p = "search" THEN TRUE ELSE UNCHANGED searchVars
  /\ IF p = "login" THEN TRUE ELSE UNCHANGED submissionVars
  /\ IF p = "session" THEN TRUE ELSE UNCHANGED sessionVars
  /\ IF p = "tabs" THEN TRUE ELSE UNCHANGED tabsVars
  /\ IF p = "driver" THEN TRUE ELSE UNCHANGED driverVars
  /\ IF p = "commands" THEN TRUE ELSE UNCHANGED commandVars
  /\ IF p = "fence" THEN TRUE ELSE UNCHANGED fenceVars

PartsNext ==
  \/ part = "queries" /\ QueriesNext /\ Rest("queries")
  \/ part = "search" /\ SearchNext /\ Rest("search")
  \/ part = "login" /\ SubmissionNext /\ Rest("login")
  \/ part = "session" /\ SessionNext /\ Rest("session")
  \/ part = "tabs" /\ TabsNext /\ Rest("tabs")
  \/ part = "driver" /\ DriverNext /\ Rest("driver")
  \/ part = "commands" /\ CommandsNext /\ Rest("commands")
  \/ part = "fence" /\ Attempts!Next /\ Rest("fence")

allVars ==
  <<part, queryVars, searchVars, submissionVars, sessionVars,
    tabsVars, driverVars, commandVars, fenceVars>>
PartsSpec == PartsInit /\ [][PartsNext]_allVars

\* A login with new credentials fences the attempts of the old ones: no result or
\* reading of theirs is written any more (ReservationFence).
OldCredentialsSettleNothing == Attempts!OldCredentialsSettleNothing
=============================================================================
