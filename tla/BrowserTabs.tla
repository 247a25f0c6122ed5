---------------------------- MODULE BrowserTabs ----------------------------
(***************************************************************************)
(* One Chromium of the KORAIL sidecar: its process, its tabs with their    *)
(* network listeners (PydollChromiumLifecycle), and the observer that      *)
(* reads the bodies of the responses to a search for the provider's        *)
(* protection verdict (PydollSearchResponseProtectionObserver).            *)
(* Whoever uses the session calls start, replace_tab and close one after   *)
(* the other; each may be cancelled, and each step at Chromium may fail.   *)
(***************************************************************************)
EXTENDS Integers, Sequences, FiniteSets

CONSTANTS
  MaxTabs,       \* bound: tabs of one browser
  BodyRequests,  \* ids of the requests that answer a search
  MaxObserved,   \* MAX_CANDIDATES_PER_SEARCH
  MaxReads,      \* MAX_READS_PER_DRAIN
  MaxAttempts,   \* MAX_READ_ATTEMPTS
  MaxGeneration  \* bound: searches and tab changes of one browser

ASSUME TabsAssumption ==
  /\ MaxTabs \in Nat \ {0} /\ IsFiniteSet(BodyRequests)
  /\ {MaxObserved, MaxReads, MaxAttempts} \subseteq Nat \ {0} /\ MaxGeneration \in Nat

VARIABLES
  phase,     \* PydollChromiumPhase
  chrome,    \* the process runs
  tabs,      \* the tabs that were opened: whether they are open and listened to
  activeTab, \* the active tab, 0 for none
  retired,   \* tabs that could not be closed
  call,      \* the call under way: start, replace or close, and its next step
  closed,    \* how the last close ended
  stale,     \* the lock files of the profile were removed
  observer,  \* the search that is observed
  read       \* the drain under way

lifecycleVars == <<phase, chrome, tabs, activeTab, retired, call, closed, stale>>
observerVars == <<observer, read>>
tabsVars == <<lifecycleVars, observerVars>>

NoCall == [kind |-> "none", step |-> "none", attempt |-> 0, cancelled |-> FALSE, tab |-> 0, raises |-> TRUE]
NoTab == [open |-> FALSE, heard |-> FALSE]
Unarmed(g) == [armed |-> FALSE, generation |-> g, count |-> 0, pending |-> <<>>, evidence |-> 0]
NoRead == [on |-> FALSE, generation |-> 0, left |-> <<>>, id |-> 0, of |-> 0]

TabsInit ==
  /\ phase = "new" /\ chrome = FALSE /\ tabs = [t \in 1 .. MaxTabs |-> NoTab] /\ activeTab = 0
  /\ retired = {} /\ call = NoCall /\ closed = "never" /\ stale = FALSE
  /\ observer = Unarmed(0) /\ read = NoRead

Step(step) == call' = [call EXCEPT !.step = step]
TabsDone == call' = NoCall
NextTab == Cardinality({t \in 1 .. MaxTabs : tabs[t].open \/ t <= activeTab}) + 1

-----------------------------------------------------------------------------
\* start: the first tab counts once its listener is attached.
Start ==
  /\ phase = "new" /\ call = NoCall
  /\ phase' = "starting" /\ call' = [NoCall EXCEPT !.kind = "start", !.step = "launch"]
  /\ UNCHANGED <<chrome, tabs, activeTab, retired, closed, stale, observerVars>>

CloseFor(how) == [NoCall EXCEPT !.kind = "close", !.step = "listeners", !.attempt = 1, !.raises = how]

LaunchChrome ==
  /\ call.step = "launch" /\ UNCHANGED <<activeTab, retired, closed, stale, observerVars>>
  /\ \/ /\ chrome' = TRUE /\ tabs' = [tabs EXCEPT ![1].open = TRUE]
        /\ call' = [call EXCEPT !.step = "attach", !.tab = 1] /\ UNCHANGED phase
     \/ \E runs \in BOOLEAN :  \* it failed, with or without a process
          chrome' = runs /\ phase' = "closing" /\ call' = CloseFor(FALSE) /\ UNCHANGED tabs

\* replace_tab: the old tab stays until the new one listens.
Rotate ==
  /\ phase = "ready" /\ call = NoCall /\ NextTab <= MaxTabs /\ observer.generation < MaxGeneration
  /\ phase' = "rotating" /\ call' = [NoCall EXCEPT !.kind = "replace", !.step = "open"]
  /\ observer' = Unarmed(observer.generation + 1)
  /\ UNCHANGED <<chrome, tabs, activeTab, retired, closed, stale, read>>

OpenTab ==
  /\ call.step = "open" /\ UNCHANGED <<chrome, activeTab, retired, closed, stale, observerVars>>
  /\ \/ /\ chrome /\ tabs' = [tabs EXCEPT ![NextTab].open = TRUE]
        /\ call' = [call EXCEPT !.step = "attach", !.tab = NextTab] /\ UNCHANGED phase
     \/ phase' = "ready" /\ TabsDone /\ UNCHANGED tabs

Attach ==
  /\ call.step = "attach" /\ UNCHANGED <<chrome, closed, stale, observerVars>>
  /\ \/ /\ chrome /\ tabs' = [tabs EXCEPT ![call.tab].heard = TRUE]
        /\ activeTab' = call.tab /\ phase' = "ready"
        /\ IF activeTab = 0 THEN TabsDone ELSE call' = [call EXCEPT !.step = "retire", !.tab = activeTab]
     \/ /\ UNCHANGED <<tabs, activeTab>>
        /\ IF call.kind = "start"
             THEN phase' = "closing" /\ call' = CloseFor(FALSE)
             ELSE UNCHANGED phase /\ Step("retire")
  /\ UNCHANGED retired

Retire ==
  /\ call.step = "retire" /\ phase' = "ready" /\ TabsDone
  /\ \E heard \in {tabs[call.tab].heard, FALSE}, open \in BOOLEAN :
       /\ tabs' = [tabs EXCEPT ![call.tab] = [open |-> open, heard |-> heard /\ open]]
       /\ retired' = IF open THEN retired \union {call.tab} ELSE retired
  /\ UNCHANGED <<chrome, activeTab, closed, stale, observerVars>>

\* close: the listener, the tabs that stayed, the browser and its process, and
\* then the lock files of a profile of its own.
Close ==
  /\ phase \in {"ready", "failed"} /\ call = NoCall
  /\ phase' = "closing" /\ call' = CloseFor(TRUE)
  /\ UNCHANGED <<chrome, tabs, activeTab, retired, closed, stale, observerVars>>

Listeners ==
  /\ call.step = "listeners" /\ Step("browser")
  /\ \E open \in SUBSET retired :
       /\ retired' = open
       /\ tabs' = [t \in 1 .. MaxTabs |-> IF t \in retired \ open THEN NoTab ELSE tabs[t]]
  /\ UNCHANGED <<phase, chrome, activeTab, closed, stale, observerVars>>

\* The connection ends by itself, by stop or by close, or not; a process that
\* still runs is then stopped, or survives.
\* Mutant of BrowserClosed: only the connection counts.
ConnectionClosed(connected, runs) == ~connected
BrowserClosed(connected, runs) == ~connected /\ ~runs

EndClose(how) == closed' = how /\ TabsDone
CloseBrowser ==
  /\ call.step = "browser"
  /\ \E connected \in BOOLEAN, runs \in {chrome, FALSE}, locked \in BOOLEAN :
       LET gone == BrowserClosed(connected, runs)
       IN /\ chrome' = runs
          /\ IF runs THEN UNCHANGED tabs ELSE tabs' = [t \in 1 .. MaxTabs |-> NoTab]
          /\ stale' = (gone /\ ~locked)
          /\ \/ /\ gone /\ locked \* removing the lock files raised
                /\ phase' = "failed" /\ EndClose("raised") /\ UNCHANGED <<activeTab, retired>>
             \/ /\ gone /\ ~locked
                /\ phase' = "closed" /\ activeTab' = 0 /\ retired' = {}
                /\ EndClose(IF call.cancelled THEN "cancelled" ELSE "returned")
             \/ /\ ~gone
                /\ phase' = "failed" /\ UNCHANGED <<activeTab, retired>>
                /\ IF call.cancelled \/ call.attempt = 2
                     THEN EndClose(IF call.cancelled THEN "cancelled" ELSE IF call.raises THEN "raised" ELSE "hidden")
                     ELSE call' = [call EXCEPT !.step = "again"] /\ UNCHANGED closed
  /\ UNCHANGED observerVars

CloseAgain ==
  /\ call.step = "again" /\ phase' = "closing"
  /\ call' = [call EXCEPT !.step = "listeners", !.attempt = 2]
  /\ UNCHANGED <<chrome, tabs, activeTab, retired, closed, stale, observerVars>>

\* finish_owned_cleanup: a cancellation waits until the cleanup is over.
CancelClose ==
  /\ call.kind = "close" /\ call.step # "again" /\ ~call.cancelled
  /\ call' = [call EXCEPT !.cancelled = TRUE]
  /\ UNCHANGED <<phase, chrome, tabs, activeTab, retired, closed, stale, observerVars>>

ChromeDies ==
  /\ chrome /\ chrome' = FALSE /\ tabs' = [t \in 1 .. MaxTabs |-> NoTab]
  /\ UNCHANGED <<phase, activeTab, retired, call, closed, stale, observerVars>>

-----------------------------------------------------------------------------
\* The observer.  A search is observed from its submit on; opening a page, a list
\* or another tab resets it.
Arm ==
  /\ phase = "ready" /\ call = NoCall /\ observer.generation < MaxGeneration
  /\ observer' = [Unarmed(observer.generation + 1) EXCEPT !.armed = TRUE]
  /\ UNCHANGED <<lifecycleVars, read>>
Reset ==
  /\ phase = "ready" /\ observer.armed /\ observer' = Unarmed(observer.generation + 1)
  /\ UNCHANGED <<lifecycleVars, read>>

PendingBodies == {observer.pending[i].id : i \in DOMAIN observer.pending}

ObserveResponse(id) ==
  /\ observer.armed /\ observer.evidence = 0 /\ observer.count < MaxObserved /\ id \notin PendingBodies
  /\ \E t \in 1 .. MaxTabs : tabs[t].heard
  /\ observer' = [observer EXCEPT !.count = @ + 1,
       !.pending = Append(@, [id |-> id, attempts |-> 0, of |-> observer.generation])]
  /\ UNCHANGED <<lifecycleVars, read>>

Min2(a, b) == IF a < b THEN a ELSE b
DrainBodies ==
  /\ observer.armed /\ observer.evidence = 0 /\ observer.pending # <<>> /\ ~read.on
  /\ read' = [on |-> TRUE, generation |-> observer.generation, id |-> 0, of |-> 0,
       left |-> SubSeq(observer.pending, 1, Min2(MaxReads, Len(observer.pending)))]
  /\ UNCHANGED <<lifecycleVars, observer>>

ReadBody ==
  /\ read.on /\ read.id = 0
  /\ IF read.left = <<>> THEN read' = NoRead
     ELSE read' = [read EXCEPT !.id = Head(read.left).id, !.of = Head(read.left).of, !.left = Tail(@)]
  /\ UNCHANGED <<lifecycleVars, observer>>

\* After the body was read: is it still a candidate of the search it was read for?
\* Mutant of StillWanted: whatever has its id is one.
WantedById == read.id \in PendingBodies
StillWanted == read.generation = observer.generation /\ read.id \in PendingBodies

\* The pending bodies have different ids.
Position(id) == CHOOSE i \in DOMAIN observer.pending : observer.pending[i].id = id
Without(id) ==
  SubSeq(observer.pending, 1, Position(id) - 1)
    \o SubSeq(observer.pending, Position(id) + 1, Len(observer.pending))
Entry(id) == observer.pending[Position(id)]

\* A body that is not there yet is put behind the others, for MaxAttempts times.
BodyRead(verdict) ==
  /\ read.on /\ read.id # 0
  /\ IF StillWanted
     THEN LET tried == [Entry(read.id) EXCEPT !.attempts = @ + 1]
          IN /\ observer' = CASE verdict = "late" /\ tried.attempts < MaxAttempts ->
                                   [observer EXCEPT !.pending = Append(Without(read.id), tried)]
                              [] verdict = "protection" ->
                                   [observer EXCEPT !.pending = <<>>, !.evidence = read.of]
                              [] OTHER -> [observer EXCEPT !.pending = Without(read.id)]
             /\ read' = IF verdict = "protection" THEN NoRead ELSE [read EXCEPT !.id = 0, !.of = 0]
     ELSE /\ UNCHANGED observer
          /\ read' = IF read.generation # observer.generation THEN NoRead ELSE [read EXCEPT !.id = 0, !.of = 0]
  /\ UNCHANGED lifecycleVars

TabsNext ==
  \/ Start \/ LaunchChrome \/ Rotate \/ OpenTab \/ Attach \/ Retire
  \/ Close \/ Listeners \/ CloseBrowser \/ CloseAgain \/ CancelClose \/ ChromeDies
  \/ Arm \/ Reset \/ DrainBodies \/ ReadBody
  \/ (\E id \in BodyRequests : ObserveResponse(id))
  \/ \E verdict \in {"late", "other", "protection"} : BodyRead(verdict)

TabsSpec == TabsInit /\ [][TabsNext]_tabsVars

-----------------------------------------------------------------------------
\* A close that returns has left no Chrome behind, and the lock files of the
\* profile are removed only then: another Chrome may use it.
CloseLeavesNothing ==
  /\ closed = "returned" => ~chrome /\ phase = "closed"
  /\ stale => ~chrome

\* A protection verdict belongs to the search that is observed, never to a body
\* that was read for the search before.
EvidenceIsOfThisSearch == observer.evidence \in {0, observer.generation}
=============================================================================
