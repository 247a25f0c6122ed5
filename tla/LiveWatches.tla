----------------------------- MODULE LiveWatches -----------------------------
(***************************************************************************)
(* The list of watches in one tab of the web client (useWatchCollection,   *)
(* useWatchMutations, createLiveDataReloadCoordinator): GETs of the whole  *)
(* list, the answers of the user's own commands, and what the tab shows.   *)
(* The database keeps a revision of each watch; reasons to reload (events, *)
(* push hints, the refresh button) may come at any moment.                 *)
(***************************************************************************)
EXTENDS Integers, FiniteSets

CONSTANTS
  Watches,
  MaxWatchRevision,  \* bound: changes of a watch
  MaxLives      \* bound: times the tab signs in or changes its view

ASSUME LiveAssumption == MaxWatchRevision \in Nat \ {0} /\ MaxLives \in Nat \ {0}

VARIABLES
  watchRows,    \* the database: the revision of each watch
  shown,        \* watchesRef: what the tab shows of it
  removed,      \* deletedWatchIds
  commands,     \* the user's command for each watch, pendingWatchIds
  wizard,       \* the watch the user registers, with the answer
  life,         \* lifecycleEpoch
  coordinating, \* there is an active coordinator
  visible,
  lists,        \* GETs on their way, of this life and of earlier ones
  urgency,      \* pendingUrgency
  burst,        \* timer
  poll          \* pollTimer

watchVars == <<watchRows, shown, removed, commands, wizard>>
reloadVars == <<life, coordinating, visible, lists, urgency, burst, poll>>
liveVars == <<watchVars, reloadVars>>

Absent == 0
Deleted == MaxWatchRevision + 1
Exists(w) == watchRows[w] \notin {Absent, Deleted}
NoCommand == [pc |-> "none", revision |-> Absent]
Unread == [w \in Watches |-> Absent]
Listed == [w \in Watches |-> IF Exists(w) THEN watchRows[w] ELSE Absent]

LiveInit ==
  /\ watchRows \in [Watches -> {Absent, 1}] /\ shown = Unread
  /\ removed = {} /\ commands = [w \in Watches |-> NoCommand] /\ wizard = [pc |-> "closed", watch |-> {}]
  /\ life = 0 /\ coordinating = FALSE /\ visible \in BOOLEAN
  /\ lists = {} /\ urgency = "none" /\ burst = FALSE /\ poll = FALSE

-----------------------------------------------------------------------------
(* The coordinator: one GET at a time, one reason kept for the next.        *)

InFlight == \E g \in lists : g.life = life
Kept(u) == IF u = "immediate" \/ urgency = "none" THEN u ELSE urgency
KeepReason(u) == urgency' = Kept(u) /\ UNCHANGED <<lists, burst, poll>>

\* A GET knows whether a command began or ended after it: `crossed'.
NewList == [life |-> life, crossed |-> FALSE, pc |-> "sent", list |-> Unread]
RunReload(u) ==
  IF InFlight \/ ~ visible THEN KeepReason(u)
  ELSE /\ lists' = lists \union {NewList} /\ urgency' = "none" /\ burst' = FALSE /\ poll' = FALSE

\* request, where g are the GETs that go on.
RequestWith(u, gets) ==
  /\ urgency' = Kept(u) /\ lists' = gets
  /\ LET free == visible /\ \A g \in gets : g.life # life IN
     /\ burst' = (burst \/ (free /\ u = "immediate"))
     /\ poll' = (poll \/ (free /\ u = "routine"))
RequestReload(u) ==
  /\ coordinating /\ RequestWith(u, lists)
  /\ UNCHANGED <<watchVars, life, coordinating, visible>>

BurstTimerEnds ==
  /\ coordinating /\ burst /\ RunReload("immediate")
  /\ UNCHANGED <<watchVars, life, coordinating, visible>>
PollTimerEnds ==
  /\ coordinating /\ poll /\ RunReload("routine")
  /\ UNCHANGED <<watchVars, life, coordinating, visible>>

Hide ==
  /\ visible /\ visible' = FALSE /\ burst' = FALSE /\ poll' = FALSE
  /\ UNCHANGED <<watchVars, life, coordinating, lists, urgency>>
\* handleVisibilityChange: the reload a visible tab begins with.
Show ==
  /\ ~ visible /\ visible' = TRUE
  /\ IF ~ coordinating THEN UNCHANGED <<lists, urgency, burst, poll>>
     ELSE IF InFlight THEN urgency' = "immediate" /\ UNCHANGED <<lists, burst, poll>>
     ELSE /\ lists' = lists \union {NewList} /\ urgency' = "none"
          /\ burst' = FALSE /\ poll' = FALSE
  /\ UNCHANGED <<watchVars, life, coordinating>>

\* The effect of the hook: a coordinator for each sign-in and each view.
Starts ==
  /\ life < MaxLives /\ life' = life + 1 /\ coordinating' = TRUE /\ burst' = FALSE /\ poll' = FALSE
  /\ IF visible THEN /\ lists' = lists \union {[NewList EXCEPT !.life = life + 1]}
                     /\ urgency' = "none"
     ELSE urgency' = "immediate" /\ UNCHANGED lists
SignIn == ~ coordinating /\ Starts /\ UNCHANGED <<watchVars, visible>>
ChangeView == coordinating /\ Starts /\ UNCHANGED <<watchVars, visible>>
Stops == coordinating' = FALSE /\ urgency' = "none" /\ burst' = FALSE /\ poll' = FALSE
SignOut ==
  /\ coordinating /\ Stops /\ shown' = Unread /\ removed' = {}
  /\ UNCHANGED <<watchRows, commands, wizard, life, visible, lists>>

-----------------------------------------------------------------------------
(* One GET.                                                                 *)

ServerLists(g) ==
  /\ g \in lists /\ g.pc = "sent"
  /\ lists' = (lists \ {g}) \union {[g EXCEPT !.pc = "answered", !.list = Listed]}
  /\ UNCHANGED <<watchVars, life, coordinating, visible, urgency, burst, poll>>

\* Mutant of ListEnds: the next poll needs a reason.
ListEndsQuietly(g) ==
  /\ lists' = lists \ {g}
  /\ LET again == coordinating /\ g.life = life /\ visible IN
     /\ burst' = (burst \/ (again /\ urgency = "immediate"))
     /\ poll' = IF again THEN urgency = "routine" ELSE poll
  /\ UNCHANGED <<life, coordinating, visible, urgency>>
\* The end of runReload: the kept reason, or the next poll.
ListEnds(g) ==
  /\ lists' = lists \ {g}
  /\ LET again == coordinating /\ g.life = life /\ visible IN
     /\ burst' = (burst \/ (again /\ urgency = "immediate"))
     /\ poll' = IF again THEN urgency # "immediate" ELSE poll
  /\ UNCHANGED <<life, coordinating, visible, urgency>>

ListIsCurrent(g) == coordinating /\ g.life = life /\ ~ g.crossed

AcceptList(g) ==
  /\ g \in lists /\ g.pc = "answered" /\ ListIsCurrent(g) /\ ListEnds(g)
  /\ shown' = [w \in Watches |-> IF w \in removed THEN Absent ELSE g.list[w]]
  /\ removed' = {w \in removed : g.list[w] # Absent}
  /\ UNCHANGED <<watchRows, commands, wizard>>
DropList(g) ==
  /\ g \in lists /\ g.pc = "answered" /\ ~ ListIsCurrent(g) /\ ListEnds(g) /\ UNCHANGED watchVars
ListFails(g) == g \in lists /\ ListEnds(g) /\ UNCHANGED watchVars
\* 401: the client forgets the session, but not the list.
ListIsRefused(g) ==
  /\ g \in lists /\ g.life = life /\ coordinating
  /\ lists' = lists \ {g} /\ Stops /\ removed' = {}
  /\ UNCHANGED <<watchRows, shown, commands, wizard, life, visible>>

-----------------------------------------------------------------------------
(* The user's commands, one per watch at a time.                            *)

\* Mutant of Crossed: only the beginning of a command counts.
CrossedAtFirst(begins) == IF begins THEN {[g EXCEPT !.crossed = TRUE] : g \in lists} ELSE lists
\* begin and end of the guard: the GETs on their way are of an older epoch.
Crossed(begins) == {[g EXCEPT !.crossed = TRUE] : g \in lists}

BeginCommand(w, what) ==
  /\ coordinating /\ visible /\ shown[w] # Absent /\ commands[w].pc = "none"
  /\ commands' = [commands EXCEPT ![w].pc = what] /\ lists' = Crossed(TRUE)
  /\ UNCHANGED <<watchRows, shown, removed, wizard, life, coordinating, visible, urgency, burst, poll>>

\* Pause, resume, cancel, policy, rearm: a change, answered with its revision.
ServerObeys(w) ==
  /\ commands[w].pc \in {"change", "delete"} /\ Exists(w)
  /\ IF commands[w].pc = "delete"
     THEN watchRows' = [watchRows EXCEPT ![w] = Deleted] /\ commands' = [commands EXCEPT ![w].pc = "deleted"]
     ELSE /\ watchRows[w] < MaxWatchRevision /\ watchRows' = [watchRows EXCEPT ![w] = @ + 1]
          /\ commands' = [commands EXCEPT ![w] = [pc |-> "changed", revision |-> watchRows[w] + 1]]
  /\ UNCHANGED <<shown, removed, wizard, reloadVars>>

\* endMutation: the guard moves on and a reload is asked for.
EndsCommand(w) ==
  /\ commands' = [commands EXCEPT ![w] = NoCommand]
  /\ IF coordinating THEN RequestWith("immediate", Crossed(FALSE))
     ELSE lists' = Crossed(FALSE) /\ UNCHANGED <<urgency, burst, poll>>
  /\ UNCHANGED <<life, coordinating, visible>>
\* The answer replaces the watch where it is shown (replaceWatch).
ChangeAnswered(w) ==
  /\ commands[w].pc = "changed" /\ EndsCommand(w)
  /\ shown' = [shown EXCEPT ![w] = IF @ = Absent THEN Absent ELSE commands[w].revision]
  /\ UNCHANGED <<watchRows, removed, wizard>>
DeletionAnswered(w) ==
  /\ commands[w].pc = "deleted" /\ EndsCommand(w)
  /\ removed' = removed \union {w} /\ shown' = [shown EXCEPT ![w] = Absent]
  /\ UNCHANGED <<watchRows, wizard>>
\* Refused, or carried out with the answer lost.
ChangeFails(w) ==
  /\ commands[w].pc # "none" /\ EndsCommand(w)
  /\ UNCHANGED <<watchRows, shown, removed, wizard>>

\* completeWizard: the new watch is shown at once; no guard, no reload.
RegisterWatch(w) ==
  /\ coordinating /\ visible /\ wizard.pc = "closed" /\ watchRows[w] = Absent
  /\ watchRows' = [watchRows EXCEPT ![w] = 1] /\ wizard' = [pc |-> "registered", watch |-> {w}]
  /\ UNCHANGED <<shown, removed, commands, reloadVars>>
WatchRegistered ==
  /\ wizard.pc = "registered" /\ wizard' = [pc |-> "closed", watch |-> {}]
  /\ shown' = [w \in Watches |-> IF w \in wizard.watch THEN 1 ELSE shown[w]]
  /\ UNCHANGED <<watchRows, removed, commands, reloadVars>>

\* The workers, or another device.
ServerChanges(w) ==
  /\ Exists(w) /\ watchRows[w] < MaxWatchRevision /\ watchRows' = [watchRows EXCEPT ![w] = @ + 1]
  /\ UNCHANGED <<shown, removed, commands, wizard, reloadVars>>

LiveStep ==
  \/ \E g \in lists : ServerLists(g) \/ AcceptList(g) \/ DropList(g)
  \/ BurstTimerEnds \/ PollTimerEnds
LiveNext ==
  \/ \E u \in {"immediate", "routine"} : RequestReload(u)
  \/ LiveStep \/ Hide \/ Show \/ SignIn \/ ChangeView \/ SignOut
  \/ \E g \in lists : ListFails(g) \/ ListIsRefused(g)
  \/ \E w \in Watches : \/ \E what \in {"change", "delete"} : BeginCommand(w, what)
                        \/ ServerObeys(w) \/ ChangeAnswered(w) \/ DeletionAnswered(w) \/ ChangeFails(w)
                        \/ RegisterWatch(w) \/ ServerChanges(w)
  \/ WatchRegistered

-----------------------------------------------------------------------------
\* A list never takes back what the tab shows: neither the answer of a command
\* nor a newer list is overwritten by an older reading, and a watch the user
\* deleted does not come back (reloadWatches with its lifecycle and guard).
\* The answers of commands and of the wizard are let be: they may be older than
\* a list read while they were on their way.
ListsGoForward ==
  [][\A w \in Watches :
       \/ shown'[w] = Absent \/ commands'[w] # commands[w] \/ wizard' # wizard
       \/ shown'[w] >= shown[w] /\ (shown[w] = Absent => w \notin removed)]_liveVars

\* Once nothing changes any more, a tab that stays signed in and visible shows
\* the database, whatever requests, failures and timers came in between.
ShownCatchesUp ==
  (<>[](coordinating /\ visible /\ \A w \in Watches : commands[w].pc = "none"))
    => []<>(shown = Listed)
=============================================================================
