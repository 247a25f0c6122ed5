---------------------------- MODULE SearchActor ----------------------------
(***************************************************************************)
(* The anonymous search of the KORAIL sidecar: under one lock, a search    *)
(* first tries an HTTP client that repeats a captured request of its route *)
(* and otherwise uses the page of a browser, from which the next client is *)
(* captured.  Both are used for a limited time and a limited number of     *)
(* searches.  The lookups of the page are counted, the rest of the page is *)
(* how each stage ends.                                                    *)
(***************************************************************************)
EXTENDS Integers, FiniteSets, SequencesExt

CONSTANTS
  Routes,
  MaxSearches, \* uses of one browser and of the client captured from it
  CacheSize,   \* clients that are kept
  Threshold    \* clients that fail one after the other before no more are captured

ASSUME SearchActorAssumption ==
  MaxSearches \in Nat \ {0, 1} /\ CacheSize \in Nat \ {0} /\ Threshold \in Nat \ {0}

VARIABLES
  hold,      \* the shared cooldown of the provider
  clients,   \* the captured client of each route, NoClient where there is none
  order,     \* their routes, the least recently used one first
  browser,   \* the active browser and its page
  failing,   \* clients that failed since one succeeded
  suspended, \* no captures for some time
  search     \* the search that has the lock

actorVars == <<hold, clients, order, browser, failing, suspended, search>>

\* used is history: searches made with the same captured cookies, page and client.
NoClient == [open |-> FALSE, old |-> FALSE, uses |-> 0, used |-> 0]
NoPage == [open |-> FALSE, old |-> FALSE, idle |-> FALSE, uses |-> 0, used |-> 0,
           submitted |-> FALSE,  \* the one lookup of this page was made
           capturing |-> FALSE]  \* a capture was begun and not exported
NoSearch == [at |-> "none", route |-> "none", direct |-> FALSE, again |-> FALSE,
             reused |-> FALSE, capturing |-> FALSE, lookups |-> 0]

ActorInit ==
  /\ hold = FALSE /\ clients = [r \in Routes |-> NoClient] /\ order = <<>>
  /\ browser = NoPage /\ failing = 0 /\ suspended = FALSE /\ search = NoSearch

Leave == search' = NoSearch
To(place) == search' = [search EXCEPT !.at = place]
SameClients == UNCHANGED <<clients, order, failing, suspended>>

-----------------------------------------------------------------------------
\* PydollHttpReplayManager.

Drop(r) == clients' = [clients EXCEPT ![r] = NoClient] /\ order' = Remove(order, r)

BeginSearch(r) ==
  /\ search = NoSearch /\ ~hold
  /\ search' = [NoSearch EXCEPT !.at = "replay", !.route = r]
  /\ UNCHANGED hold /\ SameClients /\ UNCHANGED browser

Retired(r) == clients[r].old \/ clients[r].uses >= MaxSearches

\* try_search without a usable client.
NoReplay ==
  LET r == search.route
  IN /\ search.at = "replay" /\ (~clients[r].open \/ Retired(r))
     /\ IF clients[r].open THEN Drop(r) ELSE UNCHANGED <<clients, order>>
     /\ To("resolve") /\ UNCHANGED <<hold, failing, suspended, browser>>

Used(r) == [clients[r] EXCEPT !.uses = @ + 1, !.used = @ + 1]
ReplaySucceeds ==
  LET r == search.route
  IN /\ search.at = "replay" /\ clients[r].open /\ ~Retired(r)
     /\ clients' = [clients EXCEPT ![r] = Used(r)] /\ order' = Append(Remove(order, r), r)
     /\ failing' = 0 /\ Leave /\ UNCHANGED <<hold, suspended, browser>>

ReplayCancelled ==
  LET r == search.route
  IN /\ search.at = "replay" /\ clients[r].open /\ ~Retired(r)
     /\ clients' = [clients EXCEPT ![r] = Used(r)] /\ order' = Append(Remove(order, r), r)
     /\ Leave /\ UNCHANGED <<hold, failing, suspended, browser>>

NoteFailure ==
  /\ failing' = IF failing + 1 < Threshold THEN failing + 1 ELSE 0
  /\ suspended' = (suspended \/ failing + 1 >= Threshold)

ReplayFails(how) ==
  LET r == search.route
  IN /\ search.at = "replay" /\ clients[r].open /\ ~Retired(r) /\ Drop(r)
     /\ hold' = (hold \/ how = "restricted")
     /\ IF how = "rotten" THEN NoteFailure ELSE UNCHANGED <<failing, suspended>>
     /\ IF how = "restricted" THEN Leave ELSE To("resolve")
     /\ UNCHANGED browser

-----------------------------------------------------------------------------
\* The browser.

\* direct_search_url: with the identities of both stations the result page is opened
\* directly.
ResolveRoute ==
  /\ search.at = "resolve" /\ SameClients /\ UNCHANGED browser
  /\ \/ Leave /\ hold' = TRUE         \* it was held, or the resolver met an outage
     \/ ~hold /\ Leave /\ UNCHANGED hold
     \/ /\ ~hold /\ UNCHANGED hold
        /\ \E direct \in BOOLEAN : search' = [search EXCEPT !.at = "acquire", !.direct = direct]

Usable == browser.open /\ ~browser.idle /\ browser.uses < MaxSearches
OneMoreUse(page) == [page EXCEPT !.uses = @ + 1, !.used = @ + 1, !.idle = FALSE]

StageDeferred == hold /\ Leave /\ UNCHANGED <<hold, browser>> /\ SameClients

\* reset_search_state on a reused page.
AsReused(page) == [page EXCEPT !.submitted = FALSE]

AcquireBrowser ==
  /\ search.at = "acquire"
  /\ \/ StageDeferred
     \/ /\ ~hold /\ UNCHANGED hold /\ SameClients
        /\ \/ Usable /\ browser' = AsReused(OneMoreUse(browser))
           \/ ~Usable /\ browser' = OneMoreUse([NoPage EXCEPT !.open = TRUE])
        /\ search' = [search EXCEPT !.at = IF search.direct THEN "capture" ELSE "form", !.reused = Usable]
     \/ /\ ~hold /\ ~Usable /\ browser' = NoPage /\ Leave /\ UNCHANGED hold /\ SameClients

\* A stage that ends badly: the browser is given up.
StageFails(how) ==
  /\ browser' = NoPage /\ hold' = (hold \/ how = "restricted") /\ Leave /\ SameClients

\* Load the page, choose stations and time, compare them with the request.  A page
\* that was used before and failed here is replaced once.
\* Mutant of MayRepeat: a page may also be replaced after its lookup.
MayRepeatLate == search.reused /\ ~search.again
MayRepeat == search.reused /\ ~search.again /\ search.at = "form"
Repeat ==
  /\ search.at \in {"form", "result"} /\ MayRepeat
  /\ browser' = NoPage /\ search' = [search EXCEPT !.at = "acquire", !.again = TRUE]
  /\ UNCHANGED hold /\ SameClients

Form ==
  /\ search.at = "form"
  /\ \/ /\ browser' = [browser EXCEPT !.submitted = FALSE]
        /\ To("capture") /\ UNCHANGED hold /\ SameClients
     \/ ~MayRepeat /\ StageFails("source")
     \/ \E how \in {"restricted", "error"} : StageFails(how)

\* begin_http_replay_capture refuses a page that made its lookup or has a capture open.
CanCapture == ~suspended /\ ~browser.submitted /\ ~browser.capturing
Capture ==
  /\ search.at = "capture"
  /\ \E begun \in {CanCapture, FALSE} :
       /\ browser' = [browser EXCEPT !.capturing = @ \/ begun]
       /\ search' = [search EXCEPT !.at = "lookup", !.capturing = begun]
  /\ UNCHANGED hold /\ SameClients

\* submit_once or the direct navigation: the one lookup at the provider.
Lookup ==
  /\ search.at = "lookup"
  /\ \/ StageDeferred
     \/ ~hold /\ ~search.direct /\ browser.submitted /\ StageFails("source")
     \/ /\ ~hold /\ (search.direct \/ ~browser.submitted)
        /\ browser' = [browser EXCEPT !.submitted = TRUE]
        /\ search' = [search EXCEPT !.at = "result", !.lookups = @ + 1]
        /\ UNCHANGED hold /\ SameClients

Result ==
  /\ search.at = "result"
  /\ \/ \E how \in {"source", "restricted", "error"} : StageFails(how)
     \/ /\ UNCHANGED <<hold, browser>> /\ SameClients
        /\ IF search.capturing THEN To("install") ELSE Leave

\* install_capture: a client of the captured request goes on counting where the
\* page stopped, and the browser is given up for it.
Captured == [open |-> TRUE, old |-> browser.old, uses |-> browser.uses, used |-> browser.used]

Install ==
  LET r == search.route
  IN /\ search.at = "install"
     /\ \/ /\ browser' = [browser EXCEPT !.capturing = FALSE]
           /\ Leave /\ UNCHANGED hold /\ SameClients
        \/ /\ clients' = [clients EXCEPT ![r] = Captured]
           /\ order' = Append(Remove(order, r), r)
           /\ browser' = NoPage /\ To("prune") /\ UNCHANGED <<hold, failing, suspended>>

\* A cancellation reaches the search while it gives up the browser.
InstallCancelled ==
  /\ search.at = "prune" /\ Drop(search.route) /\ Leave
  /\ UNCHANGED <<hold, failing, suspended, browser>>

Prune ==
  /\ search.at = "prune"
  /\ IF Len(order) > CacheSize THEN Drop(Head(order)) /\ UNCHANGED search
     ELSE Leave /\ UNCHANGED <<clients, order>>
  /\ UNCHANGED <<hold, failing, suspended, browser>>

\* CancelledError before that: a browser that was acquired is given up.
SearchCancelled ==
  /\ search.at \in {"form", "capture", "lookup", "result", "install"}
  /\ StageFails("error")

CloseSearches ==
  /\ search = NoSearch /\ (browser.open \/ order # <<>>)
  /\ clients' = [r \in Routes |-> NoClient] /\ order' = <<>> /\ browser' = NoPage
  /\ UNCHANGED <<hold, failing, suspended, search>>

-----------------------------------------------------------------------------
\* Time, and the other actors that share the cooldown.

PageGetsOld ==
  /\ browser.open /\ \E idle \in {browser.idle, TRUE} : browser' = [browser EXCEPT !.old = TRUE, !.idle = idle]
  /\ UNCHANGED <<hold, clients, order, failing, suspended, search>>
ClientGetsOld(r) ==
  /\ clients[r].open /\ clients' = [clients EXCEPT ![r].old = TRUE]
  /\ UNCHANGED <<hold, order, failing, suspended, browser, search>>
CapturesResume == suspended /\ suspended' = FALSE /\ UNCHANGED <<hold, clients, order, failing, browser, search>>
OthersHold == hold' = ~hold /\ UNCHANGED <<clients, order, failing, suspended, browser, search>>

ActorNext ==
  \/ \E r \in Routes : BeginSearch(r) \/ ClientGetsOld(r)
  \/ NoReplay \/ ReplaySucceeds \/ ReplayCancelled \/ (\E how \in {"restricted", "rotten", "session"} : ReplayFails(how))
  \/ ResolveRoute \/ AcquireBrowser \/ Form \/ Repeat \/ Capture \/ Lookup \/ Result \/ Install
  \/ InstallCancelled \/ Prune \/ SearchCancelled \/ CloseSearches
  \/ PageGetsOld \/ CapturesResume \/ OthersHold

ActorSpec == ActorInit /\ [][ActorNext]_actorVars

-----------------------------------------------------------------------------
\* A search makes one lookup at the provider at most: a page that is replaced had
\* not made its own.
OneLookup == search.lookups <= 1
=============================================================================
