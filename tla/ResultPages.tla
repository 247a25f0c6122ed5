---------------------------- MODULE ResultPages ----------------------------
(***************************************************************************)
(* How a KORAIL search collects the trains of a window of departure times *)
(* from lists that come in parts: the HTTP replay asks for one page after  *)
(* the other with a cursor of minutes, the browser presses "more" until    *)
(* the button is gone.  The provider and its page are the environment.     *)
(***************************************************************************)
EXTENDS Integers, FiniteSets

CONSTANTS
  Trains,     \* the trains of the route and the day
  LastMinute, \* the day is 0 .. LastMinute
  HourLength, \* minutes in an hour
  PageSize,   \* trains the provider puts on a page
  MaxPages,   \* requests of one replay
  MaxActions  \* presses of "more" of one search

ASSUME PagesAssumption ==
  /\ IsFiniteSet(Trains) /\ LastMinute \in Nat /\ HourLength \in Nat \ {0}
  /\ PageSize \in Nat \ {0} /\ MaxPages \in Nat \ {0} /\ MaxActions \in Nat

VARIABLES
  departs, \* the minute each train departs
  asked,   \* the minutes asked for
  reading, \* where the search stands
  cursor,  \* the replay: the minute the next page begins with
  steps,   \* pages asked for, or presses of "more"
  got,     \* trains collected
  split,   \* history: trains that share the last minute of a page they were not on
  page     \* the page of the browser

pagesVars == <<departs, asked, reading, cursor, steps, got, split, page>>

Minutes == 0 .. LastMinute
HourStart == asked.from - (asked.from % HourLength)
NoResultPage == [loaded |-> {}, rows |-> {}, queue |-> FALSE, loading |-> FALSE]

\* The replay begins with the hour of the window, the browser with its page.
PagesInit ==
  /\ departs \in [Trains -> Minutes]
  /\ asked \in {w \in [from : Minutes, to : Minutes] : w.from <= w.to}
  /\ reading \in {"replay", "waiting"}
  /\ cursor = HourStart
  /\ steps = 0 /\ got = {} /\ split = {} /\ page = NoResultPage

Wanted(trains) == {t \in trains : asked.from <= departs[t] /\ departs[t] <= asked.to}
Stop(how) == reading' = how /\ UNCHANGED <<departs, asked, cursor, steps, got, split, page>>

-----------------------------------------------------------------------------
\* The provider: the first trains of those that are left, and whether there are more.
FirstOf(left) ==
  {some \in SUBSET left :
     /\ Cardinality(some) = IF Cardinality(left) < PageSize THEN Cardinality(left) ELSE PageSize
     /\ \A t \in some, u \in left \ some : departs[t] <= departs[u]}
From(minute) == {t \in Trains : departs[t] >= minute}
LatestOf(trains) == CHOOSE m \in Minutes : (\E t \in trains : departs[t] = m) /\ \A t \in trains : departs[t] <= m

\* KorailHttpReplayClient.search: the cursor after a page is the minute after its
\* last train.  A cursor that does not grow is refused, the next day ends the search.
\* Mutant of NextCursor: the last minute is skipped over.
NextCursorPast(trains) == LatestOf(trains) + 2
NextCursor(trains) == LatestOf(trains) + 1

ReadPage ==
  /\ reading = "replay" /\ steps < MaxPages
  /\ \E begin \in {cursor, 0} : \E shown \in FirstOf(From(begin)) :  \* it may ignore the cursor
       LET more == shown # From(begin)
           rest == {t \in From(begin) \ shown : departs[t] = LatestOf(shown)}
       IN /\ got' = got \union Wanted(shown)
          /\ split' = IF more THEN split \union rest ELSE split
          /\ \/ ~more /\ reading' = "answered" /\ UNCHANGED cursor
             \/ more /\ NextCursor(shown) > LastMinute /\ reading' = "answered" /\ UNCHANGED cursor
             \/ more /\ NextCursor(shown) <= cursor /\ reading' = "failed" /\ UNCHANGED cursor
             \/ /\ more /\ NextCursor(shown) \in cursor + 1 .. LastMinute
                /\ cursor' = NextCursor(shown) /\ UNCHANGED reading
  /\ steps' = steps + 1 /\ UNCHANGED <<departs, asked, page>>

\* Every page may also be refused, and the client may have been replaced meanwhile.
ReplayEnds ==
  /\ reading = "replay"
  /\ \/ Stop("failed")
     \/ steps = MaxPages /\ Stop("failed")

-----------------------------------------------------------------------------
\* The page of the browser: parts of the list arrive, and the page shows all of it
\* or the newest part.  It may have to queue before.
PageLoads ==
  /\ reading \in {"waiting", "growing"} /\ ~page.queue /\ (page.loading \/ page.loaded = {})
  /\ LET left == From(HourStart) \ page.loaded IN
       /\ left # {}
       /\ \E part \in FirstOf(left) : \E rows \in {part, page.loaded \union part} :
            page' = [page EXCEPT !.loaded = @ \union part, !.rows = rows, !.loading = FALSE]
  /\ UNCHANGED <<departs, asked, reading, cursor, steps, got, split>>
PageQueues ==
  /\ reading \in {"waiting", "growing"} /\ page.loaded # Trains
  /\ page' = [page EXCEPT !.queue = ~@]
  /\ UNCHANGED <<departs, asked, reading, cursor, steps, got, split>>

\* wait_for_result: rows, and no notice of a queue beside them.
ResultsShown ==
  /\ reading = "waiting" /\ page.rows # {} /\ ~page.queue
  /\ reading' = "expanding" /\ got' = page.rows
  /\ UNCHANGED <<departs, asked, cursor, steps, split, page>>

MoreShown == From(HourStart) # page.loaded

\* expand_results: "more" is pressed as long as it is there and the limit allows it.
PressMore ==
  /\ reading = "expanding" /\ MoreShown /\ steps < MaxActions
  /\ reading' = "growing" /\ steps' = steps + 1 /\ page' = [page EXCEPT !.loading = TRUE]
  /\ UNCHANGED <<departs, asked, cursor, got, split>>
EndReached ==
  /\ reading = "expanding" /\ ~MoreShown
  /\ got' = Wanted(got) /\ reading' = IF got' = {} THEN "failed" ELSE "answered"
  /\ UNCHANGED <<departs, asked, cursor, steps, split, page>>
LimitReached == reading = "expanding" /\ MoreShown /\ steps = MaxActions /\ Stop("failed")

\* wait_for_result_growth and advance_search_expansion: trains that were not seen
\* yet are merged.
Grown ==
  /\ reading = "growing" /\ ~page.queue /\ page.rows \ got # {}
  /\ reading' = "expanding" /\ got' = got \union page.rows
  /\ UNCHANGED <<departs, asked, cursor, steps, split, page>>
\* None came in time, or the page is blocked: the trains collected are no answer.
Stalled == reading \in {"waiting", "growing"} /\ Stop("failed")
Blocked == reading \in {"waiting", "expanding", "growing"} /\ Stop("failed")

PagesNext ==
  \/ ReadPage \/ ReplayEnds
  \/ PageLoads \/ PageQueues \/ ResultsShown
  \/ PressMore \/ EndReached \/ LimitReached \/ Grown \/ Stalled \/ Blocked

PagesSpec == PagesInit /\ [][PagesNext]_pagesVars

-----------------------------------------------------------------------------
\* A search that is answered has every train of its window and no other, but that
\* the replay misses the trains that depart in the last minute of a page and are
\* on the next one: the watch sees no seat in a train it was not told of.
AnswersAreComplete ==
  reading = "answered" => got \subseteq Wanted(Trains) /\ Wanted(Trains) \subseteq got \union split
=============================================================================
