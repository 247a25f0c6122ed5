--------------------------- MODULE WatchNotices -----------------------------
(***************************************************************************)
(* The notices a tab of the web client shows about one watch: made from    *)
(* live events (buildLiveReservationNotice) and from lists, handed to the  *)
(* notification center (NoticeCenter), while the user gives commands,      *)
(* signs off and reloads the page.                                         *)
(***************************************************************************)
EXTENDS NoticeCenter

(* Notices from events.                                                     *)

\* buildLiveReservationNotice: the event names a watch and a candidate the tab
\* knows; a payment also needs the finished attempt.
Maps(e, w) == w # NoWatch /\ (e.says = "paid" => w.says \in {"payment", "manual", "paid"})
LiveNotice(e) == Notice("event", e.says, e.at, KindOf(e.says))

\* liveNoticeDominates, and the choice of the live notices that remain.
Dominates(live, n) ==
  \/ NoticePhase(live.kind) > NoticePhase(n.kind)
  \/ NoticePhase(live.kind) = NoticePhase(n.kind) /\ NoticePhase(n.kind) < 2 /\ live.at >= n.at
\* The members of a sequence whose place is kept, in their order.
Chosen(seq, keep) ==
  LET kept[n \in 0 .. Len(seq)] ==
        IF n = 0 THEN <<>> ELSE IF keep[n] THEN Append(kept[n - 1], seq[n]) ELSE kept[n - 1]
  IN kept[Len(seq)]
Mapped(events, w) ==
  Chosen([i \in DOMAIN events |-> LiveNotice(events[i])], [i \in DOMAIN events |-> Maps(events[i], w)])
\* The notices of an accepted list, in the order they are pushed; a list makes at
\* most one of each source.  Only the last of a kind is compared.
Newest(notices) == IF notices = <<>> THEN {} ELSE {Last(notices)}
Notices(w) ==
  LET live == Mapped(heldEvents, w)
      Stays(n) == n.kind = "found" \/ ~ \E l \in Newest(live) : Dominates(l, n)
      Staying(made) == IF made # <<>> /\ ~ Stays(Head(made)) THEN <<>> ELSE made
      canonical == (IF firstList THEN Staying(Hydrated(w)) ELSE <<>>) \o Staying(Transition(knownWatch, w))
      Remains(n) == \A c \in Newest(canonical) : c.kind = "found" \/ NoticePhase(c.kind) < NoticePhase(n.kind)
  IN canonical \o Chosen(live, [i \in DOMAIN live |-> Remains(live[i])])

EventArrives ==
  /\ signedOn /\ liveEvents # <<>> /\ liveEvents' = Tail(liveEvents)
  /\ LET e == Head(liveEvents) IN
     IF Maps(e, knownWatch) THEN PushAll(<<LiveNotice(e)>>) /\ UNCHANGED <<knownWatch, firstList, heldEvents>>
     ELSE heldEvents' = Append(heldEvents, e) /\ UNCHANGED <<knownWatch, firstList, center, dismissed, history>>
  /\ UNCHANGED <<theWatch, listGet, ownCommand, signedOn>>
\* A hidden tab only notes that it has to reload.
EventComesUnseen ==
  /\ signedOn /\ liveEvents # <<>> /\ liveEvents' = Tail(liveEvents)
  /\ UNCHANGED <<theWatch, listGet, ownCommand, signedOn, tabVars>>
\* A new subscription begins at the newest row.
EventsAreLost ==
  /\ liveEvents # <<>> /\ liveEvents' = <<>>
  /\ UNCHANGED <<theWatch, listGet, ownCommand, signedOn, tabVars>>

-----------------------------------------------------------------------------
(* Lists and commands, in the order LiveWatches gives them.                 *)

BeginGet ==
  /\ signedOn /\ listGet.pc = "none" /\ listGet' = [NoGet EXCEPT !.pc = "sent"]
  /\ UNCHANGED <<theWatch, liveEvents, ownCommand, signedOn, tabVars>>
\* The live view leaves out what ended long ago.
ServerAnswers ==
  /\ listGet.pc = "sent"
  /\ \E w \in {theWatch} \union (IF theWatch.says \in {"result", "ended", "paid"} THEN {NoWatch} ELSE {}) :
       listGet' = [listGet EXCEPT !.pc = "answered", !.list = w]
  /\ UNCHANGED <<theWatch, liveEvents, ownCommand, signedOn, tabVars>>
\* pruneStaleSubjects: sticky notices of a watch that left the list.
Pruned(c, w) ==
  IF knownWatch # NoWatch /\ w = NoWatch /\ c.notice.kind \in Sticky THEN [c EXCEPT !.notice = NoNotice] ELSE c
AcceptGet ==
  /\ listGet.pc = "answered" /\ ~ listGet.crossed /\ signedOn /\ listGet' = NoGet
  /\ knownWatch' = listGet.list /\ firstList' = FALSE /\ heldEvents' = <<>>
  /\ \E notices \in {Notices(listGet.list)} :
       center' = Pruned(FoldLeft(Pushed, center, notices), listGet.list)
  /\ Shows
  /\ UNCHANGED <<theWatch, liveEvents, ownCommand, signedOn, dismissed>>
GetFails ==
  /\ listGet.pc # "none" /\ listGet' = NoGet
  /\ UNCHANGED <<theWatch, liveEvents, ownCommand, signedOn, tabVars>>

Give ==
  /\ Commands /\ signedOn /\ knownWatch # NoWatch /\ ownCommand.pc = "none"
  /\ ownCommand' = [pc |-> "sent", answer |-> NoWatch] /\ listGet' = [listGet EXCEPT !.crossed = listGet.pc # "none"]
  /\ UNCHANGED <<theWatch, liveEvents, signedOn, tabVars>>
Changes(w) == theWatch.at < 2 * MaxChanges /\ theWatch' = [says |-> w, at |-> theWatch.at + 2]
\* A change of the policy leaves the stage alone.
ServerComplies ==
  /\ ownCommand.pc = "sent"
  /\ \/ UNCHANGED theWatch
     \/ theWatch.says # "paid" /\ Changes("stopped")
     \/ theWatch.says \in {"stopped", "auth"} /\ Changes("watching")
  /\ ownCommand' = [pc |-> "done", answer |-> theWatch']
  /\ UNCHANGED <<liveEvents, listGet, signedOn, tabVars>>
\* commitWatches: the answer takes the place of what was known.
CommandEnds ==
  /\ ownCommand.pc # "none" /\ ownCommand' = [pc |-> "none", answer |-> NoWatch]
  /\ listGet' = [listGet EXCEPT !.crossed = listGet.pc # "none"]
  /\ knownWatch' \in {knownWatch} \union (IF ownCommand.pc = "done" /\ knownWatch # NoWatch THEN {ownCommand.answer} ELSE {})
  /\ UNCHANGED <<theWatch, liveEvents, firstList, heldEvents, signedOn, center, dismissed, history>>

\* The workers: a change and, for some, the event that goes with it.
Told == {"reserving", "payment", "result", "manual", "auth", "paid", "ended"}
WorkerChanges ==
  /\ \E w \in LeadsTo(theWatch.says) :
       /\ Changes(w)
       /\ IF w \notin Told THEN UNCHANGED liveEvents
          ELSE \E late \in (IF w = "reserving" THEN {0, 1} ELSE {-1, 0}) :
                 liveEvents' = Append(liveEvents, [says |-> w, at |-> theWatch'.at + late])
  /\ UNCHANGED <<listGet, ownCommand, signedOn, tabVars>>

-----------------------------------------------------------------------------
(* The page.                                                                *)

SignsIn ==
  /\ ~ signedOn /\ signedOn' = TRUE /\ liveEvents' = <<>> /\ heldEvents' = <<>> /\ listGet' = NoGet
  /\ UNCHANGED <<theWatch, knownWatch, firstList, ownCommand, center, dismissed, history>>
\* A GET answered 401 leaves the list and the notices.
Expires ==
  /\ signedOn /\ listGet.pc = "sent" /\ signedOn' = FALSE /\ firstList' = TRUE /\ heldEvents' = <<>> /\ listGet' = NoGet
  /\ UNCHANGED <<theWatch, liveEvents, knownWatch, ownCommand, center, dismissed, history>>
NewPage(entries) ==
  /\ knownWatch' = NoWatch /\ firstList' = TRUE /\ heldEvents' = <<>>
  /\ listGet' = NoGet /\ ownCommand' = [pc |-> "none", answer |-> NoWatch]
  /\ center' = EmptyCenter(entries) /\ history' = [history EXCEPT !.shown = history.closed]
  /\ UNCHANGED <<theWatch, dismissed>>
SignsOut == signedOn /\ signedOn' = FALSE /\ liveEvents' = liveEvents /\ NewPage(dismissed)
ReloadPage == liveEvents' = <<>> /\ UNCHANGED signedOn /\ NewPage(dismissed)

NoticesInit ==
  /\ theWatch = [says |-> "watching", at |-> 0] /\ liveEvents = <<>>
  /\ knownWatch = NoWatch /\ firstList = TRUE /\ heldEvents = <<>>
  /\ listGet = NoGet /\ ownCommand = [pc |-> "none", answer |-> NoWatch] /\ signedOn = TRUE
  /\ dismissed = {} /\ center = EmptyCenter({})
  /\ history = [shown |-> [at |-> 0, phase |-> 0], closed |-> [at |-> 0, phase |-> 0]]
NoticesNext ==
  \/ CloseNotice \/ EventArrives \/ EventComesUnseen \/ EventsAreLost \/ BeginGet \/ ServerAnswers \/ AcceptGet \/ GetFails
  \/ Give \/ ServerComplies \/ CommandEnds \/ WorkerChanges \/ SignsIn \/ Expires \/ SignsOut \/ ReloadPage
NoticesSpec == NoticesInit /\ [][NoticesNext]_noticeVars

-----------------------------------------------------------------------------
\* However events and lists overtake each other, the notice shown is the newest
\* this page has shown, and none older than one the user closed comes back, on
\* this page or after a reload (pushNotifications, the ledger).
NoticesGoForward ==
  center.notice # NoNotice =>
    /\ Newer(history.shown, Rank(center.notice)) = Rank(center.notice)
    /\ Newer(history.closed, Rank(center.notice)) = Rank(center.notice)

\* A hold that waits for payment is told to a user who looks, though its event
\* was lost, came while the tab was hidden, or was overtaken by a list.
PaymentIsTold ==
  (<>[]signedOn) =>
     (theWatch.says = "payment"
        ~> theWatch.says # "payment" \/ (center.mark.phase = 2 /\ center.mark.at >= theWatch.at - 1))
=============================================================================
