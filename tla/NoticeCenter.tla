--------------------------- MODULE NoticeCenter -----------------------------
(***************************************************************************)
(* The notification center of the web client for one watch, and the        *)
(* notices made from the difference of two lists                           *)
(* (detectWatchActionTransitions): ordered by revision, closed by the user *)
(* and remembered across reloads of the page. The watch changes in the     *)
(* database at moments 2, 4, ...; the event of a change may be dated a     *)
(* little before or after it.                                              *)
(***************************************************************************)
EXTENDS Integers, Sequences, SequencesExt

CONSTANTS
  MaxChanges,  \* bound: changes of the watch
  Commands     \* whether the user gives commands in this tab

ASSUME NoticesAssumption == MaxChanges \in Nat \ {0} /\ Commands \in BOOLEAN

VARIABLES
  theWatch,   \* the row with its latest attempt: what it says, since when
  liveEvents, \* events on their way
  knownWatch, \* watchesRef: the watch as the tab knows it
  firstList,  \* ~ hasCanonicalSnapshot
  heldEvents, \* pendingLiveReservationEvents
  listGet,    \* the GET on its way
  ownCommand, \* the user's command on its way
  signedOn,   \* signed in
  center,     \* the notification center, without the notices of other watches
  dismissed,  \* dismissalLedger
  history     \* history: the newest notice this page showed, and the newest one closed

tabVars == <<knownWatch, firstList, heldEvents, center, dismissed, history>>
noticeVars == <<theWatch, liveEvents, listGet, ownCommand, signedOn, tabVars>>

NoWatch == [says |-> "none", at |-> 0]
NoGet == [pc |-> "none", crossed |-> FALSE, list |-> NoWatch]
NoNotice == [key |-> <<>>, kind |-> "none", at |-> 0]

\* WATCHING with a finished attempt: without the seat, or to be checked by hand;
\* with a hold that ended; `stopped' is paused or cancelled by the user.
Watching == {"watching", "result", "manual", "ended"}
LeadsTo(says) ==
  CASE says \in Watching -> {"reserving", "found"} \union (IF says = "manual" THEN {"manual", "result", "paid"} ELSE {})
    [] says = "found" -> {"watching"}
    [] says = "reserving" -> {"reserving", "payment", "result", "manual", "auth"}
    [] says = "payment" -> {"paid", "ended"}
    [] says = "auth" -> {"watching"}
    [] OTHER -> {}

\* notificationLifecyclePhasePriority, and which kinds stay until they are closed.
NoticePhase(kind) == IF kind = "reserving" THEN 1 ELSE IF kind \in {"found", "none"} THEN 0 ELSE 2
Sticky == {"payment", "manual", "auth", "found", "reserving"}
Notice(source, says, at, kind) == [key |-> <<source, says, at>>, kind |-> kind, at |-> at]

-----------------------------------------------------------------------------
(* The notification center.                                                 *)

\* An older revision; at the same moment an earlier phase, or the same phase of
\* what is no longer shown.
Loses(c, n) ==
  /\ c.mark.at > 0
  /\ \/ n.at < c.mark.at
     \/ /\ n.at = c.mark.at
        /\ \/ NoticePhase(n.kind) < c.mark.phase
           \/ NoticePhase(n.kind) = c.mark.phase /\ c.notice = NoNotice
Pushed(c, n) ==
  IF n.key \in c.seen THEN c
  ELSE IF Loses(c, n) THEN [c EXCEPT !.seen = @ \union {n.key}]
  ELSE [notice |-> n, seen |-> c.seen \union {n.key}, mark |-> [at |-> n.at, phase |-> NoticePhase(n.kind)]]

\* createInitialNotificationCenterState: the ledger gives the watermark.
Newer(m, e) == IF e.at > m.at \/ (e.at = m.at /\ e.phase > m.phase) THEN e ELSE m
Watermark(entries) ==
  LET marks == {[at |-> e.at, phase |-> e.phase] : e \in entries} IN
  IF marks = {} THEN [at |-> 0, phase |-> 0]
  ELSE CHOOSE m \in marks : \A e \in marks : Newer(m, e) = m
\* Mutant of EmptyCenter: the ledger only names the revisions that were closed.
CenterOfKeys(entries) == [notice |-> NoNotice, seen |-> {e.key : e \in entries}, mark |-> [at |-> 0, phase |-> 0]]
EmptyCenter(entries) == [notice |-> NoNotice, seen |-> {e.key : e \in entries}, mark |-> Watermark(entries)]

\* What is shown, for the history: the notice itself if it is new.
Rank(n) == [at |-> n.at, phase |-> NoticePhase(n.kind)]
Shows == history' = [history EXCEPT !.shown = IF center'.notice = NoNotice THEN @ ELSE Newer(@, Rank(center'.notice))]
PushAll(notices) ==
  /\ center' = FoldLeft(Pushed, center, notices)
  /\ Shows
  /\ UNCHANGED dismissed

CloseNotice ==
  /\ center.notice # NoNotice /\ center' = [center EXCEPT !.notice = NoNotice]
  /\ LET n == center.notice IN
     IF n.kind \notin Sticky THEN UNCHANGED <<dismissed, history>>
     ELSE /\ dismissed' = dismissed \union {[key |-> n.key, at |-> n.at, phase |-> NoticePhase(n.kind)]}
          /\ history' = [history EXCEPT !.closed = Newer(@, Rank(n))]
  /\ UNCHANGED <<theWatch, liveEvents, knownWatch, firstList, heldEvents, listGet, ownCommand, signedOn>>

-----------------------------------------------------------------------------
(* Notices from lists.                                                      *)

\* hydrateCurrentWatchActionTransitions.
Hydrated(w) ==
  IF w.says \in {"manual", "reserving", "payment", "auth"} THEN <<Notice("list", w.says, w.at, w.says)>> ELSE <<>>

\* Mutant of Moved: a hold is told only after its attempt was seen.
MovedInOrder(old, new) ==
  /\ old # NoWatch /\ new # NoWatch /\ new # old
  /\ \/ new.says \in {"result", "manual"} /\ new.at # old.at
     \/ new.says = "payment" /\ old.says = "reserving"
     \/ new.says \in {"reserving", "auth"} /\ (new.says # old.says \/ new.says = "reserving")
     \/ new.says = "paid" /\ old.says \in {"payment", "manual"}
     \/ new.says = "ended" /\ old.says = "payment"
     \/ new.says \in {"watching", "ended"} /\ old.says = "auth"
     \/ new.says = "found" /\ old.says \in Watching
     \/ new.says \in Watching /\ old.says = "found"
\* detectWatchActionTransitions and the two seat transitions: a step between
\* two known states of the watch that has a notice.
Moved(old, new) ==
  /\ old # NoWatch /\ new # NoWatch /\ new # old
  /\ \/ new.says \in {"result", "manual"} /\ new.at # old.at
     \/ new.says \in {"reserving", "payment", "auth"} /\ (new.says # old.says \/ new.says = "reserving")
     \/ new.says = "paid" /\ old.says \in {"payment", "manual"}
     \/ new.says = "ended" /\ old.says = "payment"
     \/ new.says \in {"watching", "ended"} /\ old.says = "auth"
     \/ new.says = "found" /\ old.says \in Watching
     \/ new.says \in Watching /\ old.says = "found"
KindOf(says) == IF says \in Sticky THEN says ELSE "recovery"
Transition(old, new) ==
  IF Moved(old, new) THEN <<Notice("list", new.says, new.at, KindOf(new.says))>> ELSE <<>>
=============================================================================
