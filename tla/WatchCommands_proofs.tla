------------------------- MODULE WatchCommands_proofs -------------------------
(***************************************************************************)
(* Proofs about WatchCommands, for any number of requests, registrations,  *)
(* keys and watches; about LiveWatches, the list of watches that one tab   *)
(* of the web client shows, for any number of watches and of lists; and    *)
(* about WatchNotices, the notices that tab shows of one watch, for any    *)
(* number of changes, events, lists and reloads.                           *)
(***************************************************************************)
EXTENDS WatchCommands, LiveWatches, WatchNotices, FiniteSetTheorems, WellFoundedInduction, TLAPS

(* KeysActOnce says nothing of the table the transactions look into.  The   *)
(* strengthening says that a key that took effect is in it.                 *)
KeysRemembered ==
  /\ effects \in [ScopedKeys -> Nat]
  /\ \A k \in ScopedKeys : effects[k] <= 1 /\ (effects[k] = 1 => KeyTaken(k[1], k[2]))

(* At the start no key took effect.                                         *)
LEMMA KeysStart == CommandsInit => KeysRemembered
  BY DEF CommandsInit, KeysRemembered

(* What leaves the table of keys alone keeps the invariant.                 *)
LEMMA KeysUntouched ==
  ASSUME KeysRemembered, UNCHANGED <<remembered, effects>>
  PROVE  KeysRemembered'
  BY DEF KeysRemembered, KeyTaken, RecordsOf

(* Rows are only added to the table, so a key that is taken stays taken,    *)
(* and the row that is added takes its own.                                 *)
LEMMA KeysStayTaken ==
  ASSUME NEW scope, NEW key, NEW w, NEW asked, TakesEffect(scope, key, w, asked)
  PROVE  /\ KeyTaken(scope, key)'
         /\ \A s, k : KeyTaken(s, k) => KeyTaken(s, k)'
<1> DEFINE row == [scope |-> scope, key |-> key, watch |-> w, asked |-> asked]
<1>1. row \in remembered' /\ row.scope = scope /\ row.key = key
  BY DEF TakesEffect
<1>2. KeyTaken(scope, key)'
  <2>1. row \in RecordsOf(scope, key)'
    BY <1>1 DEF RecordsOf
  <2>2. QED
    BY <2>1 DEF KeyTaken
<1>3. ASSUME NEW s, NEW k, KeyTaken(s, k)
      PROVE  KeyTaken(s, k)'
  <2>1. PICK x \in remembered : x.scope = s /\ x.key = k
    BY <1>3 DEF KeyTaken, RecordsOf
  <2>2. x \in RecordsOf(s, k)'
    BY <2>1 DEF RecordsOf, TakesEffect
  <2>3. QED
    BY <2>2 DEF KeyTaken
<1>4. QED
  BY <1>2, <1>3

(* A command whose key is not in the table counts for the first time.       *)
LEMMA KeysTakeEffect ==
  ASSUME KeysRemembered,
         NEW scope, NEW key, NEW w, NEW asked,
         ~ KeyTaken(scope, key), TakesEffect(scope, key, w, asked)
  PROVE  KeysRemembered'
<1>1. effects' \in [ScopedKeys -> Nat]
  <2> DEFINE taken == <<scope, key>>
  <2>1. effects \in [ScopedKeys -> Nat] /\ effects' = [effects EXCEPT ![taken] = @ + 1]
    BY DEF KeysRemembered, TakesEffect
  <2> HIDE DEF taken
  <2>2. effects' = [k \in ScopedKeys |-> IF k = taken THEN effects[k] + 1 ELSE effects[k]]
    BY <2>1
  <2>3. \A k \in ScopedKeys : (IF k = taken THEN effects[k] + 1 ELSE effects[k]) \in Nat
    BY <2>1
  <2>4. QED
    BY <2>2, <2>3
<1>2. ASSUME NEW k \in ScopedKeys
      PROVE  effects'[k] <= 1 /\ (effects'[k] = 1 => KeyTaken(k[1], k[2])')
  <2>1. CASE k = <<scope, key>>
    <3>1. k[1] = scope /\ k[2] = key
      BY <2>1
    <3>2. effects[k] = 0
      BY <3>1 DEF KeysRemembered
    <3>3. effects'[k] = 1
      BY <2>1, <3>2 DEF TakesEffect, KeysRemembered
    <3>4. QED
      BY <3>1, <3>3, KeysStayTaken
  <2>2. CASE k # <<scope, key>>
    <3>1. effects'[k] = effects[k]
      BY <2>2 DEF TakesEffect, KeysRemembered
    <3>2. QED
      BY <3>1, KeysStayTaken DEF KeysRemembered
  <2>3. QED
    BY <2>1, <2>2
<1>3. QED
  BY <1>1, <1>2 DEF KeysRemembered

(* Only two transactions write the table: the creation that commits and the *)
(* transition that applies, each after it looked for its key.               *)
LEMMA KeysStep == KeysRemembered /\ [CommandsNext]_commandVars => KeysRemembered'
<1> SUFFICES ASSUME KeysRemembered, [CommandsNext]_commandVars
             PROVE  KeysRemembered'
  OBVIOUS
<1>1. ASSUME NEW r \in Serving, NEW e \in EvidenceIds, NEW focused \in BOOLEAN,
             SendsCreate(r, e, focused)
      PROVE  KeysRemembered'
  BY <1>1, KeysUntouched DEF SendsCreate, SameRows
<1>2. ASSUME NEW r \in Serving, NEW scope, NEW k \in CommandKeys, NEW w \in WatchIds,
             SendsCommand(r, scope, k, w)
      PROVE  KeysRemembered'
  BY <1>2, KeysUntouched DEF SendsCommand, SameRows
<1>3. ASSUME NEW r \in Serving, NEW scope, NEW w \in WatchIds, SendsOther(r, scope, w)
      PROVE  KeysRemembered'
  BY <1>3, KeysUntouched DEF SendsOther, SameRows
<1>4. ASSUME NEW r \in Serving,
             \/ CreateLooks(r) \/ CreateRefused(r) \/ CreateAnswered(r)
             \/ CapacitySelects(r) \/ CapacityLocks(r)
             \/ Finds(r) \/ Deletes(r) \/ UpdateLocks(r) \/ UpdateCommits(r)
      PROVE  KeysRemembered'
  <2>1. UNCHANGED <<remembered, effects>>
    BY <1>4 DEF CreateLooks, CreateRefused, CreateAnswered, CapacitySelects, CapacityLocks,
                Finds, Deletes, UpdateLocks, UpdateCommits, SameRows
  <2>2. QED
    BY <2>1, KeysUntouched
<1>5. ASSUME NEW r \in Serving, CreateCommits(r)
      PROVE  KeysRemembered'
  <2>1. CASE KeyTaken("create", request[r].key)
    BY <1>5, <2>1, KeysUntouched DEF CreateCommits
  <2>2. CASE ~ KeyTaken("create", request[r].key)
    <3>1. PICK w \in FreeIds : TakesEffect("create", request[r].key, w, request[r].focused)
      BY <1>5, <2>2 DEF CreateCommits
    <3>2. QED
      BY <2>2, <3>1, KeysTakeEffect
  <2>3. QED
    BY <2>1, <2>2
<1>6. ASSUME NEW r \in Serving, Transitions(r)
      PROVE  KeysRemembered'
  <2> DEFINE scope == request[r].scope
             key == request[r].key
             w == request[r].watch
  <2>1. \/ UNCHANGED <<stored, remembered, effects>>
        \/ ~ KeyTaken(scope, key) /\ TakesEffect(scope, key, w, TRUE)
    BY <1>6 DEF Transitions, Applies
  <2>2. CASE ~ KeyTaken(scope, key) /\ TakesEffect(scope, key, w, TRUE)
    BY <2>2, KeysTakeEffect
  <2>3. QED
    BY <2>1, <2>2, KeysUntouched
<1>7. ASSUME NEW w \in WatchIds, NEW target \in WorkerTargets, WorkerMoves(w, target)
      PROVE  KeysRemembered'
  BY <1>7, KeysUntouched DEF WorkerMoves
<1>8. CASE UNCHANGED commandVars
  BY <1>8, KeysUntouched DEF commandVars
<1>9. QED
  BY <1>1, <1>2, <1>3, <1>4, <1>5, <1>6, <1>7, <1>8 DEF CommandsNext

(* A command takes effect once (IdempotencyRecord, its unique constraint    *)
(* and the look for the key under the watch's row lock), however many       *)
(* copies are served at a time and whatever the workers do in between.      *)
THEOREM KeysActOnceAlways == CommandsSpec => []KeysActOnce
<1>1. KeysRemembered => KeysActOnce
  BY DEF KeysRemembered, KeysActOnce
<1>2. QED
  BY KeysStart, KeysStep, <1>1, PTL DEF CommandsSpec

-----------------------------------------------------------------------------
(* LiveWatches.                                                             *)

Gets == [life : Nat, crossed : BOOLEAN, pc : {"sent", "answered"}, list : [Watches -> Nat]]
CommandRows == [pc : {"none", "change", "delete", "changed", "deleted"}, revision : Nat]

LiveTypeOK ==
  /\ watchRows \in [Watches -> 0 .. MaxWatchRevision + 1] /\ shown \in [Watches -> Nat]
  /\ commands \in [Watches -> CommandRows]
  /\ wizard.watch \subseteq Watches /\ life \in Nat /\ coordinating \in BOOLEAN /\ lists \subseteq Gets

(* Whatever the tab knows of a watch is no newer than the database.         *)
RowsAreAhead ==
  \A w \in Watches :
    /\ shown[w] <= watchRows[w] /\ commands[w].revision <= watchRows[w]
    /\ w \in wizard.watch => watchRows[w] >= 1
    /\ \A g \in lists : g.list[w] <= watchRows[w]

(* One GET of this life is on its way.                                      *)
OneList ==
  /\ \A g \in lists : g.life <= life
  /\ \A g, h \in lists : g.life = life /\ h.life = life => g = h

(* What the GET has read, if it still counts, is no older than what shows.  *)
ListIsAhead ==
  \A g \in lists : ListIsCurrent(g) /\ g.pc = "answered" =>
    \A w \in Watches : g.list[w] = Absent \/ shown[w] <= g.list[w]

LiveInv == LiveTypeOK /\ RowsAreAhead /\ OneList /\ ListIsAhead

-----------------------------------------------------------------------------
(* A reload: the GETs are as before, and one more may be sent when none of  *)
(* this life is on its way.                                                 *)
LEMMA ReloadKeeps ==
  ASSUME LiveInv, UNCHANGED <<watchVars, life, coordinating>>,
         \/ lists' = lists
         \/ ~InFlight /\ lists' = lists \union {NewList}
  PROVE  LiveInv'
<1> USE DEF LiveInv
<1>1. CASE lists' = lists
  BY <1>1 DEF watchVars, LiveTypeOK, RowsAreAhead, OneList, ListIsAhead, ListIsCurrent
<1>2. CASE ~InFlight /\ lists' = lists \union {NewList}
  <2>1. /\ NewList \in Gets /\ NewList.life = life /\ NewList.pc = "sent"
        /\ \A w \in Watches : NewList.list[w] = 0
    BY DEF NewList, Gets, Unread, Absent, LiveTypeOK
  <2> HIDE DEF LiveInv
  <2>2. LiveTypeOK'
    BY <1>2, <2>1 DEF LiveInv, LiveTypeOK, watchVars
  <2>3. RowsAreAhead'
    BY <1>2, <2>1 DEF LiveInv, LiveTypeOK, RowsAreAhead, watchVars
  <2>4. OneList'
    BY <1>2, <2>1 DEF LiveInv, LiveTypeOK, OneList, InFlight
  <2>5. ListIsAhead'
    BY <1>2, <2>1 DEF LiveInv, ListIsAhead, ListIsCurrent, watchVars
  <2> QED
    BY <2>2, <2>3, <2>4, <2>5 DEF LiveInv
<1> QED
  BY <1>1, <1>2

(* GETs end.                                                                *)
LEMMA FewerListsKeep ==
  ASSUME LiveInv, lists' \subseteq lists, UNCHANGED <<watchRows, shown, commands, wizard, life>>,
         coordinating' \in {coordinating, FALSE}
  PROVE  LiveInv'
<1>1. LiveTypeOK' /\ RowsAreAhead' /\ OneList'
  BY DEF LiveInv, LiveTypeOK, RowsAreAhead, OneList
<1>2. \A g \in lists' : g \in lists /\ (ListIsCurrent(g)' => ListIsCurrent(g))
  BY DEF ListIsCurrent
<1>3. ListIsAhead'
  BY <1>2 DEF LiveInv, ListIsAhead
<1> QED
  BY <1>1, <1>3 DEF LiveInv

(* A new life: no GET counts but the one it begins with.                    *)
LEMMA StartsKeep ==
  ASSUME LiveInv, Starts, UNCHANGED watchVars
  PROVE  LiveInv'
<1> DEFINE first == [NewList EXCEPT !.life = life + 1]
<1>1. /\ life \in Nat /\ life' = life + 1 /\ coordinating' = TRUE
      /\ (lists' = lists \/ lists' = lists \union {first})
  BY DEF LiveInv, LiveTypeOK, Starts
<1>2. first \in Gets /\ first.life = life + 1 /\ first.pc = "sent" /\ \A w \in Watches : first.list[w] = 0
  <2>1. NewList \in Gets /\ NewList.pc = "sent" /\ \A w \in Watches : NewList.list[w] = 0
    BY <1>1 DEF NewList, Gets, Unread, Absent
  <2> QED
    BY <1>1, <2>1 DEF Gets
<1> HIDE DEF first
<1>3. LiveTypeOK'
  BY <1>1, <1>2 DEF LiveInv, LiveTypeOK, watchVars
<1>4. RowsAreAhead'
  BY <1>1, <1>2 DEF LiveInv, LiveTypeOK, RowsAreAhead, watchVars
<1>5. \A g \in lists : g.life \in Nat /\ g.life # life' /\ g.life <= life'
  BY <1>1 DEF LiveInv, LiveTypeOK, OneList, Gets
<1>6. OneList' /\ ListIsAhead'
  BY <1>1, <1>2, <1>5 DEF OneList, ListIsAhead, ListIsCurrent
<1> QED
  BY <1>3, <1>4, <1>6 DEF LiveInv

(* The server reads the list.                                               *)
LEMMA ServerListsKeep ==
  ASSUME LiveInv, NEW g \in lists, ServerLists(g)
  PROVE  LiveInv'
<1> DEFINE read == [g EXCEPT !.pc = "answered", !.list = Listed]
<1>1. /\ lists' = (lists \ {g}) \union {read}
      /\ UNCHANGED <<watchRows, shown, removed, commands, wizard, life, coordinating>>
  BY DEF ServerLists, watchVars
<1>2. Listed \in [Watches -> Nat] /\ \A w \in Watches : Listed[w] \in {0, watchRows[w]}
  BY LiveAssumption DEF Listed, Absent, LiveInv, LiveTypeOK
<1>3. g \in Gets
  BY DEF LiveInv, LiveTypeOK
<1>4. read \in Gets /\ read.life = g.life /\ read.list = Listed
  BY <1>2, <1>3 DEF Gets
<1> HIDE DEF read
<1>5. \A w \in Watches : watchRows[w] \in Nat /\ shown[w] \in Nat /\ shown[w] <= watchRows[w]
  BY LiveAssumption DEF LiveInv, LiveTypeOK, RowsAreAhead
<1>6. LiveTypeOK'
  BY <1>1, <1>4 DEF LiveInv, LiveTypeOK
<1>7. RowsAreAhead'
  BY <1>1, <1>2, <1>4, <1>5 DEF LiveInv, RowsAreAhead
<1>8. OneList'
  BY <1>1, <1>4 DEF LiveInv, OneList
<1>9. ListIsAhead'
  BY <1>1, <1>2, <1>4, <1>5 DEF LiveInv, ListIsAhead, ListIsCurrent, Absent
<1> QED
  BY <1>6, <1>7, <1>8, <1>9 DEF LiveInv

(* A list that is accepted was not crossed by a command, so it is as new as *)
(* what it replaces.                                                        *)
LEMMA AcceptKeeps ==
  ASSUME LiveInv, NEW g \in lists, AcceptList(g)
  PROVE  LiveInv'
<1>1. /\ g.pc = "answered" /\ ListIsCurrent(g) /\ lists' = lists \ {g}
      /\ shown' = [w \in Watches |-> IF w \in removed THEN Absent ELSE g.list[w]]
      /\ UNCHANGED <<watchRows, commands, wizard, life, coordinating>>
  BY DEF AcceptList, ListEnds
<1>2. g \in Gets
  BY DEF LiveInv, LiveTypeOK
<1>3. \A w \in Watches : shown'[w] \in {0, g.list[w]} /\ g.list[w] \in Nat /\ watchRows[w] \in Nat
  BY <1>1, <1>2, LiveAssumption DEF Absent, Gets, LiveInv, LiveTypeOK
<1>4. LiveTypeOK'
  BY <1>1, <1>3 DEF LiveInv, LiveTypeOK
<1>5. RowsAreAhead'
  BY <1>1, <1>3 DEF LiveInv, RowsAreAhead
<1>6. OneList'
  BY <1>1 DEF LiveInv, OneList
<1>7. \A h \in lists' : h.life # life'
  BY <1>1 DEF LiveInv, OneList, ListIsCurrent
<1>8. ListIsAhead'
  BY <1>7 DEF ListIsAhead, ListIsCurrent
<1> QED
  BY <1>4, <1>5, <1>6, <1>8 DEF LiveInv

(* A command begins or ends: the GETs on their way count no more.           *)
LEMMA CrossedKeeps ==
  ASSUME LiveInv, NEW begins, lists' = Crossed(begins), UNCHANGED <<life, coordinating, wizard, watchRows>>,
         shown' \in [Watches -> Nat], \A w \in Watches : shown'[w] <= watchRows[w],
         commands' \in [Watches -> CommandRows],
         \A w \in Watches : commands'[w].revision <= watchRows[w]
  PROVE  LiveInv'
<1> DEFINE late(g) == [g EXCEPT !.crossed = TRUE]
<1>1. ASSUME NEW g \in lists
      PROVE  late(g) \in Gets /\ late(g).life = g.life /\ late(g).list = g.list /\ late(g).crossed = TRUE
  BY DEF LiveInv, LiveTypeOK, Gets
<1>2. \A h \in lists' : \E g \in lists : h = late(g)
  BY DEF Crossed
<1> HIDE DEF late
<1>3. ASSUME NEW h \in lists'
      PROVE  h \in Gets /\ h.crossed = TRUE /\ \A w \in Watches : h.list[w] <= watchRows[w]
  BY <1>1, <1>2 DEF LiveInv, RowsAreAhead
<1>4. LiveTypeOK'
  <2>1. lists' \subseteq Gets
    BY <1>3
  <2> QED
    BY <2>1 DEF LiveInv, LiveTypeOK
<1>5. RowsAreAhead'
  BY <1>3 DEF LiveInv, RowsAreAhead
<1>6. OneList'
  <2>1. ASSUME NEW h \in lists'
        PROVE  h.life <= life'
    BY <1>1, <1>2 DEF LiveInv, OneList
  <2>2. ASSUME NEW h \in lists', NEW k \in lists', h.life = life', k.life = life'
        PROVE  h = k
    <3>1. PICK g \in lists : h = late(g)
      BY <1>2
    <3>2. PICK f \in lists : k = late(f)
      BY <1>2
    <3>3. g = f
      BY <1>1, <2>2, <3>1, <3>2 DEF LiveInv, OneList
    <3> QED
      BY <3>1, <3>2, <3>3
  <2> QED
    BY <2>1, <2>2 DEF OneList
<1>7. ListIsAhead'
  <2>1. \A h \in lists' : ~ListIsCurrent(h)'
    BY <1>3 DEF ListIsCurrent
  <2> QED
    BY <2>1 DEF ListIsAhead
<1> QED
  BY <1>4, <1>5, <1>6, <1>7 DEF LiveInv

(* A command is given and answered; it crosses the list on its way.         *)
LEMMA CommandKeeps ==
  ASSUME LiveInv, NEW w \in Watches,
         \/ \E what \in {"change", "delete"} : BeginCommand(w, what)
         \/ ChangeAnswered(w) \/ DeletionAnswered(w) \/ ChangeFails(w)
  PROVE  LiveInv'
<1>1. /\ shown \in [Watches -> Nat] /\ watchRows \in [Watches -> Nat]
      /\ commands \in [Watches -> CommandRows]
      /\ \A v \in Watches : shown[v] <= watchRows[v] /\ commands[v].revision <= watchRows[v]
  BY LiveAssumption DEF LiveInv, LiveTypeOK, RowsAreAhead
<1>2. CASE \E what \in {"change", "delete"} : BeginCommand(w, what)
  <2>1. PICK what \in {"change", "delete"} : BeginCommand(w, what)
    BY <1>2
  <2> DEFINE row == [commands[w] EXCEPT !.pc = what]
  <2>2. row \in CommandRows /\ row.revision = commands[w].revision
    BY <1>1 DEF CommandRows
  <2>3. commands' = [commands EXCEPT ![w] = row]
    BY <2>1 DEF BeginCommand
  <2> HIDE DEF row
  <2>4. /\ commands' \in [Watches -> CommandRows]
        /\ \A v \in Watches : commands'[v].revision <= watchRows[v]
    BY <1>1, <2>2, <2>3
  <2>5. lists' = Crossed(TRUE) /\ UNCHANGED <<watchRows, shown, wizard, life, coordinating>>
    BY <2>1 DEF BeginCommand
  <2> QED
    BY <1>1, <2>4, <2>5, CrossedKeeps
<1>3. CASE ChangeAnswered(w) \/ DeletionAnswered(w) \/ ChangeFails(w)
  <2>1. EndsCommand(w) /\ UNCHANGED <<watchRows, wizard>>
    BY <1>3 DEF ChangeAnswered, DeletionAnswered, ChangeFails
  <2>2. /\ lists' = Crossed(FALSE) /\ UNCHANGED <<life, coordinating>>
        /\ commands' = [commands EXCEPT ![w] = NoCommand]
    BY <2>1 DEF EndsCommand, RequestWith
  <2>3. /\ commands' \in [Watches -> CommandRows]
        /\ \A v \in Watches : commands'[v].revision <= watchRows[v]
    <3>1. NoCommand \in CommandRows /\ NoCommand.revision = 0
      BY DEF NoCommand, Absent, CommandRows
    <3> HIDE DEF NoCommand
    <3> QED
      BY <1>1, <2>2, <3>1
  <2>4. shown' \in [Watches -> Nat] /\ \A v \in Watches : shown'[v] <= watchRows[v]
    <3>1. shown' = shown \/ \E n \in {0, commands[w].revision} : shown' = [shown EXCEPT ![w] = n]
      BY <1>3 DEF ChangeAnswered, DeletionAnswered, ChangeFails, Absent
    <3> QED
      BY <1>1, <3>1 DEF CommandRows
  <2> QED
    BY <2>1, <2>2, <2>3, <2>4, CrossedKeeps
<1> QED
  BY <1>2, <1>3

(* The database changes: a row is only ever replaced by a newer one.        *)
LEMMA ServerKeeps ==
  ASSUME LiveInv, NEW w \in Watches, ServerObeys(w) \/ RegisterWatch(w) \/ ServerChanges(w)
  PROVE  LiveInv'
<1>1. watchRows \in [Watches -> 0 .. MaxWatchRevision + 1] /\ MaxWatchRevision \in Nat \ {0}
  BY LiveAssumption DEF LiveInv, LiveTypeOK
<1>2. PICK n \in 0 .. MaxWatchRevision + 1 :
        watchRows' = [watchRows EXCEPT ![w] = n] /\ n >= watchRows[w] /\ n >= 1
  BY <1>1 DEF ServerObeys, RegisterWatch, ServerChanges, Deleted, Absent, Exists
<1>3. UNCHANGED <<shown, life, coordinating, lists>>
  BY DEF ServerObeys, RegisterWatch, ServerChanges, reloadVars
<1>4. /\ watchRows' \in [Watches -> 0 .. MaxWatchRevision + 1]
      /\ \A v \in Watches : watchRows[v] \in Nat /\ watchRows'[v] \in Nat /\ watchRows[v] <= watchRows'[v]
      /\ watchRows'[w] >= 1
  BY <1>1, <1>2
<1>5. /\ commands' \in [Watches -> CommandRows]
      /\ \A v \in Watches : commands'[v].revision <= watchRows'[v]
  <2>1. CASE commands' = commands
    BY <1>4, <2>1 DEF LiveInv, LiveTypeOK, RowsAreAhead, CommandRows
  <2>2. CASE commands' = [commands EXCEPT ![w].pc = "deleted"]
    <3> DEFINE row == [commands[w] EXCEPT !.pc = "deleted"]
    <3>1. row \in CommandRows /\ row.revision = commands[w].revision
      BY DEF LiveInv, LiveTypeOK, CommandRows
    <3>2. commands' = [commands EXCEPT ![w] = row]
      BY <2>2
    <3> HIDE DEF row
    <3> QED
      BY <1>4, <3>1, <3>2 DEF LiveInv, LiveTypeOK, RowsAreAhead, CommandRows
  <2>3. CASE /\ watchRows' = [watchRows EXCEPT ![w] = @ + 1]
             /\ commands' = [commands EXCEPT ![w] = [pc |-> "changed", revision |-> watchRows[w] + 1]]
    <3> DEFINE row == [pc |-> "changed", revision |-> watchRows[w] + 1]
    <3>1. row \in CommandRows /\ row.revision = watchRows'[w]
      BY <1>1, <2>3 DEF CommandRows
    <3>2. commands' = [commands EXCEPT ![w] = row]
      BY <2>3
    <3> HIDE DEF row
    <3> QED
      BY <1>4, <3>1, <3>2 DEF LiveInv, LiveTypeOK, RowsAreAhead, CommandRows
  <2> QED
    BY <2>1, <2>2, <2>3 DEF ServerObeys, RegisterWatch, ServerChanges
<1>6. wizard' = wizard \/ wizard'.watch = {w}
  BY DEF ServerObeys, RegisterWatch, ServerChanges
<1>7. LiveTypeOK'
  BY <1>3, <1>4, <1>5, <1>6 DEF LiveInv, LiveTypeOK
<1>8. RowsAreAhead'
  <2>1. \A v \in Watches : /\ shown[v] \in Nat /\ shown[v] <= watchRows[v]
                           /\ \A g \in lists : g.list[v] \in Nat /\ g.list[v] <= watchRows[v]
    BY DEF LiveInv, LiveTypeOK, RowsAreAhead, Gets
  <2>2. \A v \in Watches : v \in wizard'.watch => watchRows'[v] >= 1
    BY <1>4, <1>6 DEF LiveInv, RowsAreAhead
  <2> QED
    BY <1>3, <1>4, <1>5, <2>1, <2>2 DEF RowsAreAhead
<1>9. OneList' /\ ListIsAhead'
  BY <1>3 DEF LiveInv, OneList, ListIsAhead, ListIsCurrent
<1> QED
  BY <1>7, <1>8, <1>9 DEF LiveInv

(* A watch that was registered in this tab is shown.                        *)
LEMMA RegisteredKeeps ==
  ASSUME LiveInv, WatchRegistered
  PROVE  LiveInv'
<1>1. /\ wizard'.watch = {} /\ shown' = [w \in Watches |-> IF w \in wizard.watch THEN 1 ELSE shown[w]]
      /\ UNCHANGED <<watchRows, commands, life, coordinating, lists>>
  BY DEF WatchRegistered, reloadVars
<1>2. \A w \in Watches : \/ shown'[w] = shown[w]
                         \/ shown'[w] = 1 /\ watchRows[w] >= 1
  BY <1>1 DEF LiveInv, RowsAreAhead
<1>3. \A g \in lists, w \in Watches : g.list[w] \in Nat
  BY DEF LiveInv, LiveTypeOK, Gets
<1>4. LiveTypeOK' /\ RowsAreAhead' /\ OneList'
  BY <1>1, <1>2 DEF LiveInv, LiveTypeOK, RowsAreAhead, OneList
<1>5. ListIsAhead'
  BY <1>1, <1>2, <1>3 DEF LiveInv, ListIsAhead, ListIsCurrent, Absent
<1> QED
  BY <1>4, <1>5 DEF LiveInv

-----------------------------------------------------------------------------
(* The tab shows nothing yet.                                               *)
LEMMA LiveStarts == LiveInit => LiveInv
<1> SUFFICES ASSUME LiveInit PROVE LiveInv
  OBVIOUS
<1>1. Unread \in [Watches -> Nat] /\ \A w \in Watches : Unread[w] = 0
  BY DEF Unread, Absent
<1>2. NoCommand \in CommandRows /\ NoCommand.revision = 0
  BY DEF NoCommand, Absent, CommandRows
<1>3. watchRows \in [Watches -> 0 .. MaxWatchRevision + 1] /\ \A w \in Watches : 0 <= watchRows[w]
  BY LiveAssumption DEF LiveInit, Absent
<1>4. LiveTypeOK /\ RowsAreAhead /\ OneList /\ ListIsAhead
  BY <1>1, <1>2, <1>3 DEF LiveInit, LiveTypeOK, RowsAreAhead, OneList, ListIsAhead
<1> QED
  BY <1>4 DEF LiveInv

(* The invariant is inductive: one group of actions after the other.        *)
LEMMA LiveKeeps ==
  ASSUME LiveInv, [LiveNext]_liveVars
  PROVE  LiveInv'
<1>1. CASE UNCHANGED liveVars
  BY <1>1, ReloadKeeps DEF liveVars, reloadVars
<1>2. CASE \/ \E u \in {"immediate", "routine"} : RequestReload(u)
           \/ BurstTimerEnds \/ PollTimerEnds \/ Hide \/ Show
  <2>1. UNCHANGED <<watchVars, life, coordinating>>
    BY <1>2 DEF RequestReload, BurstTimerEnds, PollTimerEnds, Hide, Show
  <2>2. lists' = lists \/ (~InFlight /\ lists' = lists \union {NewList})
    BY <1>2 DEF RequestReload, RequestWith, BurstTimerEnds, PollTimerEnds, RunReload, KeepReason, Hide, Show
  <2> QED
    BY <2>1, <2>2, ReloadKeeps
<1>3. CASE SignIn \/ ChangeView
  BY <1>3, StartsKeep DEF SignIn, ChangeView, watchVars
<1>4. CASE SignOut
  <2>1. /\ coordinating' = FALSE /\ shown' = Unread /\ UNCHANGED <<watchRows, commands, wizard, life, lists>>
    BY <1>4 DEF SignOut, Stops
  <2>2. Unread \in [Watches -> Nat] /\ \A w \in Watches : Unread[w] = 0 /\ watchRows[w] \in Nat
    BY LiveAssumption DEF Unread, Absent, LiveInv, LiveTypeOK
  <2>3. LiveTypeOK'
    BY <2>1, <2>2 DEF LiveInv, LiveTypeOK
  <2>4. RowsAreAhead'
    BY <2>1, <2>2 DEF LiveInv, RowsAreAhead
  <2>5. OneList'
    BY <2>1 DEF LiveInv, OneList
  <2>6. ListIsAhead'
    BY <2>1 DEF ListIsAhead, ListIsCurrent
  <2> QED
    BY <2>3, <2>4, <2>5, <2>6 DEF LiveInv
<1>5. CASE \E g \in lists : DropList(g) \/ ListFails(g) \/ ListIsRefused(g)
  <2>1. /\ lists' \subseteq lists /\ UNCHANGED <<watchRows, shown, commands, wizard, life>>
        /\ coordinating' \in {coordinating, FALSE}
    BY <1>5 DEF DropList, ListFails, ListIsRefused, ListEnds, Stops, watchVars
  <2> QED
    BY <2>1, FewerListsKeep
<1> QED
  BY <1>1, <1>2, <1>3, <1>4, <1>5, ServerListsKeep, AcceptKeeps, CommandKeeps, ServerKeeps, RegisteredKeeps
    DEF LiveNext, LiveStep

(* What a step shows.                                                       *)
GoesForward(w) ==
  \/ shown'[w] = Absent \/ commands'[w] # commands[w] \/ wizard' # wizard
  \/ shown'[w] >= shown[w] /\ (shown[w] = Absent => w \notin removed)

(* In each step what the tab shows of a watch goes forward.                 *)
LEMMA StepGoesForward ==
  ASSUME LiveInv, LiveNext, NEW w \in Watches
  PROVE  GoesForward(w)
<1>1. shown[w] \in Nat
  BY DEF LiveInv, LiveTypeOK
<1>2. CASE shown'[w] = shown[w] \/ shown'[w] = Absent
  BY <1>1, <1>2 DEF GoesForward, Absent
<1>3. CASE \E g \in lists : AcceptList(g)
  <2>1. PICK g \in lists : AcceptList(g)
    BY <1>3
  <2>2. g.pc = "answered" /\ ListIsCurrent(g) /\ shown'[w] = IF w \in removed THEN Absent ELSE g.list[w]
    BY <2>1 DEF AcceptList
  <2>3. g.list[w] = Absent \/ (shown[w] <= g.list[w] /\ g.list[w] \in Nat)
    BY <2>2 DEF LiveInv, LiveTypeOK, ListIsAhead, Gets
  <2> QED
    BY <1>1, <2>2, <2>3 DEF GoesForward
<1>4. CASE \E v \in Watches : ChangeAnswered(v) \/ DeletionAnswered(v)
  <2>1. PICK v \in Watches : ChangeAnswered(v) \/ DeletionAnswered(v)
    BY <1>4
  <2>2. CASE v = w
    <3>1. commands'[w] = NoCommand /\ commands[w].pc # "none"
      BY <2>1, <2>2 DEF ChangeAnswered, DeletionAnswered, EndsCommand, LiveInv, LiveTypeOK
    <3> QED
      BY <3>1 DEF GoesForward, NoCommand
  <2>3. CASE v # w
    <3>1. shown'[w] = shown[w]
      BY <2>1, <2>3 DEF ChangeAnswered, DeletionAnswered, LiveInv, LiveTypeOK
    <3> QED
      BY <1>2, <3>1
  <2> QED
    BY <2>2, <2>3
<1>5. CASE WatchRegistered
  <2>1. wizard' # wizard
    BY <1>5 DEF WatchRegistered
  <2> QED
    BY <2>1 DEF GoesForward
<1>6. CASE SignOut
  BY <1>2, <1>6 DEF SignOut, Unread
<1>7. CASE shown' = shown
  BY <1>2, <1>7
<1> QED
  BY <1>3, <1>4, <1>5, <1>6, <1>7
    DEF LiveNext, LiveStep, RequestReload, BurstTimerEnds, PollTimerEnds, Hide, Show, SignIn, ChangeView,
        ServerLists, DropList, ListFails, ListIsRefused, BeginCommand, ServerObeys, ChangeFails, RegisterWatch,
        ServerChanges, watchVars

(* ListsGoForward: a list never takes back what the tab shows, whichever    *)
(* answers, deletions, sign-ins and timers came while it was on its way, for *)
(* any number of watches, requests and lives.                               *)
THEOREM ListsAlwaysGoForward == LiveInit /\ [][LiveNext]_liveVars => ListsGoForward
<1>1. LiveInv /\ [LiveNext]_liveVars => LiveInv'
  BY LiveKeeps
<1>2. LiveInv /\ [LiveNext]_liveVars =>
        [\A w \in Watches :
           \/ shown'[w] = Absent \/ commands'[w] # commands[w] \/ wizard' # wizard
           \/ shown'[w] >= shown[w] /\ (shown[w] = Absent => w \notin removed)]_liveVars
  BY StepGoesForward DEF GoesForward
<1> QED
  BY <1>1, <1>2, LiveStarts, PTL DEF ListsGoForward

-----------------------------------------------------------------------------
(* Folds.  A set of natural numbers that is not empty has a smallest one,   *)
(* and one that is bounded a largest.                                       *)
LEMMA Smallest ==
  ASSUME NEW T, T \subseteq Nat, T # {}
  PROVE  \E x \in T : \A y \in T : x <= y
<1> DEFINE R == OpToRel(<, Nat)
<1>1. IsWellFoundedOn(R, Nat) BY NatLessThanWellFounded
<1>2. \A x, y \in Nat : <<y, x>> \in R <=> y < x BY DEF OpToRel
<1> HIDE DEF R
<1>3. \E x \in T : \A y \in T : ~ (<<y, x>> \in R)
  BY ONLY <1>1, WFMin, T \subseteq Nat, T # {}, Zenon
<1>4. PICK x \in T : \A y \in T : ~ (<<y, x>> \in R) BY <1>3
<1>5. ASSUME NEW y \in T PROVE x <= y
  <2>1. x \in Nat /\ y \in Nat /\ ~ (<<y, x>> \in R) BY <1>4
  <2> QED BY <1>2, <2>1
<1> QED BY <1>5

(* So a bounded set of natural numbers that is not empty has a largest one. *)
LEMMA Largest ==
  ASSUME NEW T, T # {}, NEW top \in Nat, T \subseteq 0 .. top
  PROVE  \E x \in T : \A y \in T : x >= y
<1> DEFINE gaps == {top - x : x \in T}
<1>1. gaps \subseteq Nat /\ gaps # {}
  <2>1. \A x \in T : top - x \in Nat OBVIOUS
  <2> QED BY <2>1
<1>2. PICK g \in gaps : \A h \in gaps : g <= h BY <1>1, Smallest
<1>3. PICK x \in T : g = top - x OBVIOUS
<1>4. \A y \in T : top - y \in gaps OBVIOUS
<1>5. \A y \in T : top - x <= top - y BY <1>2, <1>3, <1>4
<1> HIDE DEF gaps
<1> QED BY <1>5

(* The community modules choose the largest index of a sequence that way.   *)
LEMMA MaxOfIndices ==
  ASSUME NEW n \in Nat, NEW s \in SUBSET (1 .. n), s # {}
  PROVE  Max(s) \in s
<1>0. s \subseteq 0 .. n OBVIOUS
<1>1. \E x \in s : \A y \in s : x >= y BY <1>0, Largest
<1> QED BY <1>1 DEF Max

(* A fold that takes what pick names next exists, and stays in C when each   *)
(* of its steps does.                                                        *)
Folding(D, C, base, pick, g) ==
  /\ IsFiniteSet(D) /\ base \in C
  /\ \A s \in SUBSET D : s # {} => pick[s] \in s
  /\ \A c \in C, x \in D : g[<<c, x>>] \in C

FoldOf(D, C, base, pick, g, iter) ==
  /\ iter \in [SUBSET D -> C] /\ iter[{}] = base
  /\ \A s \in SUBSET D : s # {} => iter[s] = g[<<iter[s \ {pick[s]}], pick[s]>>]

(* By the smallest number of members for which there would be no such       *)
(* function.                                                                *)
LEMMA FoldExists ==
  ASSUME NEW D, NEW C, NEW base, NEW pick, NEW g, Folding(D, C, base, pick, g)
  PROVE  \E iter : FoldOf(D, C, base, pick, g, iter)
<1> DEFINE Upto(k) == {s \in SUBSET D : Cardinality(s) <= k}
           Folds(f, k) == \A s \in Upto(k) : f[s] = IF s = {} THEN base ELSE g[<<f[s \ {pick[s]}], pick[s]>>]
           Bad == {k \in Nat : ~ \E f \in [Upto(k) -> C] : Folds(f, k)}
<1>f. /\ IsFiniteSet(D) /\ base \in C
      /\ \A s \in SUBSET D : s # {} => pick[s] \in s
      /\ \A c \in C, x \in D : g[<<c, x>>] \in C
  BY DEF Folding
<1>c. \A s \in SUBSET D : IsFiniteSet(s) /\ Cardinality(s) \in Nat /\ Cardinality(s) <= Cardinality(D)
  BY <1>f, FS_Subset, FS_CardinalityType
<1>0. \A s \in SUBSET D : s # {} =>
        /\ s \ {pick[s]} \in SUBSET D /\ Cardinality(s \ {pick[s]}) = Cardinality(s) - 1
        /\ Cardinality(s) # 0
  BY <1>c, <1>f, FS_RemoveElement, FS_EmptySet
<1>1. Bad = {}
  <2> SUFFICES ASSUME Bad # {} PROVE FALSE OBVIOUS
  <2>1. PICK k \in Bad : \A j \in Bad : k <= j BY Smallest
  <2>2. k \in Nat /\ ~ \E f \in [Upto(k) -> C] : Folds(f, k) OBVIOUS
  <2>3. CASE k = 0
    <3>1. ASSUME NEW s \in Upto(0) PROVE s = {}
      <4>1. s \in SUBSET D /\ Cardinality(s) <= 0 /\ Cardinality(s) \in Nat BY <1>c
      <4>2. Cardinality(s) = 0 BY <4>1
      <4> QED BY <4>1, <4>2, <1>0
    <3> DEFINE f == [s \in Upto(0) |-> base]
    <3>2. f \in [Upto(0) -> C] BY <1>f
    <3>3. \A s \in Upto(0) : f[s] = base OBVIOUS
    <3> HIDE DEF f
    <3>4. Folds(f, 0) BY <3>1, <3>3
    <3> QED BY <2>2, <2>3, <3>2, <3>4
  <2>4. CASE k # 0
    <3>0. k - 1 \in Nat /\ ~ (k <= k - 1) BY <2>2, <2>4
    <3>1. k - 1 \in Nat /\ k - 1 \notin Bad
      <4> HIDE DEF Bad
      <4> QED BY <3>0, <2>1
    <3>2. PICK f \in [Upto(k - 1) -> C] : Folds(f, k - 1) BY <3>1
    <3> HIDE DEF Bad
    <3> DEFINE h == [s \in Upto(k) |-> IF s = {} THEN base ELSE g[<<f[s \ {pick[s]}], pick[s]>>]]
    <3>3. \A s \in Upto(k) : s # {} => s \ {pick[s]} \in Upto(k - 1) BY <1>0, <1>c, <2>2
    <3>4. Upto(k - 1) \subseteq Upto(k) BY <1>c, <2>2
    <3>5. \A s \in Upto(k - 1) : h[s] = f[s] BY <3>2, <3>4
    <3>6. \A s \in Upto(k) : s # {} => pick[s] \in D BY <1>f
    <3>7. \A s \in Upto(k) : s # {} => f[s \ {pick[s]}] \in C BY <3>3
    <3>8. h \in [Upto(k) -> C] BY <1>f, <3>6, <3>7
    <3>9. \A s \in Upto(k) : h[s] = IF s = {} THEN base ELSE g[<<f[s \ {pick[s]}], pick[s]>>] OBVIOUS
    <3> HIDE DEF h
    <3>10. Folds(h, k) BY <3>3, <3>5, <3>9
    <3> QED BY <2>2, <3>8, <3>10
  <2> QED BY <2>3, <2>4
<1>2. Cardinality(D) \in Nat BY <1>f, FS_CardinalityType
<1>3. PICK f \in [Upto(Cardinality(D)) -> C] : Folds(f, Cardinality(D)) BY <1>1, <1>2
<1>4. Upto(Cardinality(D)) = SUBSET D BY <1>c
<1> HIDE DEF Bad, Upto
<1>5. f \in [SUBSET D -> C] BY <1>3, <1>4
<1>6. \A s \in SUBSET D : f[s] = IF s = {} THEN base ELSE g[<<f[s \ {pick[s]}], pick[s]>>] BY <1>3, <1>4
<1>7. f[{}] = base /\ \A s \in SUBSET D : s # {} => f[s] = g[<<f[s \ {pick[s]}], pick[s]>>] BY <1>6
<1> QED BY <1>5, <1>7 DEF FoldOf

(* By the smallest set of members on which the fold would leave C.          *)
LEMMA FoldStays ==
  ASSUME NEW D, IsFiniteSet(D), NEW C, NEW pick, NEW iter, iter[{}] \in C,
         \A s \in SUBSET D : s # {} => pick[s] \in s,
         \A s \in SUBSET D : s # {} /\ iter[s \ {pick[s]}] \in C => iter[s] \in C
  PROVE  iter[D] \in C
<1> DEFINE Bad == {s \in SUBSET D : iter[s] \notin C}
           Sizes == {Cardinality(s) : s \in Bad}
<1>c. \A s \in SUBSET D : IsFiniteSet(s) /\ Cardinality(s) \in Nat BY FS_Subset, FS_CardinalityType
<1>1. Bad = {}
  <2> SUFFICES ASSUME Bad # {} PROVE FALSE OBVIOUS
  <2>1. Sizes \subseteq Nat /\ Sizes # {} BY <1>c
  <2>2. PICK k \in Sizes : \A j \in Sizes : k <= j BY <2>1, Smallest
  <2>3. PICK s \in Bad : Cardinality(s) = k OBVIOUS
  <2>4. s \in SUBSET D /\ s # {} OBVIOUS
  <2>5. s \ {pick[s]} \in SUBSET D /\ Cardinality(s \ {pick[s]}) = Cardinality(s) - 1
    BY <1>c, <2>4, FS_RemoveElement
  <2>6. Cardinality(s \ {pick[s]}) \notin Sizes BY <1>c, <2>2, <2>3, <2>4, <2>5
  <2>7. iter[s \ {pick[s]}] \in C
    <3>1. s \ {pick[s]} \notin Bad BY <2>6
    <3> QED BY <2>5, <3>1
  <2> QED BY <2>4, <2>7
<1> QED BY <1>1

(* One step of Chosen.                                                      *)
Collected(kept, c, x) == IF kept THEN Append(c, x) ELSE c

(* What is chosen of a sequence is a sequence of its members.  The function *)
(* Chosen speaks of exists: it is a fold over the places up to each.        *)
LEMMA ChosenAreThere ==
  ASSUME NEW T, NEW seq \in Seq(T), NEW keep
  PROVE  Chosen(seq, keep) \in Seq(T)
<1> DEFINE top == Len(seq)
           Places == 1 .. top
           chose == [s \in SUBSET Places |-> Max(s)]
           move == [p \in Seq(T) \X Places |-> Collected(keep[p[2]], p[1], seq[p[2]])]
           Is(f) == f = [n \in 0 .. top |-> IF n = 0 THEN <<>> ELSE Collected(keep[n], f[n - 1], seq[n])]
<1>1. top \in Nat /\ IsFiniteSet(Places) /\ \A n \in Places : seq[n] \in T BY FS_Interval
<1> HIDE DEF top
<1>2. \A s \in SUBSET Places : s # {} => chose[s] = Max(s) /\ chose[s] \in s BY <1>1, MaxOfIndices
<1>3. \A n : \A c \in Seq(T), x \in T : Collected(keep[n], c, x) \in Seq(T) BY DEF Collected
<1>4. \A c \in Seq(T), n \in Places : move[<<c, n>>] = Collected(keep[n], c, seq[n]) /\ move[<<c, n>>] \in Seq(T)
  BY <1>1, <1>3
<1>5. \A n \in Places : 1 .. n \in SUBSET Places /\ 1 .. n # {} /\ chose[1 .. n] = n /\ (1 .. n) \ {n} = 1 .. (n - 1)
  <2> SUFFICES ASSUME NEW n \in Places
               PROVE  1 .. n \in SUBSET Places /\ 1 .. n # {} /\ chose[1 .. n] = n /\ (1 .. n) \ {n} = 1 .. (n - 1)
    OBVIOUS
  <2>1. n \in Nat /\ n \in 1 .. n /\ 1 .. n \in SUBSET Places /\ (1 .. n) \ {n} = 1 .. (n - 1) BY <1>1
  <2>2. \E x \in 1 .. n : \A y \in 1 .. n : x >= y BY <2>1
  <2>3. Max(1 .. n) \in 1 .. n /\ Max(1 .. n) >= n BY <2>1, <2>2 DEF Max
  <2>4. Max(1 .. n) = n BY <2>1, <2>3
  <2> QED BY <2>1, <2>4, <1>2
<1> HIDE DEF move, chose
<1>6. Folding(Places, Seq(T), <<>>, chose, move)
  <2>1. <<>> \in Seq(T) OBVIOUS
  <2>2. \A s \in SUBSET Places : s # {} => chose[s] \in s BY <1>2
  <2>3. \A c \in Seq(T), n \in Places : move[<<c, n>>] \in Seq(T) BY <1>4
  <2> HIDE DEF Places
  <2> QED BY <1>1, <2>1, <2>2, <2>3 DEF Folding
<1>7. PICK iter \in [SUBSET Places -> Seq(T)] :
        /\ iter[{}] = <<>>
        /\ \A s \in SUBSET Places : s # {} => iter[s] = move[<<iter[s \ {chose[s]}], chose[s]>>]
  <2> HIDE DEF Places
  <2>1. \E f : FoldOf(Places, Seq(T), <<>>, chose, move, f) BY <1>6, FoldExists
  <2> QED BY <2>1 DEF FoldOf
<1> DEFINE one == [n \in 0 .. top |-> iter[1 .. n]]
<1>8. Is(one)
  <2>1. \A n \in 0 .. top : one[n] = iter[1 .. n] OBVIOUS
  <2>2. one[0] = <<>>
    <3>1. 1 .. 0 = {} /\ 0 \in 0 .. top BY <1>1
    <3> QED BY <3>1, <2>1, <1>7
  <2>3. ASSUME NEW n \in Places PROVE one[n] = Collected(keep[n], one[n - 1], seq[n])
    <3>1. n \in 0 .. top /\ n - 1 \in 0 .. top BY <1>1
    <3>2. iter[1 .. n] = move[<<iter[1 .. (n - 1)], n>>]
      <4>1. 1 .. n \in SUBSET Places /\ 1 .. n # {} BY <1>5
      <4>2. chose[1 .. n] = n /\ (1 .. n) \ {n} = 1 .. (n - 1) BY <1>5
      <4>3. iter[1 .. n] = move[<<iter[(1 .. n) \ {chose[1 .. n]}], chose[1 .. n]>>]
        <5> HIDE DEF Places
        <5> QED BY <1>7, <4>1
      <4> QED BY <4>2, <4>3
    <3>3. iter[1 .. (n - 1)] \in Seq(T)
      <4>1. 1 .. (n - 1) \in SUBSET Places BY <1>1
      <4> QED BY <4>1
    <3>4. one[n] = iter[1 .. n] /\ one[n - 1] = iter[1 .. (n - 1)] BY <2>1, <3>1
    <3> QED BY <3>2, <3>3, <3>4, <1>4
  <2>4. \A n \in 0 .. top : n # 0 => n \in Places BY <1>1
  <2>5. \A n \in 0 .. top : one[n] = IF n = 0 THEN <<>> ELSE Collected(keep[n], one[n - 1], seq[n])
    BY <2>2, <2>3, <2>4
  <2>6. one = [n \in 0 .. top |-> one[n]] OBVIOUS
  <2> HIDE DEF one
  <2> QED BY <2>5, <2>6
<1> DEFINE it == CHOOSE f : Is(f)
<1>9. Is(it) BY <1>8
<1>10. Chosen(seq, keep) = it[top] BY DEF Chosen, Collected, top
<1> HIDE DEF it
<1>11. \A n \in 0 .. top : it[n] = IF n = 0 THEN <<>> ELSE Collected(keep[n], it[n - 1], seq[n]) BY <1>9
<1> HIDE DEF Is
<1> DEFINE Bad == {n \in 0 .. top : it[n] \notin Seq(T)}
<1>12. Bad = {}
  <2> SUFFICES ASSUME Bad # {} PROVE FALSE OBVIOUS
  <2>1. Bad \subseteq Nat BY <1>1
  <2>2. PICK n \in Bad : \A k \in Bad : n <= k BY <2>1, Smallest
  <2>3. n \in 0 .. top /\ it[n] \notin Seq(T) OBVIOUS
  <2>0. <<>> \in Seq(T) OBVIOUS
  <2>4. n # 0 BY <1>11, <2>0, <2>3
  <2>5. n - 1 \in 0 .. top /\ ~ (n <= n - 1) /\ n \in Places BY <1>1, <2>3, <2>4
  <2>6. it[n - 1] \in Seq(T) BY <2>2, <2>5
  <2>7. seq[n] \in T BY <1>1, <2>5
  <2>8. it[n] = Collected(keep[n], it[n - 1], seq[n]) BY <1>11, <2>3, <2>4
  <2>9. Collected(keep[n], it[n - 1], seq[n]) \in Seq(T) BY <2>6, <2>7 DEF Collected
  <2> QED BY <2>3, <2>8, <2>9
<1>13. top \in 0 .. top BY <1>1
<1> QED BY <1>10, <1>12, <1>13

(* Notices that are pushed one after the other keep what each of them       *)
(* keeps.                                                                   *)
LEMMA PushesStay ==
  ASSUME NEW C, NEW T, NEW c \in C, NEW seq \in Seq(T), \A d \in C, n \in T : Pushed(d, n) \in C
  PROVE  FoldLeft(Pushed, c, seq) \in C
<1> DEFINE Places == DOMAIN seq
           chose == [s \in SUBSET Places |-> Max(s)]
           move == [p \in C \X Places |-> Pushed(p[1], seq[p[2]])]
           Is(iter) == iter = [s \in SUBSET Places |-> IF s = {} THEN c
                                                 ELSE Pushed(iter[s \ {Max(s)}], seq[Max(s)])]
<1>1. Places = 1 .. Len(seq) /\ Len(seq) \in Nat /\ IsFiniteSet(Places) BY FS_Interval
<1>2. \A x \in Places : seq[x] \in T OBVIOUS
<1>3. \A s \in SUBSET Places : s # {} => Max(s) \in s BY <1>1, MaxOfIndices
<1> HIDE DEF Places
<1>4. \A s \in SUBSET Places : s # {} => chose[s] = Max(s) /\ chose[s] \in s BY <1>3
<1> HIDE DEF chose
<1>6. \A d \in C, x \in Places : move[<<d, x>>] = Pushed(d, seq[x]) /\ move[<<d, x>>] \in C BY <1>2
<1> HIDE DEF move
<1>8. \E iter : FoldOf(Places, C, c, chose, move, iter)
  <2>1. \A s \in SUBSET Places : s # {} => chose[s] \in s BY <1>4
  <2>2. \A d \in C, x \in Places : move[<<d, x>>] \in C BY <1>6
  <2>3. Folding(Places, C, c, chose, move) BY <1>1, <2>1, <2>2 DEF Folding
  <2> QED BY <2>3, FoldExists
<1>9. PICK one \in [SUBSET Places -> C] :
        /\ one[{}] = c
        /\ \A s \in SUBSET Places : s # {} => one[s] = move[<<one[s \ {chose[s]}], chose[s]>>]
  BY <1>8 DEF FoldOf
<1>10. \A s \in SUBSET Places : s # {} => move[<<one[s \ {chose[s]}], chose[s]>>] = Pushed(one[s \ {Max(s)}], seq[Max(s)])
  <2> SUFFICES ASSUME NEW s \in SUBSET Places, s # {}
               PROVE  move[<<one[s \ {chose[s]}], chose[s]>>] = Pushed(one[s \ {Max(s)}], seq[Max(s)])
    OBVIOUS
  <2>1. chose[s] = Max(s) /\ chose[s] \in Places BY <1>4
  <2>2. one[s \ {chose[s]}] \in C OBVIOUS
  <2>3. move[<<one[s \ {chose[s]}], chose[s]>>] = Pushed(one[s \ {chose[s]}], seq[chose[s]]) BY <1>6, <2>1, <2>2
  <2> QED BY <2>1, <2>3
<1>11. Is(one)
  <2>1. \A s \in SUBSET Places : one[s] = IF s = {} THEN c ELSE Pushed(one[s \ {Max(s)}], seq[Max(s)]) BY <1>9, <1>10
  <2> QED BY <2>1
<1> DEFINE it == CHOOSE iter : Is(iter)
<1>12. Is(it) BY <1>11
<1>13. FoldLeft(Pushed, c, seq) = it[Places] BY DEF FoldLeft, MapThenFoldSet, Places
<1> HIDE DEF it
<1>14. it[{}] = c BY <1>12
<1>15. \A s \in SUBSET Places : s # {} => it[s] = Pushed(it[s \ {chose[s]}], seq[chose[s]]) BY <1>12, <1>4
<1> HIDE DEF Is
<1>16. ASSUME NEW s \in SUBSET Places, s # {}, it[s \ {chose[s]}] \in C PROVE it[s] \in C
  <2>1. seq[chose[s]] \in T BY <1>2, <1>4, <1>16
  <2>2. it[s] = Pushed(it[s \ {chose[s]}], seq[chose[s]]) BY <1>15, <1>16
  <2> QED BY <1>16, <2>1, <2>2
<1>17. it[Places] \in C
  <2>1. \A s \in SUBSET Places : s # {} => chose[s] \in s BY <1>4
  <2>2. it[{}] \in C BY <1>14
  <2> QED BY ONLY <1>1, <1>16, <2>1, <2>2, FoldStays
<1> QED BY <1>13, <1>17

-----------------------------------------------------------------------------
(* The types of WatchNotices.                                               *)
Says ==
  {"none", "watching", "result", "manual", "ended", "found", "reserving", "payment", "auth", "paid", "stopped"}
Kinds == Sticky \union {"none", "recovery"}
WatchStates == {w \in [says : Says, at : Nat] : w.at = 0 => w.says \in {"none", "watching"}}
EventRecords == [says : Says, at : Nat \ {0}]
GetRecords == [pc : {"none", "sent", "answered"}, crossed : BOOLEAN, list : WatchStates]
CommandRecords == [pc : {"none", "sent", "done"}, answer : WatchStates]
NoticeKeys == {"list", "event"} \X Says \X Nat
NoticeRecords == [key : NoticeKeys, kind : Kinds, at : Nat]
Ranks == [at : Nat, phase : 0 .. 2]
Centers == [notice : NoticeRecords \union {NoNotice}, seen : SUBSET NoticeKeys, mark : Ranks]
LedgerRecords == [key : NoticeKeys, at : Nat, phase : 0 .. 2]

(* What is dated at the beginning is of the last phase, so that it never     *)
(* goes behind a notice of the same date.                                    *)
GoodNotices == {n \in NoticeRecords : n.at = 0 => NoticePhase(n.kind) = 2}

Histories == [shown : Ranks, closed : Ranks]
RowsTypeOK ==
  /\ theWatch \in WatchStates /\ knownWatch \in WatchStates
  /\ liveEvents \in Seq(EventRecords) /\ heldEvents \in Seq(EventRecords)
  /\ listGet \in GetRecords /\ ownCommand \in CommandRecords
CenterTypeOK == center \in Centers /\ dismissed \subseteq LedgerRecords /\ history \in Histories

(* The watermark is behind nothing this page showed or the user closed, and  *)
(* it is the notice that is shown.                                           *)
NotAfter(m, e) == e.at > m.at \/ (e.at = m.at /\ e.phase >= m.phase)
MarkIsNewest(c) ==
  /\ c.notice # NoNotice => Rank(c.notice) = c.mark
  /\ NotAfter(history.shown, c.mark) /\ NotAfter(history.closed, c.mark)

(* The newest entry of the ledger is the newest notice the user closed.      *)
MarkOf(e) == [at |-> e.at, phase |-> e.phase]
LedgerHasNewest ==
  /\ dismissed = {} => history.closed = [at |-> 0, phase |-> 0]
  /\ dismissed # {} => \E e \in dismissed : MarkOf(e) = history.closed
  /\ \A e \in dismissed : NotAfter(MarkOf(e), history.closed)

NoticesInv == RowsTypeOK /\ CenterTypeOK /\ MarkIsNewest(center) /\ LedgerHasNewest

(* Newer is the later of two ranks in their order.                          *)
LEMMA NewerIs ==
  ASSUME NEW m \in Ranks, NEW e \in Ranks
  PROVE  /\ Newer(m, e) \in Ranks /\ NotAfter(m, Newer(m, e)) /\ NotAfter(e, Newer(m, e))
         /\ Newer(m, e) = m \/ Newer(m, e) = e
         /\ NotAfter(m, e) <=> Newer(m, e) = e
         /\ NotAfter(m, e) /\ NotAfter(e, m) => m = e
BY DEF Newer, NotAfter, Ranks

(* A notice has the rank of its date and its phase.                         *)
LEMMA RanksAre ==
  /\ \A n \in NoticeRecords : Rank(n) \in Ranks /\ Rank(n).at = n.at /\ Rank(n).phase = NoticePhase(n.kind)
  /\ [at |-> 0, phase |-> 0] \in Ranks
BY DEF NoticeRecords, Rank, Ranks, NoticePhase

(* A notice that is pushed never takes the watermark back.                  *)
LEMMA PushedIsGood ==
  ASSUME history.shown \in Ranks, history.closed \in Ranks,
         NEW c \in {d \in Centers : MarkIsNewest(d)}, NEW n \in GoodNotices
  PROVE  Pushed(c, n) \in {d \in Centers : MarkIsNewest(d)}
<1>t. /\ c \in Centers /\ MarkIsNewest(c) /\ n \in NoticeRecords /\ n.key \in NoticeKeys
      /\ c.mark \in Ranks
  BY DEF GoodNotices, NoticeRecords, Centers
<1>1. CASE n.key \in c.seen BY <1>1, <1>t DEF Pushed
<1>2. CASE n.key \notin c.seen /\ Loses(c, n)
  <2> DEFINE seen == c.seen \union {n.key}
  <2>1. Pushed(c, n) = [c EXCEPT !.seen = seen] BY <1>2 DEF Pushed
  <2>2. seen \in SUBSET NoticeKeys BY <1>t DEF Centers
  <2> HIDE DEF seen
  <2>3. Pushed(c, n) \in Centers /\ Pushed(c, n).notice = c.notice /\ Pushed(c, n).mark = c.mark
    BY <2>1, <2>2, <1>t DEF Centers
  <2> QED BY <2>3, <1>t DEF MarkIsNewest
<1>3. CASE n.key \notin c.seen /\ ~ Loses(c, n)
  <2> DEFINE seen == c.seen \union {n.key}
             mark == Rank(n)
  <2>1. Pushed(c, n) = [notice |-> n, seen |-> seen, mark |-> mark] BY <1>3 DEF Pushed, Rank
  <2>2. seen \in SUBSET NoticeKeys /\ mark \in Ranks BY <1>t, RanksAre DEF Centers
  <2>3. NotAfter(c.mark, mark)
    <3>1. mark.at = n.at /\ mark.phase = NoticePhase(n.kind) BY <1>t, RanksAre
    <3>2. mark.phase \in 0 .. 2 /\ mark.at \in Nat /\ c.mark.at \in Nat /\ c.mark.phase \in 0 .. 2
      BY <2>2, <1>t DEF Ranks
    <3>3. CASE c.mark.at = 0
      <4>1. n.at = 0 => mark.phase = 2 BY <3>1 DEF GoodNotices
      <4> QED BY <4>1, <3>1, <3>2, <3>3 DEF NotAfter
    <3>4. CASE c.mark.at > 0 BY <3>4, <3>1, <3>2, <1>3 DEF NotAfter, Loses
    <3> QED BY <3>2, <3>3, <3>4
  <2> HIDE DEF seen, mark
  <2>4. Pushed(c, n) \in Centers /\ Pushed(c, n).notice = n /\ Pushed(c, n).mark = mark
    BY <2>1, <2>2, <1>t DEF Centers
  <2>5. NotAfter(history.shown, mark) /\ NotAfter(history.closed, mark)
    BY <2>2, <2>3, <1>t DEF MarkIsNewest, NotAfter, Ranks
  <2> QED BY <2>4, <2>5 DEF MarkIsNewest, mark
<1> QED BY <1>1, <1>2, <1>3

(* Nor do several.                                                          *)
LEMMA PushesAreGood ==
  ASSUME history.shown \in Ranks, history.closed \in Ranks, NEW seq \in Seq(GoodNotices),
         NEW c \in {d \in Centers : MarkIsNewest(d)}
  PROVE  FoldLeft(Pushed, c, seq) \in {d \in Centers : MarkIsNewest(d)}
<1> DEFINE C == {d \in Centers : MarkIsNewest(d)}
<1>1. \A d \in C, n \in GoodNotices : Pushed(d, n) \in C BY PushedIsGood
<1> HIDE DEF C
<1>2. c \in C BY DEF C
<1>3. FoldLeft(Pushed, c, seq) \in C BY <1>1, <1>2, PushesStay
<1> QED BY <1>3 DEF C

(* Every notice made of a list or an event may be pushed.                   *)
LEMMA NoticesAreGood ==
  ASSUME RowsTypeOK, NEW w \in WatchStates
  PROVE  /\ Notices(w) \in Seq(GoodNotices)
         /\ \A e \in EventRecords : LiveNotice(e) \in GoodNotices
<1>k. /\ \A says \in Says : KindOf(says) \in Kinds /\ (says = "watching" => NoticePhase(KindOf(says)) = 2)
      /\ \A source \in {"list", "event"}, says \in Says, at \in Nat : <<source, says, at>> \in NoticeKeys
  BY DEF KindOf, Kinds, Sticky, NoticePhase, NoticeKeys
<1>n. ASSUME NEW source \in {"list", "event"}, NEW says \in Says, NEW at \in Nat, NEW kind \in Kinds,
             at = 0 => NoticePhase(kind) = 2
      PROVE  Notice(source, says, at, kind) \in GoodNotices
  BY <1>n, <1>k DEF Notice, GoodNotices, NoticeRecords
<1>1. ASSUME NEW e \in EventRecords PROVE LiveNotice(e) \in GoodNotices
  <2>1. e.says \in Says /\ e.at \in Nat /\ e.at # 0 BY DEF EventRecords
  <2> QED BY <2>1, <1>k, <1>n DEF LiveNotice
<1>w. w.says \in Says /\ w.at \in Nat /\ (w.at = 0 => w.says \in {"none", "watching"}) BY DEF WatchStates
<1>2. Hydrated(w) \in Seq(GoodNotices)
  <2>1. CASE w.says \in {"manual", "reserving", "payment", "auth"}
    <3>1. w.says \in Kinds /\ w.at # 0 BY <2>1, <1>w DEF Kinds, Sticky
    <3>2. Notice("list", w.says, w.at, w.says) \in GoodNotices BY <3>1, <1>n, <1>w
    <3> QED BY <2>1, <3>2 DEF Hydrated
  <2>2. CASE w.says \notin {"manual", "reserving", "payment", "auth"} BY <2>2 DEF Hydrated
  <2> QED BY <2>1, <2>2
<1>3. Transition(knownWatch, w) \in Seq(GoodNotices)
  <2>1. CASE Moved(knownWatch, w)
    <3>1. w.says # "none" BY <2>1 DEF Moved, Watching
    <3>2. Notice("list", w.says, w.at, KindOf(w.says)) \in GoodNotices BY <3>1, <1>k, <1>n, <1>w
    <3> QED BY <2>1, <3>2 DEF Transition
  <2>2. CASE ~ Moved(knownWatch, w) BY <2>2 DEF Transition
  <2> QED BY <2>1, <2>2
<1> DEFINE told == [i \in DOMAIN heldEvents |-> LiveNotice(heldEvents[i])]
           live == Mapped(heldEvents, w)
<1>4. told \in Seq(GoodNotices)
  <2>1. heldEvents \in Seq(EventRecords) BY DEF RowsTypeOK
  <2>2. \A i \in DOMAIN heldEvents : LiveNotice(heldEvents[i]) \in GoodNotices BY <1>1, <2>1
  <2> QED BY <2>1, <2>2
<1>5. \E keep : live = Chosen(told, keep) BY DEF Mapped
<1> HIDE DEF told, live
<1>6. live \in Seq(GoodNotices) BY <1>4, <1>5, ChosenAreThere
<1>7. <<>> \in Seq(GoodNotices) OBVIOUS
<1> DEFINE Stays(n) == n.kind = "found" \/ ~ \E l \in Newest(live) : Dominates(l, n)
           Staying(made) == IF made # <<>> /\ ~ Stays(Head(made)) THEN <<>> ELSE made
           canonical == (IF firstList THEN Staying(Hydrated(w)) ELSE <<>>) \o Staying(Transition(knownWatch, w))
           Remains(n) == \A c \in Newest(canonical) : c.kind = "found" \/ NoticePhase(c.kind) < NoticePhase(n.kind)
           keep == [i \in DOMAIN live |-> Remains(live[i])]
<1>8. Notices(w) = canonical \o Chosen(live, keep) BY DEF Notices, live
<1> HIDE DEF keep, Remains, Stays
<1>9. canonical \in Seq(GoodNotices)
  <2>1. Staying(Hydrated(w)) \in Seq(GoodNotices) /\ Staying(Transition(knownWatch, w)) \in Seq(GoodNotices)
    BY <1>2, <1>3, <1>7
  <2> HIDE DEF Staying
  <2> QED BY <2>1, <1>7
<1>10. Notices(w) \in Seq(GoodNotices)
  <2>1. Chosen(live, keep) \in Seq(GoodNotices) BY <1>6, ChosenAreThere
  <2> HIDE DEF canonical
  <2> QED BY <2>1, <1>8, <1>9
<1> QED BY <1>1, <1>10

(* The rows and what is on its way.                                          *)
LEMMA RowsKeep == RowsTypeOK /\ [NoticesNext]_noticeVars => RowsTypeOK'
<1> SUFFICES ASSUME RowsTypeOK, [NoticesNext]_noticeVars PROVE RowsTypeOK' OBVIOUS
<1>n. /\ NoWatch \in WatchStates /\ NoGet \in GetRecords
      /\ [pc |-> "none", answer |-> NoWatch] \in CommandRecords
      /\ [pc |-> "sent", answer |-> NoWatch] \in CommandRecords
      /\ \A w \in WatchStates : [pc |-> "done", answer |-> w] \in CommandRecords
  BY DEF NoWatch, WatchStates, Says, NoGet, GetRecords, CommandRecords
<1>t. /\ theWatch \in WatchStates /\ knownWatch \in WatchStates
      /\ liveEvents \in Seq(EventRecords) /\ heldEvents \in Seq(EventRecords)
      /\ listGet \in GetRecords /\ ownCommand \in CommandRecords
  BY DEF RowsTypeOK
<1>g. /\ listGet.list \in WatchStates /\ ownCommand.answer \in WatchStates
      /\ theWatch.says \in Says /\ theWatch.at \in Nat
  BY <1>t DEF GetRecords, CommandRecords, WatchStates
<1>c. ASSUME NEW w \in Says, Changes(w)
      PROVE  theWatch' \in WatchStates /\ theWatch'.at = theWatch.at + 2
  <2>1. theWatch.at + 2 \in Nat /\ theWatch.at + 2 # 0 BY <1>g
  <2> QED BY <2>1, <1>c DEF Changes, WatchStates
<1>m. ASSUME NEW b \in BOOLEAN PROVE [listGet EXCEPT !.crossed = b] \in GetRecords
  BY <1>t DEF GetRecords
<1>h. liveEvents # <<>> => Tail(liveEvents) \in Seq(EventRecords) /\ Head(liveEvents) \in EventRecords BY <1>t
<1>1. CASE CloseNotice BY <1>1, <1>t DEF CloseNotice, RowsTypeOK
<1>2. CASE EventArrives
  <2>1. liveEvents' \in Seq(EventRecords) BY <1>2, <1>h DEF EventArrives
  <2>2. heldEvents' = heldEvents \/ heldEvents' = Append(heldEvents, Head(liveEvents)) BY <1>2 DEF EventArrives
  <2>3. heldEvents' \in Seq(EventRecords) BY <2>2, <1>2, <1>h, <1>t DEF EventArrives
  <2>4. UNCHANGED <<theWatch, knownWatch, listGet, ownCommand>> BY <1>2 DEF EventArrives
  <2> QED BY <2>1, <2>3, <2>4, <1>t DEF RowsTypeOK
<1>3. CASE EventComesUnseen \/ EventsAreLost
  <2>0. <<>> \in Seq(EventRecords) OBVIOUS
  <2>1. liveEvents' \in Seq(EventRecords) BY <2>0, <1>3, <1>h DEF EventComesUnseen, EventsAreLost
  <2>2. UNCHANGED <<theWatch, knownWatch, heldEvents, listGet, ownCommand>>
    BY <1>3 DEF EventComesUnseen, EventsAreLost, tabVars
  <2> QED BY <2>1, <2>2, <1>t DEF RowsTypeOK
<1>4. CASE BeginGet
  <2>1. [NoGet EXCEPT !.pc = "sent"] \in GetRecords BY <1>n DEF GetRecords
  <2>2. listGet' \in GetRecords BY <2>1, <1>4 DEF BeginGet
  <2>3. UNCHANGED <<theWatch, liveEvents, knownWatch, heldEvents, ownCommand>> BY <1>4 DEF BeginGet, tabVars
  <2> QED BY <2>2, <2>3, <1>t DEF RowsTypeOK
<1>5. CASE ServerAnswers
  <2>1. PICK w \in {theWatch, NoWatch} : listGet' = [listGet EXCEPT !.pc = "answered", !.list = w]
    BY <1>5 DEF ServerAnswers
  <2>2. w \in WatchStates BY <1>t, <1>n
  <2>3. listGet' \in GetRecords BY <2>1, <2>2, <1>t DEF GetRecords
  <2>4. UNCHANGED <<theWatch, liveEvents, knownWatch, heldEvents, ownCommand>> BY <1>5 DEF ServerAnswers, tabVars
  <2> QED BY <2>3, <2>4, <1>t DEF RowsTypeOK
<1>6. CASE AcceptGet
  <2>1. <<>> \in Seq(EventRecords) OBVIOUS
  <2> QED BY <2>1, <1>6, <1>t, <1>n, <1>g DEF AcceptGet, RowsTypeOK
<1>7. CASE GetFails BY <1>7, <1>t, <1>n DEF GetFails, tabVars, RowsTypeOK
<1>8. CASE Give
  <2>1. listGet' \in GetRecords BY <1>8, <1>m DEF Give
  <2>2. ownCommand' \in CommandRecords BY <1>8, <1>n DEF Give
  <2>3. UNCHANGED <<theWatch, liveEvents, knownWatch, heldEvents>> BY <1>8 DEF Give, tabVars
  <2> QED BY <2>1, <2>2, <2>3, <1>t DEF RowsTypeOK
<1>9. CASE ServerComplies
  <2>1. theWatch' = theWatch \/ Changes("stopped") \/ Changes("watching") BY <1>9 DEF ServerComplies
  <2>2. theWatch' \in WatchStates BY <2>1, <1>c, <1>t DEF Says
  <2>3. ownCommand' \in CommandRecords BY <2>2, <1>9, <1>n DEF ServerComplies
  <2>4. UNCHANGED <<liveEvents, knownWatch, heldEvents, listGet>> BY <1>9 DEF ServerComplies, tabVars
  <2> QED BY <2>2, <2>3, <2>4, <1>t DEF RowsTypeOK
<1>10. CASE CommandEnds
  <2>1. listGet' \in GetRecords BY <1>10, <1>m DEF CommandEnds
  <2>2. ownCommand' \in CommandRecords BY <1>10, <1>n DEF CommandEnds
  <2>3. knownWatch' \in {knownWatch, ownCommand.answer} BY <1>10 DEF CommandEnds
  <2>4. UNCHANGED <<theWatch, liveEvents, heldEvents>> BY <1>10 DEF CommandEnds
  <2> QED BY <2>1, <2>2, <2>3, <2>4, <1>g, <1>t DEF RowsTypeOK
<1>11. CASE WorkerChanges
  <2>1. PICK w \in LeadsTo(theWatch.says) :
          /\ Changes(w)
          /\ \/ liveEvents' = liveEvents
             \/ \E late \in {-1, 0, 1} : liveEvents' = Append(liveEvents, [says |-> w, at |-> theWatch'.at + late])
    BY <1>11 DEF WorkerChanges
  <2>2. w \in Says BY <2>1, <1>g DEF LeadsTo, Says, Watching
  <2>3. theWatch' \in WatchStates /\ theWatch'.at = theWatch.at + 2 BY <2>1, <2>2, <1>c
  <2>4. \A late \in {-1, 0, 1} : [says |-> w, at |-> theWatch'.at + late] \in EventRecords
    BY <2>2, <2>3, <1>g DEF EventRecords
  <2>5. \A e \in EventRecords : Append(liveEvents, e) \in Seq(EventRecords) BY <1>t
  <2>7. liveEvents' \in Seq(EventRecords)
    <3>1. CASE liveEvents' = liveEvents BY <3>1, <1>t
    <3>2. ASSUME NEW late \in {-1, 0, 1}, liveEvents' = Append(liveEvents, [says |-> w, at |-> theWatch'.at + late])
          PROVE  liveEvents' \in Seq(EventRecords)
      BY <3>2, <2>4, <2>5
    <3> QED BY <2>1, <3>1, <3>2
  <2>6. UNCHANGED <<knownWatch, heldEvents, listGet, ownCommand>> BY <1>11 DEF WorkerChanges, tabVars
  <2> QED BY <2>3, <2>7, <2>6, <1>t DEF RowsTypeOK
<1>12. CASE SignsIn BY <1>12, <1>t, <1>n DEF SignsIn, RowsTypeOK
<1>13. CASE Expires BY <1>13, <1>t, <1>n DEF Expires, RowsTypeOK
<1>14. CASE SignsOut BY <1>14, <1>t, <1>n DEF SignsOut, NewPage, RowsTypeOK
<1>15. CASE ReloadPage BY <1>15, <1>t, <1>n DEF ReloadPage, NewPage, RowsTypeOK
<1>16. CASE UNCHANGED noticeVars BY <1>16, <1>t DEF noticeVars, tabVars, RowsTypeOK
<1> QED
  BY <1>1, <1>2, <1>3, <1>4, <1>5, <1>6, <1>7, <1>8, <1>9, <1>10, <1>11, <1>12, <1>13, <1>14, <1>15, <1>16
  DEF NoticesNext

(* What is pushed.                                                           *)
LEMMA ShownIsKept ==
  ASSUME CenterTypeOK, LedgerHasNewest, center' \in Centers, MarkIsNewest(center'),
         Shows, UNCHANGED dismissed
  PROVE  CenterTypeOK' /\ MarkIsNewest(center)' /\ LedgerHasNewest'
<1> DEFINE rank == Rank(center'.notice)
           newest == IF center'.notice = NoNotice THEN history.shown ELSE Newer(history.shown, rank)
<1>1. /\ history \in Histories /\ history.shown \in Ranks /\ history.closed \in Ranks
      /\ center'.mark \in Ranks
  BY DEF CenterTypeOK, Histories, Centers
<1>2. center'.notice # NoNotice => rank = center'.mark BY DEF MarkIsNewest
<1> HIDE DEF rank
<1>3. newest \in Ranks /\ NotAfter(newest, center'.mark)
  BY <1>1, <1>2, NewerIs DEF MarkIsNewest
<1>4. history' = [history EXCEPT !.shown = newest] BY DEF Shows, rank
<1> HIDE DEF newest
<1>5. history' \in Histories /\ history'.shown = newest /\ history'.closed = history.closed
  BY <1>1, <1>3, <1>4 DEF Histories
<1>6. CenterTypeOK' BY <1>5 DEF CenterTypeOK
<1>7. MarkIsNewest(center)' BY <1>3, <1>5 DEF MarkIsNewest, rank
<1>8. LedgerHasNewest' BY <1>5 DEF LedgerHasNewest
<1> QED BY <1>6, <1>7, <1>8

(* A new page begins where the ledger ends.                                 *)
LEMMA NewPageKeeps ==
  ASSUME CenterTypeOK, LedgerHasNewest, NewPage(dismissed)
  PROVE  CenterTypeOK' /\ MarkIsNewest(center)' /\ LedgerHasNewest'
<1> DEFINE marks == {[at |-> e.at, phase |-> e.phase] : e \in dismissed}
           mark == Watermark(dismissed)
           seen == {e.key : e \in dismissed}
<1>1. history \in Histories /\ history.shown \in Ranks /\ history.closed \in Ranks /\ dismissed \subseteq LedgerRecords
  BY DEF CenterTypeOK, Histories
<1>2. seen \in SUBSET NoticeKeys /\ marks \subseteq Ranks BY <1>1 DEF LedgerRecords, Ranks
<1>3. mark = history.closed
  <2>1. CASE dismissed = {} BY <2>1 DEF Watermark, LedgerHasNewest
  <2>2. CASE dismissed # {}
    <3>1. history.closed \in marks BY <2>2 DEF LedgerHasNewest, MarkOf
    <3>2. \A e \in marks : NotAfter(e, history.closed) BY DEF LedgerHasNewest, MarkOf
    <3>3. mark = CHOOSE m \in marks : \A e \in marks : Newer(m, e) = m BY <3>1 DEF Watermark
    <3> HIDE DEF marks, mark
    <3>4. \A e \in marks : Newer(history.closed, e) = history.closed BY <3>2, <1>1, <1>2, NewerIs
    <3>5. mark \in marks /\ Newer(mark, history.closed) = mark BY <3>1, <3>3, <3>4
    <3> QED BY <3>2, <3>5, <1>1, <1>2, NewerIs
  <2> QED BY <2>1, <2>2
<1>4. center' = [notice |-> NoNotice, seen |-> seen, mark |-> mark] BY DEF NewPage, EmptyCenter
<1> HIDE DEF seen, mark
<1>5. center' \in Centers /\ center'.notice = NoNotice /\ center'.mark = history.closed
  BY <1>1, <1>2, <1>3, <1>4 DEF Centers
<1>6. history' \in Histories /\ history'.shown = history.closed /\ history'.closed = history.closed
  BY <1>1 DEF NewPage, Histories
<1>7. NotAfter(history.closed, history.closed) BY <1>1 DEF NotAfter, Ranks
<1>8. MarkIsNewest(center)' BY <1>5, <1>6, <1>7 DEF MarkIsNewest
<1>9. dismissed' = dismissed BY DEF NewPage
<1> QED BY <1>1, <1>5, <1>6, <1>8, <1>9 DEF CenterTypeOK, LedgerHasNewest

(* A notice the user closes is the newest, and enters the ledger as such.   *)
LEMMA CloseKeeps ==
  ASSUME CenterTypeOK, MarkIsNewest(center), LedgerHasNewest, CloseNotice
  PROVE  CenterTypeOK' /\ MarkIsNewest(center)' /\ LedgerHasNewest'
<1> DEFINE n == center.notice
           entry == [key |-> n.key, at |-> n.at, phase |-> NoticePhase(n.kind)]
<1>1. /\ history \in Histories /\ history.shown \in Ranks /\ history.closed \in Ranks
      /\ dismissed \subseteq LedgerRecords /\ center \in Centers /\ center.mark \in Ranks
      /\ n # NoNotice /\ n \in NoticeRecords /\ Rank(n) = center.mark
  BY DEF CenterTypeOK, Histories, Centers, CloseNotice, MarkIsNewest
<1>2. center' = [center EXCEPT !.notice = NoNotice] BY DEF CloseNotice
<1>3. center' \in Centers /\ center'.notice = NoNotice /\ center'.mark = center.mark
  BY <1>1, <1>2 DEF Centers
<1>4. CASE n.kind \notin Sticky
  <2>1. UNCHANGED <<dismissed, history>> BY <1>4 DEF CloseNotice
  <2> QED BY <2>1, <1>1, <1>3 DEF CenterTypeOK, MarkIsNewest, LedgerHasNewest
<1>5. CASE n.kind \in Sticky
  <2> DEFINE closed == Newer(history.closed, Rank(n))
  <2>1. dismissed' = dismissed \union {entry} /\ history' = [history EXCEPT !.closed = closed]
    BY <1>5 DEF CloseNotice
  <2>2. closed = center.mark BY <1>1, NewerIs DEF MarkIsNewest
  <2>3. entry \in LedgerRecords /\ MarkOf(entry) = center.mark
    BY <1>1, RanksAre DEF LedgerRecords, NoticeRecords, MarkOf, Rank, NoticePhase
  <2> HIDE DEF closed, entry
  <2>4. history' \in Histories /\ history'.shown = history.shown /\ history'.closed = center.mark
    BY <2>1, <2>2, <1>1 DEF Histories
  <2>5. dismissed' \subseteq LedgerRecords BY <2>1, <2>3, <1>1
  <2>6. NotAfter(center.mark, center.mark) BY <1>1 DEF NotAfter, Ranks
  <2>7. MarkIsNewest(center)' BY <2>4, <2>6, <1>3 DEF MarkIsNewest
  <2>8. \A e \in dismissed : NotAfter(MarkOf(e), center.mark)
    <3>1. \A e \in dismissed : MarkOf(e) \in Ranks /\ NotAfter(MarkOf(e), history.closed)
      BY <1>1 DEF LedgerHasNewest, MarkOf, LedgerRecords, Ranks
    <3>2. NotAfter(history.closed, center.mark) BY DEF MarkIsNewest
    <3> QED BY <3>1, <3>2, <1>1 DEF NotAfter, Ranks
  <2>9. LedgerHasNewest' BY <2>1, <2>3, <2>4, <2>6, <2>8 DEF LedgerHasNewest
  <2> QED BY <2>4, <2>5, <2>7, <2>9, <1>3 DEF CenterTypeOK
<1> QED BY <1>4, <1>5

(* An event that is mapped is pushed.                                       *)
LEMMA PushAllKeeps ==
  ASSUME CenterTypeOK, MarkIsNewest(center), LedgerHasNewest, NEW seq \in Seq(GoodNotices), PushAll(seq)
  PROVE  CenterTypeOK' /\ MarkIsNewest(center)' /\ LedgerHasNewest'
<1>1. center \in Centers /\ history.shown \in Ranks /\ history.closed \in Ranks
  BY DEF CenterTypeOK, Histories
<1>2. FoldLeft(Pushed, center, seq) \in {d \in Centers : MarkIsNewest(d)} BY <1>1, PushesAreGood
<1>3. center' \in Centers /\ MarkIsNewest(center') BY <1>2 DEF PushAll
<1> QED BY <1>3, ShownIsKept DEF PushAll

(* The notices of an accepted list are pushed; those of a watch that left   *)
(* are taken off.                                                           *)
LEMMA AcceptedKeeps ==
  ASSUME RowsTypeOK, CenterTypeOK, MarkIsNewest(center), LedgerHasNewest, AcceptGet
  PROVE  CenterTypeOK' /\ MarkIsNewest(center)' /\ LedgerHasNewest'
<1> DEFINE c == FoldLeft(Pushed, center, Notices(listGet.list))
<1>1. center \in Centers /\ history.shown \in Ranks /\ history.closed \in Ranks /\ listGet.list \in WatchStates
  BY DEF CenterTypeOK, Histories, RowsTypeOK, GetRecords
<1>2. Notices(listGet.list) \in Seq(GoodNotices) BY <1>1, NoticesAreGood
<1>3. c \in Centers /\ MarkIsNewest(c) BY <1>1, <1>2, PushesAreGood
<1>4. center' = Pruned(c, listGet.list) /\ Shows /\ UNCHANGED dismissed BY DEF AcceptGet
<1> HIDE DEF c
<1>5. [c EXCEPT !.notice = NoNotice] \in Centers /\ MarkIsNewest([c EXCEPT !.notice = NoNotice])
  BY <1>3 DEF Centers, MarkIsNewest
<1>6. center' \in Centers /\ MarkIsNewest(center')
  <2>1. center' = c \/ center' = [c EXCEPT !.notice = NoNotice] BY <1>4 DEF Pruned
  <2> QED BY <2>1, <1>3, <1>5
<1> QED BY <1>4, <1>6, ShownIsKept

(* The invariant is inductive: one group of actions after the other.        *)
LEMMA NoticesKeep == NoticesInv /\ [NoticesNext]_noticeVars => NoticesInv'
<1> SUFFICES ASSUME NoticesInv, [NoticesNext]_noticeVars PROVE NoticesInv' OBVIOUS
<1>0. RowsTypeOK /\ CenterTypeOK /\ MarkIsNewest(center) /\ LedgerHasNewest BY DEF NoticesInv
<1>r. RowsTypeOK' BY <1>0, RowsKeep
<1> SUFFICES CenterTypeOK' /\ MarkIsNewest(center)' /\ LedgerHasNewest' BY <1>r DEF NoticesInv
<1>1. CASE CloseNotice BY <1>0, <1>1, CloseKeeps
<1>2. CASE EventArrives /\ Maps(Head(liveEvents), knownWatch)
  <2>1. Head(liveEvents) \in EventRecords BY <1>0, <1>2 DEF EventArrives, RowsTypeOK
  <2>2. LiveNotice(Head(liveEvents)) \in GoodNotices
    <3>1. theWatch \in WatchStates BY <1>0 DEF RowsTypeOK
    <3> QED BY <2>1, <3>1, <1>0, NoticesAreGood
  <2>3. <<LiveNotice(Head(liveEvents))>> \in Seq(GoodNotices) BY <2>2
  <2>4. PushAll(<<LiveNotice(Head(liveEvents))>>) BY <1>2 DEF EventArrives
  <2> QED BY <1>0, <2>3, <2>4, PushAllKeeps
<1>3. CASE AcceptGet BY <1>0, <1>3, AcceptedKeeps
<1>4. CASE SignsOut \/ ReloadPage
  <2>1. NewPage(dismissed) BY <1>4 DEF SignsOut, ReloadPage
  <2> QED BY <1>0, <2>1, NewPageKeeps
<1>5. CASE UNCHANGED <<center, dismissed, history>>
  BY <1>0, <1>5 DEF CenterTypeOK, MarkIsNewest, LedgerHasNewest
<1>6. CASE EventArrives /\ ~ Maps(Head(liveEvents), knownWatch)
  <2>1. UNCHANGED <<center, dismissed, history>> BY <1>6 DEF EventArrives
  <2> QED BY <1>5, <2>1
<1>7. CASE \/ EventComesUnseen \/ EventsAreLost \/ BeginGet \/ ServerAnswers \/ GetFails
           \/ Give \/ ServerComplies \/ CommandEnds \/ WorkerChanges \/ SignsIn \/ Expires
  <2>1. UNCHANGED <<center, dismissed, history>>
    BY <1>7 DEF EventComesUnseen, EventsAreLost, BeginGet, ServerAnswers, GetFails,
       Give, ServerComplies, CommandEnds, WorkerChanges, SignsIn, Expires, tabVars
  <2> QED BY <1>5, <2>1
<1>8. CASE UNCHANGED noticeVars BY <1>5, <1>8 DEF noticeVars, tabVars
<1> QED BY <1>1, <1>2, <1>3, <1>4, <1>6, <1>7, <1>8 DEF NoticesNext

(* Nothing was shown or closed yet.                                         *)
LEMMA NoticesStart == NoticesInit => NoticesInv
<1> SUFFICES ASSUME NoticesInit PROVE NoticesInv OBVIOUS
<1>1. RowsTypeOK
  BY DEF NoticesInit, RowsTypeOK, NoWatch, WatchStates, Says, NoGet, GetRecords, CommandRecords
<1>2. Watermark({}) = [at |-> 0, phase |-> 0] BY DEF Watermark
<1>3. {e.key : e \in {}} = {} OBVIOUS
<1>4. center = [notice |-> NoNotice, seen |-> {}, mark |-> [at |-> 0, phase |-> 0]]
  BY <1>2, <1>3 DEF NoticesInit, EmptyCenter
<1>5. center \in Centers /\ center.notice = NoNotice /\ center.mark = [at |-> 0, phase |-> 0]
  BY <1>4, RanksAre DEF Centers
<1>6. history \in Histories /\ history.shown = [at |-> 0, phase |-> 0] /\ history.closed = [at |-> 0, phase |-> 0]
  BY RanksAre DEF NoticesInit, Histories
<1>7. NotAfter([at |-> 0, phase |-> 0], [at |-> 0, phase |-> 0]) BY DEF NotAfter
<1>8. CenterTypeOK /\ MarkIsNewest(center) /\ LedgerHasNewest
  BY <1>5, <1>6, <1>7 DEF CenterTypeOK, MarkIsNewest, LedgerHasNewest, NoticesInit
<1> QED BY <1>1, <1>8 DEF NoticesInv

(* However events and lists overtake each other, whatever was lost or came   *)
(* while the tab was hidden, and however often the user reloads the page or  *)
(* signs out, the notice shown is the newest this page has shown, and none   *)
(* older than one the user closed comes back (pushNotifications,             *)
(* createInitialNotificationCenterState, the dismissal ledger).              *)
THEOREM NoticesAlwaysGoForward == NoticesSpec => []NoticesGoForward
<1>1. NoticesInv => NoticesGoForward
  <2> SUFFICES ASSUME NoticesInv, center.notice # NoNotice
               PROVE  /\ Newer(history.shown, Rank(center.notice)) = Rank(center.notice)
                      /\ Newer(history.closed, Rank(center.notice)) = Rank(center.notice)
    BY DEF NoticesGoForward
  <2>1. Rank(center.notice) = center.mark /\ NotAfter(history.shown, center.mark) /\ NotAfter(history.closed, center.mark)
    BY DEF NoticesInv, MarkIsNewest
  <2>2. center.mark \in Ranks /\ history.shown \in Ranks /\ history.closed \in Ranks
    BY DEF NoticesInv, CenterTypeOK, Centers, Histories
  <2> QED BY <2>1, <2>2, NewerIs
<1> QED BY <1>1, NoticesStart, NoticesKeep, PTL DEF NoticesSpec
=============================================================================
