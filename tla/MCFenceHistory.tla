--------------------------- MODULE MCFenceHistory ---------------------------
(* Five instances of FenceHistory on the same rows; a behaviour has the     *)
(* constants of one of them.  The configuration gives those of the user's   *)
(* commands and the holds; here are those of holds and rearms, those of     *)
(* late and contradicting evidence, with two winners at a time, those of    *)
(* departures, and those of sessions that are gone, logins and calls that   *)
(* are put off.  The limits of the readings are a third of the real ones    *)
(* (3, 3, 6, 6), or in the same order.                                      *)
EXTENDS FenceHistory

VARIABLE surroundings   \* the instance that runs

Rearms == INSTANCE FenceHistory WITH
  FinalMin <- 1, HoldLimit <- 2, Env <- {"rearm", "user"}

Evidence == INSTANCE FenceHistory WITH
  FinalMin <- 1, HoldLimit <- 2, MaxWinners <- 2,
  Seats <- {"available"}, Answers <- {"notFound", "paid"},
  Reads <- {"notFound", "paid", "inconclusive"},
  Env <- {"rearm", "user", "circuit", "expiry"}

Departures == INSTANCE FenceHistory WITH
  FinalMin <- 1, HoldLimit <- 2, MaxWinners <- 2,
  Seats <- {"available"}, Answers <- {"notFound", "paid"},
  Reads <- {"notFound", "paid"},
  Env <- {"user", "departure", "expiry"}

Sessions == INSTANCE FenceHistory WITH
  Seats <- {"available"}, Answers <- {"unknownAuth", "deferred"},
  Reads <- {"notFound"}, Env <- {"user", "login"}

HistoryInit ==
  /\ TrackedInit
  /\ surroundings \in {"commands", "rearms", "evidence", "departures", "sessions"}
HistoryNext ==
  /\ UNCHANGED surroundings
  /\ \/ surroundings = "commands" /\ TrackedNext
     \/ surroundings = "rearms" /\ Rearms!TrackedNext
     \/ surroundings = "evidence" /\ Evidence!TrackedNext
     \/ surroundings = "departures" /\ Departures!TrackedNext
     \/ surroundings = "sessions" /\ Sessions!TrackedNext
HistorySpec == HistoryInit /\ [][HistoryNext]_<<history, surroundings>>
=============================================================================
