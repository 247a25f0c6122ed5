--------------------------- MODULE MCWatchCommands ---------------------------
(* The bounds are in the configuration.                                     *)
EXTENDS WatchCommands
=============================================================================
