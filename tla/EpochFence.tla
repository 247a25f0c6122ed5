----------------------------- MODULE EpochFence -----------------------------
(* What a fenced resource promises, without workers, clocks or locks.       *)
(* Epochs are numbered upwards and provider-derived state is written only   *)
(* on behalf of the epoch in force. ExecutionLease implements it.           *)
EXTENDS Naturals

VARIABLES
    epoch,  \* the number of the epoch in force, 0 before the first one
    wrote   \* the epoch on whose behalf provider state was last written

Init == epoch = 0 /\ wrote = 0

NewEpoch == epoch' = epoch + 1 /\ UNCHANGED wrote

Write == wrote' = epoch /\ UNCHANGED epoch

Next == NewEpoch \/ Write

Spec == Init /\ [][Next]_<<epoch, wrote>>
=============================================================================
