-------------------------- MODULE MCExecutionLease --------------------------
(* Two workers, a lease of two ticks and a clock that outlives two leases.  *)
EXTENDS ExecutionLease

=============================================================================
