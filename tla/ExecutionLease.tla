--------------------------- MODULE ExecutionLease ---------------------------
(* The execution lease of one external provider: the single row of          *)
(* provider_execution_leases for <provider, anonymous/public> and the       *)
(* Celery workers that take it around an observation group or around one    *)
(* reservation reconciliation.                                              *)
(*                                                                          *)
(* A database transaction is one action, except the fenced write, which is  *)
(* split in LockLease and CommitWrite because time passes and other workers *)
(* act while it holds the row lock. Reads of the clock that the code passes *)
(* on (the `now` of acquire) are steps of their own, so that the value may  *)
(* be stale when it is used. Owner tokens are compared for equality only;   *)
(* a worker stands for the token of its current attempt.                    *)
EXTENDS Naturals

CONSTANTS
    Owner,         \* the worker processes
    NoOwner,       \* the owner of a free lease and the holder of a free lock
    LeaseDuration,  \* PROVIDER_EXECUTION_LEASE_DURATION, in clock ticks
    MaxTime,        \* bound: the clock stops here
    MaxFence        \* bound: no takeover beyond this fencing token

ASSUME LeaseAssumption ==
    /\ NoOwner \notin Owner
    /\ LeaseDuration \in Nat \ {0}
    /\ MaxTime \in Nat
    /\ MaxFence \in Nat

VARIABLES
    lease,      \* the row: owner_token, fencing_token and expires_at
    lock,       \* the worker whose transaction holds the row FOR UPDATE
    clock,        \* the clock all workers read
    pc,         \* where each worker is in its task
    task,       \* what it is doing: an observation group or a reconciliation
    startedAt,  \* the clock value it passes to acquire
    grant,      \* the fencing token of the ExecutionLeaseGrant it was given
    saved,      \* the fencing token of the last fenced write
    reserved    \* the fencing token under which a reservation was last written

leaseVars == <<lease, lock, clock, pc, task, startedAt, grant, saved, reserved>>

LeaseTasks == {"observe", "reconcile"}
Places == {"idle", "acquiring", "held", "calling", "reserving", "writing",
           "closing"}

LeaseTypeOK ==
    /\ lease \in [owner : Owner \cup {NoOwner}, fence : Nat, expires : Nat]
    /\ lock \in Owner \cup {NoOwner}
    /\ clock \in Nat
    /\ pc \in [Owner -> Places]
    /\ task \in [Owner -> LeaseTasks]
    /\ startedAt \in [Owner -> Nat]
    /\ grant \in [Owner -> Nat]
    /\ saved \in Nat
    /\ reserved \in Nat

LeaseInit ==
    /\ lease = [owner |-> NoOwner, fence |-> 0, expires |-> 0]
    /\ lock = NoOwner
    /\ clock = 0
    /\ pc = [w \in Owner |-> "idle"]
    /\ task = [w \in Owner |-> "observe"]
    /\ startedAt = [w \in Owner |-> 0]
    /\ grant = [w \in Owner |-> 0]
    /\ saved = 0
    /\ reserved = 0

-----------------------------------------------------------------------------
(* Here and below, an operator put before the one it resembles is a slip    *)
(* this code could have had; the properties are validated against them.     *)

(* The conflict clause of acquire: the row is free or has run out.          *)
Takeable(t) == lease.owner = NoOwner \/ lease.expires <= t

(* _current_owner_predicates: this owner, this token, and not yet run out.  *)
IsCurrent(w) ==
    /\ lease.owner = w
    /\ lease.fence = grant[w]
    /\ lease.expires > clock

Goto(w, place) == pc' = [pc EXCEPT ![w] = place]

(* The task is over and its local variables are gone.                       *)
Forget(w) ==
    /\ Goto(w, "idle")
    /\ task' = [task EXCEPT ![w] = "observe"]
    /\ startedAt' = [startedAt EXCEPT ![w] = 0]
    /\ grant' = [grant EXCEPT ![w] = 0]

-----------------------------------------------------------------------------
LeaseTick ==
    /\ clock < MaxTime
    /\ clock' = clock + 1
    /\ UNCHANGED <<lease, lock, pc, task, startedAt, grant, saved, reserved>>

(* A worker begins a task and reads the clock it will pass to acquire.      *)
StartTask(w) ==
    /\ pc[w] = "idle"
    /\ \E t \in LeaseTasks : task' = [task EXCEPT ![w] = t]
    /\ startedAt' = [startedAt EXCEPT ![w] = clock]
    /\ Goto(w, "acquiring")
    /\ UNCHANGED <<lease, lock, clock, grant, saved, reserved>>

(* The upsert inserts token 1 or takes the row over with the next token.    *)
(* A reconciliation reads the provider at once; an observation group checks *)
(* the lease first.                                                         *)
AcquireLease(w) ==
    /\ pc[w] = "acquiring"
    /\ lock = NoOwner
    /\ Takeable(startedAt[w])
    /\ lease.fence < MaxFence
    /\ lease' = [owner |-> w, fence |-> lease.fence + 1,
                 expires |-> startedAt[w] + LeaseDuration]
    /\ grant' = [grant EXCEPT ![w] = lease.fence + 1]
    /\ Goto(w, IF task[w] = "reconcile" THEN "calling" ELSE "held")
    /\ UNCHANGED <<lock, clock, task, startedAt, saved, reserved>>

(* The upsert returns no row: the lease is busy and the task ends.          *)
Busy(w) ==
    /\ pc[w] = "acquiring"
    /\ lock = NoOwner
    /\ ~Takeable(startedAt[w])
    /\ Forget(w)
    /\ UNCHANGED <<lease, lock, clock, saved, reserved>>

(* renew: a current owner moves its expiry. No task calls it today.         *)
Renew(w) ==
    /\ pc[w] = "held"
    /\ lock = NoOwner
    /\ IsCurrent(w)
    /\ lease' = [lease EXCEPT !.expires = clock + LeaseDuration]
    /\ UNCHANGED <<lock, clock, pc, task, startedAt, grant, saved, reserved>>

(* _lease_allows_external_work said yes: the observation call goes out.     *)
CallProvider(w) ==
    /\ pc[w] = "held"
    /\ task[w] = "observe"
    /\ IsCurrent(w)
    /\ Goto(w, "calling")
    /\ UNCHANGED <<lease, lock, clock, task, startedAt, grant, saved, reserved>>

ProviderAnswers(w) ==
    /\ pc[w] = "calling"
    /\ Goto(w, "held")
    /\ UNCHANGED <<lease, lock, clock, task, startedAt, grant, saved, reserved>>

(* _lease_allows_external_work said yes: reserve_winner is entered.         *)
ReserveWinner(w) ==
    /\ pc[w] = "held"
    /\ task[w] = "observe"
    /\ IsCurrent(w)
    /\ Goto(w, "reserving")
    /\ UNCHANGED <<lease, lock, clock, task, startedAt, grant, saved, reserved>>

(* A transaction of execute_reservation (the claim or the result). It locks *)
(* the account, watch, candidate and attempt rows, never the lease.         *)
WriteReservation(w) ==
    /\ pc[w] = "reserving"
    /\ reserved' = grant[w]
    /\ UNCHANGED <<lease, lock, clock, pc, task, startedAt, grant, saved>>

ReservationDone(w) ==
    /\ pc[w] = "reserving"
    /\ Goto(w, "held")
    /\ UNCHANGED <<lease, lock, clock, task, startedAt, grant, saved, reserved>>

CheckWithoutLock(w) ==
    /\ pc[w] = "held"
    /\ IsCurrent(w)
    /\ Goto(w, "writing")
    /\ UNCHANGED <<lease, lock, clock, task, startedAt, grant, saved, reserved>>

(* lock_execution_lease_current: check and lock in the writer's transaction.*)
LockLease(w) ==
    /\ pc[w] = "held"
    /\ lock = NoOwner
    /\ IsCurrent(w)
    /\ lock' = w
    /\ Goto(w, "writing")
    /\ UNCHANGED <<lease, clock, task, startedAt, grant, saved, reserved>>

(* The transaction commits and frees the row. A reconciliation is then over.*)
CommitWrite(w) ==
    /\ pc[w] = "writing"
    /\ saved' = grant[w]
    /\ lock' = NoOwner
    /\ Goto(w, IF task[w] = "reconcile" THEN "closing" ELSE "held")
    /\ UNCHANGED <<lease, clock, task, startedAt, grant, reserved>>

(* A write that rolls back: an error, or the second check a reconciliation  *)
(* makes before it applies its evidence finds that the lease has run out.   *)
RollbackWrite(w) ==
    /\ pc[w] = "writing"
    /\ lock' = NoOwner
    /\ Goto(w, "closing")
    /\ UNCHANGED <<lease, clock, task, startedAt, grant, saved, reserved>>

(* The task ends: it is done, a check said no, or the provider call failed. *)
EndLeaseTask(w) ==
    /\ pc[w] \in {"held", "calling", "reserving"}
    /\ Goto(w, "closing")
    /\ UNCHANGED <<lease, lock, clock, task, startedAt, grant, saved, reserved>>

ReleaseAnyway(w) ==
    /\ pc[w] = "closing"
    /\ lock = NoOwner
    /\ lease' = [lease EXCEPT !.owner = NoOwner, !.expires = 0]
    /\ Forget(w)
    /\ UNCHANGED <<lock, clock, saved, reserved>>

(* The finally block: the row is freed only by its current owner.           *)
Release(w) ==
    /\ pc[w] = "closing"
    /\ lock = NoOwner
    /\ lease' = IF IsCurrent(w)
                THEN [lease EXCEPT !.owner = NoOwner, !.expires = 0]
                ELSE lease
    /\ Forget(w)
    /\ UNCHANGED <<lock, clock, saved, reserved>>

(* The process dies: its transaction rolls back, its lease stays behind.    *)
LeaseCrash(w) ==
    /\ pc[w] # "idle"
    /\ lock' = IF lock = w THEN NoOwner ELSE lock
    /\ Forget(w)
    /\ UNCHANGED <<lease, clock, saved, reserved>>

LeaseStep(w) ==
    \/ StartTask(w) \/ AcquireLease(w) \/ Busy(w) \/ Renew(w)
    \/ CallProvider(w) \/ ProviderAnswers(w)
    \/ ReserveWinner(w) \/ WriteReservation(w) \/ ReservationDone(w)
    \/ LockLease(w) \/ CommitWrite(w) \/ RollbackWrite(w)
    \/ EndLeaseTask(w) \/ Release(w) \/ LeaseCrash(w)

LeaseNext == LeaseTick \/ \E w \in Owner : LeaseStep(w)

LeaseSpec == LeaseInit /\ [][LeaseNext]_leaseVars

-----------------------------------------------------------------------------
(* Properties.                                                              *)

(* While a transaction that passed lock_execution_lease_current is open,    *)
(* its grant stays the row's owner and newest token, even after expiry: the *)
(* row lock keeps acquire and release out until commit or rollback.         *)
OpenWriteOwnsLease ==
    \A w \in Owner : pc[w] = "writing" =>
        /\ lock = w
        /\ lease.owner = w
        /\ lease.fence = grant[w]

(* Fenced writes belong to the epoch in force and epochs only move forward: *)
(* an expired owner never writes after a newer owner has started, whatever  *)
(* stale clock it passed to acquire and however slow it is.                 *)
Fence == INSTANCE EpochFence WITH epoch <- lease.fence, wrote <- saved
FencedWrites == Fence!Spec

(* A lease that has not run out is never taken from its owner: it changes   *)
(* hands only through that owner's own release. A late release of an old    *)
(* owner does not free the lease of the new one.                            *)
LiveLeaseKept ==
    [][\A w \in Owner :
         /\ lease.owner = w
         /\ clock < lease.expires
         /\ lease'.owner # w \/ lease'.fence # lease.fence
         => /\ pc[w] = "closing"
            /\ lease.fence = grant[w]
            /\ lease'.owner = NoOwner]_leaseVars

(* The fence as the service documents it for reservations too: a            *)
(* reservation is written only under the newest token.                      *)
ReservationsFenced == [][reserved' # reserved => reserved' = lease.fence]_leaseVars
=============================================================================
