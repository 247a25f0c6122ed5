------------------------ MODULE ExecutionLease_proofs ------------------------
(* Machine-checked facts about ExecutionLease, for every set of workers,    *)
(* every lease duration and every value of the two bounds. The argument is  *)
(* one inductive invariant, LeaseInv: an open fenced write owns the row and *)
(* is the only reason for the row lock, and no worker holds a clock value   *)
(* from the future.                                                         *)
EXTENDS ExecutionLease, TLAPS

(* Only an open fenced write holds the row lock.                            *)
LockHasWriter == \A w \in Owner : lock = w => pc[w] = "writing"

(* The time a worker passes to acquire was read from the clock earlier.     *)
ClockReadEarlier == \A w \in Owner : startedAt[w] <= clock

LeaseInv ==
    /\ LeaseTypeOK
    /\ OpenWriteOwnsLease
    /\ LockHasWriter
    /\ ClockReadEarlier

-----------------------------------------------------------------------------
(* The initial states satisfy the invariant.                                *)
LEMMA LeaseInvInit == LeaseInit => LeaseInv
  BY LeaseAssumption
  DEF LeaseInit, LeaseInv, LeaseTypeOK, OpenWriteOwnsLease, LockHasWriter,
      ClockReadEarlier, Places, LeaseTasks

(* Every step keeps every variable in its type.                             *)
LEMMA TypeStep == LeaseTypeOK /\ [LeaseNext]_leaseVars => LeaseTypeOK'
<1> SUFFICES ASSUME LeaseTypeOK, [LeaseNext]_leaseVars PROVE LeaseTypeOK'
  OBVIOUS
<1> USE LeaseAssumption DEF LeaseTypeOK, Places, LeaseTasks, Goto, Forget
<1>1. CASE LeaseTick
  BY <1>1 DEF LeaseTick
<1>2. ASSUME NEW w \in Owner, LeaseStep(w) PROVE LeaseTypeOK'
  <2>1. CASE StartTask(w)  BY <2>1 DEF StartTask
  <2>2. CASE AcquireLease(w)  BY <2>2 DEF AcquireLease
  <2>3. CASE Busy(w)  BY <2>3 DEF Busy
  <2>4. CASE Renew(w)  BY <2>4 DEF Renew
  <2>5. CASE CallProvider(w)  BY <2>5 DEF CallProvider
  <2>6. CASE ProviderAnswers(w)  BY <2>6 DEF ProviderAnswers
  <2>7. CASE ReserveWinner(w)  BY <2>7 DEF ReserveWinner
  <2>8. CASE WriteReservation(w)  BY <2>8 DEF WriteReservation
  <2>9. CASE ReservationDone(w)  BY <2>9 DEF ReservationDone
  <2>10. CASE LockLease(w)  BY <2>10 DEF LockLease
  <2>11. CASE CommitWrite(w)  BY <2>11 DEF CommitWrite
  <2>12. CASE RollbackWrite(w)  BY <2>12 DEF RollbackWrite
  <2>13. CASE EndLeaseTask(w)  BY <2>13 DEF EndLeaseTask
  <2>14. CASE Release(w)  BY <2>14 DEF Release
  <2>15. CASE LeaseCrash(w)  BY <2>15 DEF LeaseCrash
  <2> QED
    BY <1>2, <2>1, <2>2, <2>3, <2>4, <2>5, <2>6, <2>7, <2>8, <2>9, <2>10,
       <2>11, <2>12, <2>13, <2>14, <2>15 DEF LeaseStep
<1>3. CASE UNCHANGED leaseVars
  BY <1>3 DEF leaseVars
<1> QED
  BY <1>1, <1>2, <1>3 DEF LeaseNext

(* The row lock protects an open write: whoever changes the row needs the   *)
(* lock to be free, and a worker that is writing holds it.                  *)
LEMMA WriteStep == LeaseInv /\ [LeaseNext]_leaseVars => OpenWriteOwnsLease' /\ LockHasWriter'
<1> SUFFICES ASSUME LeaseInv, [LeaseNext]_leaseVars
             PROVE  OpenWriteOwnsLease' /\ LockHasWriter'
  OBVIOUS
<1> USE LeaseAssumption
    DEF LeaseInv, LeaseTypeOK, Places, OpenWriteOwnsLease, LockHasWriter, Goto, Forget
<1>1. CASE LeaseTick
  BY <1>1 DEF LeaseTick
<1>2. ASSUME NEW w \in Owner, LeaseStep(w)
      PROVE  OpenWriteOwnsLease' /\ LockHasWriter'
  <2>1. CASE StartTask(w)  BY <2>1 DEF StartTask
  <2>2. CASE AcquireLease(w)  BY <2>2 DEF AcquireLease
  <2>3. CASE Busy(w)  BY <2>3 DEF Busy
  <2>4. CASE Renew(w)  BY <2>4 DEF Renew
  <2>5. CASE CallProvider(w)  BY <2>5 DEF CallProvider
  <2>6. CASE ProviderAnswers(w)  BY <2>6 DEF ProviderAnswers
  <2>7. CASE ReserveWinner(w)  BY <2>7 DEF ReserveWinner
  <2>8. CASE WriteReservation(w)  BY <2>8 DEF WriteReservation
  <2>9. CASE ReservationDone(w)  BY <2>9 DEF ReservationDone
  <2>10. CASE LockLease(w)  BY <2>10 DEF LockLease, IsCurrent
  <2>11. CASE CommitWrite(w)  BY <2>11 DEF CommitWrite
  <2>12. CASE RollbackWrite(w)  BY <2>12 DEF RollbackWrite
  <2>13. CASE EndLeaseTask(w)  BY <2>13 DEF EndLeaseTask
  <2>14. CASE Release(w)  BY <2>14 DEF Release
  <2>15. CASE LeaseCrash(w)  BY <2>15 DEF LeaseCrash
  <2> QED
    BY <1>2, <2>1, <2>2, <2>3, <2>4, <2>5, <2>6, <2>7, <2>8, <2>9, <2>10,
       <2>11, <2>12, <2>13, <2>14, <2>15 DEF LeaseStep
<1>3. CASE UNCHANGED leaseVars
  BY <1>3 DEF leaseVars
<1> QED
  BY <1>1, <1>2, <1>3 DEF LeaseNext

(* The clock only moves forward, so an earlier reading stays an earlier one.*)
LEMMA ClockStep == LeaseTypeOK /\ ClockReadEarlier /\ [LeaseNext]_leaseVars => ClockReadEarlier'
<1> SUFFICES ASSUME LeaseTypeOK, ClockReadEarlier, [LeaseNext]_leaseVars
             PROVE  ClockReadEarlier'
  OBVIOUS
<1> USE DEF LeaseTypeOK, ClockReadEarlier
<1>1. CASE LeaseTick
  BY <1>1 DEF LeaseTick
<1>2. ASSUME NEW w \in Owner, LeaseStep(w) PROVE ClockReadEarlier'
  <2>1. clock' = clock
    BY <1>2 DEF LeaseStep, StartTask, AcquireLease, Busy, Renew, CallProvider,
       ProviderAnswers, ReserveWinner, WriteReservation, ReservationDone,
       LockLease, CommitWrite, RollbackWrite, EndLeaseTask, Release, LeaseCrash
  <2>2. \/ startedAt' = startedAt
        \/ startedAt' = [startedAt EXCEPT ![w] = clock]
        \/ startedAt' = [startedAt EXCEPT ![w] = 0]
    BY <1>2 DEF LeaseStep, StartTask, AcquireLease, Busy, Renew, CallProvider,
       ProviderAnswers, ReserveWinner, WriteReservation, ReservationDone,
       LockLease, CommitWrite, RollbackWrite, EndLeaseTask, Release, LeaseCrash, Forget
  <2> QED
    BY <2>1, <2>2
<1>3. CASE UNCHANGED leaseVars
  BY <1>3 DEF leaseVars
<1> QED
  BY <1>1, <1>2, <1>3 DEF LeaseNext

(* The inductive invariant holds in every reachable state.                  *)
THEOREM LeaseInvHolds == LeaseSpec => []LeaseInv
<1>1. LeaseInv /\ [LeaseNext]_leaseVars => LeaseInv'
  BY TypeStep, WriteStep, ClockStep DEF LeaseInv
<1> QED
  BY LeaseInvInit, <1>1, PTL DEF LeaseSpec

(* Type correctness of the lease component.                                 *)
THEOREM LeaseTypeCorrect == LeaseSpec => []LeaseTypeOK
<1>1. LeaseInv => LeaseTypeOK
  BY DEF LeaseInv
<1> QED
  BY LeaseInvHolds, <1>1, PTL

(* An open fenced write keeps the row: the lock taken by                    *)
(* lock_execution_lease_current holds off takeover and release, also when   *)
(* the lease runs out before the commit.                                    *)
THEOREM OpenWriteKeepsLease == LeaseSpec => []OpenWriteOwnsLease
<1>1. LeaseInv => OpenWriteOwnsLease
  BY DEF LeaseInv
<1> QED
  BY LeaseInvHolds, <1>1, PTL

-----------------------------------------------------------------------------
(* One step of the lease is a step of the epoch fence or a stutter.         *)
LEMMA FenceStep ==
  LeaseInv /\ [LeaseNext]_leaseVars => [Fence!Next]_<<lease.fence, saved>>
<1> SUFFICES ASSUME LeaseInv, [LeaseNext]_leaseVars
             PROVE  [Fence!Next]_<<lease.fence, saved>>
  OBVIOUS
<1> USE DEF LeaseInv, LeaseTypeOK, Fence!Next, Fence!NewEpoch, Fence!Write
<1>1. CASE LeaseTick
  BY <1>1 DEF LeaseTick
<1>2. ASSUME NEW w \in Owner, LeaseStep(w)
      PROVE  [Fence!Next]_<<lease.fence, saved>>
  <2>1. CASE AcquireLease(w)
    BY <2>1 DEF AcquireLease
  <2>2. CASE CommitWrite(w)
    BY <2>2 DEF CommitWrite, OpenWriteOwnsLease
  <2>3. CASE Renew(w)
    BY <2>3 DEF Renew
  <2>4. CASE Release(w)
    BY <2>4 DEF Release
  <2>5. CASE \/ StartTask(w) \/ Busy(w) \/ CallProvider(w)
             \/ ProviderAnswers(w) \/ ReserveWinner(w) \/ WriteReservation(w)
             \/ ReservationDone(w) \/ LockLease(w) \/ RollbackWrite(w)
             \/ EndLeaseTask(w) \/ LeaseCrash(w)
    <3>1. UNCHANGED <<lease, saved>>
      BY <2>5 DEF StartTask, Busy, CallProvider, ProviderAnswers,
         ReserveWinner, WriteReservation, ReservationDone, LockLease,
         RollbackWrite, EndLeaseTask, LeaseCrash
    <3> QED
      BY <3>1
  <2> QED
    BY <1>2, <2>1, <2>2, <2>3, <2>4, <2>5 DEF LeaseStep
<1>3. CASE UNCHANGED leaseVars
  BY <1>3 DEF leaseVars
<1> QED
  BY <1>1, <1>2, <1>3 DEF LeaseNext

(* The lease implements the epoch fence: every fenced write is made for the *)
(* newest epoch, so an expired owner never writes after a newer owner has   *)
(* started (the guarantee ProviderExecutionLeaseService documents for       *)
(* observations).                                                           *)
THEOREM WritesAreFenced == LeaseSpec => FencedWrites
<1>1. LeaseInit => Fence!Init
  BY DEF LeaseInit, Fence!Init
<1> QED
  BY LeaseInvHolds, FenceStep, <1>1, PTL DEF LeaseSpec, FencedWrites, Fence!Spec

(* A lease that has not run out leaves its owner only by that owner's own   *)
(* release, whatever stale clock value a rival passes to acquire.           *)
THEOREM LiveLeaseIsKept == LeaseSpec => LiveLeaseKept
<1> DEFINE Kept ==
      \A w \in Owner :
         /\ lease.owner = w
         /\ clock < lease.expires
         /\ lease'.owner # w \/ lease'.fence # lease.fence
         => /\ pc[w] = "closing"
            /\ lease.fence = grant[w]
            /\ lease'.owner = NoOwner
<1>1. ASSUME LeaseInv, [LeaseNext]_leaseVars PROVE [Kept]_leaseVars
  <2> SUFFICES ASSUME LeaseNext, NEW w \in Owner,
                      lease.owner = w, clock < lease.expires,
                      lease'.owner # w \/ lease'.fence # lease.fence
               PROVE  /\ pc[w] = "closing"
                      /\ lease.fence = grant[w]
                      /\ lease'.owner = NoOwner
    BY <1>1
  <2> USE LeaseAssumption DEF LeaseInv, LeaseTypeOK
  <2>1. CASE LeaseTick
    BY <2>1 DEF LeaseTick
  <2>2. ASSUME NEW x \in Owner, LeaseStep(x)
        PROVE  /\ pc[w] = "closing"
               /\ lease.fence = grant[w]
               /\ lease'.owner = NoOwner
    <3>1. CASE AcquireLease(x)
      BY <1>1, <3>1 DEF AcquireLease, Takeable, ClockReadEarlier
    <3>2. CASE Renew(x)
      BY <1>1, <3>2 DEF Renew
    <3>3. CASE Release(x)
      BY <1>1, <3>3 DEF Release, IsCurrent
    <3>4. CASE \/ StartTask(x) \/ Busy(x) \/ CallProvider(x)
               \/ ProviderAnswers(x) \/ ReserveWinner(x) \/ WriteReservation(x)
               \/ ReservationDone(x) \/ LockLease(x) \/ CommitWrite(x)
               \/ RollbackWrite(x) \/ EndLeaseTask(x) \/ LeaseCrash(x)
      BY <3>4 DEF StartTask, Busy, CallProvider, ProviderAnswers,
         ReserveWinner, WriteReservation, ReservationDone, LockLease,
         CommitWrite, RollbackWrite, EndLeaseTask, LeaseCrash
    <3> QED
      BY <2>2, <3>1, <3>2, <3>3, <3>4 DEF LeaseStep
  <2> QED
    BY <2>1, <2>2 DEF LeaseNext
<1> QED
  BY LeaseInvHolds, <1>1, PTL DEF LeaseSpec, LiveLeaseKept
=============================================================================
