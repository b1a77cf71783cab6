---------------------------- MODULE ServiceProofs ----------------------------
(***************************************************************************)
(* Proofs about the scheduler of a process and what it stands on: the lock *)
(* table of the broker, the leadership that it gives, and the jobs that    *)
(* the leader schedules; then about the two together, as MCService         *)
(* composes them.                                                          *)
(***************************************************************************)
EXTENDS MCService, TLAPS

-----------------------------------------------------------------------------
(* Proofs about the lock table, for any set of holders, any lease duration *)
(* and any bound on the time a statement waits for the database.           *)
(*                                                                         *)
(* LeaseExclusive is not inductive: it says nothing of the row, and the    *)
(* row is what TryAcquire and Renew look at.  LockInv adds the types and   *)
(* PromiseBacked, which ties the row to the promises.                      *)

LockInv == LockTypeOK /\ PromiseBacked

(* A step of the lock table on behalf of one holder, or of the clock. *)
LockStep ==
    \/ LockTick
    \/ \E h \in Holders : AcquireOK(h) \/ RenewOK(h) \/ Release(h)
    \/ UNCHANGED lockVars

-----------------------------------------------------------------------------
(* The arithmetic of a grant: it lies within the types of the row. *)
LEMMA GrantRange ==
    ASSUME NEW lag \in Lags
    PROVE  /\ LeaseTTL - lag \in LongExpired .. LeaseTTL
           /\ Floor(LeaseTTL - lag, 0) \in 0 .. LeaseTTL
           /\ Floor(LeaseTTL - lag, 0) > 0 => Floor(LeaseTTL - lag, 0) = LeaseTTL - lag
BY LockAssumption DEF Lags, LongExpired, Floor

(* Whoever gets a grant while nobody else has an unexpired promise leaves  *)
(* the row backing every promise: the step shared by TryAcquire and Renew. *)
LEMMA GrantKeepsInv ==
    ASSUME LockInv, NEW h \in Holders, NEW lag \in Lags, Grant(h, lag),
           \A g \in Holders \ {h} : promised[g] = 0
    PROVE  LockInv'
<1>1. LockTypeOK'
  BY GrantRange DEF LockInv, LockTypeOK, Grant
<1>2. PromiseBacked'
  BY GrantRange DEF LockInv, LockTypeOK, PromiseBacked, Grant
<1>. QED BY <1>1, <1>2 DEF LockInv

(* A row that can be taken over backs no promise. *)
LEMMA AcquirableMeansFree ==
    ASSUME LockInv, NEW lag \in Lags, Acquirable(lag)
    PROVE  \A g \in Holders : promised[g] = 0
BY LockAssumption DEF LockInv, LockTypeOK, PromiseBacked, Acquirable, Lags, LongExpired

(* A row that h can renew backs no promise made to another holder. *)
LEMMA RenewableMeansOwn ==
    ASSUME LockInv, NEW h \in Holders, NEW lag \in Lags, Renewable(h, lag)
    PROVE  \A g \in Holders \ {h} : promised[g] = 0
BY DEF LockInv, LockTypeOK, PromiseBacked, Renewable

LEMMA ReleaseKeepsInv ==
    ASSUME LockInv, NEW h \in Holders, Release(h)
    PROVE  LockInv'
BY LockAssumption DEF LockInv, LockTypeOK, PromiseBacked, Release, NoRow, LongExpired

LEMMA TickKeepsInv ==
    ASSUME LockInv, LockTick
    PROVE  LockInv'
<1>1. LockTypeOK'
  BY LockAssumption DEF LockInv, LockTypeOK, LockTick, Floor, LongExpired
<1>2. PromiseBacked'
  BY LockAssumption DEF LockInv, LockTypeOK, PromiseBacked, LockTick, Floor, LongExpired
<1>. QED BY <1>1, <1>2 DEF LockInv

(* Every step of the table keeps the invariant.  The modules that build on *)
(* the table cite this lemma. *)
LEMMA LockStepKeepsInv ==
    ASSUME LockInv, LockStep
    PROVE  LockInv'
<1>1. CASE LockTick
  BY <1>1, TickKeepsInv
<1>2. ASSUME NEW h \in Holders, AcquireOK(h)
      PROVE  LockInv'
  BY <1>2, AcquirableMeansFree, GrantKeepsInv DEF AcquireOK
<1>3. ASSUME NEW h \in Holders, RenewOK(h)
      PROVE  LockInv'
  BY <1>3, RenewableMeansOwn, GrantKeepsInv DEF RenewOK
<1>4. ASSUME NEW h \in Holders, Release(h)
      PROVE  LockInv'
  BY <1>4, ReleaseKeepsInv
<1>5. CASE UNCHANGED lockVars
  BY <1>5 DEF LockInv, LockTypeOK, PromiseBacked, lockVars
<1>. QED BY <1>1, <1>2, <1>3, <1>4, <1>5 DEF LockStep

LEMMA LockInitInv == LockInit => LockInv
BY LockAssumption DEF LockInit, LockInv, LockTypeOK, PromiseBacked, NoRow, LongExpired

LEMMA LockNextIsStep == [LockNext]_lockVars => LockStep
BY DEF LockNext, LockStep, AcquireBusy, RenewRefused

(* Every positive answer of TryAcquire or Renew that is still good is      *)
(* backed by the row in the locks table. *)
THEOREM LockInvariant == LockSpec => []LockInv
<1>1. LockInv /\ [LockNext]_lockVars => LockInv'
  BY LockStepKeepsInv, LockNextIsStep
<1>. QED BY <1>1, LockInitInv, PTL DEF LockSpec

-----------------------------------------------------------------------------
LEMMA InvGivesExclusion == LockInv => LeaseExclusive
BY DEF LockInv, LockTypeOK, PromiseBacked, LeaseExclusive

(* TryAcquire and Renew never leave two holders with unexpired leases,     *)
(* however late their statements run (internal/broker/sqlite.go).          *)
THEOREM LockIsExclusive == LockSpec => []LeaseExclusive
BY LockInvariant, InvGivesExclusion, PTL

-----------------------------------------------------------------------------
(* Refinement: every step of the table is a step of the abstract lease. *)

LEMMA GrantIsAbstract ==
    ASSUME LockInv, NEW h \in Holders, NEW lag \in Lags, Grant(h, lag),
           \A g \in Holders \ {h} : promised[g] = 0
    PROVE  L!Grant(h)
BY GrantRange DEF LockInv, LockTypeOK, Grant, L!Grant

LEMMA StepIsAbstract ==
    ASSUME LockInv, LockStep
    PROVE  [L!Next]_promised
<1>1. CASE LockTick
  BY <1>1 DEF LockTick, LockInv, LockTypeOK, Floor, L!Next, L!Elapse
<1>2. ASSUME NEW h \in Holders, AcquireOK(h)
      PROVE  L!Next
  BY <1>2, AcquirableMeansFree, GrantIsAbstract DEF AcquireOK, L!Next
<1>3. ASSUME NEW h \in Holders, RenewOK(h)
      PROVE  L!Next
  BY <1>3, RenewableMeansOwn, GrantIsAbstract DEF RenewOK, L!Next
<1>4. ASSUME NEW h \in Holders, Release(h)
      PROVE  L!Next
  BY <1>4 DEF Release, L!Next, L!Return
<1>5. CASE UNCHANGED lockVars
  BY <1>5 DEF lockVars
<1>. QED BY <1>1, <1>2, <1>3, <1>4, <1>5 DEF LockStep

(* The lock table of internal/broker/sqlite.go implements the abstract     *)
(* lease of module Lease. *)
THEOREM LockRefinesLease == LockSpec => ImplementsLease
<1>1. LockInit => L!Init
  BY DEF LockInit, L!Init
<1>2. LockInv /\ [LockNext]_lockVars => [L!Next]_promised
  BY StepIsAbstract, LockNextIsStep
<1>. QED BY <1>1, <1>2, LockInvariant, PTL DEF LockSpec, ImplementsLease, L!Spec

-----------------------------------------------------------------------------
(* Proofs about the leadership of the cron scheduler, for any number of    *)
(* processes, any lease duration and renewal interval that satisfy         *)
(* LeaderAssumption, any number of jobs in flight and of database errors.  *)
(*                                                                         *)
(* NoSplitBrain is not inductive: it does not say why a process whose cron *)
(* runs still holds the lease.  LeaderInv adds that: a process that relies *)
(* on its lease got it at most Deadline ago, so that what it was promised  *)
(* has not run out (FreshLease), and the lock table backs every promise    *)
(* (LockInv).  Bookkeeping relates the program counters of Start, Stop and *)
(* renewLeaseLoop with s.isLeader and s.cron.                              *)

FreshLease ==
    \A p \in Holders :
        RelyingOnLease(p) => since[p] + promised[p] >= LeaseTTL - MaxLag

Bookkeeping ==
    \A p \in Holders :
        /\ phase[p] \in {"new", "starting"} => loop[p] = "none"
        /\ phase[p] = "starting" => isLeader[p]
        /\ ~isLeader[p] => ~cronOn[p] /\ inflight[p] = 0
        /\ loop[p] = "stepDown" => ~cronOn[p]
        /\ loop[p] = "startCron" => isLeader[p]
        /\ phase[p] \in {"drain2", "stopped"} => ~cronOn[p] /\ loop[p] = "none"
        /\ phase[p] = "stopped" => inflight[p] = 0

LeaderInv ==
    /\ LeaderTypeOK
    /\ PromiseBacked
    /\ FreshLease
    /\ Bookkeeping

(* The steps of one process. *)
ProcStep(p) ==
    \/ StartStep(p) \/ LoopStep(p) \/ LoopExit(p)
    \/ Fire(p) \/ Finish(p)
    \/ StopBegin(p) \/ StopStep(p)
    \/ Crash(p)

-----------------------------------------------------------------------------
(* Every step of the schedulers is a step of the lock table, or leaves it  *)
(* alone. *)
LEMMA NextIsLockStep == [Next]_leaderVars => LockStep
<1>1. Tick => LockStep
  BY DEF Tick, LockStep
<1>2. ASSUME NEW p \in Holders, StartStep(p)
      PROVE  LockStep
  BY <1>2 DEF StartStep, StartAcquired, StartLoops, StartFollower, AcquireBusy, DBError,
              LockStep, lockVars
<1>3. ASSUME NEW p \in Holders, LoopStep(p) \/ LoopExit(p)
      PROVE  LockStep
  BY <1>3 DEF LoopStep, LoopExit, RenewTickOK, RenewTickFailed, StepDown, Reacquired,
              NotReacquired, SwapCron, ClaimLeadership, StartCron, RenewRefused,
              AcquireBusy, DBError, LockStep, lockVars
<1>4. ASSUME NEW p \in Holders, Fire(p) \/ Finish(p) \/ Crash(p)
      PROVE  LockStep
  BY <1>4 DEF Fire, Finish, Crash, LockStep, lockVars
<1>5. ASSUME NEW p \in Holders, StopBegin(p) \/ StopStep(p)
      PROVE  LockStep
  BY <1>5 DEF StopBegin, StopStep, StopGrab, StopGrabbed, StopDrained, StopCancel,
              StopWaited, StopReleased, DBError, LockStep, lockVars
<1>6. UNCHANGED leaderVars => LockStep
  BY DEF leaderVars, LockStep, lockVars
<1>. QED BY <1>1, <1>2, <1>3, <1>4, <1>5, <1>6 DEF Next

LEMMA LeaderLockInv == LeaderInv => LockInv
BY DEF LeaderInv, LeaderTypeOK, LockInv

(* A grant is worth LeaseTTL - MaxLag at least. *)
LEMMA GrantIsFresh ==
    ASSUME LockTypeOK, NEW p \in Holders, AcquireOK(p) \/ RenewOK(p)
    PROVE  /\ promised'[p] >= LeaseTTL - MaxLag
           /\ \A q \in Holders \ {p} : promised'[q] = promised[q]
<1>1. PICK lag \in Lags : Grant(p, lag)
  BY DEF AcquireOK, RenewOK
<1>2. Floor(LeaseTTL - lag, 0) >= LeaseTTL - MaxLag
  BY LockAssumption DEF Floor, Lags
<1>. QED BY <1>1, <1>2 DEF Grant, LockTypeOK

-----------------------------------------------------------------------------
LEMMA TypeStep ==
    ASSUME LeaderInv, [Next]_leaderVars
    PROVE  LeaderTypeOK'
<1>. USE DEF LeaderInv, LeaderTypeOK, Phases, LoopStates
<1>0. LockTypeOK'
  BY LeaderLockInv, NextIsLockStep, LockStepKeepsInv DEF LockInv
<1>1. CASE Tick
  BY <1>0, <1>1, LeaderAssumption DEF Tick, Deadline
<1>2. CASE UNCHANGED leaderVars
  BY <1>0, <1>2 DEF leaderVars
<1>3. ASSUME NEW p \in Holders, ProcStep(p)
      PROVE  LeaderTypeOK'
  <2>1. CASE StartAcquired(p)
    BY <1>0, <2>1, LeaderAssumption DEF StartAcquired, Deadline
  <2>2. CASE StartLoops(p)
    BY <1>0, <2>2 DEF StartLoops
  <2>3. CASE StartFollower(p)
    BY <1>0, <2>3, LeaderAssumption DEF StartFollower, DBError
  <2>4. CASE RenewTickOK(p)
    BY <1>0, <2>4, LeaderAssumption DEF RenewTickOK, Deadline
  <2>5. CASE RenewTickFailed(p)
    BY <1>0, <2>5, LeaderAssumption DEF RenewTickFailed, DBError
  <2>6. CASE StepDown(p)
    BY <1>0, <2>6 DEF StepDown
  <2>7. CASE Reacquired(p)
    BY <1>0, <2>7, LeaderAssumption DEF Reacquired, Deadline
  <2>8. CASE NotReacquired(p)
    BY <1>0, <2>8, LeaderAssumption DEF NotReacquired, DBError
  <2>9. CASE SwapCron(p)
    BY <1>0, <2>9 DEF SwapCron
  <2>10. CASE ClaimLeadership(p)
    BY <1>0, <2>10 DEF ClaimLeadership
  <2>11. CASE StartCron(p)
    BY <1>0, <2>11 DEF StartCron
  <2>12. CASE LoopExit(p)
    BY <1>0, <2>12 DEF LoopExit
  <2>13. CASE Fire(p)
    BY <1>0, <2>13, LeaderAssumption DEF Fire
  <2>14. CASE Finish(p)
    BY <1>0, <2>14, LeaderAssumption DEF Finish
  <2>15. CASE StopBegin(p)
    BY <1>0, <2>15 DEF StopBegin
  <2>16. CASE StopGrab(p)
    BY <1>0, <2>16 DEF StopGrab
  <2>17. CASE StopGrabbed(p)
    BY <1>0, <2>17 DEF StopGrabbed
  <2>18. CASE StopDrained(p)
    BY <1>0, <2>18 DEF StopDrained
  <2>19. CASE StopCancel(p)
    BY <1>0, <2>19 DEF StopCancel
  <2>20. CASE StopWaited(p)
    BY <1>0, <2>20 DEF StopWaited
  <2>21. CASE StopReleased(p)
    BY <1>0, <2>21, LeaderAssumption DEF StopReleased, DBError
  <2>22. CASE Crash(p)
    BY <1>0, <2>22, LeaderAssumption DEF Crash
  <2>. QED BY <1>3, <2>1, <2>2, <2>3, <2>4, <2>5, <2>6, <2>7, <2>8, <2>9, <2>10, <2>11, <2>12, <2>13, <2>14, <2>15, <2>16, <2>17, <2>18, <2>19, <2>20, <2>21, <2>22
       DEF ProcStep, StartStep, LoopStep, StopStep
<1>. QED BY <1>1, <1>2, <1>3 DEF Next, ProcStep

LEMMA BookkeepingStep ==
    ASSUME LeaderInv, [Next]_leaderVars
    PROVE  Bookkeeping'
<1>. USE DEF LeaderInv, LeaderTypeOK, Bookkeeping
<1>1. CASE Tick
  BY <1>1 DEF Tick
<1>2. CASE UNCHANGED leaderVars
  BY <1>2 DEF leaderVars
<1>3. ASSUME NEW p \in Holders, ProcStep(p)
      PROVE  Bookkeeping'
  <2>1. CASE StartAcquired(p)
    BY <2>1 DEF StartAcquired
  <2>2. CASE StartLoops(p)
    BY <2>2 DEF StartLoops
  <2>3. CASE StartFollower(p)
    BY <2>3 DEF StartFollower
  <2>4. CASE RenewTickOK(p)
    BY <2>4 DEF RenewTickOK
  <2>5. CASE RenewTickFailed(p)
    BY <2>5 DEF RenewTickFailed
  <2>6. CASE StepDown(p)
    BY <2>6 DEF StepDown
  <2>7. CASE Reacquired(p)
    BY <2>7 DEF Reacquired
  <2>8. CASE NotReacquired(p)
    BY <2>8 DEF NotReacquired
  <2>9. CASE SwapCron(p)
    BY <2>9 DEF SwapCron
  <2>10. CASE ClaimLeadership(p)
    BY <2>10 DEF ClaimLeadership
  <2>11. CASE StartCron(p)
    BY <2>11 DEF StartCron
  <2>12. CASE LoopExit(p)
    BY <2>12 DEF LoopExit
  <2>13. CASE Fire(p)
    BY <2>13 DEF Fire
  <2>14. CASE Finish(p)
    BY <2>14 DEF Finish
  <2>15. CASE StopBegin(p)
    BY <2>15 DEF StopBegin
  <2>16. CASE StopGrab(p)
    BY <2>16 DEF StopGrab
  <2>17. CASE StopGrabbed(p)
    BY <2>17 DEF StopGrabbed
  <2>18. CASE StopDrained(p)
    BY <2>18 DEF StopDrained
  <2>19. CASE StopCancel(p)
    BY <2>19 DEF StopCancel
  <2>20. CASE StopWaited(p)
    BY <2>20 DEF StopWaited
  <2>21. CASE StopReleased(p)
    BY <2>21 DEF StopReleased
  <2>22. CASE Crash(p)
    BY <2>22 DEF Crash
  <2>. QED BY <1>3, <2>1, <2>2, <2>3, <2>4, <2>5, <2>6, <2>7, <2>8, <2>9, <2>10, <2>11, <2>12, <2>13, <2>14, <2>15, <2>16, <2>17, <2>18, <2>19, <2>20, <2>21, <2>22
       DEF ProcStep, StartStep, LoopStep, StopStep
<1>. QED BY <1>1, <1>2, <1>3 DEF Next, ProcStep

LEMMA FreshStep ==
    ASSUME LeaderInv, [Next]_leaderVars
    PROVE  FreshLease'
<1>. USE DEF LeaderInv, LeaderTypeOK, LockTypeOK, FreshLease, RelyingOnLease
<1>0. promised' \in [Holders -> 0 .. LeaseTTL]
  BY TypeStep
<1>1. CASE Tick
  BY <1>1, LockAssumption, LeaderAssumption DEF Tick, LockTick, Floor, Deadline
<1>2. CASE UNCHANGED leaderVars
  BY <1>2 DEF leaderVars
<1>3. ASSUME NEW p \in Holders, ProcStep(p)
      PROVE  FreshLease'
  <2>1. CASE StartAcquired(p)
    <3>1. /\ promised'[p] >= LeaseTTL - MaxLag
          /\ \A q \in Holders \ {p} : promised'[q] = promised[q]
      BY <2>1, GrantIsFresh DEF StartAcquired
    <3>2. since'[p] + promised'[p] >= LeaseTTL - MaxLag
      <4>1. since'[p] = 0
        BY <2>1 DEF StartAcquired
      <4>2. promised'[p] \in Int
        BY <1>0
      <4>. QED BY <3>1, <4>1, <4>2, LockAssumption
    <3>. QED BY <2>1, <3>1, <3>2 DEF StartAcquired
  <2>2. CASE StartLoops(p)
    BY <2>2 DEF StartLoops
  <2>3. CASE StartFollower(p)
    BY <2>3 DEF StartFollower, AcquireBusy, DBError, lockVars
  <2>4. CASE RenewTickOK(p)
    <3>1. /\ promised'[p] >= LeaseTTL - MaxLag
          /\ \A q \in Holders \ {p} : promised'[q] = promised[q]
      BY <2>4, GrantIsFresh DEF RenewTickOK
    <3>2. since'[p] + promised'[p] >= LeaseTTL - MaxLag
      <4>1. since'[p] = 0
        BY <2>4 DEF RenewTickOK
      <4>2. promised'[p] \in Int
        BY <1>0
      <4>. QED BY <3>1, <4>1, <4>2, LockAssumption
    <3>. QED BY <2>4, <3>1, <3>2 DEF RenewTickOK
  <2>5. CASE RenewTickFailed(p)
    BY <2>5 DEF RenewTickFailed, RenewRefused, DBError, lockVars
  <2>6. CASE StepDown(p)
    BY <2>6 DEF StepDown
  <2>7. CASE Reacquired(p)
    <3>1. /\ promised'[p] >= LeaseTTL - MaxLag
          /\ \A q \in Holders \ {p} : promised'[q] = promised[q]
      BY <2>7, GrantIsFresh DEF Reacquired
    <3>2. since'[p] + promised'[p] >= LeaseTTL - MaxLag
      <4>1. since'[p] = 0
        BY <2>7 DEF Reacquired
      <4>2. promised'[p] \in Int
        BY <1>0
      <4>. QED BY <3>1, <4>1, <4>2, LockAssumption
    <3>. QED BY <2>7, <3>1, <3>2 DEF Reacquired
  <2>8. CASE NotReacquired(p)
    BY <2>8 DEF NotReacquired, AcquireBusy, DBError, lockVars
  <2>9. CASE SwapCron(p)
    BY <2>9 DEF SwapCron
  <2>10. CASE ClaimLeadership(p)
    BY <2>10 DEF ClaimLeadership
  <2>11. CASE StartCron(p)
    BY <2>11 DEF StartCron
  <2>12. CASE LoopExit(p)
    BY <2>12 DEF LoopExit
  <2>13. CASE Fire(p)
    BY <2>13 DEF Fire
  <2>14. CASE Finish(p)
    BY <2>14 DEF Finish
  <2>15. CASE StopBegin(p)
    BY <2>15 DEF StopBegin
  <2>16. CASE StopGrab(p)
    BY <2>16 DEF StopGrab
  <2>17. CASE StopGrabbed(p)
    BY <2>17 DEF StopGrabbed
  <2>18. CASE StopDrained(p)
    BY <2>18 DEF StopDrained
  <2>19. CASE StopCancel(p)
    BY <2>19 DEF StopCancel
  <2>20. CASE StopWaited(p)
    BY <2>20 DEF StopWaited
  <2>21. CASE StopReleased(p)
    BY <2>21 DEF StopReleased, Release, DBError, lockVars, Bookkeeping
  <2>22. CASE Crash(p)
    BY <2>22 DEF Crash
  <2>. QED BY <1>3, <2>1, <2>2, <2>3, <2>4, <2>5, <2>6, <2>7, <2>8, <2>9, <2>10, <2>11, <2>12, <2>13, <2>14, <2>15, <2>16, <2>17, <2>18, <2>19, <2>20, <2>21, <2>22
       DEF ProcStep, StartStep, LoopStep, StopStep
<1>. QED BY <1>1, <1>2, <1>3 DEF Next, ProcStep

LEMMA LeaderInitInv == Init => LeaderInv
<1>1. Init => LockInv
  BY LockInitInv DEF Init
<1>. QED BY <1>1, LeaderAssumption
     DEF Init, LeaderInv, LeaderTypeOK, LockInv, FreshLease, Bookkeeping, RelyingOnLease,
         Phases, LoopStates, Deadline

(* A scheduler whose cron runs, or is about to, has been granted the lease *)
(* recently enough for the grant to be good (scheduler.go, leader.go). *)
THEOREM LeaderInvariant == Spec => []LeaderInv
<1>1. LeaderInv /\ [Next]_leaderVars => LeaderInv'
  BY TypeStep, BookkeepingStep, FreshStep, LeaderLockInv, NextIsLockStep, LockStepKeepsInv
  DEF LeaderInv, LockInv
<1>. QED BY <1>1, LeaderInitInv, PTL DEF Spec

-----------------------------------------------------------------------------
(* A process that relies on its lease has an unexpired promise. *)
LEMMA ReliersHoldTheLease ==
    ASSUME LeaderInv, NEW p \in Holders, RelyingOnLease(p)
    PROVE  promised[p] > 0
BY LockAssumption, LeaderAssumption
DEF LeaderInv, LeaderTypeOK, LockTypeOK, FreshLease, Deadline

(* Start, renewLeaseLoop and Stop never let the crons of two processes run *)
(* at the same time: for every number of processes, as long as a leader    *)
(* handles its ticks within RenewInterval + MaxStall and MaxLag covers the *)
(* time its statements wait. *)
THEOREM NoTwoLeaders == Spec => []NoSplitBrain
<1>1. LeaderInv => NoSplitBrain
  BY ReliersHoldTheLease, LeaderLockInv, InvGivesExclusion
  DEF NoSplitBrain, LeaseExclusive, RelyingOnLease
<1>. QED BY <1>1, LeaderInvariant, PTL

(* Once Stop has returned, no cron, no job and no renew loop of the        *)
(* scheduler is left (scheduler.go, Stop). *)
THEOREM StopLeavesNothing == Spec => []StoppedIsQuiet
<1>1. LeaderInv => StoppedIsQuiet
  BY DEF LeaderInv, Bookkeeping, StoppedIsQuiet
<1>. QED BY <1>1, LeaderInvariant, PTL

(* The variables of the schedulers and the lock row keep their types. *)
THEOREM LeaderTypes == Spec => []LeaderTypeOK
BY LeaderInvariant, PTL DEF LeaderInv

(* The schedulers use the lock table in a way that keeps the promise of    *)
(* the abstract lease: nobody is granted it while another grant lasts. *)
THEOREM LeadersRefineLease == Spec => ImplementsLease
<1>1. Init => L!Init
  BY DEF Init, LockInit, L!Init
<1>2. LeaderInv /\ [Next]_leaderVars => [L!Next]_promised
  BY LeaderLockInv, NextIsLockStep, StepIsAbstract
<1>. QED BY <1>1, <1>2, LeaderInvariant, PTL DEF Spec, ImplementsLease, L!Spec

-----------------------------------------------------------------------------
(* The YAML files of the job store, for any number of jobs, clients, calls *)
(* and executions.  CountsAddUp is not inductive: a count comes into a     *)
(* file from a copy that a call or an execution read before.  JobsInv says *)
(* of every copy that will be written back what its token tells: if it is  *)
(* still the token of the file, the copy has the file's count.             *)

(* What a file says of its job: files are written with new tokens, and the *)
(* count of one that exists is what CountsAddUp says.                      *)
FilesCount ==
    \A j \in Jobs :
        /\ file[j].token <= writes
        /\ file[j].token = 0 => file[j] = NoFile
        /\ file[j].token # 0 =>
              /\ file[j].count <= counted[j]
              /\ j \notin stale => file[j].count = counted[j]

(* A copy of j's file that will be written back with more executions than  *)
(* it was read with.                                                       *)
Copied(j, copy, more) ==
    /\ copy.token <= writes
    /\ copy.count <= counted[j] + more
    /\ copy.token = file[j].token => copy.count = file[j].count + more

(* Where a call holds what it will write back. *)
WriteSteps == {"addSchedule", "addUpdate", "listWrite", "psUnschedule", "psUpdate",
               "rsSchedule", "rsUpdate"}

CallCopies ==
    \A c \in Clients :
        /\ Copied(op[c].job, op[c].copy, 0)
        /\ op[c].copy.token = 0 => op[c].copy.count = 0
        /\ op[c].at \in WriteSteps => op[c].copy.token # 0

RunCopies ==
    \A n \in Execs :
        /\ run[n].at \in {"commit", "update"} => run[n].copy.token # 0
        /\ run[n].at = "commit" => Copied(run[n].job, run[n].copy, 0)
        /\ run[n].at = "update" => Copied(run[n].job, run[n].copy, 1)

(* A job whose file has not been created is known to nobody but the call   *)
(* that creates it.                                                        *)
Creates(c, j) == op[c].at = "addCreate" /\ op[c].job = j

Unknown(j) ==
    /\ file[j] = NoFile /\ counted[j] = 0 /\ j \notin sched /\ sync.list[j] = NoFile
    /\ \A c \in Clients : view[c][j] = 0 /\ (op[c].job = j => op[c].at \in {"idle", "addCreate"})
    /\ \A n \in Execs : run[n].job = j => run[n].at = "idle"

NewJobs ==
    /\ \A j \in Jobs : kind[j] = "none" \/ (\E c \in Clients : Creates(c, j)) => Unknown(j)
    /\ \A c \in Clients, j \in Jobs : Creates(c, j) =>
          kind[j] # "none" /\ \A d \in Clients : Creates(d, j) => d = c

JobsInv == JobsTypeOK /\ FilesCount /\ CallCopies /\ RunCopies /\ NewJobs
-----------------------------------------------------------------------------
Op == [at : OpSteps, job : Jobs, copy : File]
Run == [at : RunSteps, job : Jobs, copy : File]
Sync == [at : {"idle", "list", "apply"}, list : [Jobs -> File], unread : SUBSET Jobs]

LEMMA JobConstants ==
    /\ AnyJob \in Jobs /\ NoFile \in File /\ NoFile.count = 0 /\ NoFile.token = 0
    /\ IdleOp \in Op /\ IdleOp.copy = NoFile /\ IdleOp.at = "idle"
    /\ IdleRun \in Run /\ IdleRun.copy = NoFile /\ IdleRun.at = "idle"
    /\ IdleSync \in Sync /\ IdleSync.list = [j \in Jobs |-> NoFile]
<1>1. AnyJob \in Jobs
  BY JobsAssumption DEF AnyJob
<1>2. NoFile \in File /\ NoFile.count = 0 /\ NoFile.token = 0
  BY DEF NoFile, File, Status
<1>3. "idle" \in OpSteps /\ "idle" \in RunSteps
  BY DEF OpSteps, RunSteps
<1>. QED BY <1>1, <1>2, <1>3 DEF IdleOp, IdleRun, IdleSync, Op, Run, Sync

(* The types, in the form in which the proofs use them. *)
LEMMA JobTypes ==
    ASSUME JobsTypeOK
    PROVE  /\ file \in [Jobs -> File] /\ writes \in Nat /\ op \in [Clients -> Op]
           /\ run \in [Execs -> Run] /\ sync \in Sync /\ counted \in [Jobs -> Nat]
           /\ \A j \in Jobs : /\ file[j] \in File /\ file[j].token \in Nat /\ file[j].count \in Nat
                              /\ counted[j] \in Nat
           /\ \A c \in Clients : /\ op[c] \in Op /\ op[c].job \in Jobs /\ op[c].copy \in File
                                 /\ op[c].copy.token \in Nat /\ op[c].copy.count \in Nat
           /\ \A n \in Execs : /\ run[n] \in Run /\ run[n].job \in Jobs /\ run[n].copy \in File
                               /\ run[n].copy.token \in Nat /\ run[n].copy.count \in Nat
BY DEF JobsTypeOK, Op, Run, Sync, File

(* writeJob changes one file, the token included. *)
LEMMA WriteTypes ==
    ASSUME JobsTypeOK, NEW j \in Jobs, NEW job \in File, WriteJob(j, job)
    PROVE  /\ file' \in [Jobs -> File] /\ writes' = writes + 1 /\ writes' \in Nat
           /\ stale' \subseteq Jobs
           /\ file'[j].count = job.count /\ file'[j].token = writes + 1
           /\ \A i \in Jobs : i # j => file'[i] = file[i]
           /\ stale' = IF job.token # file[j].token THEN stale \cup {j} ELSE stale
<1>. DEFINE new == [job EXCEPT !.token = writes + 1]
<1>0. writes + 1 \in Nat
  BY DEF JobsTypeOK
<1>1. new \in File /\ new.count = job.count /\ new.token = writes + 1
  BY <1>0 DEF File
<1>. HIDE DEF new
<1>2. file' = [file EXCEPT ![j] = new]
  BY DEF WriteJob, new
<1>3. /\ file' \in [Jobs -> File] /\ file'[j] = new
      /\ \A i \in Jobs : i # j => file'[i] = file[i]
  BY <1>1, <1>2 DEF JobsTypeOK
<1>4. writes' = writes + 1 /\ stale' = IF job.token # file[j].token THEN stale \cup {j} ELSE stale
  BY DEF WriteJob
<1>5. stale' \subseteq Jobs
  BY <1>4 DEF JobsTypeOK
<1>. QED BY <1>0, <1>1, <1>3, <1>4, <1>5

-----------------------------------------------------------------------------
(* Types *)

LEMMA JobsInitInv ==
    ASSUME JobsInit
    PROVE  JobsInv
<1>. DEFINE kept == [status : Kept, token : {1}, count : {0}]
<1>1. ASSUME NEW f \in kept
      PROVE  f \in File
  <2>1. Kept \subseteq Status
    BY JobsAssumption DEF Status
  <2>2. f.status \in Kept /\ f.token = 1 /\ f.count = 0
        /\ f = [status |-> f.status, token |-> f.token, count |-> f.count]
    BY <1>1
  <2>. QED BY <2>1, <2>2 DEF File
<1>2. \A j \in Jobs : file[j] = NoFile \/ (file[j] \in kept /\ file[j].token = 1 /\ file[j].count = 0)
  BY DEF JobsInit
<1>3. JobsTypeOK
  <2>1. file \in [Jobs -> File]
    BY <1>1, <1>2, JobConstants DEF JobsInit
  <2>2. op \in [Clients -> Op] /\ run \in [Execs -> Run] /\ sync \in Sync
    BY JobConstants DEF JobsInit
  <2>3. lastMod \in [Jobs -> Int] /\ view \in [Clients -> [Jobs -> Nat]] /\ counted \in [Jobs -> Nat]
    BY DEF JobsInit, NeverScanned
  <2>. QED BY <2>1, <2>2, <2>3 DEF JobsInit, JobsTypeOK, Op, Run, Sync
<1>4. FilesCount
  BY <1>2, JobConstants DEF JobsInit, FilesCount
<1>5. CallCopies
  <2>1. \A c \in Clients : Copied(op[c].job, op[c].copy, 0)
    BY <1>2, JobConstants DEF JobsInit, Copied, Op
  <2>2. "idle" \notin WriteSteps
    BY DEF WriteSteps
  <2>. QED BY <2>1, <2>2, JobConstants DEF JobsInit, CallCopies
<1>7. RunCopies
  BY JobConstants DEF JobsInit, RunCopies
<1>6. NewJobs
  BY JobConstants DEF JobsInit, NewJobs, Unknown, Creates, NoFile
<1>. QED BY <1>3, <1>4, <1>5, <1>6, <1>7 DEF JobsInv

(* A client that starts, goes on or returns. *)
LEMMA CallTypes ==
    ASSUME JobsTypeOK, NEW c \in Clients
    PROVE  /\ \A step \in OpSteps : Goto(c, step) =>
                 /\ op' \in [Clients -> Op]
                 /\ \A d \in Clients : d # c => op'[d] = op[d]
                 /\ op'[c].at = step /\ op'[c].job = op[c].job /\ op'[c].copy = op[c].copy
           /\ Return(c) =>
                 /\ op' \in [Clients -> Op]
                 /\ \A d \in Clients : d # c => op'[d] = op[d]
                 /\ op'[c] = IdleOp
           /\ \A step \in OpSteps, j \in Jobs, copy \in File : Call(c, step, j, copy) =>
                 /\ op' \in [Clients -> Op] /\ ops' \in Nat
                 /\ \A d \in Clients : d # c => op'[d] = op[d]
                 /\ op'[c].at = step /\ op'[c].job = j /\ op'[c].copy = copy
                 /\ op[c].at = "idle"
<1>1. ASSUME NEW step \in OpSteps, Goto(c, step)
      PROVE  /\ op' \in [Clients -> Op]
             /\ \A d \in Clients : d # c => op'[d] = op[d]
             /\ op'[c].at = step /\ op'[c].job = op[c].job /\ op'[c].copy = op[c].copy
  BY <1>1 DEF Goto, JobsTypeOK, Op
<1>2. ASSUME Return(c)
      PROVE  /\ op' \in [Clients -> Op]
             /\ \A d \in Clients : d # c => op'[d] = op[d]
             /\ op'[c] = IdleOp
  BY <1>2, JobConstants DEF Return, JobsTypeOK, Op
<1>3. ASSUME NEW step \in OpSteps, NEW j \in Jobs, NEW copy \in File, Call(c, step, j, copy)
      PROVE  /\ op' \in [Clients -> Op] /\ ops' \in Nat
             /\ \A d \in Clients : d # c => op'[d] = op[d]
             /\ op'[c].at = step /\ op'[c].job = j /\ op'[c].copy = copy
             /\ op[c].at = "idle"
  BY <1>3 DEF Call, At, JobsTypeOK, Op
<1>. QED BY <1>1, <1>2, <1>3

(* AddCreate: the copy gets the token that was written. *)
LEMMA CreatedTypes ==
    ASSUME JobsTypeOK, NEW c \in Clients, NEW t \in Nat,
           op' = [op EXCEPT ![c].at = "addSchedule", ![c].copy.token = t]
    PROVE  /\ op' \in [Clients -> Op]
           /\ \A d \in Clients : d # c => op'[d] = op[d]
           /\ op'[c].at = "addSchedule" /\ op'[c].job = op[c].job
           /\ op'[c].copy.token = t /\ op'[c].copy.count = op[c].copy.count
<1>. DEFINE new == [op[c].copy EXCEPT !.token = t]
            next == [op[c] EXCEPT !.at = "addSchedule", !.copy = new]
<1>1. new \in File /\ new.token = t /\ new.count = op[c].copy.count
  BY JobTypes DEF File
<1>2. op' = [op EXCEPT ![c] = next]
  BY JobTypes
<1>. HIDE DEF new
<1>3. next \in Op /\ next.at = "addSchedule" /\ next.job = op[c].job /\ next.copy = new
  BY <1>1, JobTypes DEF Op, OpSteps
<1>. HIDE DEF next
<1>. QED BY <1>1, <1>2, <1>3, JobTypes

LEMMA BeginTypes ==
    ASSUME JobsTypeOK, NEW c \in Clients, NEW j \in Jobs, Begin(c, j)
    PROVE  JobsTypeOK'
<1>. DEFINE new == [status |-> "active", token |-> 0, count |-> 0]
<1>1. UNCHANGED <<file, writes, past, lastMod, sync, view, run, runDB, runs, historyVars>>
  BY DEF Begin, AddJob, ListJobs, RemoveJob, PauseJob, ResumeJob
<1>2. new \in File /\ NoFile \in File /\ file[j] \in File
  BY JobConstants, JobTypes DEF File, Status
<1>3. PICK step \in OpSteps, copy \in {new, NoFile, file[j]} : Call(c, step, j, copy)
  BY DEF Begin, AddJob, ListJobs, RemoveJob, PauseJob, ResumeJob, OpSteps
<1>4. op' \in [Clients -> Op] /\ ops' \in Nat
  BY <1>2, <1>3, CallTypes
<1>5. /\ kind' \in [Jobs -> Kinds \cup {"none"}]
      /\ \A i \in Jobs : kind[i] = "oneShot" => kind'[i] = "oneShot"
      /\ sched' \subseteq Jobs
  <2>1. CASE AddJob(c, j)
    BY <2>1 DEF AddJob, JobsTypeOK, Kinds
  <2>2. CASE ~AddJob(c, j)
    BY <2>2 DEF Begin, ListJobs, RemoveJob, PauseJob, ResumeJob, Unschedule, JobsTypeOK
  <2>. QED BY <2>1, <2>2
<1>6. past' \subseteq OneShot'
  BY <1>1, <1>5 DEF OneShot, JobsTypeOK
<1>. QED BY <1>1, <1>4, <1>5, <1>6 DEF JobsTypeOK, Op, historyVars

LEMMA ProceedTypes ==
    ASSUME JobsTypeOK, NEW c \in Clients, Proceed(c)
    PROVE  JobsTypeOK'
<1>. DEFINE j == op[c].job
            copy == op[c].copy
<1>1. UNCHANGED <<kind, past, lastMod, sync, run, ops, runs, counted>> /\ j \in Jobs /\ copy \in File
  BY JobTypes DEF Proceed, AddCreate, AddSchedule, AddUpdate, ListWrite, RemoveCheck, RemoveDelete,
     RemoveCleanup, PauseUnschedule, PauseUpdate, ResumeSchedule, ResumeUpdate, historyVars
<1>2. /\ file' \in [Jobs -> File] /\ writes' \in Nat /\ stale' \subseteq Jobs
  <2>1. ASSUME NEW job \in File, WriteJob(j, job)
        PROVE  file' \in [Jobs -> File] /\ writes' \in Nat /\ stale' \subseteq Jobs
    BY <1>1, <2>1, WriteTypes
  <2>2. \A s \in Status : [copy EXCEPT !.status = s] \in File
    BY <1>1 DEF File
  <2>3. {"paused", "active"} \subseteq Status
    BY DEF Status
  <2>4. CASE AddCreate(c) \/ AddUpdate(c) \/ ListWrite(c)
    BY <1>1, <2>1, <2>4 DEF AddCreate, AddUpdate, ListWrite
  <2>5. CASE PauseUpdate(c) \/ ResumeUpdate(c)
    BY <2>1, <2>2, <2>3, <2>5 DEF PauseUpdate, ResumeUpdate
  <2>6. CASE RemoveDelete(c)
    BY <2>6, JobConstants DEF RemoveDelete, JobsTypeOK, historyVars
  <2>. QED BY <2>4, <2>5, <2>6 DEF Proceed, AddSchedule, RemoveCheck, RemoveCleanup, PauseUnschedule,
       ResumeSchedule, JobsTypeOK, historyVars
<1>3. op' \in [Clients -> Op]
  <2>1. {"addSchedule", "addUpdate", "rmDelete", "rmCleanup", "psUpdate", "rsUpdate"} \subseteq OpSteps
    BY DEF OpSteps
  <2>2. ASSUME op' = [op EXCEPT ![c].at = "addSchedule", ![c].copy.token = writes']
        PROVE  op' \in [Clients -> Op]
    BY <1>2, <2>2, CreatedTypes
  <2>3. CASE AddCreate(c)
    BY <2>2, <2>3, CallTypes DEF AddCreate
  <2>. QED BY <2>1, <2>3, CallTypes DEF Proceed, AddSchedule, AddUpdate, ListWrite, RemoveCheck,
       RemoveDelete, RemoveCleanup, PauseUnschedule, PauseUpdate, ResumeSchedule, ResumeUpdate
<1>4. view' \in [Clients -> [Jobs -> Nat]]
  <2>1. view' = view \/ view' = [view EXCEPT ![c][j] = writes']
    BY DEF Proceed, AddCreate, AddSchedule, AddUpdate, ListWrite, RemoveCheck, RemoveDelete,
       RemoveCleanup, PauseUnschedule, PauseUpdate, ResumeSchedule, ResumeUpdate
  <2>2. view[c] \in [Jobs -> Nat] /\ view \in [Clients -> [Jobs -> Nat]]
    BY DEF JobsTypeOK
  <2>3. [view[c] EXCEPT ![j] = writes'] \in [Jobs -> Nat]
    BY <1>2, <2>2
  <2>4. view' = view \/ view' = [view EXCEPT ![c] = [view[c] EXCEPT ![j] = writes']]
    BY <2>1, <2>2
  <2>. QED BY <2>2, <2>3, <2>4
<1>5. sched' \subseteq Jobs /\ runDB' \subseteq Jobs /\ missed' \subseteq Jobs
  <2>1. /\ sched' \in {sched, sched \cup {j}, sched \ {j}} /\ runDB' \in {runDB, runDB \ {j}}
        /\ missed' \subseteq missed \cup {j}
    BY DEF Proceed, AddCreate, AddSchedule, AddUpdate, ListWrite, RemoveCheck, RemoveDelete,
       RemoveCleanup, PauseUnschedule, PauseUpdate, ResumeSchedule, ResumeUpdate, Unschedule, historyVars
  <2>. QED BY <1>1, <2>1 DEF JobsTypeOK
<1>. QED BY <1>1, <1>2, <1>3, <1>4, <1>5 DEF JobsTypeOK, OneShot, Op

LEMMA RunTypes ==
    ASSUME JobsTypeOK, (\E n \in Execs : RunStep(n)) \/ (\E j \in Jobs : RunJob(j))
    PROVE  JobsTypeOK'
<1>1. ASSUME NEW j \in Jobs, RunJob(j)
      PROVE  JobsTypeOK'
  <2>1. [at |-> "execute", job |-> j, copy |-> NoFile] \in Run
    BY JobConstants DEF Run, RunSteps
  <2>2. run' \in [Execs -> Run]
    BY <1>1, <2>1, JobTypes DEF RunJob
  <2>3. runs' \in Nat /\ past' \subseteq OneShot
    BY <1>1 DEF RunJob, JobsTypeOK
  <2>. QED BY <1>1, <2>2, <2>3 DEF RunJob, JobsTypeOK, OneShot, Run, historyVars
<1>2. ASSUME NEW n \in Execs, RunExecute(n)
      PROVE  JobsTypeOK'
  <2>1. run' \in [Execs -> Run]
    <3>1. CASE run' = [run EXCEPT ![n] = IdleRun]
      BY <3>1, JobConstants, JobTypes
    <3>2. CASE run' = [run EXCEPT ![n].at = "commit", ![n].copy = file[run[n].job]]
      BY <3>2, JobTypes DEF Run, RunSteps
    <3>. QED BY <1>2, <3>1, <3>2 DEF RunExecute
  <2>. QED BY <1>2, <2>1 DEF RunExecute, JobsTypeOK, OneShot, Run, historyVars
<1>3. ASSUME NEW n \in Execs, RunCommit(n)
      PROVE  JobsTypeOK'
  <2>. DEFINE status == IF run[n].job \in OneShot THEN "completed" ELSE run[n].copy.status
              done == [status |-> status, token |-> run[n].copy.token, count |-> run[n].copy.count + 1]
  <2>1. run' \in [Execs -> Run] /\ sched' \subseteq Jobs
    <3>1. CASE run' = [run EXCEPT ![n] = IdleRun]
      BY <1>3, <3>1, JobConstants, JobTypes DEF RunCommit, JobsTypeOK
    <3>2. CASE run[n].job \in sched
      <4>1. done \in File
        BY JobTypes DEF File, Status
      <4>2. run' = [run EXCEPT ![n] = [at |-> "update", job |-> run[n].job, copy |-> done]]
        BY <1>3, <3>2, JobTypes DEF RunCommit, Run, File
      <4>. HIDE DEF done
      <4>3. [at |-> "update", job |-> run[n].job, copy |-> done] \in Run
        BY <4>1, JobTypes DEF Run, RunSteps
      <4>4. run' \in [Execs -> Run]
        BY <4>2, <4>3, JobTypes
      <4>. QED BY <1>3, <4>4 DEF RunCommit, JobsTypeOK
    <3>. QED BY <1>3, <3>1, <3>2 DEF RunCommit
  <2>. QED BY <1>3, <2>1 DEF RunCommit, JobsTypeOK, OneShot, Run, historyVars
<1>4. ASSUME NEW n \in Execs, RunUpdate(n)
      PROVE  JobsTypeOK'
  <2>1. file' \in [Jobs -> File] /\ writes' \in Nat /\ stale' \subseteq Jobs
    BY <1>4, WriteTypes, JobTypes DEF RunUpdate
  <2>2. run' \in [Execs -> Run] /\ counted' \in [Jobs -> Nat]
    BY <1>4, JobTypes DEF RunUpdate, Run, RunSteps
  <2>. QED BY <1>4, <2>1, <2>2 DEF RunUpdate, JobsTypeOK, OneShot, Run
<1>5. ASSUME NEW n \in Execs, RunRecord(n)
      PROVE  JobsTypeOK'
  <2>1. run' \in [Execs -> Run] /\ runDB' \subseteq Jobs
    BY <1>5, JobConstants, JobTypes DEF RunRecord, JobsTypeOK
  <2>. QED BY <1>5, <2>1 DEF RunRecord, JobsTypeOK, OneShot, Run, historyVars
<1>. QED BY <1>1, <1>2, <1>3, <1>4, <1>5 DEF RunStep

LEMMA SyncTypes ==
    ASSUME JobsTypeOK, SyncStep \/ \E j \in Jobs : TimePasses(j)
    PROVE  JobsTypeOK'
<1>1. /\ UNCHANGED <<file, writes, kind, op, view, run, runDB, ops, runs, counted, stale>>
      /\ sched' \subseteq Jobs /\ past' \subseteq OneShot
  BY DEF SyncStep, SyncCheck, SyncList, SyncListFails, SyncApply, TimePasses, JobsTypeOK, historyVars
<1>2. lastMod' \in [Jobs -> Int]
  <2>1. Fingerprint \in [Jobs -> Int]
    BY DEF Fingerprint, JobsTypeOK, File
  <2>. QED BY <2>1 DEF SyncStep, SyncCheck, SyncList, SyncListFails, SyncApply, TimePasses, JobsTypeOK
<1>3. sync' \in Sync
  <2>1. CASE SyncList
    <3>1. PICK unread \in SUBSET Existing :
              sync' = [at |-> "apply",
                       list |-> [j \in Jobs |-> IF j \in unread THEN NoFile ELSE file[j]],
                       unread |-> unread]
      BY <2>1 DEF SyncList
    <3>2. unread \subseteq Jobs
      BY DEF Existing
    <3>. QED BY <3>1, <3>2, JobConstants, JobTypes DEF Sync
  <2>. QED BY <2>1, JobConstants, JobTypes DEF SyncStep, SyncCheck, SyncListFails, SyncApply, TimePasses, Sync
<1>4. missed' \subseteq Jobs
  BY DEF SyncStep, SyncCheck, SyncList, SyncListFails, SyncApply, TimePasses, JobsTypeOK, historyVars
<1>. QED BY <1>1, <1>2, <1>3, <1>4 DEF JobsTypeOK, OneShot, Sync

-----------------------------------------------------------------------------
(* Counts *)

(* A write with a new token makes every copy older than the file, and the  *)
(* file says what the copy said that was written.                          *)
LEMMA WriteCounts ==
    ASSUME JobsTypeOK, FilesCount, NEW j \in Jobs, NEW job \in File, NEW more \in {0, 1},
           WriteJob(j, job), Copied(j, job, more),
           job.token = 0 => counted[j] = 0 /\ job.count = 0 /\ more = 0,
           counted'[j] = counted[j] + more, \A i \in Jobs : i # j => counted'[i] = counted[i]
    PROVE  /\ FilesCount'
           /\ \A i \in Jobs, copy \in File, m \in {0, 1} : Copied(i, copy, m) => Copied(i, copy, m)'
<1>1. /\ writes' = writes + 1 /\ file'[j].count = job.count /\ file'[j].token = writes + 1
      /\ \A i \in Jobs : i # j => file'[i] = file[i]
      /\ stale' = IF job.token # file[j].token THEN stale \cup {j} ELSE stale
  BY WriteTypes
<1>2. /\ writes \in Nat /\ job.token \in Nat /\ job.count \in Nat
      /\ \A i \in Jobs : /\ file[i].token \in Nat /\ file[i].count \in Nat /\ counted[i] \in Nat
                         /\ file[i].token <= writes
  BY JobTypes DEF File, FilesCount
<1>3. FilesCount'
  <2>1. ASSUME NEW i \in Jobs
        PROVE  /\ file'[i].token <= writes'
               /\ file'[i].token = 0 => file'[i] = NoFile
               /\ file'[i].token # 0 =>
                     /\ file'[i].count <= counted'[i]
                     /\ i \notin stale' => file'[i].count = counted'[i]
    <3>1. CASE i # j
      BY <1>1, <1>2, <3>1 DEF FilesCount
    <3>2. CASE i = j
      <4>1. job.count <= counted[j] + more
        BY DEF Copied
      <4>2. j \notin stale' => job.count = counted[j] + more
        BY <1>1, <1>2, JobConstants DEF Copied, FilesCount
      <4>. QED BY <1>1, <1>2, <3>2, <4>1, <4>2
    <3>. QED BY <3>1, <3>2
  <2>. QED BY <2>1 DEF FilesCount
<1>4. ASSUME NEW i \in Jobs, NEW copy \in File, NEW m \in {0, 1}, Copied(i, copy, m)
      PROVE  /\ copy.token <= writes'
             /\ copy.count <= counted'[i] + m
             /\ copy.token = file'[i].token => copy.count = file'[i].count + m
  <2>1. copy.token \in Nat /\ copy.count \in Nat
    BY DEF File
  <2>. QED BY <1>1, <1>2, <1>4, <2>1 DEF Copied
<1>. QED BY <1>3, <1>4 DEF Copied

(* What a call that is over, or has nothing to write, holds. *)
LEMMA NothingCopied ==
    ASSUME JobsTypeOK, FilesCount, NEW j \in Jobs, NEW copy \in File, copy.token = 0, copy.count = 0
    PROVE  Copied(j, copy, 0)
BY JobTypes, JobConstants DEF Copied, FilesCount

(* What a call or an execution has just read. *)
LEMMA FileCopied ==
    ASSUME JobsTypeOK, FilesCount, NEW j \in Jobs
    PROVE  /\ Copied(j, file[j], 0)
           /\ file[j].token = 0 => file[j].count = 0
           /\ Exists(j) => file[j].token # 0
BY JobTypes, JobConstants DEF Copied, FilesCount, Exists, NoFile

(* The step of a client, and of an execution, if the copies of everybody   *)
(* else stay what they are.                                                *)
LEMMA CallStep ==
    ASSUME CallCopies, NEW c \in Clients,
           \A d \in Clients : d # c => op'[d] = op[d],
           \A d \in Clients : d # c => Copied(op[d].job, op[d].copy, 0)',
           Copied(op[c].job, op[c].copy, 0)',
           op'[c].copy.token = 0 => op'[c].copy.count = 0,
           op'[c].at \in WriteSteps => op'[c].copy.token # 0
    PROVE  CallCopies'
BY DEF CallCopies

LEMMA BeginCounts ==
    ASSUME JobsInv, NEW c \in Clients, NEW j \in Jobs, Begin(c, j)
    PROVE  FilesCount' /\ CallCopies' /\ RunCopies'
<1>. DEFINE new == [status |-> "active", token |-> 0, count |-> 0]
<1>0. JobsTypeOK /\ FilesCount /\ CallCopies /\ RunCopies
  BY DEF JobsInv
<1>1. UNCHANGED <<file, writes, run, counted, stale>>
  BY DEF Begin, AddJob, ListJobs, RemoveJob, PauseJob, ResumeJob, historyVars
<1>2. new \in File /\ NoFile \in File /\ file[j] \in File
  BY <1>0, JobConstants, JobTypes DEF File, Status
<1>3. \/ Call(c, "addCreate", j, new) \/ Call(c, "rmCheck", j, NoFile)
      \/ Exists(j) /\ \E step \in WriteSteps : Call(c, step, j, file[j])
  BY DEF Begin, AddJob, ListJobs, RemoveJob, PauseJob, ResumeJob, WriteSteps, ReadOK
<1>4. PICK step \in OpSteps, copy \in File :
          /\ Call(c, step, j, copy)
          /\ Copied(j, copy, 0) /\ (copy.token = 0 => copy.count = 0)
          /\ step \in WriteSteps => copy.token # 0
  <2>1. Copied(j, new, 0) /\ Copied(j, NoFile, 0)
    BY <1>0, <1>2, NothingCopied, JobConstants
  <2>2. {"addCreate", "rmCheck"} \subseteq OpSteps \ WriteSteps /\ WriteSteps \subseteq OpSteps
    BY DEF OpSteps, WriteSteps
  <2>. QED BY <1>0, <1>2, <1>3, <2>1, <2>2, FileCopied, JobConstants
<1>5. /\ \A d \in Clients : d # c => op'[d] = op[d]
      /\ op'[c].at = step /\ op'[c].job = j /\ op'[c].copy = copy
  BY <1>0, <1>4, CallTypes
<1>6. FilesCount'
  BY <1>0, <1>1 DEF FilesCount
<1>7. CallCopies'
  BY <1>0, <1>1, <1>4, <1>5, CallStep DEF CallCopies, Copied
<1>8. RunCopies'
  BY <1>0, <1>1 DEF RunCopies, Copied
<1>. QED BY <1>6, <1>7, <1>8

(* A call that writes a file writes what it has read; the file of a new    *)
(* job, for the first time.                                                *)
LEMMA ProceedCounts ==
    ASSUME JobsInv, NEW c \in Clients, Proceed(c)
    PROVE  FilesCount' /\ CallCopies' /\ RunCopies'
<1>. DEFINE j == op[c].job
            copy == op[c].copy
<1>0. JobsTypeOK /\ FilesCount /\ CallCopies /\ RunCopies /\ j \in Jobs /\ copy \in File /\ JobsTypeOK'
  BY JobTypes, ProceedTypes DEF JobsInv
<1>1. UNCHANGED <<run, counted>> /\ Copied(j, copy, 0) /\ (copy.token = 0 => copy.count = 0)
  BY <1>0 DEF CallCopies, Proceed, AddCreate, AddSchedule, AddUpdate, ListWrite, RemoveCheck, RemoveDelete,
     RemoveCleanup, PauseUnschedule, PauseUpdate, ResumeSchedule, ResumeUpdate, historyVars
<1>2. ASSUME NEW job \in File, WriteJob(j, job), job.token = copy.token, job.count = copy.count,
             copy.token = 0 => counted[j] = 0,
             \A d \in Clients : d # c => op'[d] = op[d],
             \/ op'[c] = IdleOp
             \/ op'[c].job = j /\ op'[c].copy.token = writes' /\ op'[c].copy.count = copy.count
      PROVE  FilesCount' /\ CallCopies' /\ RunCopies'
  <2>1. Copied(j, job, 0)
    BY <1>1, <1>2 DEF Copied
  <2>2. /\ FilesCount'
        /\ \A i \in Jobs, k \in File, m \in {0, 1} : Copied(i, k, m) => Copied(i, k, m)'
    <3>1. counted'[j] = counted[j] + 0 /\ \A i \in Jobs : i # j => counted'[i] = counted[i]
      BY <1>0, <1>1, JobTypes
    <3>. QED BY <1>0, <1>1, <1>2, <2>1, <3>1, WriteCounts
  <2>3. /\ file'[j].token = writes' /\ file'[j].count = copy.count /\ writes' # 0 /\ writes' \in Nat
        /\ file'[j].count <= counted'[j]
    <3>1. file'[j].token = writes' /\ file'[j].count = copy.count /\ writes' = writes + 1
      BY <1>0, <1>2, WriteTypes
    <3>2. writes' # 0 /\ writes' \in Nat
      BY <1>0, <3>1, JobTypes
    <3>. QED BY <1>0, <2>2, <3>1, <3>2 DEF FilesCount
  <2>4. /\ Copied(op[c].job, op[c].copy, 0)'
        /\ op'[c].copy.token = 0 => op'[c].copy.count = 0
        /\ op'[c].at \in WriteSteps => op'[c].copy.token # 0
    <3>1. CASE op'[c] = IdleOp
      <4>1. IdleOp.job \in Jobs /\ IdleOp.copy = NoFile /\ IdleOp.at \notin WriteSteps
        BY JobConstants DEF Op, WriteSteps
      <4>2. Copied(IdleOp.job, NoFile, 0)'
        BY <1>0, <2>2, <4>1, NothingCopied, JobConstants
      <4>. QED BY <3>1, <4>1, <4>2, JobConstants
    <3>2. CASE op'[c] # IdleOp
      <4>1. /\ op'[c].job = j /\ op'[c].copy.token = writes'
            /\ op'[c].copy.count = file'[j].count
        BY <1>2, <2>3, <3>2
      <4>2. counted'[j] \in Nat /\ file'[j].count \in Nat
        BY <1>0 DEF JobsTypeOK, File
      <4>3. op'[c].copy.token <= writes' /\ op'[c].copy.count = file'[j].count + 0
            /\ op'[c].copy.count <= counted'[j] + 0
        BY <2>3, <4>1, <4>2
      <4>. QED BY <1>2, <2>3, <3>2, <4>1, <4>3 DEF Copied
    <3>. QED BY <3>1, <3>2
  <2>5. \A d \in Clients : d # c => Copied(op[d].job, op[d].copy, 0)'
    BY <1>0, <1>2, <2>2, JobTypes DEF CallCopies, Copied
  <2>6. RunCopies'
    <3>1. ASSUME NEW n \in Execs
          PROVE  /\ run[n].at = "commit" => Copied(run[n].job, run[n].copy, 0)'
                 /\ run[n].at = "update" => Copied(run[n].job, run[n].copy, 1)'
      BY <1>0, <1>1, <2>2, JobTypes DEF RunCopies, Copied
    <3>. QED BY <1>0, <1>1, <3>1 DEF RunCopies
  <2>7. CallCopies'
    BY <1>0, <1>2, <2>4, <2>5, CallStep
  <2>. QED BY <2>2, <2>6, <2>7
<1>3. CASE AddCreate(c)
  <2>1. op[c].at = "addCreate" /\ counted[j] = 0
    BY <1>0, <1>3 DEF AddCreate, At, JobsInv, NewJobs, Creates, Unknown
  <2>2. writes' \in Nat
    BY <1>0 DEF JobsTypeOK
  <2>3. /\ \A d \in Clients : d # c => op'[d] = op[d]
        /\ \/ op'[c] = IdleOp
           \/ op'[c].job = j /\ op'[c].copy.token = writes' /\ op'[c].copy.count = copy.count
    BY <1>0, <1>3, <2>2, CallTypes, CreatedTypes DEF AddCreate
  <2>. QED BY <1>0, <1>2, <1>3, <2>1, <2>3 DEF AddCreate
<1>4. CASE AddUpdate(c) \/ ListWrite(c) \/ PauseUpdate(c) \/ ResumeUpdate(c)
  <2>1. Return(c) /\ copy.token # 0
    BY <1>0, <1>4 DEF AddUpdate, ListWrite, PauseUpdate, ResumeUpdate, At, CallCopies, WriteSteps
  <2>2. (\A d \in Clients : d # c => op'[d] = op[d]) /\ op'[c] = IdleOp
    BY <1>0, <2>1, CallTypes
  <2>3. PICK job \in File : WriteJob(j, job) /\ job.token = copy.token /\ job.count = copy.count
    <3>1. \A s \in Status : /\ [copy EXCEPT !.status = s] \in File
                             /\ [copy EXCEPT !.status = s].token = copy.token
                             /\ [copy EXCEPT !.status = s].count = copy.count
      BY <1>0 DEF File
    <3>2. {"paused", "active"} \subseteq Status
      BY DEF Status
    <3>. QED BY <1>0, <1>4, <3>1, <3>2 DEF AddUpdate, ListWrite, PauseUpdate, ResumeUpdate
  <2>. QED BY <1>2, <2>1, <2>2, <2>3
<1>5. CASE RemoveDelete(c)
  <2>1. /\ file' = [file EXCEPT ![j] = NoFile] /\ UNCHANGED <<writes, counted, stale>>
        /\ Goto(c, "rmCleanup") /\ "rmCleanup" \in OpSteps \ WriteSteps
    BY <1>5 DEF RemoveDelete, historyVars, OpSteps, WriteSteps
  <2>2. FilesCount'
    BY <1>0, <2>1, JobTypes, JobConstants DEF FilesCount
  <2>3. /\ \A d \in Clients : d # c => op'[d] = op[d]
        /\ op'[c].at = "rmCleanup" /\ op'[c].job = op[c].job /\ op'[c].copy = op[c].copy
    BY <1>0, <2>1, CallTypes
  <2>4. ASSUME NEW i \in Jobs, NEW k \in File, NEW m \in {0, 1}, Copied(i, k, m),
               k.token = 0 => k.count = 0 /\ m = 0
        PROVE  Copied(i, k, m)'
    BY <1>0, <2>1, <2>4, JobTypes, JobConstants DEF Copied, File
  <2>5. \A d \in Clients : Copied(op[d].job, op[d].copy, 0)'
    BY <1>0, <2>3, <2>4, JobTypes DEF CallCopies, Copied
  <2>6. RunCopies'
    <3>1. ASSUME NEW n \in Execs
          PROVE  /\ run[n].at = "commit" => Copied(run[n].job, run[n].copy, 0)'
                 /\ run[n].at = "update" => Copied(run[n].job, run[n].copy, 1)'
      BY <1>0, <1>1, <2>4, JobTypes DEF RunCopies, Copied
    <3>. QED BY <1>0, <1>1, <3>1 DEF RunCopies
  <2>7. CallCopies'
    BY <1>0, <1>1, <2>1, <2>3, <2>5, CallStep
  <2>. QED BY <2>2, <2>6, <2>7
<1>6. CASE AddSchedule(c) \/ RemoveCheck(c) \/ RemoveCleanup(c) \/ PauseUnschedule(c) \/ ResumeSchedule(c)
  <2>1. UNCHANGED <<file, writes, counted, stale>>
    BY <1>6 DEF AddSchedule, RemoveCheck, RemoveCleanup, PauseUnschedule, ResumeSchedule, historyVars
  <2>2. \/ Return(c) \/ Goto(c, "rmDelete")
        \/ op[c].at \in WriteSteps /\ (Goto(c, "addUpdate") \/ Goto(c, "psUpdate") \/ Goto(c, "rsUpdate"))
    BY <1>6 DEF AddSchedule, RemoveCheck, RemoveCleanup, PauseUnschedule, ResumeSchedule, At, WriteSteps
  <2>3. {"rmDelete", "addUpdate", "psUpdate", "rsUpdate"} \subseteq OpSteps /\ "rmDelete" \notin WriteSteps
    BY DEF OpSteps, WriteSteps
  <2>4. /\ \A d \in Clients : d # c => op'[d] = op[d]
        /\ \/ op'[c] = IdleOp
           \/ /\ op'[c].job = j /\ op'[c].copy = copy
              /\ op'[c].at \in WriteSteps => op[c].at \in WriteSteps
    BY <1>0, <2>2, <2>3, CallTypes
  <2>5. FilesCount'
    BY <1>0, <2>1 DEF FilesCount
  <2>6. /\ Copied(op[c].job, op[c].copy, 0)'
        /\ op'[c].copy.token = 0 => op'[c].copy.count = 0
        /\ op'[c].at \in WriteSteps => op'[c].copy.token # 0
    <3>1. CASE op'[c] = IdleOp
      <4>1. IdleOp.job \in Jobs /\ IdleOp.copy = NoFile /\ IdleOp.at \notin WriteSteps
        BY JobConstants DEF Op, WriteSteps
      <4>2. Copied(IdleOp.job, NoFile, 0)'
        BY <1>0, <2>1, <2>5, <4>1, JobTypes, JobConstants DEF Copied, FilesCount
      <4>. QED BY <3>1, <4>1, <4>2, JobConstants
    <3>2. CASE op'[c] # IdleOp
      BY <1>0, <1>1, <2>1, <2>4, <3>2 DEF CallCopies, Copied
    <3>. QED BY <3>1, <3>2
  <2>7. \A d \in Clients : d # c => Copied(op[d].job, op[d].copy, 0)'
    BY <1>0, <2>1, <2>4 DEF CallCopies, Copied
  <2>8. RunCopies'
    BY <1>0, <1>1, <2>1 DEF RunCopies, Copied
  <2>9. CallCopies'
    BY <1>0, <2>4, <2>6, <2>7, CallStep
  <2>. QED BY <2>5, <2>8, <2>9
<1>. QED BY <1>3, <1>4, <1>5, <1>6 DEF Proceed


LEMMA RunCounts ==
    ASSUME JobsInv, (\E n \in Execs : RunStep(n)) \/ (\E j \in Jobs : RunJob(j))
    PROVE  FilesCount' /\ CallCopies' /\ RunCopies'
<1>0. JobsTypeOK /\ FilesCount /\ CallCopies /\ RunCopies
  BY DEF JobsInv
<1>1. ASSUME NEW n \in Nat, NEW x \in Run, UNCHANGED <<file, writes, op, counted, stale>>,
             run' = [run EXCEPT ![n] = x],
             x.at \in {"commit", "update"} => x.copy.token # 0,
             x.at = "commit" => Copied(x.job, x.copy, 0),
             x.at = "update" => Copied(x.job, x.copy, 1)
      PROVE  FilesCount' /\ CallCopies' /\ RunCopies'
  <2>1. FilesCount' /\ CallCopies'
    BY <1>0, <1>1 DEF FilesCount, CallCopies, Copied
  <2>2. \A m \in Execs : run'[m] = IF m = n THEN x ELSE run[m]
    BY <1>0, <1>1, JobTypes
  <2>3. RunCopies'
    BY <1>0, <1>1, <2>2 DEF RunCopies, Copied
  <2>. QED BY <2>1, <2>3
<1>2. ASSUME NEW j \in Jobs, RunJob(j)
      PROVE  FilesCount' /\ CallCopies' /\ RunCopies'
  <2>. DEFINE x == [at |-> "execute", job |-> j, copy |-> NoFile]
  <2>1. x \in Run /\ runs + 1 \in Nat
    BY <1>0, JobConstants DEF Run, RunSteps, JobsTypeOK
  <2>2. UNCHANGED <<file, writes, op, counted, stale>> /\ run' = [run EXCEPT ![runs + 1] = x]
    BY <1>2 DEF RunJob, historyVars
  <2>. QED BY <1>1, <2>1, <2>2
<1>3. ASSUME NEW n \in Execs, RunExecute(n) \/ RunCommit(n) \/ RunRecord(n)
      PROVE  FilesCount' /\ CallCopies' /\ RunCopies'
  <2>. DEFINE done == [status |-> IF run[n].job \in OneShot THEN "completed" ELSE run[n].copy.status,
                       token |-> run[n].copy.token, count |-> run[n].copy.count + 1]
              wrote == [at |-> "update", job |-> run[n].job, copy |-> done]
  <2>0. UNCHANGED <<file, writes, op, counted, stale>> /\ n \in Nat
    BY <1>3 DEF RunExecute, RunCommit, RunRecord, historyVars, Execs
  <2>1. CASE run' = [run EXCEPT ![n] = IdleRun]
    BY <1>1, <2>0, <2>1, JobConstants
  <2>2. CASE Exists(run[n].job) /\ run' = [run EXCEPT ![n].at = "commit", ![n].copy = file[run[n].job]]
    <3>1. /\ run'[n].at = "commit" /\ run'[n].job = run[n].job /\ run'[n].copy = file[run[n].job]
          /\ \A m \in Execs : m # n => run'[m] = run[m]
      BY <1>0, <2>2, JobTypes DEF Run
    <3>2. file[run[n].job].token # 0 /\ Copied(run[n].job, file[run[n].job], 0)
      BY <1>0, <2>2, JobTypes, FileCopied
    <3>3. FilesCount' /\ CallCopies'
      BY <1>0, <2>0 DEF FilesCount, CallCopies, Copied
    <3>4. RunCopies'
      BY <1>0, <2>0, <3>1, <3>2 DEF RunCopies, Copied
    <3>. QED BY <3>3, <3>4
  <2>3. CASE RunCommit(n) /\ run[n].job \in sched
    <3>1. done \in File /\ done.token = run[n].copy.token /\ done.count = run[n].copy.count + 1
      BY <1>0, JobTypes DEF File, Status
    <3>2. run' = [run EXCEPT ![n] = wrote]
      BY <1>0, <2>3, JobTypes DEF RunCommit, Run, File
    <3>3. run[n].copy.token # 0 /\ Copied(run[n].job, run[n].copy, 0)
      BY <1>0, <2>3 DEF RunCommit, RunCopies
    <3>. HIDE DEF done
    <3>4. wrote \in Run
      BY <1>0, <3>1, JobTypes DEF Run, RunSteps
    <3>5. Copied(run[n].job, done, 1)
      BY <1>0, <3>1, <3>3, JobTypes DEF Copied
    <3>. QED BY <1>1, <2>0, <3>1, <3>2, <3>3, <3>4, <3>5
  <2>4. CASE RunRecord(n)
    BY <2>1, <2>4 DEF RunRecord
  <2>. QED BY <1>3, <2>1, <2>2, <2>3, <2>4 DEF RunExecute, RunCommit
<1>4. ASSUME NEW n \in Execs, RunUpdate(n)
      PROVE  FilesCount' /\ CallCopies' /\ RunCopies'
  <2>. DEFINE j == run[n].job
              copy == run[n].copy
  <2>1. /\ WriteJob(j, copy) /\ counted' = [counted EXCEPT ![j] = @ + 1] /\ UNCHANGED op
        /\ run' = [run EXCEPT ![n].at = "record"] /\ j \in Jobs /\ copy \in File
        /\ copy.token # 0 /\ Copied(j, copy, 1)
    BY <1>0, <1>4, JobTypes DEF RunUpdate, RunCopies
  <2>2. /\ FilesCount'
        /\ \A i \in Jobs, k \in File, m \in {0, 1} : Copied(i, k, m) => Copied(i, k, m)'
    <3>1. counted'[j] = counted[j] + 1 /\ \A i \in Jobs : i # j => counted'[i] = counted[i]
      BY <1>0, <2>1, JobTypes
    <3>. QED BY <1>0, <2>1, <3>1, WriteCounts
  <2>3. CallCopies'
    BY <1>0, <2>1, <2>2, JobTypes DEF CallCopies, Copied
  <2>4. RunCopies'
    <3>1. \A m \in Execs : IF m = n THEN run'[m].at = "record" ELSE run'[m] = run[m]
      BY <1>0, <2>1, JobTypes
    <3>2. ASSUME NEW m \in Execs
          PROVE  /\ run[m].at = "commit" => Copied(run[m].job, run[m].copy, 0)'
                 /\ run[m].at = "update" /\ m # n => Copied(run[m].job, run[m].copy, 1)'
      <4>1. CASE m = n
        BY <1>4, <4>1 DEF RunUpdate
      <4>2. CASE m # n
        <5>1. run'[m] = run[m] /\ run[m].job \in Jobs /\ run[m].copy \in File
          BY <1>0, <3>1, <4>2, JobTypes
        <5>2. /\ run[m].at = "commit" => Copied(run[m].job, run[m].copy, 0)
              /\ run[m].at = "update" => Copied(run[m].job, run[m].copy, 1)
          BY <1>0 DEF RunCopies
        <5>. QED BY <2>2, <5>1, <5>2 DEF Copied
      <4>. QED BY <4>1, <4>2
    <3>. QED BY <1>0, <3>1, <3>2 DEF RunCopies
  <2>. QED BY <2>2, <2>3, <2>4
<1>. QED BY <1>2, <1>3, <1>4 DEF RunStep

LEMMA SyncCounts ==
    ASSUME JobsInv, SyncStep \/ \E j \in Jobs : TimePasses(j)
    PROVE  FilesCount' /\ CallCopies' /\ RunCopies'
<1>1. UNCHANGED <<file, writes, op, run, counted, stale>>
  BY DEF SyncStep, SyncCheck, SyncList, SyncListFails, SyncApply, TimePasses, historyVars
<1>. QED BY <1>1 DEF JobsInv, FilesCount, CallCopies, RunCopies, Copied

-----------------------------------------------------------------------------
(* New jobs *)

(* What does not touch the files, the counts and the calls, and gives an   *)
(* entry, an execution or a place in a scan only to jobs that are known.   *)
LEMMA NewJobsStay ==
    ASSUME JobsTypeOK, NewJobs, UNCHANGED <<file, counted, op, view, kind>>,
           \A j \in Jobs : Unknown(j) =>
               /\ j \notin sched' /\ sync'.list[j] = NoFile
               /\ \A n \in Execs : run'[n].job = j => run'[n].at = "idle"
    PROVE  NewJobs'
BY DEF NewJobs, Unknown, Creates

LEMMA BeginNew ==
    ASSUME JobsInv, NEW c \in Clients, NEW j \in Jobs, Begin(c, j)
    PROVE  NewJobs'
<1>0. JobsTypeOK /\ NewJobs
  BY DEF JobsInv
<1>1. UNCHANGED <<file, sync, view, run, counted>> /\ sched' \subseteq sched
  BY DEF Begin, AddJob, ListJobs, RemoveJob, PauseJob, ResumeJob, historyVars, Unschedule
<1>2. CASE AddJob(c, j)
  <2>1. /\ kind[j] = "none" /\ Call(c, "addCreate", j, [status |-> "active", token |-> 0, count |-> 0])
        /\ \E k \in Kinds : kind' = [kind EXCEPT ![j] = k]
    BY <1>2 DEF AddJob
  <2>2. [status |-> "active", token |-> 0, count |-> 0] \in File /\ "addCreate" \in OpSteps
    BY DEF File, Status, OpSteps
  <2>3. /\ \A d \in Clients : d # c => op'[d] = op[d]
        /\ op'[c].at = "addCreate" /\ op'[c].job = j
    BY <1>0, <2>1, <2>2, CallTypes
  <2>4. kind'[j] # "none" /\ \A i \in Jobs : i # j => kind'[i] = kind[i]
    BY <1>0, <2>1 DEF JobsTypeOK, Kinds
  <2>5. Unknown(j) /\ \A d \in Clients : ~Creates(d, j)
    BY <1>0, <2>1 DEF NewJobs
  <2>6. ASSUME NEW i \in Jobs, kind'[i] = "none" \/ \E d \in Clients : Creates(d, i)'
        PROVE  Unknown(i)'
    <3>1. Unknown(i)
      BY <1>0, <2>3, <2>4, <2>5, <2>6 DEF NewJobs, Creates
    <3>. QED BY <1>1, <2>3, <3>1 DEF Unknown
  <2>. QED BY <1>0, <2>3, <2>4, <2>5, <2>6 DEF NewJobs, Creates
<1>3. CASE ~AddJob(c, j)
  <2>1. /\ kind' = kind /\ (Exists(j) \/ view[c][j] # 0)
        /\ \E step \in OpSteps \ {"addCreate"}, copy \in File : Call(c, step, j, copy)
    <3>1. {"listWrite", "rmCheck", "psUnschedule", "rsSchedule"} \subseteq OpSteps \ {"addCreate"}
      BY DEF OpSteps
    <3>. QED BY <1>0, <1>3, <3>1, JobTypes, JobConstants
         DEF Begin, ListJobs, RemoveJob, PauseJob, ResumeJob
  <2>2. /\ \A d \in Clients : d # c => op'[d] = op[d]
        /\ op'[c].at # "addCreate" /\ op'[c].job = j
    BY <1>0, <2>1, CallTypes
  <2>3. ~Unknown(j)
    BY <2>1 DEF Unknown, Exists, NoFile
  <2>4. ASSUME NEW i \in Jobs, kind'[i] = "none" \/ \E d \in Clients : Creates(d, i)'
        PROVE  Unknown(i)'
    <3>1. Unknown(i)
      BY <1>0, <2>1, <2>2, <2>4 DEF NewJobs, Creates
    <3>. QED BY <1>1, <2>2, <2>3, <3>1 DEF Unknown
  <2>. QED BY <1>0, <2>1, <2>2, <2>4 DEF NewJobs, Creates
<1>. QED BY <1>2, <1>3

LEMMA ProceedNew ==
    ASSUME JobsInv, NEW c \in Clients, Proceed(c)
    PROVE  NewJobs'
<1>. DEFINE j == op[c].job
<1>0. JobsTypeOK /\ NewJobs /\ j \in Jobs /\ JobsTypeOK' /\ op[c].at # "idle"
  BY JobTypes, ProceedTypes DEF JobsInv, Proceed, AddCreate, AddSchedule, AddUpdate, ListWrite,
     RemoveCheck, RemoveDelete, RemoveCleanup, PauseUnschedule, PauseUpdate, ResumeSchedule,
     ResumeUpdate, At
<1>1. /\ UNCHANGED <<kind, sync, run, counted>> /\ sched' \subseteq sched \cup {j}
      /\ view' = view \/ view' = [view EXCEPT ![c][j] = writes']
      /\ sched' # sched => op[c].at # "addCreate"
  BY DEF Proceed, AddCreate, AddSchedule, AddUpdate, ListWrite, RemoveCheck,
     RemoveDelete, RemoveCleanup, PauseUnschedule, PauseUpdate, ResumeSchedule, ResumeUpdate,
     Unschedule, At, historyVars
<1>2. /\ \A d \in Clients : d # c => op'[d] = op[d]
      /\ op'[c].at # "addCreate" /\ (op'[c].job = j \/ op'[c].at = "idle")
  <2>1. {"addSchedule", "addUpdate", "rmDelete", "rmCleanup", "psUpdate", "rsUpdate"} \subseteq OpSteps
    BY DEF OpSteps
  <2>2. CASE AddCreate(c)
    BY <1>0, <2>2, CallTypes, CreatedTypes, JobConstants DEF AddCreate, JobsTypeOK
  <2>. QED BY <1>0, <2>1, <2>2, CallTypes, JobConstants DEF Proceed, AddSchedule, AddUpdate, ListWrite,
       RemoveCheck, RemoveDelete, RemoveCleanup, PauseUnschedule, PauseUpdate, ResumeSchedule, ResumeUpdate
<1>3. \A i \in Jobs : i # j => file'[i] = file[i] /\ \A d \in Clients : view'[d][i] = view[d][i]
  <2>1. ASSUME NEW i \in Jobs, NEW d \in Clients, i # j
        PROVE  view'[d][i] = view[d][i]
    <3>1. view \in [Clients -> [Jobs -> Nat]] /\ view[d] \in [Jobs -> Nat] /\ view[c] \in [Jobs -> Nat]
      BY <1>0 DEF JobsTypeOK
    <3>2. CASE view' = [view EXCEPT ![c][j] = writes']
      <4>1. view'[d] = IF d = c THEN [view[c] EXCEPT ![j] = writes'] ELSE view[d]
        BY <3>1, <3>2
      <4>. QED BY <2>1, <3>1, <4>1
    <3>. QED BY <1>1, <3>2
  <2>2. \A i \in Jobs : i # j => file'[i] = file[i]
    BY <1>0, JobTypes DEF Proceed, AddCreate, AddSchedule, AddUpdate, ListWrite,
       RemoveCheck, RemoveDelete, RemoveCleanup, PauseUnschedule, PauseUpdate, ResumeSchedule,
       ResumeUpdate, WriteJob
  <2>. QED BY <2>1, <2>2
<1>4. ASSUME NEW i \in Jobs, kind'[i] = "none" \/ \E d \in Clients : Creates(d, i)'
      PROVE  Unknown(i)' /\ i # j
  <2>1. Unknown(i)
    BY <1>0, <1>1, <1>2, <1>4 DEF NewJobs, Creates
  <2>2. i # j
    <3>1. CASE op[c].at # "addCreate"
      BY <1>0, <2>1, <3>1 DEF Unknown
    <3>2. CASE op[c].at = "addCreate"
      BY <1>0, <1>1, <1>2, <1>4, <3>2 DEF NewJobs, Creates
    <3>. QED BY <3>1, <3>2
  <2>. QED BY <1>0, <1>1, <1>2, <1>3, <2>1, <2>2 DEF Unknown
<1>. QED BY <1>0, <1>1, <1>2, <1>4 DEF NewJobs, Creates

LEMMA RunNew ==
    ASSUME JobsInv, (\E n \in Execs : RunStep(n)) \/ (\E j \in Jobs : RunJob(j))
    PROVE  NewJobs'
<1>0. JobsTypeOK /\ NewJobs
  BY DEF JobsInv
<1>1. ASSUME NEW j \in Jobs, RunJob(j)
      PROVE  NewJobs'
  <2>1. j \in sched /\ UNCHANGED <<file, counted, op, view, kind, sched, sync>>
        /\ run' = [run EXCEPT ![runs + 1] = [at |-> "execute", job |-> j, copy |-> NoFile]]
    BY <1>1 DEF RunJob, historyVars
  <2>2. \A n \in Execs : run'[n] = run[n] \/ run'[n].job = j
    BY <1>0, <2>1, JobTypes
  <2>. QED BY <1>0, <2>1, <2>2, NewJobsStay DEF Unknown
<1>2. ASSUME NEW n \in Execs, RunExecute(n) \/ RunCommit(n) \/ RunRecord(n)
      PROVE  NewJobs'
  <2>1. UNCHANGED <<file, counted, op, view, kind, sync>> /\ sched' \subseteq sched /\ run[n].at # "idle"
    BY <1>2 DEF RunExecute, RunCommit, RunRecord, historyVars
  <2>2. \A m \in Execs : run'[m] = run[m] \/ (m = n /\ (run'[m] = IdleRun \/ run'[m].job = run[m].job))
    BY <1>0, <1>2, JobTypes DEF RunExecute, RunCommit, RunRecord, Run
  <2>. QED BY <1>0, <2>1, <2>2, NewJobsStay, JobConstants DEF Unknown
<1>3. ASSUME NEW n \in Execs, RunUpdate(n)
      PROVE  NewJobs'
  <2>. DEFINE j == run[n].job
  <2>1. /\ run[n].at = "update" /\ j \in Jobs /\ WriteJob(j, run[n].copy)
        /\ counted' = [counted EXCEPT ![j] = @ + 1] /\ run' = [run EXCEPT ![n].at = "record"]
        /\ UNCHANGED <<op, view, kind, sched, sync>>
    BY <1>0, <1>3, JobTypes DEF RunUpdate
  <2>2. ~Unknown(j)
    BY <2>1 DEF Unknown
  <2>3. /\ \A i \in Jobs : i # j => file'[i] = file[i] /\ counted'[i] = counted[i]
        /\ \A m \in Execs : run'[m] = run[m] \/ run'[m].job = j
    BY <1>0, <2>1, JobTypes DEF WriteJob, Run
  <2>4. \A i \in Jobs : Unknown(i) => Unknown(i)'
    BY <2>1, <2>2, <2>3 DEF Unknown
  <2>. QED BY <1>0, <2>1, <2>4 DEF NewJobs, Creates
<1>. QED BY <1>1, <1>2, <1>3 DEF RunStep

LEMMA SyncNew ==
    ASSUME JobsInv, SyncStep \/ \E j \in Jobs : TimePasses(j)
    PROVE  NewJobs'
<1>0. JobsTypeOK /\ NewJobs
  BY DEF JobsInv
<1>1. UNCHANGED <<file, counted, op, view, kind, run>>
  BY DEF SyncStep, SyncCheck, SyncList, SyncListFails, SyncApply, TimePasses, historyVars
<1>2. ASSUME NEW j \in Jobs, Unknown(j)
      PROVE  sync'.list[j] = NoFile
  <2>1. CASE SyncList
    BY <1>2, <2>1 DEF SyncList, Unknown
  <2>2. CASE SyncCheck
    BY <1>0, <1>2, <2>2, JobTypes DEF SyncCheck, Unknown, Sync
  <2>. QED BY <1>2, <2>1, <2>2, JobConstants DEF SyncStep, SyncListFails, SyncApply, TimePasses, Unknown
<1>3. ASSUME NEW j \in Jobs, Unknown(j)
      PROVE  j \notin sched'
  BY <1>3 DEF SyncStep, SyncCheck, SyncList, SyncListFails, SyncApply, TimePasses, Unknown, NoFile
<1>. QED BY <1>0, <1>1, <1>2, <1>3, NewJobsStay DEF Unknown

-----------------------------------------------------------------------------
LEMMA JobsStepInv == JobsInv /\ [JobsNext]_jobsVars => JobsInv'
<1>. SUFFICES ASSUME JobsInv, [JobsNext]_jobsVars PROVE JobsInv'
  OBVIOUS
<1>1. CASE UNCHANGED jobsVars
  BY <1>1 DEF jobsVars, historyVars, JobsInv, JobsTypeOK, FilesCount, CallCopies, RunCopies, Copied,
     NewJobs, Unknown, Creates, OneShot
<1>2. ASSUME NEW c \in Clients, Proceed(c) \/ \E j \in Jobs : Begin(c, j)
      PROVE  JobsInv'
  BY <1>2, BeginTypes, ProceedTypes, BeginCounts, ProceedCounts, BeginNew, ProceedNew DEF JobsInv
<1>3. CASE (\E n \in Execs : RunStep(n)) \/ (\E j \in Jobs : RunJob(j))
  BY <1>3, RunTypes, RunCounts, RunNew DEF JobsInv
<1>4. CASE SyncStep \/ \E j \in Jobs : TimePasses(j)
  BY <1>4, SyncTypes, SyncCounts, SyncNew DEF JobsInv
<1>. QED BY <1>1, <1>2, <1>3, <1>4 DEF JobsNext

(* The invariant of the jobs: types, and what files, copies and new jobs   *)
(* say of the counts, with any number of executions in progress.           *)
THEOREM JobsInvariant == JobsSpec => []JobsInv
BY JobsInitInv, JobsStepInv, PTL DEF JobsSpec

(* The run count in a file never claims more executions than were written  *)
(* back, and is exact unless a copy older than the file was written.       *)
THEOREM RunCountsAddUp == JobsSpec => []CountsAddUp
<1>1. ASSUME JobsInv
      PROVE  CountsAddUp
  <2>1. \A j \in Jobs : Exists(j) => file[j].token # 0
    BY <1>1 DEF JobsInv, FilesCount, Exists, NoFile
  <2>. QED BY <1>1, <2>1 DEF JobsInv, FilesCount, CountsAddUp
<1>. QED BY <1>1, JobsInvariant, PTL

-----------------------------------------------------------------------------
(* Both parts together *)

ServiceInv == LeaderInv /\ JobsInv

LEMMA ServiceStepInv ==
    ServiceInv /\ [LeadershipPart \/ JobsPart]_serviceVars => ServiceInv'
<1>1. LeaderInv /\ [Next]_leaderVars => LeaderInv'
  BY TypeStep, BookkeepingStep, FreshStep, LeaderLockInv, NextIsLockStep, LockStepKeepsInv
  DEF LeaderInv, LockInv
<1>2. LeadershipPart => [Next]_leaderVars /\ [JobsNext]_jobsVars
  BY DEF LeadershipPart
<1>3. JobsPart => [Next]_leaderVars /\ [JobsNext]_jobsVars
  BY DEF JobsPart
<1>4. UNCHANGED serviceVars => [Next]_leaderVars /\ [JobsNext]_jobsVars
  BY DEF serviceVars
<1>. QED BY <1>1, <1>2, <1>3, <1>4, JobsStepInv DEF ServiceInv

(* The variables of leadership and jobs keep their types. *)
THEOREM ServiceTypes == ServiceSpec => []ServiceTypeOK
<1>1. ServiceInit => ServiceInv
  BY LeaderInitInv, JobsInitInv DEF ServiceInit, ServiceInv
<1>2. ServiceInv => ServiceTypeOK
  BY DEF ServiceInv, LeaderInv, JobsInv, ServiceTypeOK
<1>. QED BY <1>1, <1>2, ServiceStepInv, PTL DEF ServiceSpec
=============================================================================
