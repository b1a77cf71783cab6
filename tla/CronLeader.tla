----------------------------- MODULE CronLeader -----------------------------
(***************************************************************************)
(* Leadership of the cron scheduler: several cobot processes, each with a  *)
(* Scheduler (internal/cron/scheduler.go, leader.go), compete for the      *)
(* lease kept in the lock table (BrokerLock).  A process runs Start, its   *)
(* renewLeaseLoop, its robfig/cron instance with the jobs it has in        *)
(* flight, and Stop, all concurrently; it may crash at any point.          *)
(*                                                                         *)
(* A process is one holder id (NewScheduler draws a fresh uuid), so a      *)
(* restarted process is another member of Holders.  What is scheduled is   *)
(* the business of CronJobs.                                               *)
(***************************************************************************)
EXTENDS BrokerLock, FiniteSets

CONSTANTS
    RenewInterval,   \* leaseRenewInterval, in units of the clock
    MaxStall,        \* how late a tick of the renew loop may be handled
    MaxInflight,     \* jobs in flight in one process (bound)
    MaxErrors        \* statements that fail with a database error (bound)

(* leaseTTL (30 s) leaves room for one interval (10 s), a late tick and a  *)
(* statement that waited for the database.                                 *)
ASSUME LeaderAssumption ==
    /\ RenewInterval \in Nat /\ MaxStall \in Nat
    /\ MaxInflight \in Nat /\ MaxErrors \in Nat
    /\ RenewInterval + MaxStall + MaxLag < LeaseTTL

VARIABLES
    phase,       \* where Start or Stop of the process is
    isLeader,    \* s.isLeader
    cronOn,      \* s.cron is running: it starts jobs when they are due
    inflight,    \* jobs started by s.cron that have not returned
    loop,        \* where renewLeaseLoop is, "none" if there is no such loop
    since,       \* time since the lease was last granted to the process
    errs         \* database errors so far

procVars == <<phase, isLeader, cronOn, inflight, loop, since, errs>>
leaderVars == <<lock, promised, phase, isLeader, cronOn, inflight, loop, since, errs>>

Phases == {"new", "starting", "up",
           "grab", "grabbed", "grabbedOld", "drain", "cancel", "wait", "drain2",
           "stopped", "crashed"}
LoopStates == {"none", "idle", "stepDown", "reacquire", "become", "claim", "startCron"}

(* s.cancel() was called: statements issued by the loop fail at once. *)
Cancelled(p) == phase[p] \in {"wait", "drain2", "stopped"}
Running(p) == phase[p] \notin {"new", "stopped", "crashed"}

(* The process runs its cron, or is bound to start it without asking the   *)
(* broker again.                                                           *)
RelyingOnLease(p) ==
    \/ cronOn[p]
    \/ phase[p] = "starting"
    \/ loop[p] \in {"become", "claim", "startCron"}

Deadline == RenewInterval + MaxStall

LeaderTypeOK ==
    /\ LockTypeOK
    /\ phase \in [Holders -> Phases]
    /\ isLeader \in [Holders -> BOOLEAN]
    /\ cronOn \in [Holders -> BOOLEAN]
    /\ inflight \in [Holders -> 0 .. MaxInflight]
    /\ loop \in [Holders -> LoopStates]
    /\ since \in [Holders -> 0 .. Deadline]
    /\ errs \in 0 .. MaxErrors

Init ==
    /\ LockInit
    /\ phase = [p \in Holders |-> "new"]
    /\ isLeader = [p \in Holders |-> FALSE]
    /\ cronOn = [p \in Holders |-> FALSE]
    /\ inflight = [p \in Holders |-> 0]
    /\ loop = [p \in Holders |-> "none"]
    /\ since = [p \in Holders |-> 0]
    /\ errs = 0

(* A statement failed: SQLITE_BUSY, I/O, ... *)
DBError ==
    /\ errs < MaxErrors
    /\ errs' = errs + 1
    /\ UNCHANGED lockVars

-----------------------------------------------------------------------------
(* Start *)

(* TryAcquire said yes: the active jobs are put into s.cron. *)
StartAcquired(p) ==
    /\ phase[p] = "new"
    /\ AcquireOK(p)
    /\ phase' = [phase EXCEPT ![p] = "starting"]
    /\ isLeader' = [isLeader EXCEPT ![p] = TRUE]
    /\ since' = [since EXCEPT ![p] = 0]
    /\ UNCHANGED <<cronOn, inflight, loop, errs>>

(* ... and s.cron and the renew loop are started. *)
StartLoops(p) ==
    /\ phase[p] = "starting"
    /\ phase' = [phase EXCEPT ![p] = "up"]
    /\ cronOn' = [cronOn EXCEPT ![p] = TRUE]
    /\ loop' = [loop EXCEPT ![p] = "idle"]
    /\ UNCHANGED <<lock, promised, isLeader, inflight, since, errs>>

(* TryAcquire said no, or failed: a follower, without a renew loop. *)
StartFollower(p) ==
    /\ phase[p] = "new"
    /\ (AcquireBusy(p) /\ UNCHANGED errs) \/ DBError
    /\ phase' = [phase EXCEPT ![p] = "up"]
    /\ UNCHANGED <<isLeader, cronOn, inflight, loop, since>>

-----------------------------------------------------------------------------
(* renewLeaseLoop.  Ticks are not spaced evenly (a late one is followed by *)
(* an early one), so a tick may come at any time up to the deadline.       *)

RenewTickOK(p) ==
    /\ loop[p] = "idle"
    /\ ~Cancelled(p)
    /\ RenewOK(p)
    /\ since' = [since EXCEPT ![p] = 0]
    /\ UNCHANGED <<phase, isLeader, cronOn, inflight, loop, errs>>

(* Renew returned an error; stopCronAndWait stops s.cron ... *)
RenewTickFailed(p) ==
    /\ loop[p] = "idle"
    /\ \/ RenewRefused(p) /\ UNCHANGED errs
       \/ DBError
       \/ Cancelled(p) /\ UNCHANGED <<lock, promised, errs>>
    /\ cronOn' = [cronOn EXCEPT ![p] = FALSE]
    /\ loop' = [loop EXCEPT ![p] = "stepDown"]
    /\ UNCHANGED <<phase, isLeader, inflight, since>>

(* ... and waits for the jobs in flight; then the process steps down. *)
StepDown(p) ==
    /\ loop[p] = "stepDown"
    /\ inflight[p] = 0
    /\ isLeader' = [isLeader EXCEPT ![p] = FALSE]
    /\ loop' = [loop EXCEPT ![p] = "reacquire"]
    /\ UNCHANGED <<lock, promised, phase, cronOn, inflight, since, errs>>

Reacquired(p) ==
    /\ loop[p] = "reacquire"
    /\ ~Cancelled(p)
    /\ AcquireOK(p)
    /\ since' = [since EXCEPT ![p] = 0]
    /\ loop' = [loop EXCEPT ![p] = "become"]
    /\ UNCHANGED <<phase, isLeader, cronOn, inflight, errs>>

NotReacquired(p) ==
    /\ loop[p] = "reacquire"
    /\ \/ AcquireBusy(p) /\ UNCHANGED errs
       \/ DBError
       \/ Cancelled(p) /\ UNCHANGED <<lock, promised, errs>>
    /\ loop' = [loop EXCEPT ![p] = "idle"]
    /\ UNCHANGED <<phase, isLeader, cronOn, inflight, since>>

(* becomeLeader replaces s.cron by a new one and reschedules all jobs.  A  *)
(* concurrent Stop may have taken the old one, which has no jobs left.     *)
SwapCron(p) ==
    /\ loop[p] = "become"
    /\ loop' = [loop EXCEPT ![p] = "claim"]
    /\ phase' = [phase EXCEPT ![p] = CASE @ = "grabbed" -> "grabbedOld"
                                       [] @ = "drain" -> "cancel"
                                       [] OTHER -> @]
    /\ UNCHANGED <<lock, promised, isLeader, cronOn, inflight, since, errs>>

(* s.isLeader.Store(true) *)
ClaimLeadership(p) ==
    /\ loop[p] = "claim"
    /\ isLeader' = [isLeader EXCEPT ![p] = TRUE]
    /\ loop' = [loop EXCEPT ![p] = "startCron"]
    /\ UNCHANGED <<lock, promised, phase, cronOn, inflight, since, errs>>

(* s.cron.Start() *)
StartCron(p) ==
    /\ loop[p] = "startCron"
    /\ cronOn' = [cronOn EXCEPT ![p] = TRUE]
    /\ loop' = [loop EXCEPT ![p] = "idle"]
    /\ UNCHANGED <<lock, promised, phase, isLeader, inflight, since, errs>>

(* case <-ctx.Done(): return *)
LoopExit(p) ==
    /\ loop[p] = "idle"
    /\ Cancelled(p)
    /\ loop' = [loop EXCEPT ![p] = "none"]
    /\ UNCHANGED <<lock, promised, phase, isLeader, cronOn, inflight, since, errs>>

-----------------------------------------------------------------------------
(* Jobs: s.cron starts runJob in a goroutine of its own. *)

Fire(p) ==
    /\ cronOn[p]
    /\ inflight[p] < MaxInflight
    /\ inflight' = [inflight EXCEPT ![p] = @ + 1]
    /\ UNCHANGED <<lock, promised, phase, isLeader, cronOn, loop, since, errs>>

Finish(p) ==
    /\ inflight[p] > 0
    /\ inflight' = [inflight EXCEPT ![p] = @ - 1]
    /\ UNCHANGED <<lock, promised, phase, isLeader, cronOn, loop, since, errs>>

-----------------------------------------------------------------------------
(* Stop *)

(* if s.isLeader.Load() *)
StopBegin(p) ==
    /\ phase[p] = "up"
    /\ phase' = [phase EXCEPT ![p] = IF isLeader[p] THEN "grab" ELSE "cancel"]
    /\ UNCHANGED <<lock, promised, isLeader, cronOn, inflight, loop, since, errs>>

(* stopCronAndWait: c := s.cron under s.mu ... *)
StopGrab(p) ==
    /\ phase[p] = "grab"
    /\ phase' = [phase EXCEPT ![p] = "grabbed"]
    /\ UNCHANGED <<lock, promised, isLeader, cronOn, inflight, loop, since, errs>>

(* ... c.Stop(), which is s.cron unless it was replaced meanwhile ... *)
StopGrabbed(p) ==
    /\ phase[p] \in {"grabbed", "grabbedOld"}
    /\ cronOn' = [cronOn EXCEPT ![p] = IF phase[p] = "grabbed" THEN FALSE ELSE @]
    /\ phase' = [phase EXCEPT ![p] = IF @ = "grabbed" THEN "drain" ELSE "cancel"]
    /\ UNCHANGED <<lock, promised, isLeader, inflight, loop, since, errs>>

(* ... and <-cronCtx.Done() *)
StopDrained(p) ==
    /\ phase[p] = "drain"
    /\ inflight[p] = 0
    /\ phase' = [phase EXCEPT ![p] = "cancel"]
    /\ UNCHANGED <<lock, promised, isLeader, cronOn, inflight, loop, since, errs>>

(* Mutant: the wait for the goroutines comes before the cancellation. *)
StopCancel_AfterWait(p) ==
    /\ phase[p] = "cancel"
    /\ loop[p] = "none"
    /\ phase' = [phase EXCEPT ![p] = "wait"]
    /\ UNCHANGED <<lock, promised, isLeader, cronOn, inflight, loop, since, errs>>

(* s.cancel() *)
StopCancel(p) ==
    /\ phase[p] = "cancel"
    /\ phase' = [phase EXCEPT ![p] = "wait"]
    /\ UNCHANGED <<lock, promised, isLeader, cronOn, inflight, loop, since, errs>>

(* Mutant: no second check. *)
StopWaited_NoSecondCheck(p) ==
    /\ phase[p] = "wait"
    /\ loop[p] = "none"
    /\ phase' = [phase EXCEPT ![p] = IF isLeader[p] THEN "drain2" ELSE "stopped"]
    /\ UNCHANGED <<lock, promised, isLeader, cronOn, inflight, loop, since, errs>>

(* s.wg.Wait() returned; the second check stops a cron that the loop       *)
(* started after the first one.                                            *)
StopWaited(p) ==
    /\ phase[p] = "wait"
    /\ loop[p] = "none"
    /\ cronOn' = [cronOn EXCEPT ![p] = IF isLeader[p] THEN FALSE ELSE @]
    /\ phase' = [phase EXCEPT ![p] = IF isLeader[p] THEN "drain2" ELSE "stopped"]
    /\ UNCHANGED <<lock, promised, isLeader, inflight, loop, since, errs>>

(* The jobs are drained, the lease is released; s.runStore.Close(). *)
StopReleased(p) ==
    /\ phase[p] = "drain2"
    /\ inflight[p] = 0
    /\ (Release(p) /\ UNCHANGED errs) \/ DBError
    /\ phase' = [phase EXCEPT ![p] = "stopped"]
    /\ UNCHANGED <<isLeader, cronOn, inflight, loop, since>>

-----------------------------------------------------------------------------
(* The environment *)

(* The process dies; its row stays in the table. *)
Crash(p) ==
    /\ Running(p)
    /\ phase' = [phase EXCEPT ![p] = "crashed"]
    /\ isLeader' = [isLeader EXCEPT ![p] = FALSE]
    /\ cronOn' = [cronOn EXCEPT ![p] = FALSE]
    /\ inflight' = [inflight EXCEPT ![p] = 0]
    /\ loop' = [loop EXCEPT ![p] = "none"]
    /\ UNCHANGED <<lock, promised, since, errs>>

(* Time passes, but a process that relies on its lease gets to handle its  *)
(* tick within RenewInterval + MaxStall of the last grant.                 *)
Tick ==
    /\ \A p \in Holders : RelyingOnLease(p) => since[p] < Deadline
    /\ LockTick
    /\ since' = [p \in Holders |-> IF since[p] < Deadline THEN since[p] + 1 ELSE Deadline]
    /\ UNCHANGED <<phase, isLeader, cronOn, inflight, loop, errs>>

StartStep(p) == StartAcquired(p) \/ StartLoops(p) \/ StartFollower(p)

LoopStep(p) ==
    \/ RenewTickOK(p) \/ RenewTickFailed(p) \/ StepDown(p)
    \/ Reacquired(p) \/ NotReacquired(p)
    \/ SwapCron(p) \/ ClaimLeadership(p) \/ StartCron(p)

StopStep(p) ==
    \/ StopGrab(p) \/ StopGrabbed(p) \/ StopDrained(p)
    \/ StopCancel(p) \/ StopWaited(p) \/ StopReleased(p)

Next ==
    \/ Tick
    \/ \E p \in Holders :
          \/ StartStep(p) \/ LoopStep(p) \/ LoopExit(p)
          \/ Fire(p) \/ Finish(p)
          \/ StopBegin(p) \/ StopStep(p)
          \/ Crash(p)

Spec == Init /\ [][Next]_leaderVars

(* Time goes on, goroutines that can run do run, jobs return (they run     *)
(* under jobTimeout).  ctx.Done() stays ready once the context is          *)
(* cancelled while the ticker is ready once per interval, so the select    *)
(* statement cannot pass it over forever: strong fairness for LoopExit.    *)
(* The jobs' WaitGroup releases its waiters when it reaches zero, even if  *)
(* the next job starts right after: strong fairness for StopDrained.       *)
Fairness ==
    /\ WF_leaderVars(Tick)
    /\ \A p \in Holders :
          /\ WF_leaderVars(StartLoops(p))
          /\ WF_leaderVars(LoopStep(p))
          /\ SF_leaderVars(LoopExit(p))
          /\ SF_leaderVars(StopDrained(p))
          /\ WF_leaderVars(Finish(p))
          /\ WF_leaderVars(StopStep(p))

LiveSpec == Spec /\ Fairness

-----------------------------------------------------------------------------
(* Properties *)

(* The lease does its job: as long as ticks are handled in time, the crons *)
(* of two processes never run at the same time, through step-down,         *)
(* re-acquisition, Stop and crashes.                                       *)
NoSplitBrain ==
    \A p, q \in Holders : cronOn[p] /\ cronOn[q] => p = q

(* Stop's second check: when Stop has returned nothing of the scheduler is *)
(* left, not even a cron that the renew loop started while Stop waited, so *)
(* the run store can be closed.                                            *)
StoppedIsQuiet ==
    \A p \in Holders :
        phase[p] = "stopped" => ~cronOn[p] /\ inflight[p] = 0 /\ loop[p] = "none"

(* Stop returns: it waits for jobs and for the loop, never for itself.  A  *)
(* process stops once, so it is not for ever in the middle of it.          *)
StopTerminates ==
    <>[](\A p \in Holders :
            phase[p] \notin {"grab", "grabbed", "grabbedOld", "drain", "cancel", "wait", "drain2"})

(* "If not acquired, stay follower - will retry next tick"                 *)
(* (renewLeaseLoop): a leader whose renewal failed once leads again,       *)
(* unless another process took the lock or it was stopped.                 *)
LeaderRegains ==
    \A p \in Holders :
        (phase[p] = "up" /\ loop[p] = "reacquire")
            ~> (isLeader[p] \/ lock.holder \notin {p, NoHolder} \/ phase[p] # "up")
=============================================================================
