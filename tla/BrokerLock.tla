----------------------------- MODULE BrokerLock -----------------------------
(***************************************************************************)
(* The lock table of the coordination database coord.db                    *)
(* (internal/broker/sqlite.go), shared by every cobot process of a         *)
(* workspace.  The table has one row per lock name and the rows do not     *)
(* interact, so one name is modelled.                                      *)
(*                                                                         *)
(* The code only ever compares expires_at with a "now" that it read in Go  *)
(* just before the statement ran, so the row keeps the difference          *)
(* left = expires_at - (current time) and Tick decreases it.  The clock is *)
(* read before the statement gets the database, which may be busy: the     *)
(* statement runs with a "now" that is lag units old, 0 <= lag <= MaxLag.  *)
(* Every statement is a single SQLite statement, hence atomic; one that    *)
(* fails with an error changes nothing.                                    *)
(***************************************************************************)
EXTENDS Integers

CONSTANTS
    Holders,     \* holder ids: a fresh uuid for every Scheduler
    NoHolder,    \* stands for "the table has no row"
    LeaseTTL,    \* leaseTTL, in units of the model's clock
    MaxLag       \* how long a statement may wait for the database (bound)

ASSUME LockAssumption ==
    /\ NoHolder \notin Holders
    /\ LeaseTTL \in Nat \ {0}
    /\ MaxLag \in Nat

VARIABLES
    lock,        \* the row of the locks table
    promised     \* promised[h]: time left of the last "yes" given to h

lockVars == <<lock, promised>>

(* Once left is this small the row is expired for every lag, and stays so. *)
LongExpired == 0 - (MaxLag + 1)

NoRow == [holder |-> NoHolder, left |-> LongExpired]

Lags == 0 .. MaxLag

Floor(n, low) == IF n < low THEN low ELSE n

LockTypeOK ==
    /\ lock \in [holder : Holders \cup {NoHolder}, left : LongExpired .. LeaseTTL]
    /\ promised \in [Holders -> 0 .. LeaseTTL]

LockInit ==
    /\ lock = NoRow
    /\ promised = [h \in Holders |-> 0]

-----------------------------------------------------------------------------
(* Mutant: the upsert has no WHERE clause. *)
Acquirable_Always(lag) == TRUE

(* Mutant: the row's expires_at is compared with the new expires_at. *)
Acquirable_NewExpiry(lag) == lock.holder = NoHolder \/ lock.left < LeaseTTL - lag

(* The two WHERE clauses.  Both are strict: at expires_at = now the lock   *)
(* can neither be taken over nor renewed.                                  *)
Acquirable(lag) == lock.holder = NoHolder \/ lock.left + lag < 0

Renewable(h, lag) == lock.holder = h /\ lock.left + lag > 0

(* expires_at := now + ttl, and the caller is told so. *)
Grant(h, lag) ==
    /\ lock' = [holder |-> h, left |-> LeaseTTL - lag]
    /\ promised' = [promised EXCEPT ![h] = Floor(LeaseTTL - lag, 0)]

(* INSERT ... ON CONFLICT(name) DO UPDATE ... WHERE locks.expires_at < now *)
(* returned a row. *)
AcquireOK(h) ==
    \E lag \in Lags : Acquirable(lag) /\ Grant(h, lag)

(* The upsert returned no row: somebody (h itself included) still holds an *)
(* unexpired lock. *)
AcquireBusy(h) ==
    /\ \E lag \in Lags : ~Acquirable(lag)
    /\ UNCHANGED lockVars

(* UPDATE ... WHERE holder = ? AND expires_at > now changed the row. *)
RenewOK(h) ==
    \E lag \in Lags : Renewable(h, lag) /\ Grant(h, lag)

(* No row was changed: "not held by h or expired". *)
RenewRefused(h) ==
    /\ \E lag \in Lags : ~Renewable(h, lag)
    /\ UNCHANGED lockVars

(* DELETE ... WHERE name = ? AND holder = ? *)
Release(h) ==
    /\ lock' = IF lock.holder = h THEN NoRow ELSE lock
    /\ promised' = [promised EXCEPT ![h] = 0]

(* One unit of time passes. *)
LockTick ==
    /\ lock' = [lock EXCEPT !.left = Floor(lock.left - 1, LongExpired)]
    /\ promised' = [h \in Holders |-> Floor(promised[h] - 1, 0)]

LockNext ==
    \/ LockTick
    \/ \E h \in Holders :
          \/ AcquireOK(h) \/ AcquireBusy(h)
          \/ RenewOK(h) \/ RenewRefused(h)
          \/ Release(h)

LockSpec == LockInit /\ [][LockNext]_lockVars

-----------------------------------------------------------------------------
(* The row backs every promise that is still good: whoever was told "yes"  *)
(* and whose time is not over is the holder in the table, with at least    *)
(* the time it was promised.                                               *)
PromiseBacked ==
    \A h \in Holders :
        promised[h] > 0 => lock.holder = h /\ lock.left = promised[h]

(* Leader election is exclusive: TryAcquire and Renew never leave two      *)
(* holders with unexpired leases, however late their statements run.       *)
LeaseExclusive ==
    \A g, h \in Holders : promised[g] > 0 /\ promised[h] > 0 => g = h

L == INSTANCE Lease

(* The lock table implements the abstract lease. *)
ImplementsLease == L!Spec
=============================================================================
