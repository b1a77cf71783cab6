------------------------------ MODULE CronJobs ------------------------------
(***************************************************************************)
(* The life of cron jobs: the YAML files of the job store                  *)
(* (internal/cron/store.go), shared by all processes of a workspace, and   *)
(* the in-memory schedule of the leader's Scheduler (scheduler.go,         *)
(* leader.go).  The cron tool of any process adds, lists, pauses, resumes  *)
(* and removes jobs; the leader runs them and reconciles its schedule with *)
(* the files.  A step is one file operation or one critical section of     *)
(* s.mu, and the steps of all of these interleave.                         *)
(*                                                                         *)
(* Leadership is fixed here (see CronLeader): a follower's schedule is     *)
(* empty, so sched is the leader's, and the leader's cron is running, so   *)
(* it knows the next time of every entry (cron expressions that never come *)
(* true aside).  No operation of the system changes the schedule string of *)
(* a job, so the branch of syncJobs for changed schedules is never taken   *)
(* and schedules are left out.                                             *)
(* An entry fires whether or not its last execution has ended (cron.New()  *)
(* without a wrapper that skips or delays), so executions overlap, those   *)
(* of one job included.  Reading the store can fail; writing it does not.  *)
(* The result that an execution publishes at its end is in CronResults.    *)
(***************************************************************************)
EXTENDS Integers, FiniteSets

CONSTANTS
    Jobs,        \* job ids: NewJobID, used once
    Clients,     \* threads that call the cron tool
    OnLeader,    \* the clients in the leader's process
    MaxJobs,     \* maxCronJobs
    Kept,        \* statuses of the jobs that are in the store at the start (bound)
    MaxOps,      \* calls of the cron tool (bound)
    MaxRuns      \* executions (bound)

ASSUME JobsAssumption ==
    /\ Jobs # {}
    /\ OnLeader \subseteq Clients
    /\ Kept \subseteq {"active", "paused"}
    /\ MaxJobs \in Nat /\ MaxOps \in Nat /\ MaxRuns \in Nat

VARIABLES
    file,        \* file[j]: the YAML file of j
    writes,      \* number of writes so far: the source of fresh tokens
    kind,        \* kind[j]: cron expression or timestamp; "none" if j is not used
    past,        \* one-shot jobs whose time has come
    sched,       \* s.jobs of the leader: the jobs that have a cron entry
    lastMod,     \* s.store.lastMod of the leader
    sync,        \* where syncJobs is, and the list it read
    op,          \* op[c]: where the call of client c is, and what it read
    view,        \* view[c][j]: the read token that c got last
    run,         \* run[n]: where the n-th execution is, and what it read
    runDB,       \* jobs that have a run database
    ops, runs,   \* calls and executions so far
    \* History, read by the properties only:
    missed,      \* jobs of which the schedule missed what is in the file
    counted,     \* counted[j]: executions of j that were written back
    stale        \* jobs written from a copy older than the file

historyVars == <<missed, counted, stale>>
jobsVars == <<file, writes, kind, past, sched, lastMod, sync, op, view,
              run, runDB, ops, runs, historyVars>>

Status == {"none", "active", "paused", "completed"}    \* "none": no file
File == [status : Status, token : Nat, count : Nat]
NoFile == [status |-> "none", token |-> 0, count |-> 0]

OpSteps == {"idle", "addCreate", "addSchedule", "addUpdate", "listWrite",
            "rmCheck", "rmDelete", "rmCleanup", "psUnschedule", "psUpdate",
            "rsSchedule", "rsUpdate"}
AnyJob == CHOOSE j \in Jobs : TRUE
IdleOp == [at |-> "idle", job |-> AnyJob, copy |-> NoFile]
IdleRun == [at |-> "idle", job |-> AnyJob, copy |-> NoFile]
IdleSync == [at |-> "idle", list |-> [j \in Jobs |-> NoFile], unread |-> {}]

Execs == 1..MaxRuns
RunSteps == {"idle", "execute", "commit", "update", "record"}

Kinds == {"recurring", "oneShot"}
OneShot == {j \in Jobs : kind[j] = "oneShot"}

Exists(j) == file[j].status # "none"
Existing == {j \in Jobs : Exists(j)}

(* HasChanged hashes the names and modification times of the files; every  *)
(* write has a modification time of its own, like its token.               *)
Fingerprint == [j \in Jobs |-> file[j].token]
NeverScanned == [j \in Jobs |-> -1]

(* scheduleJobLocked fails for a one-shot job whose time has come. *)
Schedulable(j) == j \notin past

JobsTypeOK ==
    /\ file \in [Jobs -> File]
    /\ writes \in Nat
    /\ kind \in [Jobs -> Kinds \cup {"none"}]
    /\ past \subseteq OneShot
    /\ sched \subseteq Jobs
    /\ lastMod \in [Jobs -> Int]
    /\ sync \in [at : {"idle", "list", "apply"}, list : [Jobs -> File], unread : SUBSET Jobs]
    /\ op \in [Clients -> [at : OpSteps, job : Jobs, copy : File]]
    /\ view \in [Clients -> [Jobs -> Nat]]
    /\ run \in [Execs -> [at : RunSteps, job : Jobs, copy : File]]
    /\ runDB \subseteq Jobs
    /\ ops \in Nat /\ runs \in Nat
    /\ missed \subseteq Jobs
    /\ counted \in [Jobs -> Nat]
    /\ stale \subseteq Jobs

(* The store as earlier processes left it, their run counts taken as zero, *)
(* and the schedule that Start made of the active jobs.                    *)
JobsInit ==
    /\ file \in [Jobs -> {NoFile} \cup [status : Kept, token : {1}, count : {0}]]
    /\ writes = 1
    /\ kind \in [Jobs -> Kinds \cup {"none"}]
    /\ \A j \in Jobs : kind[j] = "none" <=> file[j] = NoFile
    /\ past = {}
    /\ sched = {j \in Jobs : file[j].status = "active"}
    /\ lastMod = NeverScanned
    /\ sync = IdleSync
    /\ op = [c \in Clients |-> IdleOp]
    /\ run = [n \in Execs |-> IdleRun]
    /\ view = [c \in Clients |-> [j \in Jobs |-> 0]]
    /\ runDB = {}
    /\ ops = 0 /\ runs = 0
    /\ missed = {}
    /\ counted = [j \in Jobs |-> 0]
    /\ stale = {}

-----------------------------------------------------------------------------
(* The store *)

(* writeJob, with the new token of Create, Update, Get and List.  There is *)
(* no check of what the file holds: a file that was removed is back, and   *)
(* what others wrote since job was read is gone.                           *)
WriteJob(j, job) ==
    /\ file' = [file EXCEPT ![j] = [job EXCEPT !.token = writes + 1]]
    /\ writes' = writes + 1
    /\ stale' = IF job.token # file[j].token THEN stale \cup {j} ELSE stale

(* Read(id, token): the token of the caller must be the one in the file. *)
ReadOK(c, j) == Exists(j) /\ file[j].token = view[c][j]

At(c, step) == op[c].at = step
Goto(c, step) == op' = [op EXCEPT ![c].at = step]
Return(c) == op' = [op EXCEPT ![c] = IdleOp]

(* A call starts at its first step. *)
Call(c, step, j, copy) ==
    /\ At(c, "idle")
    /\ ops < MaxOps
    /\ ops' = ops + 1
    /\ op' = [op EXCEPT ![c] = [at |-> step, job |-> j, copy |-> copy]]

-----------------------------------------------------------------------------
(* AddJob *)

(* The count of the jobs and the schedule of the new one are checked       *)
(* before the file is created; a call that is refused changes nothing.     *)
AddJob(c, j) ==
    /\ kind[j] = "none"
    /\ Cardinality(Existing) < MaxJobs
    /\ Call(c, "addCreate", j, [status |-> "active", token |-> 0, count |-> 0])
    /\ \E k \in Kinds : kind' = [kind EXCEPT ![j] = k]
    /\ UNCHANGED <<file, writes, past, sched, lastMod, sync,
                   view, run, runDB, runs, historyVars>>

(* A follower only persists the job. *)
AddCreate(c) ==
    /\ At(c, "addCreate")
    /\ WriteJob(op[c].job, op[c].copy)
    /\ view' = [view EXCEPT ![c][op[c].job] = writes']
    /\ IF c \in OnLeader
       THEN op' = [op EXCEPT ![c].at = "addSchedule", ![c].copy.token = writes']
       ELSE Return(c)
    /\ UNCHANGED <<kind, past, sched, lastMod, sync, run, runDB, ops, runs, missed, counted>>

(* A job that got an entry has a NextRun.  One that was refused has none,  *)
(* or has one if its time came in the middle of scheduleOneShotLocked.     *)
AddSchedule(c) ==
    /\ At(c, "addSchedule")
    /\ sched' = IF Schedulable(op[c].job) THEN sched \cup {op[c].job} ELSE sched \ {op[c].job}
    /\ Goto(c, "addUpdate") \/ (~Schedulable(op[c].job) /\ Return(c))
    /\ UNCHANGED <<file, writes, kind, past, lastMod, sync,
                   view, run, runDB, ops, runs, historyVars>>

(* Persist NextRun: the whole job is written again. *)
AddUpdate(c) ==
    /\ At(c, "addUpdate")
    /\ WriteJob(op[c].job, op[c].copy)
    /\ view' = [view EXCEPT ![c][op[c].job] = writes']
    /\ Return(c)
    /\ UNCHANGED <<kind, past, sched, lastMod, sync, run, runDB, ops, runs, missed, counted>>

-----------------------------------------------------------------------------
(* ListJobs: job after job is read and written back with a new token.  The *)
(* jobs do not interact, so a list of several is a call for each of them.  *)

ListJobs(c, j) ==
    /\ Exists(j)
    /\ Call(c, "listWrite", j, file[j])
    /\ UNCHANGED <<file, writes, kind, past, sched, lastMod, sync,
                   view, run, runDB, runs, historyVars>>

ListWrite(c) ==
    /\ At(c, "listWrite")
    /\ WriteJob(op[c].job, op[c].copy)
    /\ view' = [view EXCEPT ![c][op[c].job] = writes']
    /\ Return(c)
    /\ UNCHANGED <<kind, past, sched, lastMod, sync, run, runDB, ops, runs, missed, counted>>

-----------------------------------------------------------------------------
(* RemoveJob *)

Unschedule(c, j) == sched' = IF c \in OnLeader THEN sched \ {j} ELSE sched

(* The entry goes first, before anything is known of the token. *)
RemoveJob(c, j) ==
    /\ view[c][j] # 0
    /\ Call(c, "rmCheck", j, NoFile)
    /\ Unschedule(c, j)
    /\ UNCHANGED <<file, writes, kind, past, lastMod, sync,
                   view, run, runDB, runs, historyVars>>

(* store.Delete: load the file and verify the token.  When that fails the  *)
(* job stays in the store, without an entry ...                            *)
RemoveCheck(c) ==
    /\ At(c, "rmCheck")
    /\ \/ ReadOK(c, op[c].job) /\ Goto(c, "rmDelete") /\ UNCHANGED missed
       \/ /\ ~ReadOK(c, op[c].job)
          /\ Return(c)
          /\ missed' = missed \cup ((IF c \in OnLeader THEN {op[c].job} ELSE {}) \ sched)
    /\ UNCHANGED <<file, writes, kind, past, sched, lastMod, sync, view, run, runDB,
                   ops, runs, counted, stale>>

(* ... and remove it; no error if it is gone. *)
RemoveDelete(c) ==
    /\ At(c, "rmDelete")
    /\ file' = [file EXCEPT ![op[c].job] = NoFile]
    /\ Goto(c, "rmCleanup")
    /\ UNCHANGED <<writes, kind, past, sched, lastMod, sync,
                   view, run, runDB, ops, runs, historyVars>>

(* CleanupJobDB *)
RemoveCleanup(c) ==
    /\ At(c, "rmCleanup")
    /\ runDB' = runDB \ {op[c].job}
    /\ Return(c)
    /\ UNCHANGED <<file, writes, kind, past, sched, lastMod, sync,
                   view, run, ops, runs, historyVars>>

-----------------------------------------------------------------------------
(* PauseJob: read with the token, drop the entry, write what was read. *)

PauseJob(c, j) ==
    /\ view[c][j] # 0 /\ ReadOK(c, j)
    /\ Call(c, "psUnschedule", j, file[j])
    /\ UNCHANGED <<file, writes, kind, past, sched, lastMod, sync,
                   view, run, runDB, runs, historyVars>>

PauseUnschedule(c) ==
    /\ At(c, "psUnschedule")
    /\ Unschedule(c, op[c].job)
    /\ Goto(c, "psUpdate")
    /\ UNCHANGED <<file, writes, kind, past, lastMod, sync,
                   view, run, runDB, ops, runs, historyVars>>

PauseUpdate(c) ==
    /\ At(c, "psUpdate")
    /\ WriteJob(op[c].job, [op[c].copy EXCEPT !.status = "paused"])
    /\ Return(c)
    /\ UNCHANGED <<kind, past, sched, lastMod, sync, view, run, runDB, ops, runs,
                   missed, counted>>

(* ResumeJob: a job that cannot be scheduled stays paused. *)
ResumeJob(c, j) ==
    /\ view[c][j] # 0 /\ ReadOK(c, j)
    /\ file[j].status = "paused"
    /\ Call(c, "rsSchedule", j, file[j])
    /\ UNCHANGED <<file, writes, kind, past, sched, lastMod, sync,
                   view, run, runDB, runs, historyVars>>

ResumeSchedule(c) ==
    /\ At(c, "rsSchedule")
    /\ LET j == op[c].job IN
       \/ c \in OnLeader /\ Schedulable(j)
          /\ sched' = sched \cup {j} /\ Goto(c, "rsUpdate")
       \/ c \in OnLeader /\ ~Schedulable(j)
          /\ sched' = sched \ {j} /\ Return(c)
       \/ c \notin OnLeader
          /\ sched' = sched /\ Goto(c, "rsUpdate")
    /\ UNCHANGED <<file, writes, kind, past, lastMod, sync,
                   view, run, runDB, ops, runs, historyVars>>

ResumeUpdate(c) ==
    /\ At(c, "rsUpdate")
    /\ WriteJob(op[c].job, [op[c].copy EXCEPT !.status = "active"])
    /\ Return(c)
    /\ UNCHANGED <<kind, past, sched, lastMod, sync, view, run, runDB, ops, runs,
                   missed, counted>>

-----------------------------------------------------------------------------
(* Mutant: every job that was run counts as a one-shot job. *)
RunJob_AllOneShot(j) ==
    /\ runs < MaxRuns
    /\ j \in sched \ past
    /\ runs' = runs + 1
    /\ past' = past \cup {j}
    /\ run' = [run EXCEPT ![runs + 1] = [at |-> "execute", job |-> j, copy |-> NoFile]]
    /\ UNCHANGED <<file, writes, kind, sched, lastMod, sync, op,
                   view, runDB, ops, historyVars>>

(* runJob.  The cron entry of j is due and s.jobs still has it.  Earlier   *)
(* executions, of j or of other jobs, may be in progress. *)
RunJob(j) ==
    /\ runs < MaxRuns
    /\ j \in sched
    /\ j \in OneShot => j \notin past
    /\ runs' = runs + 1
    /\ past' = past \cup ({j} \cap OneShot)
    /\ run' = [run EXCEPT ![runs + 1] = [at |-> "execute", job |-> j, copy |-> NoFile]]
    /\ UNCHANGED <<file, writes, kind, sched, lastMod, sync, op,
                   view, runDB, ops, historyVars>>

(* store.Read without a token; a job whose file is not there or cannot be  *)
(* read is not run.  Then the sub-agent runs the prompt, for up to ten     *)
(* minutes. *)
RunExecute(n) ==
    /\ run[n].at = "execute"
    /\ \/ Exists(run[n].job)
          /\ run' = [run EXCEPT ![n].at = "commit", ![n].copy = file[run[n].job]]
       \/ run' = [run EXCEPT ![n] = IdleRun]
    /\ UNCHANGED <<file, writes, kind, past, sched, lastMod, sync, op,
                   view, runDB, ops, runs, historyVars>>

(* Mutant: the execution is counted twice. *)
RunCommit_Twice(n) ==
    /\ run[n].at = "commit"
    /\ run' = [run EXCEPT ![n].at = "update", ![n].copy.count = @ + 2]
    /\ UNCHANGED <<file, writes, kind, past, sched, lastMod, sync, op,
                   view, runDB, ops, runs, historyVars>>

(* updateAndPersistJob, the part under s.mu. *)
RunCommit(n) ==
    /\ run[n].at = "commit"
    /\ LET j == run[n].job IN
       /\ run' = IF j \in sched
                 THEN [run EXCEPT
                          ![n].at = "update",
                          ![n].copy.count = @ + 1,
                          ![n].copy.status = IF j \in OneShot THEN "completed" ELSE @]
                 ELSE [run EXCEPT ![n] = IdleRun]
       /\ sched' = sched \ ({j} \cap OneShot)
    /\ UNCHANGED <<file, writes, kind, past, lastMod, sync, op,
                   view, runDB, ops, runs, historyVars>>

(* updateAndPersistJob, the store.Update after s.mu.Unlock(). *)
RunUpdate(n) ==
    /\ run[n].at = "update"
    /\ WriteJob(run[n].job, run[n].copy)
    /\ counted' = [counted EXCEPT ![run[n].job] = @ + 1]
    /\ run' = [run EXCEPT ![n].at = "record"]
    /\ UNCHANGED <<kind, past, sched, lastMod, sync, op, view, runDB, ops, runs, missed>>

(* storeRunRecord opens, hence creates, the run database. *)
RunRecord(n) ==
    /\ run[n].at = "record"
    /\ runDB' = runDB \cup {run[n].job}
    /\ run' = [run EXCEPT ![n] = IdleRun]
    /\ UNCHANGED <<file, writes, kind, past, sched, lastMod, sync, op,
                   view, ops, runs, historyVars>>

-----------------------------------------------------------------------------
(* syncJobs, after a successful renewal.  HasChanged takes the new         *)
(* fingerprint before the files are read. *)
SyncCheck ==
    /\ sync.at = "idle"
    /\ Fingerprint # lastMod
    /\ lastMod' = Fingerprint
    /\ sync' = [sync EXCEPT !.at = "list"]
    /\ UNCHANGED <<file, writes, kind, past, sched, op,
                   view, run, runDB, ops, runs, historyVars>>

(* ListReadOnly, after the fingerprint has been replaced.  A file that     *)
(* does not load, or that another process is just writing, is skipped as   *)
(* if the job were not there.                                              *)
SyncList ==
    /\ sync.at = "list"
    /\ \E unread \in SUBSET Existing :
          sync' = [at |-> "apply",
                   list |-> [j \in Jobs |-> IF j \in unread THEN NoFile ELSE file[j]],
                   unread |-> unread]
    /\ UNCHANGED <<file, writes, kind, past, sched, lastMod, op,
                   view, run, runDB, ops, runs, historyVars>>

(* The directory cannot be read: syncJobs returns, and the change that it  *)
(* was called for counts as seen.                                          *)
SyncListFails ==
    /\ sync.at = "list"
    /\ sync' = IdleSync
    /\ missed' = Jobs
    /\ UNCHANGED <<file, writes, kind, past, sched, lastMod, op,
                   view, run, runDB, ops, runs, counted, stale>>

(* Mutant: the fingerprint is taken again when the list was applied. *)
SyncApply_LateFingerprint ==
    /\ sync.at = "apply"
    /\ LET active == {j \in Jobs : sync.list[j].status = "active"} IN
       sched' = (sched \cap active) \cup {j \in active : Schedulable(j)}
    /\ sync' = IdleSync
    /\ lastMod' = Fingerprint
    /\ missed' = sync.unread
    /\ UNCHANGED <<file, writes, kind, past, op, view, run, runDB, ops, runs, counted, stale>>

(* Under s.mu: entries of jobs that are not active go, active jobs that    *)
(* have no entry get one if they can. *)
SyncApply ==
    /\ sync.at = "apply"
    /\ LET active == {j \in Jobs : sync.list[j].status = "active"} IN
       sched' = (sched \cap active) \cup {j \in active : Schedulable(j)}
    /\ sync' = IdleSync
    /\ missed' = sync.unread
    /\ UNCHANGED <<file, writes, kind, past, lastMod, op,
                   view, run, runDB, ops, runs, counted, stale>>

(* The time of a one-shot job comes while it has no entry. *)
TimePasses(j) ==
    /\ j \in OneShot \ (past \cup sched)
    /\ past' = past \cup {j}
    /\ UNCHANGED <<file, writes, kind, sched, lastMod, sync, op,
                   view, run, runDB, ops, runs, historyVars>>

-----------------------------------------------------------------------------
Begin(c, j) ==
    \/ AddJob(c, j) \/ ListJobs(c, j) \/ RemoveJob(c, j)
    \/ PauseJob(c, j) \/ ResumeJob(c, j)

Proceed(c) ==
    \/ AddCreate(c) \/ AddSchedule(c) \/ AddUpdate(c)
    \/ ListWrite(c)
    \/ RemoveCheck(c) \/ RemoveDelete(c) \/ RemoveCleanup(c)
    \/ PauseUnschedule(c) \/ PauseUpdate(c)
    \/ ResumeSchedule(c) \/ ResumeUpdate(c)

RunStep(n) == RunExecute(n) \/ RunCommit(n) \/ RunUpdate(n) \/ RunRecord(n)
SyncStep == SyncCheck \/ SyncList \/ SyncListFails \/ SyncApply

JobsNext ==
    \/ \E c \in Clients : Proceed(c) \/ \E j \in Jobs : Begin(c, j)
    \/ \E j \in Jobs : RunJob(j) \/ TimePasses(j)
    \/ \E n \in Execs : RunStep(n)
    \/ SyncStep

JobsSpec == JobsInit /\ [][JobsNext]_jobsVars

(* Calls return, executions end, the renew loop keeps calling syncJobs. *)
JobsLiveSpec ==
    /\ JobsSpec
    /\ \A c \in Clients : WF_jobsVars(Proceed(c))
    /\ \A n \in Execs : WF_jobsVars(RunStep(n))
    /\ WF_jobsVars(SyncStep)

-----------------------------------------------------------------------------
(* Properties *)

(* Executions of one job overlap, and they and the calls of the clients    *)
(* write back whole jobs that they read before: the run count in a file    *)
(* loses executions.  It never claims more than were written back, and it  *)
(* loses none unless some writer wrote back a copy that was older than the *)
(* file: nothing else in the store, the schedule or a scan miscounts.      *)
CountsAddUp ==
    \A j \in Jobs : Exists(j) =>
        /\ file[j].count <= counted[j]
        /\ j \notin stale => file[j].count = counted[j]

(* When calls and executions have stopped, the leader's schedule and the   *)
(* files agree, whatever the order in which the changes and the scans of   *)
(* syncJobs interleaved.  What the schedule missed stays missed until a    *)
(* file changes again, and then no longer: a job that the last scan could  *)
(* not read, every job if it could not read the directory (the fingerprint *)
(* says that the change was seen), and a job that a RemoveJob with an      *)
(* outdated token took out of the schedule after that scan and left in the *)
(* store.  An entry without a file may stay; it is never executed: runJob  *)
(* reads the file first.  (Nor does it matter whether a one-shot job whose *)
(* time has come has an entry.)                                            *)
ScheduleConverges ==
    <>[](\A j \in Jobs \ (missed \cup past) :
            Exists(j) => (j \in sched <=> file[j].status = "active"))

(* "all under s.mu to avoid races with PauseJob/ResumeJob"                 *)
(* (updateAndPersistJob): the end of an execution does not make a paused   *)
(* job active.                                                             *)
RunKeepsPause ==
    [][\A n \in Execs : RunUpdate(n) =>
          (file[run[n].job].status = "paused" => file'[run[n].job].status # "active")]_jobsVars
=============================================================================
