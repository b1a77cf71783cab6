----------------------------- MODULE MCService -----------------------------
(* The scheduler of a process, on small instances, in one run: who leads it *)
(* (CronLeader) and what the leader schedules (CronJobs).  They share no    *)
(* variable, so a behaviour belongs to one of them; the other stays in its  *)
(* initial state.                                                           *)
EXTENDS CronLeader, CronJobs

VARIABLE part

Parts == {"leadership", "jobs"}
serviceVars == <<part, leaderVars, jobsVars>>

LeadershipPart ==
    /\ part = "leadership" /\ Next
    /\ UNCHANGED <<part, jobsVars>>
JobsPart ==
    /\ part = "jobs" /\ JobsNext
    /\ UNCHANGED <<part, leaderVars>>
(* Fairness of CronLeader and JobsLiveSpec of CronJobs, each for its own    *)
(* behaviours.                                                              *)
Leads(A) == part = "leadership" /\ A
Works(A) == part = "jobs" /\ A

ServiceFairness ==
    /\ WF_leaderVars(Leads(Tick))
    /\ \A p \in Holders :
          /\ WF_leaderVars(Leads(StartLoops(p)))
          /\ WF_leaderVars(Leads(LoopStep(p)))
          /\ SF_leaderVars(Leads(LoopExit(p)))
          /\ SF_leaderVars(Leads(StopDrained(p)))
          /\ WF_leaderVars(Leads(Finish(p)))
          /\ WF_leaderVars(Leads(StopStep(p)))
    /\ \A c \in Clients : WF_jobsVars(Works(Proceed(c)))
    /\ \A n \in Execs : WF_jobsVars(Works(RunStep(n)))
    /\ WF_jobsVars(Works(SyncStep))

ServiceInit == part \in Parts /\ Init /\ JobsInit

ServiceSpec ==
    /\ ServiceInit
    /\ [][LeadershipPart \/ JobsPart]_serviceVars
    /\ ServiceFairness

-----------------------------------------------------------------------------
(* The types of both. *)
ServiceTypeOK == LeaderTypeOK /\ JobsTypeOK
=============================================================================
