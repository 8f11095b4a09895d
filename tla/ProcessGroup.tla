---------------------------- MODULE ProcessGroup ----------------------------
(***************************************************************************)
(* ProvisioningProcessGroup: native installers that provisioning runs      *)
(* side by side. Each task owns a Job Object; a thread of its own waits    *)
(* for the end of the job's processes. The first task that fails stops the *)
(* others.                                                                 *)
(***************************************************************************)
EXTENDS Naturals

CONSTANTS
  Task,       \* the tasks of the group; the product runs two
  MaxGroupFaults   \* bound: failed calls of Windows and cleanups past their limit

VARIABLES
  pc,          \* the step of the script's thread
  started,
  groupTree,        \* the processes of the task's job
  groupKilled,      \* jobs that were terminated, or closed
  accepted,    \* tasks whose root exited with an accepted code
  stop,        \* stopRequested
  late,        \* timeoutRequested
  sampled,     \* timeoutRequested, as the task's thread read it at the end
  completion,  \* what the task's thread completed with
  pending,     \* tasks Complete() waits for
  toStop,      \* tasks it is about to stop
  drained,     \* tasks whose end it awaited after that
  disposed,
  groupFailure,     \* an infrastructure failure: met and kept, or thrown at once
  groupFaults

threadVars == <<sampled, completion>>
taskVars == <<groupTree, groupKilled, accepted, threadVars>>
waitVars == <<pending, toStop, drained, disposed, groupFailure>>
groupVars == <<pc, started, taskVars, stop, late, waitVars, groupFaults>>

Settled == {"ok", "bad", "stopped", "timed-out"}
Ended == {"returned", "threw"}

GroupTypeOK ==
  /\ pc \in {"starting", "held", "waiting", "stopping", "draining", "disposing"} \cup Ended
  /\ groupTree \in [Task -> {"none", "live", "gone"}]
  /\ completion \in [Task -> {"pending", "faulted"} \cup Settled]
  /\ \A s \in {started, groupKilled, accepted, stop, late, pending, toStop, drained, disposed} :
       s \subseteq Task
  /\ groupFailure \in {"none", "met", "thrown"}
  /\ sampled \in [Task -> {"no", "late", "clear"}]
  /\ groupFaults \in Nat

GroupInit ==
  /\ pc = "starting" /\ started = {} /\ stop = {} /\ late = {}
  /\ groupTree = [t \in Task |-> "none"] /\ groupKilled = {} /\ accepted = {}
  /\ completion = [t \in Task |-> "pending"]
  /\ pending = {} /\ toStop = {} /\ drained = {} /\ disposed = {}
  /\ sampled = [t \in Task |-> "no"]
  /\ groupFailure = "none" /\ groupFaults = 0

GroupFault == groupFaults < MaxGroupFaults /\ groupFaults' = groupFaults + 1

Clean == groupFailure = "none"

\* The first failure is kept: infrastructureFailure.
Keep(bad) == groupFailure' = IF Clean /\ bad THEN "met" ELSE groupFailure

\* The jobs that a first Stop of the given tasks terminates.
Terminated(tasks) ==
  {t \in tasks : t \notin stop /\ completion[t] = "pending" /\ groupTree[t] = "live"}

Failed == (Settled \ {"ok"}) \cup {"faulted"}

-----------------------------------------------------------------------------
(* The task: its processes, and the thread that waits for them.            *)

\* The last process of the job ends. The root may have ended before a kill.
TreeEnds(t) ==
  /\ groupTree[t] = "live"
  /\ groupTree' = [groupTree EXCEPT ![t] = "gone"]
  /\ accepted' \in {accepted, accepted \cup {t}}
  /\ UNCHANGED <<pc, started, groupKilled, threadVars, stop, late, waitVars, groupFaults>>

\* Variant: the exit of the root is the end of the task.
SeesEnd_Root(t) ==
  /\ groupTree[t] # "none" /\ sampled[t] = "no" /\ completion[t] = "pending" /\ t \notin disposed
  /\ sampled' = [sampled EXCEPT ![t] = IF t \in late THEN "late" ELSE "clear"]
  /\ UNCHANGED <<pc, started, groupTree, groupKilled, accepted, completion, stop, late,
                 waitVars, groupFaults>>

\* CompleteOwnedProcessTree: no process is left; timeoutRequested is read.
SeesEnd(t) ==
  /\ groupTree[t] = "gone" /\ sampled[t] = "no" /\ completion[t] = "pending" /\ t \notin disposed
  /\ sampled' = [sampled EXCEPT ![t] = IF t \in late THEN "late" ELSE "clear"]
  /\ UNCHANGED <<pc, started, groupTree, groupKilled, accepted, completion, stop, late,
                 waitVars, groupFaults>>

\* Variant: the result depends on the exit code alone.
Completes_ByCode(t) ==
  /\ sampled[t] # "no" /\ completion[t] = "pending"
  /\ completion' = [completion EXCEPT ![t] = IF t \in accepted THEN "ok" ELSE "bad"]
  /\ UNCHANGED <<pc, started, groupTree, groupKilled, accepted, sampled, stop, late, waitVars,
                 groupFaults>>

\* Then stopRequested is read, and the result is made.
GroupCompletes(t) ==
  /\ sampled[t] # "no" /\ completion[t] = "pending"
  /\ completion' = [completion EXCEPT ![t] =
       IF sampled[t] = "late" THEN "timed-out" ELSE IF t \in stop THEN "stopped"
       ELSE IF t \in accepted THEN "ok" ELSE "bad"]
  /\ UNCHANGED <<pc, started, groupTree, groupKilled, accepted, sampled, stop, late, waitVars,
                 groupFaults>>

\* The job cannot be queried: a failure of Windows, or its handle is closed.
Faults(t) ==
  /\ \/ GroupFault
     \/ t \in disposed /\ UNCHANGED groupFaults
  /\ groupTree[t] # "none" /\ completion[t] = "pending" /\ sampled[t] = "no"
  /\ completion' = [completion EXCEPT ![t] = "faulted"]
  /\ UNCHANGED <<pc, started, groupTree, groupKilled, accepted, sampled, stop, late, waitVars>>

-----------------------------------------------------------------------------
(* Starting the group.                                                     *)

StartTask(t) ==
  /\ pc = "starting" /\ t \notin started
  /\ started' = started \cup {t}
  /\ groupTree' = [groupTree EXCEPT ![t] = "live"]
  /\ pc' = IF started' = Task THEN "held" ELSE pc
  /\ UNCHANGED <<groupKilled, accepted, threadVars, stop, late, waitVars, groupFaults>>

\* A task that cannot start takes those that did with it.
StartFails ==
  /\ GroupFault
  /\ pc = "starting"
  /\ groupKilled' = groupKilled \cup Terminated(started)
  /\ stop' = stop \cup started
  /\ groupFailure' = "thrown"
  /\ pc' = "disposing"
  /\ UNCHANGED <<started, groupTree, accepted, threadVars, late, pending, toStop, drained,
                 disposed>>

-----------------------------------------------------------------------------
(* Complete().                                                             *)

BeginComplete ==
  /\ pc = "held"
  /\ pc' = "waiting"
  /\ pending' = Task
  /\ UNCHANGED <<started, taskVars, stop, late, toStop, drained, disposed, groupFailure,
                 groupFaults>>

\* Stop(), for a caller that fails before it waits. Each task is stopped,
\* also when another's job cannot be terminated, and all of them are awaited.
StopGroup(stuck) ==
  /\ pc = "held"
  /\ IF stuck = {} THEN UNCHANGED groupFaults ELSE GroupFault
  /\ groupKilled' = groupKilled \cup (Terminated(Task) \ stuck)
  /\ stop' = Task
  /\ groupFailure' = "met"
  /\ pc' = "draining"
  /\ UNCHANGED <<started, groupTree, accepted, threadVars, late, pending, toStop, drained,
                 disposed>>

\* Variant: the first task that completes stops the others.
TaskSucceeds_First(t) ==
  /\ pc = "waiting" /\ t \in pending /\ completion[t] = "ok"
  /\ pending' = pending \ {t}
  /\ toStop' = pending \ {t}
  /\ drained' = drained \cup {t}
  /\ pc' = "stopping"
  /\ UNCHANGED <<started, taskVars, stop, late, disposed, groupFailure, groupFaults>>

\* A task completed well: the wait goes on for the others.
TaskSucceeds(t) ==
  /\ pc = "waiting" /\ t \in pending /\ completion[t] = "ok"
  /\ pending' = pending \ {t}
  /\ drained' = drained \cup {t}
  /\ pc' = IF pending' = {} THEN "draining" ELSE pc
  /\ UNCHANGED <<started, taskVars, stop, late, toStop, disposed, groupFailure, groupFaults>>

\* A task failed, or its thread did: the others are to be stopped.
TaskFails(t) ==
  /\ pc = "waiting" /\ t \in pending /\ completion[t] \in Failed
  /\ pending' = pending \ {t}
  /\ toStop' = pending \ {t}
  /\ Keep(completion[t] = "faulted")
  /\ drained' = drained \cup {t}
  /\ pc' = "stopping"
  /\ UNCHANGED <<started, taskVars, stop, late, disposed, groupFaults>>

\* Variant: a task has no time limit.
TaskExpires_Never(t) ==
  /\ FALSE
  /\ UNCHANGED groupVars

\* The time of a task is up, whether or not it has just completed.
TaskExpires(t) ==
  /\ pc = "waiting" /\ t \in pending
  /\ late' = late \cup {t}
  /\ stop' = stop \cup {t}
  /\ groupKilled' = groupKilled \cup Terminated({t})
  /\ toStop' = pending \ {t}
  /\ pc' = "stopping"
  /\ UNCHANGED <<started, groupTree, accepted, threadVars, pending, drained, disposed,
                 groupFailure, groupFaults>>

\* Its job cannot be terminated: Complete() throws, and stops no other here.
ExpiryFails(t) ==
  /\ GroupFault
  /\ pc = "waiting" /\ t \in pending /\ completion[t] = "pending"
  /\ late' = late \cup {t}
  /\ stop' = stop \cup {t}
  /\ groupFailure' = "thrown"
  /\ pc' = "disposing"
  /\ UNCHANGED <<started, taskVars, pending, toStop, drained, disposed>>

StopNext(t) ==
  /\ pc = "stopping" /\ t \in toStop
  /\ groupKilled' = groupKilled \cup Terminated({t})
  /\ stop' = stop \cup {t}
  /\ toStop' = toStop \ {t}
  /\ UNCHANGED <<pc, started, groupTree, accepted, threadVars, late, pending, drained, disposed,
                 groupFailure, groupFaults>>

\* A job cannot be terminated: the rest are stopped, then Complete() throws.
StopFails(t) ==
  /\ GroupFault
  /\ pc = "stopping" /\ t \in toStop /\ completion[t] = "pending"
  /\ stop' = stop \cup {t}
  /\ toStop' = toStop \ {t}
  /\ groupFailure' = "thrown"
  /\ UNCHANGED <<pc, started, taskVars, late, pending, drained, disposed>>

AllStopped ==
  /\ pc = "stopping" /\ toStop = {}
  /\ pc' = IF groupFailure = "thrown" THEN "disposing" ELSE "draining"
  /\ UNCHANGED <<started, taskVars, stop, late, waitVars, groupFaults>>

\* WaitAfterStop of a task without a result yet.
Drain(t) ==
  /\ pc = "draining" /\ t \notin drained /\ completion[t] # "pending"
  /\ drained' = drained \cup {t}
  /\ Keep(completion[t] = "faulted")
  /\ UNCHANGED <<pc, started, taskVars, stop, late, pending, toStop, disposed, groupFaults>>

\* Its processes outlast thirty seconds.
DrainTimesOut(t) ==
  /\ pc = "draining" /\ t \notin drained /\ completion[t] = "pending"
  /\ drained' = drained \cup {t}
  /\ Keep(TRUE)
  /\ UNCHANGED <<pc, started, taskVars, stop, late, pending, toStop, disposed, groupFaults>>

AllDrained ==
  /\ pc = "draining" /\ drained = Task
  /\ pc' = "disposing"
  /\ UNCHANGED <<started, taskVars, stop, late, waitVars, groupFaults>>

\* Variant: only the tasks that have not completed are disposed of.
Dispose_Faulted(t) ==
  /\ pc = "disposing" /\ t \notin disposed
  /\ groupKilled' = groupKilled \cup (IF groupTree[t] = "live" /\ completion[t] = "pending" THEN {t} ELSE {})
  /\ stop' = stop \cup (IF t \in started /\ completion[t] = "pending" THEN {t} ELSE {})
  /\ disposed' = disposed \cup {t}
  /\ UNCHANGED <<pc, started, groupTree, accepted, threadVars, late, pending, toStop, drained,
                 groupFailure, groupFaults>>

\* A task that runs is stopped; its job is closed, which kills what is left.
Dispose(t) ==
  /\ pc = "disposing" /\ t \notin disposed
  /\ groupKilled' = groupKilled \cup (IF groupTree[t] = "live" THEN {t} ELSE {})
  /\ stop' = stop \cup (IF t \in started /\ completion[t] = "pending" THEN {t} ELSE {})
  /\ disposed' = disposed \cup {t}
  /\ UNCHANGED <<pc, started, groupTree, accepted, threadVars, late, pending, toStop, drained,
                 groupFailure, groupFaults>>

Leave ==
  /\ pc = "disposing" /\ disposed = Task
  /\ pc' = IF Clean THEN "returned" ELSE "threw"
  /\ UNCHANGED <<started, taskVars, stop, late, waitVars, groupFaults>>

-----------------------------------------------------------------------------

Script ==
  \/ BeginComplete \/ AllStopped \/ AllDrained \/ Leave
  \/ \E t \in Task :
       StartTask(t) \/ TaskSucceeds(t) \/ TaskFails(t) \/ TaskExpires(t) \/ StopNext(t)
       \/ Drain(t) \/ DrainTimesOut(t) \/ Dispose(t)

Failure ==
  \/ StartFails
  \/ \E stuck \in SUBSET Task : StopGroup(stuck)
  \/ \E t \in Task : Faults(t) \/ StopFails(t) \/ ExpiryFails(t)

GroupNext == Script \/ Failure \/ \E t \in Task : TreeEnds(t) \/ SeesEnd(t) \/ GroupCompletes(t)

GroupSpec == GroupInit /\ [][GroupNext]_groupVars

\* The script goes on, up to the tasks' deadlines; the threads of the tasks
\* see their jobs end; Windows ends a killed job. When an installer ends by
\* itself is not assumed.
GroupFairness ==
  /\ WF_groupVars(Script)
  /\ \A t \in Task :
       /\ WF_groupVars(SeesEnd(t))
       /\ WF_groupVars(GroupCompletes(t))
       /\ WF_groupVars(t \in groupKilled /\ TreeEnds(t))

GroupFairSpec == GroupSpec /\ GroupFairness

-----------------------------------------------------------------------------

\* When the call has ended, no process of the group runs that was not killed:
\* an installer does not go on behind a failed provisioning
\* (provisioning-process.cs, Dispose and KILL_ON_JOB_CLOSE).
NoInstallerEscapes ==
  \A t \in Task : pc \in Ended /\ groupTree[t] = "live" => t \in groupKilled

\* Results that are returned are those of trees that have ended, for each
\* task: an installer that succeeded leaves nothing running
\* (provisioning-process.cs, CompleteOwnedProcessTree).
ResultsComplete ==
  pc = "returned" => \A t \in Task : groupTree[t] = "gone" /\ completion[t] \in Settled

\* When results are returned and one of them is that of a stopped task, a
\* task failed by itself or its time was up (provisioning-process.cs,
\* Complete): nothing is stopped for no reason.
StoppedHasCause ==
  pc = "returned" => \A t \in Task : completion[t] = "stopped" =>
    \E u \in Task : u \in late \/ completion[u] = "bad"

\* When every result that is returned is a success, no job was terminated
\* while its processes ran, and each root ended with an accepted code
\* (base.ps1, Complete-ProvisioningNativeGroup).
SuccessIsWhole ==
  pc = "returned" /\ (\A t \in Task : completion[t] = "ok") =>
    groupKilled = {} /\ accepted = Task

\* What the results of the group say is what was done to its jobs, although
\* tasks complete, fail and run out of time beside each other.
ResultsAreTrue == StoppedHasCause /\ SuccessIsWhole

\* The failure of one task ends the processes of the others
\* (provisioning-process.cs, StopPending).
FailureStopsAll ==
  \A u \in Task :
    (pc = "waiting" /\ groupTree[u] = "live" /\ \E t \in pending : completion[t] = "bad")
      ~> groupTree[u] = "gone"

-----------------------------------------------------------------------------
(* The invariant behind the safety properties.                             *)

Trees ==
  \A t \in Task :
    /\ t \in started <=> groupTree[t] # "none"
    /\ sampled[t] # "no" => groupTree[t] = "gone"
    /\ completion[t] \in Settled => sampled[t] # "no"
    /\ completion[t] = "faulted" => groupTree[t] # "none"
    /\ t \in accepted => groupTree[t] = "gone"

Flags ==
  \A t \in Task :
    /\ completion[t] = "ok" => t \in accepted
    /\ completion[t] = "stopped" => t \in stop
    /\ completion[t] = "timed-out" <=> completion[t] \in Settled /\ sampled[t] = "late"
    /\ sampled[t] = "late" => t \in late
    /\ t \in late => t \in stop
    /\ t \in groupKilled => t \in stop \/ completion[t] = "faulted"
    /\ t \in groupKilled => completion[t] \notin {"ok", "bad"}

\* Why a task is stopped while Complete() can still return.
Causes ==
  Clean => \A t \in Task :
    t \in toStop \/ (t \in stop /\ pc \in {"stopping", "draining"}) \/ completion[t] = "stopped" =>
      \E u \in Task : u \in late \/ completion[u] = "bad"

Steps ==
  /\ pc \in {"starting", "held"} => pending = {} /\ toStop = {} /\ drained = {} /\ stop = {} /\ Clean
  /\ pc = "waiting" => Clean /\ toStop = {} /\ stop = {} /\ pending = Task \ drained
  /\ Clean \/ pc \notin {"starting", "disposing"} \cup Ended => (pc = "starting" \/ started = Task)
  /\ Clean => \A t \in drained : completion[t] \in Settled
  /\ Clean /\ pc \in {"disposing"} \cup Ended => drained = Task
  /\ pc \notin {"disposing"} \cup Ended => disposed = {}
  /\ pc \in Ended => disposed = Task
  /\ \A t \in disposed : groupTree[t] = "live" => t \in groupKilled
  /\ pc = "returned" => Clean

GroupIInv == GroupTypeOK /\ Trees /\ Flags /\ Causes /\ Steps
=============================================================================
