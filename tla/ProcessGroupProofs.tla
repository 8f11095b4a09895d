------------------------- MODULE ProcessGroupProofs -------------------------
(***************************************************************************)
(* ProcessGroup for any set of tasks and any number of faults: the         *)
(* invariant of the script, the tasks' threads and their jobs, and what    *)
(* follows from it.                                                        *)
(***************************************************************************)
EXTENDS ProcessGroup, TLAPS

\* Nothing is started.
LEMMA InitInv == GroupInit => GroupIInv
<1> SUFFICES ASSUME GroupInit PROVE GroupIInv OBVIOUS
<1> USE DEF GroupInit
<1>1. GroupTypeOK BY DEF GroupTypeOK, Settled, Ended
<1>2. Trees /\ Flags BY DEF Trees, Flags, Settled
<1>3. Causes /\ Steps BY DEF Causes, Steps, Clean, Ended
<1> QED BY <1>1, <1>2, <1>3 DEF GroupIInv

\* The processes of a task, and the thread that waits for them.
LEMMA TaskInv ==
  ASSUME GroupIInv, NEW t \in Task, TreeEnds(t) \/ SeesEnd(t) \/ GroupCompletes(t) \/ Faults(t)
  PROVE  GroupIInv'
<1> USE DEF GroupIInv, GroupTypeOK, Trees, Flags, Causes, Steps, Settled, Ended, Clean, threadVars, taskVars, waitVars
<1>1. CASE TreeEnds(t) BY <1>1 DEF TreeEnds
<1>2. CASE SeesEnd(t) BY <1>2 DEF SeesEnd
<1>3. CASE GroupCompletes(t)
  <2> USE <1>3 DEF GroupCompletes
  <2>1. GroupTypeOK' OBVIOUS
  <2>2. Trees' OBVIOUS
  <2>3. Flags' OBVIOUS
  <2>4. Causes' OBVIOUS
  <2>5. Steps' OBVIOUS
  <2> QED BY <2>1, <2>2, <2>3, <2>4, <2>5
<1>4. CASE Faults(t) BY <1>4 DEF Faults, GroupFault
<1> QED BY <1>1, <1>2, <1>3, <1>4

\* What the script's thread does to one task.
LEMMA WaitInv ==
  ASSUME GroupIInv, NEW t \in Task, StartTask(t) \/ TaskSucceeds(t) \/ TaskFails(t) \/ TaskExpires(t) \/ StopNext(t)
         \/ Drain(t) \/ DrainTimesOut(t) \/ Dispose(t)
  PROVE  GroupIInv'
<1> USE DEF GroupIInv, GroupTypeOK, Trees, Flags, Causes, Steps, Settled, Ended, Clean, threadVars, taskVars, waitVars
<1>1. CASE StartTask(t)
  <2> USE <1>1 DEF StartTask
  <2>1. GroupTypeOK' OBVIOUS
  <2>2. Trees' OBVIOUS
  <2>3. Flags' OBVIOUS
  <2>4. Causes' OBVIOUS
  <2>5. Steps' OBVIOUS
  <2> QED BY <2>1, <2>2, <2>3, <2>4, <2>5
<1>2. CASE TaskSucceeds(t)
  <2> USE <1>2 DEF TaskSucceeds
  <2>1. GroupTypeOK' OBVIOUS
  <2>2. Trees' OBVIOUS
  <2>3. Flags' OBVIOUS
  <2>4. Causes' OBVIOUS
  <2>5. Steps' OBVIOUS
  <2> QED BY <2>1, <2>2, <2>3, <2>4, <2>5
<1>3. CASE TaskFails(t)
  <2> USE <1>3 DEF TaskFails, Failed, Keep
  <2>1. GroupTypeOK' OBVIOUS
  <2>2. Trees' OBVIOUS
  <2>3. Flags' OBVIOUS
  <2>4. Causes' OBVIOUS
  <2>5. Steps' OBVIOUS
  <2> QED BY <2>1, <2>2, <2>3, <2>4, <2>5
<1>4. CASE TaskExpires(t)
  <2> USE <1>4 DEF TaskExpires, Terminated
  <2>1. GroupTypeOK' OBVIOUS
  <2>2. Trees' OBVIOUS
  <2>3. Flags' OBVIOUS
  <2>4. Causes' OBVIOUS
  <2>5. Steps' OBVIOUS
  <2> QED BY <2>1, <2>2, <2>3, <2>4, <2>5
<1>5. CASE StopNext(t)
  <2> USE <1>5 DEF StopNext, Terminated
  <2>1. GroupTypeOK' OBVIOUS
  <2>2. Trees' OBVIOUS
  <2>3. Flags' OBVIOUS
  <2>4. Causes' OBVIOUS
  <2>5. Steps' OBVIOUS
  <2> QED BY <2>1, <2>2, <2>3, <2>4, <2>5
<1>6. CASE Drain(t)
  <2> USE <1>6 DEF Drain, Keep
  <2>1. GroupTypeOK' OBVIOUS
  <2>2. Trees' OBVIOUS
  <2>3. Flags' OBVIOUS
  <2>4. Causes' OBVIOUS
  <2>5. Steps' OBVIOUS
  <2> QED BY <2>1, <2>2, <2>3, <2>4, <2>5
<1>7. CASE DrainTimesOut(t) BY <1>7 DEF DrainTimesOut, Keep
<1>8. CASE Dispose(t)
  <2> USE <1>8 DEF Dispose
  <2>1. GroupTypeOK' OBVIOUS
  <2>2. Trees' OBVIOUS
  <2>3. Flags' OBVIOUS
  <2>4. Causes' OBVIOUS
  <2>5. Steps' OBVIOUS
  <2> QED BY <2>1, <2>2, <2>3, <2>4, <2>5
<1> QED BY <1>1, <1>2, <1>3, <1>4, <1>5, <1>6, <1>7, <1>8

\* The script's thread between its tasks.
LEMMA FlowInv ==
  ASSUME GroupIInv, BeginComplete \/ AllStopped \/ AllDrained \/ Leave
  PROVE  GroupIInv'
<1> USE DEF GroupIInv, GroupTypeOK, Trees, Flags, Causes, Steps, Settled, Ended, Clean, threadVars, taskVars, waitVars
<1>1. CASE BeginComplete BY <1>1 DEF BeginComplete
<1>2. CASE AllStopped BY <1>2 DEF AllStopped
<1>3. CASE AllDrained
  <2> USE <1>3 DEF AllDrained
  <2>1. GroupTypeOK' OBVIOUS
  <2>2. Trees' OBVIOUS
  <2>3. Flags' OBVIOUS
  <2>4. Causes' OBVIOUS
  <2>5. Steps' OBVIOUS
  <2> QED BY <2>1, <2>2, <2>3, <2>4, <2>5
<1>4. CASE Leave BY <1>4 DEF Leave
<1> QED BY <1>1, <1>2, <1>3, <1>4

\* What fails, and a caller that stops the group.
LEMMA FailureInv ==
  ASSUME GroupIInv, Failure
  PROVE  GroupIInv'
<1> USE DEF GroupIInv, GroupTypeOK, Trees, Flags, Causes, Steps, Settled, Ended, Clean, threadVars, taskVars, waitVars
<1>1. CASE StartFails BY <1>1 DEF StartFails, GroupFault, Terminated
<1>2. ASSUME NEW stuck \in SUBSET Task, StopGroup(stuck) PROVE GroupIInv'
  <2> USE <1>2 DEF StopGroup, Terminated, GroupFault
  <2>1. GroupTypeOK' OBVIOUS
  <2>2. Trees' OBVIOUS
  <2>3. Flags' OBVIOUS
  <2>4. Causes' OBVIOUS
  <2>5. Steps' OBVIOUS
  <2> QED BY <2>1, <2>2, <2>3, <2>4, <2>5
<1>3. ASSUME NEW t \in Task, Faults(t) PROVE GroupIInv' BY <1>3, TaskInv
<1>4. ASSUME NEW t \in Task, StopFails(t) PROVE GroupIInv' BY <1>4 DEF StopFails, GroupFault
<1>5. ASSUME NEW t \in Task, ExpiryFails(t) PROVE GroupIInv' BY <1>5 DEF ExpiryFails, GroupFault
<1> QED BY <1>1, <1>2, <1>3, <1>4, <1>5 DEF Failure

LEMMA StepInv == GroupIInv /\ [GroupNext]_groupVars => GroupIInv'
<1> SUFFICES ASSUME GroupIInv, [GroupNext]_groupVars PROVE GroupIInv' OBVIOUS
<1>1. CASE Script BY <1>1, WaitInv, FlowInv DEF Script
<1>2. CASE Failure BY <1>2, FailureInv
<1>3. CASE \E t \in Task : TreeEnds(t) \/ SeesEnd(t) \/ GroupCompletes(t) BY <1>3, TaskInv
<1>4. CASE UNCHANGED groupVars
  BY <1>4 DEF groupVars, threadVars, taskVars, waitVars, GroupIInv, GroupTypeOK, Trees, Flags, Causes, Steps,
     Settled, Ended, Clean
<1> QED BY <1>1, <1>2, <1>3, <1>4 DEF GroupNext

\* The steps of the script, of the tasks' threads and of Windows keep the
\* flags, the jobs and the results in agreement, for any number of tasks.
THEOREM GroupInvariant == GroupSpec => []GroupIInv
BY InitInv, StepInv, PTL DEF GroupSpec

\* When the call has ended, no process of the group runs that was not killed.
THEOREM GroupContained == GroupSpec => []NoInstallerEscapes
<1>1. GroupIInv => NoInstallerEscapes BY DEF GroupIInv, Steps, NoInstallerEscapes
<1> QED BY <1>1, GroupInvariant, PTL

\* Returned results are those of trees that have ended.
THEOREM GroupResults == GroupSpec => []ResultsComplete
<1>1. GroupIInv => ResultsComplete BY DEF GroupIInv, GroupTypeOK, Trees, Steps, ResultsComplete, Clean, Ended
<1> QED BY <1>1, GroupInvariant, PTL

\* A task is stopped only when one failed or its time was up.
THEOREM GroupStopsForCause == GroupSpec => []StoppedHasCause
<1>1. GroupIInv => StoppedHasCause BY DEF GroupIInv, Causes, Steps, StoppedHasCause
<1> QED BY <1>1, GroupInvariant, PTL

\* When all results are successes, no job was terminated early and each root
\* ended with an accepted code.
THEOREM GroupSuccess == GroupSpec => []SuccessIsWhole
<1>1. GroupIInv => SuccessIsWhole BY DEF GroupIInv, GroupTypeOK, Flags, SuccessIsWhole
<1> QED BY <1>1, GroupInvariant, PTL

\* The results of the group agree with what was done to its jobs.
THEOREM GroupReports == GroupSpec => []ResultsAreTrue
<1>1. StoppedHasCause /\ SuccessIsWhole => ResultsAreTrue BY DEF ResultsAreTrue
<1> QED BY <1>1, GroupStopsForCause, GroupSuccess, PTL
=============================================================================
