------------------------ MODULE HiddenCommandProofs ------------------------
(***************************************************************************)
(* HiddenCommand for any number of native calls that fail: the invariant   *)
(* of the three goroutines and the process tree, and what follows from it. *)
(***************************************************************************)
EXTENDS HiddenCommand, TLAPS

\* The steps before the root process is there, while it is given up, and of Wait.
Before == {"start", "job", "created", "assigned", "resumed"}
GivingUp == {"rollback", "rollback close", "rollback wait"}
Waiting == {"reaping", "draining", "joining", "terminating", "closing"}
Ending == {"wait", "watcher", "reader"}

CommandTypeOK ==
  /\ root \in {"none", "suspended", "running", "exited"}
  /\ descendant \in {"none", "running", "ended"}
  /\ job \in {"none", "open", "closed"}
  /\ starter \in Before \cup GivingUp \cup Waiting \cup {"returned"}
  /\ watcher \in {"off", "waiting", "deciding", "terminating", "done"}
  /\ reader \in {"off", "waiting", "terminating", "joining", "returned"}
  /\ terminateOnce \in {"new", "failed", "done"} \cup Ending
  /\ commandFaults \in Nat

\* How many native calls have failed at least.
OneFailed == commandFaults > 0
TwoFailed == commandFaults > 1

Running == root = "running" \/ descendant = "running"

\* How far Start is, and what there is to end.
Started ==
  /\ starter \in {"start", "job"} => root = "none" /\ descendant = "none" /\ ~assigned
  /\ starter \in {"created", "assigned"} => root = "suspended" /\ descendant = "none"
  /\ starter = "created" => ~assigned
  /\ starter \in {"job", "created", "assigned", "rollback", "rollback close"} => job = "open"
  /\ starter \in {"assigned", "resumed"} \cup Waiting => assigned
  /\ starter \in {"resumed"} \cup Waiting => root \in {"running", "exited"}
  /\ starter \in {"draining", "joining", "terminating", "closing"} => root = "exited"
  /\ ~assigned => ~Running
  /\ descendant # "none" => root \in {"running", "exited"}

\* A start that is given up has failed, and leaves what two calls could not end.
GivenUp ==
  /\ starter \in GivingUp => commandFailure
  /\ starter = "rollback close" /\ Running => OneFailed
  /\ starter = "rollback wait" /\ Running => TwoFailed /\ job = "open"

\* The goroutines of a command that runs, and the one call that ends it.
Goroutines ==
  /\ reader = "off" <=> watcher = "off"
  /\ reader = "off" => terminateOnce = "new" /\ starter \notin Waiting
  /\ reader # "off" => starter \in Waiting \cup {"returned"}
  /\ finished => reader # "off"
  /\ reader # "off" /\ starter = "returned" => terminateOnce \in {"done", "failed"}
  /\ starter = "closing" => terminateOnce \in {"done", "failed"}
  /\ starter = "closing" /\ terminateOnce = "failed" => commandFailure
  /\ starter \in {"terminating", "closing"} => watcher = "done"
  /\ reader # "off" /\ starter = "returned" => watcher = "done"

\* What the call has achieved.
Terminated ==
  /\ starter \in {"resumed"} \cup Waiting /\ terminateOnce # "failed" => job = "open"
  /\ terminateOnce = "done" => ~Running
  /\ terminateOnce \in Ending => OneFailed
  /\ terminateOnce = "failed" /\ Running => TwoFailed /\ job = "open"

Returned ==
  starter = "returned" =>
    /\ root \in {"none", "exited"}
    /\ descendant = "running" => commandFailure /\ TwoFailed /\ job = "open"

\* What is told of the end.
Told ==
  /\ watcher = "terminating" => contextErr
  /\ reader \in {"terminating", "joining"} => overflow
  /\ reader = "returned" => starter = "returned"
  /\ reader = "returned" /\ exceeded => overflow

CommandInv ==
  CommandTypeOK /\ Started /\ GivenUp /\ Goroutines /\ Terminated /\ Returned /\ Told

-----------------------------------------------------------------------------
\* Failed native calls are counted.
Counting ==
  /\ TwoFailed => OneFailed
  /\ commandFaults' = commandFaults =>
       commandFaults' \in Nat /\ (OneFailed' <=> OneFailed) /\ (TwoFailed' <=> TwoFailed)
  /\ Breaks => commandFaults' \in Nat /\ OneFailed' /\ (OneFailed => TwoFailed')

LEMMA Counted == commandFaults \in Nat => Counting
BY DEF Counting, Breaks, OneFailed, TwoFailed

\* A command that has not started.
LEMMA InitInv == CommandInit => CommandInv
<1> SUFFICES ASSUME CommandInit PROVE CommandInv OBVIOUS
<1> USE DEF CommandInit, Started, GivenUp, Goroutines, Terminated, Returned, Told, Running, Before, GivingUp, Waiting, Ending
<1>1. CommandTypeOK BY DEF CommandTypeOK
<1>2. Started OBVIOUS
<1>3. GivenUp OBVIOUS
<1>4. Goroutines OBVIOUS
<1>5. Terminated OBVIOUS
<1>6. Returned OBVIOUS
<1>7. Told OBVIOUS
<1> QED BY <1>1, <1>2, <1>3, <1>4, <1>5, <1>6, <1>7 DEF CommandInv

\* What the context and the processes do.
LEMMA TreeInv ==
  ASSUME CommandInv, CancelCommand \/ Spawn \/ Exit \/ WriteTooMuch
  PROVE  CommandInv'
<1>0. Counting BY Counted DEF CommandInv, CommandTypeOK
<1> USE <1>0 DEF Counting, CommandInv, CommandTypeOK, Started, GivenUp, Goroutines, Terminated, Returned, Told,
        Running, Before, GivingUp, Waiting, Ending, treeVars
<1>1. CASE CancelCommand
  <2> USE <1>1 DEF CancelCommand
  <2>1. CommandTypeOK' OBVIOUS
  <2>2. Started' OBVIOUS
  <2>3. GivenUp' OBVIOUS
  <2>4. Goroutines' OBVIOUS
  <2>5. Terminated' OBVIOUS
  <2>6. Returned' OBVIOUS
  <2>7. Told' OBVIOUS
  <2> QED BY <2>1, <2>2, <2>3, <2>4, <2>5, <2>6, <2>7
<1>2. CASE Spawn
  <2> USE <1>2 DEF Spawn
  <2>1. CommandTypeOK' OBVIOUS
  <2>2. Started' OBVIOUS
  <2>3. GivenUp' OBVIOUS
  <2>4. Goroutines' OBVIOUS
  <2>5. Terminated' OBVIOUS
  <2>6. Returned' OBVIOUS
  <2>7. Told' OBVIOUS
  <2> QED BY <2>1, <2>2, <2>3, <2>4, <2>5, <2>6, <2>7
<1>3. CASE Exit
  <2> USE <1>3 DEF Exit
  <2>1. CommandTypeOK' OBVIOUS
  <2>2. Started' OBVIOUS
  <2>3. GivenUp' OBVIOUS
  <2>4. Goroutines' OBVIOUS
  <2>5. Terminated' OBVIOUS
  <2>6. Returned' OBVIOUS
  <2>7. Told' OBVIOUS
  <2> QED BY <2>1, <2>2, <2>3, <2>4, <2>5, <2>6, <2>7
<1>4. CASE WriteTooMuch
  <2> USE <1>4 DEF WriteTooMuch
  <2>1. CommandTypeOK' OBVIOUS
  <2>2. Started' OBVIOUS
  <2>3. GivenUp' OBVIOUS
  <2>4. Goroutines' OBVIOUS
  <2>5. Terminated' OBVIOUS
  <2>6. Returned' OBVIOUS
  <2>7. Told' OBVIOUS
  <2> QED BY <2>1, <2>2, <2>3, <2>4, <2>5, <2>6, <2>7
<1> QED BY <1>1, <1>2, <1>3, <1>4

\* Start, and what it gives up.
LEMMA StartInv ==
  ASSUME CommandInv, CreateJob \/ StartSuspended \/ Assign \/ Resume \/ Publish \/ RollbackTerminate \/ RollbackClose \/ RollbackWait
  PROVE  CommandInv'
<1>0. Counting BY Counted DEF CommandInv, CommandTypeOK
<1> USE <1>0 DEF Counting, CommandInv, CommandTypeOK, Started, GivenUp, Goroutines, Terminated, Returned, Told,
        Running, Before, GivingUp, Waiting, Ending, treeVars
<1>1. CASE CreateJob
  <2> USE <1>1 DEF CreateJob, Works, Goes, Rest
  <2>1. CommandTypeOK' OBVIOUS
  <2>2. Started' OBVIOUS
  <2>3. GivenUp' OBVIOUS
  <2>4. Goroutines' OBVIOUS
  <2>5. Terminated' OBVIOUS
  <2>6. Returned' OBVIOUS
  <2>7. Told' OBVIOUS
  <2> QED BY <2>1, <2>2, <2>3, <2>4, <2>5, <2>6, <2>7
<1>2. CASE StartSuspended
  <2> USE <1>2 DEF StartSuspended, Works, Goes, Rest
  <2>1. CommandTypeOK' OBVIOUS
  <2>2. Started' OBVIOUS
  <2>3. GivenUp' OBVIOUS
  <2>4. Goroutines' OBVIOUS
  <2>5. Terminated' OBVIOUS
  <2>6. Returned' OBVIOUS
  <2>7. Told' OBVIOUS
  <2> QED BY <2>1, <2>2, <2>3, <2>4, <2>5, <2>6, <2>7
<1>3. CASE Assign
  <2> USE <1>3 DEF Assign, Works, Goes, Rest, Rollback
  <2>1. CommandTypeOK' OBVIOUS
  <2>2. Started' OBVIOUS
  <2>3. GivenUp' OBVIOUS
  <2>4. Goroutines' OBVIOUS
  <2>5. Terminated' OBVIOUS
  <2>6. Returned' OBVIOUS
  <2>7. Told' OBVIOUS
  <2> QED BY <2>1, <2>2, <2>3, <2>4, <2>5, <2>6, <2>7
<1>4. CASE Resume
  <2> USE <1>4 DEF Resume, Works, Goes, Rest, Rollback
  <2>1. CommandTypeOK' OBVIOUS
  <2>2. Started' OBVIOUS
  <2>3. GivenUp' OBVIOUS
  <2>4. Goroutines' OBVIOUS
  <2>5. Terminated' OBVIOUS
  <2>6. Returned' OBVIOUS
  <2>7. Told' OBVIOUS
  <2> QED BY <2>1, <2>2, <2>3, <2>4, <2>5, <2>6, <2>7
<1>5. CASE Publish
  <2> USE <1>5 DEF Publish, Goes
  <2>1. CommandTypeOK' OBVIOUS
  <2>2. Started' OBVIOUS
  <2>3. GivenUp' OBVIOUS
  <2>4. Goroutines' OBVIOUS
  <2>5. Terminated' OBVIOUS
  <2>6. Returned' OBVIOUS
  <2>7. Told' OBVIOUS
  <2> QED BY <2>1, <2>2, <2>3, <2>4, <2>5, <2>6, <2>7
<1>6. CASE RollbackTerminate
  <2> USE <1>6 DEF RollbackTerminate, Goes, Killed, Spare, Works, Rest
  <2>1. CommandTypeOK' OBVIOUS
  <2>2. Started' OBVIOUS
  <2>3. GivenUp' OBVIOUS
  <2>4. Goroutines' OBVIOUS
  <2>5. Terminated' OBVIOUS
  <2>6. Returned' OBVIOUS
  <2>7. Told' OBVIOUS
  <2> QED BY <2>1, <2>2, <2>3, <2>4, <2>5, <2>6, <2>7
<1>7. CASE RollbackClose
  <2> USE <1>7 DEF RollbackClose, Goes, CloseJob, Killed, Spare, Works, Rest
  <2>1. CommandTypeOK' OBVIOUS
  <2>2. Started' OBVIOUS
  <2>3. GivenUp' OBVIOUS
  <2>4. Goroutines' OBVIOUS
  <2>5. Terminated' OBVIOUS
  <2>6. Returned' OBVIOUS
  <2>7. Told' OBVIOUS
  <2> QED BY <2>1, <2>2, <2>3, <2>4, <2>5, <2>6, <2>7
<1>8. CASE RollbackWait
  <2> USE <1>8 DEF RollbackWait, Goes, Rest
  <2>1. CommandTypeOK' OBVIOUS
  <2>2. Started' OBVIOUS
  <2>3. GivenUp' OBVIOUS
  <2>4. Goroutines' OBVIOUS
  <2>5. Terminated' OBVIOUS
  <2>6. Returned' OBVIOUS
  <2>7. Told' OBVIOUS
  <2> QED BY <2>1, <2>2, <2>3, <2>4, <2>5, <2>6, <2>7
<1> QED BY <1>1, <1>2, <1>3, <1>4, <1>5, <1>6, <1>7, <1>8

\* Wait.
LEMMA WaitInv ==
  ASSUME CommandInv, Reap \/ Finish \/ JoinWatcher \/ TerminateInWait \/ CloseInWait
  PROVE  CommandInv'
<1>0. Counting BY Counted DEF CommandInv, CommandTypeOK
<1> USE <1>0 DEF Counting, CommandInv, CommandTypeOK, Started, GivenUp, Goroutines, Terminated, Returned, Told,
        Running, Before, GivingUp, Waiting, Ending, treeVars
<1>1. CASE Reap
  <2> USE <1>1 DEF Reap, Rest
  <2>1. CommandTypeOK' OBVIOUS
  <2>2. Started' OBVIOUS
  <2>3. GivenUp' OBVIOUS
  <2>4. Goroutines' OBVIOUS
  <2>5. Terminated' OBVIOUS
  <2>6. Returned' OBVIOUS
  <2>7. Told' OBVIOUS
  <2> QED BY <2>1, <2>2, <2>3, <2>4, <2>5, <2>6, <2>7
<1>2. CASE Finish
  <2> USE <1>2 DEF Finish
  <2>1. CommandTypeOK' OBVIOUS
  <2>2. Started' OBVIOUS
  <2>3. GivenUp' OBVIOUS
  <2>4. Goroutines' OBVIOUS
  <2>5. Terminated' OBVIOUS
  <2>6. Returned' OBVIOUS
  <2>7. Told' OBVIOUS
  <2> QED BY <2>1, <2>2, <2>3, <2>4, <2>5, <2>6, <2>7
<1>3. CASE JoinWatcher
  <2> USE <1>3 DEF JoinWatcher, Goes, Rest
  <2>1. CommandTypeOK' OBVIOUS
  <2>2. Started' OBVIOUS
  <2>3. GivenUp' OBVIOUS
  <2>4. Goroutines' OBVIOUS
  <2>5. Terminated' OBVIOUS
  <2>6. Returned' OBVIOUS
  <2>7. Told' OBVIOUS
  <2> QED BY <2>1, <2>2, <2>3, <2>4, <2>5, <2>6, <2>7
<1>4. CASE TerminateInWait
  <2> USE <1>4 DEF TerminateInWait, Terminates, FallsBack, CloseJob, Killed, Spare, Works, Goes
  <2>1. CommandTypeOK' OBVIOUS
  <2>2. Started' OBVIOUS
  <2>3. GivenUp' OBVIOUS
  <2>4. Goroutines' OBVIOUS
  <2>5. Terminated' OBVIOUS
  <2>6. Returned' OBVIOUS
  <2>7. Told' OBVIOUS
  <2> QED BY <2>1, <2>2, <2>3, <2>4, <2>5, <2>6, <2>7
<1>5. CASE CloseInWait
  <2> USE <1>5 DEF CloseInWait, CloseJob, Killed, Spare, Works, Rest
  <2>1. CommandTypeOK' OBVIOUS
  <2>2. Started' OBVIOUS
  <2>3. GivenUp' OBVIOUS
  <2>4. Goroutines' OBVIOUS
  <2>5. Terminated' OBVIOUS
  <2>6. Returned'
    <3>1. CASE terminateOnce = "failed" BY <3>1
    <3>2. CASE terminateOnce = "done" BY <3>2
    <3>3. terminateOnce = "failed" \/ terminateOnce = "done" OBVIOUS
    <3> QED BY <3>1, <3>2, <3>3
  <2>7. Told' OBVIOUS
  <2> QED BY <2>1, <2>2, <2>3, <2>4, <2>5, <2>6, <2>7
<1> QED BY <1>1, <1>2, <1>3, <1>4, <1>5

\* The watcher and the reader.
LEMMA OthersInv ==
  ASSUME CommandInv, Watch \/ Decide \/ TerminateInWatcher \/ Receive \/ StopOverflow \/ TerminateInReader \/ Join
  PROVE  CommandInv'
<1>0. Counting BY Counted DEF CommandInv, CommandTypeOK
<1> USE <1>0 DEF Counting, CommandInv, CommandTypeOK, Started, GivenUp, Goroutines, Terminated, Returned, Told,
        Running, Before, GivingUp, Waiting, Ending, treeVars
<1>1. CASE Watch
  <2> USE <1>1 DEF Watch
  <2>1. CommandTypeOK' OBVIOUS
  <2>2. Started' OBVIOUS
  <2>3. GivenUp' OBVIOUS
  <2>4. Goroutines' OBVIOUS
  <2>5. Terminated' OBVIOUS
  <2>6. Returned' OBVIOUS
  <2>7. Told' OBVIOUS
  <2> QED BY <2>1, <2>2, <2>3, <2>4, <2>5, <2>6, <2>7
<1>2. CASE Decide
  <2> USE <1>2 DEF Decide
  <2>1. CommandTypeOK' OBVIOUS
  <2>2. Started' OBVIOUS
  <2>3. GivenUp' OBVIOUS
  <2>4. Goroutines' OBVIOUS
  <2>5. Terminated' OBVIOUS
  <2>6. Returned' OBVIOUS
  <2>7. Told' OBVIOUS
  <2> QED BY <2>1, <2>2, <2>3, <2>4, <2>5, <2>6, <2>7
<1>3. CASE TerminateInWatcher
  <2> USE <1>3 DEF TerminateInWatcher, Terminates, FallsBack, CloseJob, Killed, Spare, Works
  <2>1. CommandTypeOK' OBVIOUS
  <2>2. Started' OBVIOUS
  <2>3. GivenUp' OBVIOUS
  <2>4. Goroutines' OBVIOUS
  <2>5. Terminated' OBVIOUS
  <2>6. Returned' OBVIOUS
  <2>7. Told' OBVIOUS
  <2> QED BY <2>1, <2>2, <2>3, <2>4, <2>5, <2>6, <2>7
<1>4. CASE Receive
  <2> USE <1>4 DEF Receive
  <2>1. CommandTypeOK' OBVIOUS
  <2>2. Started' OBVIOUS
  <2>3. GivenUp' OBVIOUS
  <2>4. Goroutines' OBVIOUS
  <2>5. Terminated' OBVIOUS
  <2>6. Returned' OBVIOUS
  <2>7. Told' OBVIOUS
  <2> QED BY <2>1, <2>2, <2>3, <2>4, <2>5, <2>6, <2>7
<1>5. CASE StopOverflow
  <2> USE <1>5 DEF StopOverflow
  <2>1. CommandTypeOK' OBVIOUS
  <2>2. Started' OBVIOUS
  <2>3. GivenUp' OBVIOUS
  <2>4. Goroutines' OBVIOUS
  <2>5. Terminated' OBVIOUS
  <2>6. Returned' OBVIOUS
  <2>7. Told' OBVIOUS
  <2> QED BY <2>1, <2>2, <2>3, <2>4, <2>5, <2>6, <2>7
<1>6. CASE TerminateInReader
  <2> USE <1>6 DEF TerminateInReader, Terminates, FallsBack, CloseJob, Killed, Spare, Works
  <2>1. CommandTypeOK' OBVIOUS
  <2>2. Started' OBVIOUS
  <2>3. GivenUp' OBVIOUS
  <2>4. Goroutines' OBVIOUS
  <2>5. Terminated' OBVIOUS
  <2>6. Returned' OBVIOUS
  <2>7. Told' OBVIOUS
  <2> QED BY <2>1, <2>2, <2>3, <2>4, <2>5, <2>6, <2>7
<1>7. CASE Join
  <2> USE <1>7 DEF Join
  <2>1. CommandTypeOK' OBVIOUS
  <2>2. Started' OBVIOUS
  <2>3. GivenUp' OBVIOUS
  <2>4. Goroutines' OBVIOUS
  <2>5. Terminated' OBVIOUS
  <2>6. Returned' OBVIOUS
  <2>7. Told' OBVIOUS
  <2> QED BY <2>1, <2>2, <2>3, <2>4, <2>5, <2>6, <2>7
<1> QED BY <1>1, <1>2, <1>3, <1>4, <1>5, <1>6, <1>7

\* A step that changes nothing.
LEMMA StutterInv == ASSUME CommandInv, UNCHANGED cmdVars PROVE CommandInv'
<1>0. Counting BY Counted DEF CommandInv, CommandTypeOK
<1> USE <1>0 DEF Counting, CommandInv, cmdVars, treeVars
<1>1. CommandTypeOK' BY DEF CommandTypeOK, Running
<1>2. Started' BY DEF Started, Running
<1>3. GivenUp' BY DEF GivenUp, Running
<1>4. Goroutines' BY DEF Goroutines, Running
<1>5. Terminated' BY DEF Terminated, Running
<1>6. Returned' BY DEF Returned, Running
<1>7. Told' BY DEF Told, Running
<1> QED BY <1>1, <1>2, <1>3, <1>4, <1>5, <1>6, <1>7

\* The invariant is kept by every step.
LEMMA StepInv == CommandInv /\ [CommandNext]_cmdVars => CommandInv'
<1> SUFFICES ASSUME CommandInv, [CommandNext]_cmdVars PROVE CommandInv' OBVIOUS
<1>1. CASE CancelCommand \/ Spawn \/ Exit \/ WriteTooMuch BY <1>1, TreeInv
<1>2. CASE StartStep BY <1>2, StartInv DEF StartStep
<1>3. CASE WaitStep BY <1>3, WaitInv DEF WaitStep
<1>4. CASE WatchStep \/ ReadStep BY <1>4, OthersInv DEF WatchStep, ReadStep
<1>5. CASE UNCHANGED cmdVars BY <1>5, StutterInv
<1> QED BY <1>1, <1>2, <1>3, <1>4, <1>5 DEF CommandNext

\* The invariant holds in every behaviour of a command.
THEOREM CommandInvariant == CommandSpec => []CommandInv
<1> QED BY InitInv, StepInv, PTL DEF CommandSpec

\* However many native calls fail, no program runs outside the job, the job is
\* not ended through a stale handle, and a command that has returned leaves
\* nothing behind but what two calls could not end, which is reported
\* (command_windows.go, rollbackStart, Wait and Terminate).
THEOREM CommandContained == CommandSpec => []TreeContained
<1>1. CommandInv => TreeContained
  <2> SUFFICES ASSUME CommandInv PROVE TreeContained OBVIOUS
  <2> USE DEF CommandInv, CommandTypeOK, Started, GivenUp, Goroutines, Terminated, Returned, Running,
              Before, GivingUp, Waiting, Ending
  <2>1. TreeOwned
    <3>1. Running => assigned /\ job = "open" OBVIOUS
    <3>2. terminateOnce = "new" /\ (starter = "terminating" \/ watcher = "terminating" \/ reader = "terminating")
          => job = "open" OBVIOUS
    <3> QED BY <3>1, <3>2 DEF TreeOwned
  <2>2. NothingSurvives BY DEF NothingSurvives, Alive, TwoFailed
  <2> QED BY <2>1, <2>2 DEF TreeContained
<1> QED BY <1>1, CommandInvariant, PTL

\* A tree that was ended for the context or for its output is reported as
\* such, whatever else ended in the same moment (command_windows.go, Wait;
\* command.go, CombinedOutput).
THEOREM CommandEndingTold == CommandSpec => []EndingIsReported
<1>1. CommandInv => EndingIsReported
  BY DEF CommandInv, CommandTypeOK, Goroutines, Told, EndingIsReported
<1> QED BY <1>1, CommandInvariant, PTL
=============================================================================
