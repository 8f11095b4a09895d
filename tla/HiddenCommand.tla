---------------------------- MODULE HiddenCommand ----------------------------
(* One noninteractive host command and its process tree (hiddenprocess):      *)
(* CombinedOutput starts it suspended in a kill-on-close Job Object, and three *)
(* goroutines end it: Wait, the watcher of the context, and the reader, which  *)
(* stops a tree that writes too much. Any native call can fail. The root       *)
(* process can leave a descendant behind that holds the output open.           *)
EXTENDS Naturals

CONSTANT MaxCommandFaults   \* native calls that fail

VARIABLES
  root,         \* "none", "suspended", "running", "exited"
  descendant,   \* "none", "running", "ended"
  assigned,     \* root, hence what it starts, is in the job
  job,          \* the handle of the job: "none", "open", "closed"
  commandCancelled,    \* the context is done
  exceeded,     \* the output is beyond the limit
  starter,      \* Start and then Wait, by step
  watcher,      \* watchContext, by step
  reader,       \* the select of CombinedOutput, by step
  contextErr, finished,
  terminateOnce,  \* "new", "busy" (with its owner's call), "failed", "done"
  commandFailure,        \* the error of Start, or of Cmd.Wait, Terminate and closeJob
  overflow,       \* CombinedOutput reports the limit
  commandFaults

treeVars == <<root, descendant, assigned, job>>
cmdVars == <<treeVars, commandCancelled, exceeded, starter, watcher, reader, contextErr,
             finished, terminateOnce, commandFailure, overflow, commandFaults>>

Alive == root \in {"suspended", "running"} \/ descendant = "running"
Killed == /\ root' = IF root = "none" THEN root ELSE "exited"
          /\ descendant' = IF descendant = "running" THEN "ended" ELSE descendant
Spare == UNCHANGED <<root, descendant>>
Breaks == commandFaults < MaxCommandFaults /\ commandFaults' = commandFaults + 1
Works == UNCHANGED commandFaults

----------------------------------------------------------------------------
(* The context and the processes *)
CancelCommand ==
  /\ ~commandCancelled /\ commandCancelled' = TRUE
  /\ UNCHANGED <<treeVars, exceeded, starter, watcher, reader, contextErr, finished,
                 terminateOnce, commandFailure, overflow, commandFaults>>

Spawn ==
  /\ root = "running" /\ descendant = "none" /\ descendant' = "running"
  /\ UNCHANGED <<root, assigned, job, commandCancelled, exceeded, starter, watcher, reader,
                 contextErr, finished, terminateOnce, commandFailure, overflow, commandFaults>>

Exit ==
  /\ \/ root = "running" /\ root' = "exited" /\ UNCHANGED descendant
     \/ descendant = "running" /\ descendant' = "ended" /\ UNCHANGED root
  /\ UNCHANGED <<assigned, job, commandCancelled, exceeded, starter, watcher, reader,
                 contextErr, finished, terminateOnce, commandFailure, overflow, commandFaults>>

\* boundedOutput.Write, until Cmd.Wait has copied what was written
WriteTooMuch ==
  /\ ~exceeded /\ root \in {"running", "exited"} /\ starter \in {"resumed", "reaping", "draining"}
  /\ exceeded' = TRUE
  /\ UNCHANGED <<treeVars, commandCancelled, starter, watcher, reader, contextErr, finished,
                 terminateOnce, commandFailure, overflow, commandFaults>>

----------------------------------------------------------------------------
(* Start *)
Rest == UNCHANGED <<commandCancelled, exceeded, watcher, reader, contextErr, finished,
                    terminateOnce, overflow>>
Rollback == starter' = "rollback" /\ commandFailure' = TRUE
Goes(step) == starter' = step /\ UNCHANGED commandFailure

CreateJob ==
  /\ starter = "start"
  /\ \/ commandCancelled /\ starter' = "returned" /\ commandFailure' = TRUE /\ Works /\ UNCHANGED job
     \/ ~commandCancelled /\ Goes("job") /\ job' = "open" /\ Works
     \/ ~commandCancelled /\ Breaks /\ starter' = "returned" /\ commandFailure' = TRUE /\ UNCHANGED job
  /\ UNCHANGED <<root, descendant, assigned>> /\ Rest

StartSuspended ==
  /\ starter = "job"
  /\ \/ root' = "suspended" /\ Goes("created") /\ Works /\ UNCHANGED job
     \/ Breaks /\ starter' = "returned" /\ commandFailure' = TRUE /\ job' = "closed" /\ UNCHANGED root
  /\ UNCHANGED <<descendant, assigned>> /\ Rest

\* Variant: a process that was not assigned is resumed all the same.
Assign_Ignored ==
  /\ starter = "created"
  /\ \/ assigned' = TRUE /\ Works
     \/ Breaks /\ UNCHANGED assigned
  /\ Goes("assigned")
  /\ UNCHANGED <<root, descendant, job>> /\ Rest

\* openJobProcess, assignProcessToJob
Assign ==
  /\ starter = "created"
  /\ \/ assigned' = TRUE /\ Goes("assigned") /\ Works
     \/ Breaks /\ Rollback /\ UNCHANGED assigned
  /\ UNCHANGED <<root, descendant, job>> /\ Rest

\* The context is read once more before the root process runs; closing its
\* handle can still fail afterwards.
Resume ==
  /\ starter = "assigned"
  /\ \/ commandCancelled /\ Rollback /\ Works /\ UNCHANGED root
     \/ ~commandCancelled /\ root' = "running" /\ Goes("resumed") /\ Works
     \/ ~commandCancelled /\ Breaks /\ Rollback /\ root' \in {"suspended", "running"}
  /\ UNCHANGED <<descendant, assigned, job>> /\ Rest

Publish ==
  /\ starter = "resumed" /\ Goes("reaping")
  /\ watcher' = "waiting" /\ reader' = "waiting"
  /\ UNCHANGED <<treeVars, commandCancelled, exceeded, contextErr, finished, terminateOnce,
                 overflow, commandFaults>>

\* rollbackStart ends the tree by the job, or the root process by its handle.
RollbackTerminate ==
  /\ starter = "rollback" /\ Goes("rollback close")
  /\ \/ (IF assigned THEN Killed ELSE root' = "exited" /\ UNCHANGED descendant) /\ Works
     \/ Spare /\ Breaks
  /\ UNCHANGED <<assigned, job>> /\ Rest

\* Closing the only handle of the job ends what is in it.
CloseJob ==
  \/ job' = "closed" /\ Works /\ IF assigned THEN Killed ELSE Spare
  \/ Breaks /\ Spare /\ UNCHANGED job

RollbackClose ==
  /\ starter = "rollback close" /\ Goes("rollback wait")
  /\ CloseJob
  /\ UNCHANGED assigned /\ Rest

\* Cmd.Wait has no deadline while the root process is there.
RollbackWait ==
  /\ starter = "rollback wait" /\ root = "exited"
  /\ Goes("returned")
  /\ UNCHANGED <<treeVars, commandFaults>> /\ Rest

----------------------------------------------------------------------------
(* Wait *)
Reap ==
  /\ starter = "reaping" /\ root = "exited"
  /\ starter' = "draining"
  /\ commandFailure' \in {commandFailure, TRUE}
  /\ UNCHANGED <<treeVars, commandFaults>> /\ Rest

\* A descendant that holds the output open is waited for at most WaitDelay.
Finish ==
  /\ starter = "draining"
  /\ commandFailure' = (commandFailure \/ descendant = "running")
  /\ contextErr' = (contextErr \/ commandCancelled)
  /\ finished' = TRUE /\ starter' = "joining"
  /\ UNCHANGED <<treeVars, commandCancelled, exceeded, watcher, reader, terminateOnce, overflow,
                 commandFaults>>

JoinWatcher ==
  /\ starter = "joining" /\ watcher = "done"
  /\ Goes("terminating")
  /\ UNCHANGED <<treeVars, commandFaults>> /\ Rest

\* Terminate runs once: the first caller ends the job, the others wait for it.
Terminates(caller) ==
  /\ terminateOnce = "new"
  /\ \/ terminateOnce' = "done" /\ Killed /\ Works
     \/ terminateOnce' = caller /\ Spare /\ Breaks
  /\ UNCHANGED <<assigned, job>>

\* Variant: a call that failed is only reported.
FallsBack_Never(caller) ==
  /\ terminateOnce = caller /\ terminateOnce' = "failed"
  /\ UNCHANGED <<treeVars, commandFaults>>

\* the fallback of a call that failed
FallsBack(caller) ==
  /\ terminateOnce = caller /\ terminateOnce' = "failed"
  /\ CloseJob
  /\ UNCHANGED assigned

TerminateInWait ==
  /\ starter = "terminating"
  /\ \/ Terminates("wait") /\ Goes("terminating")
     \/ FallsBack("wait") /\ Goes("terminating")
     \/ /\ terminateOnce \in {"done", "failed"}
        /\ starter' = "closing" /\ commandFailure' = (commandFailure \/ terminateOnce = "failed")
        /\ UNCHANGED <<treeVars, terminateOnce, commandFaults>>
  /\ UNCHANGED <<commandCancelled, exceeded, watcher, reader, contextErr, finished, overflow>>

\* closeJob runs once too: after the fallback there is nothing left to do.
CloseInWait ==
  /\ starter = "closing" /\ starter' = "returned"
  /\ IF terminateOnce = "failed"
       THEN UNCHANGED <<root, descendant, job, commandFaults, commandFailure>>
       ELSE CloseJob /\ commandFailure' = (commandFailure \/ job' = "open")
  /\ UNCHANGED assigned /\ Rest

----------------------------------------------------------------------------
(* watchContext *)
Watch ==
  /\ watcher = "waiting"
  /\ \/ finished /\ watcher' = "done"
     \/ commandCancelled /\ watcher' = "deciding"
  /\ UNCHANGED <<treeVars, commandCancelled, exceeded, starter, reader, contextErr, finished,
                 terminateOnce, commandFailure, overflow, commandFaults>>

Decide ==
  /\ watcher = "deciding"
  /\ watcher' = IF finished THEN "done" ELSE "terminating"
  /\ contextErr' = (contextErr \/ ~finished)
  /\ UNCHANGED <<treeVars, commandCancelled, exceeded, starter, reader, finished, terminateOnce,
                 commandFailure, overflow, commandFaults>>

TerminateInWatcher ==
  /\ watcher = "terminating"
  /\ \/ (Terminates("watcher") \/ FallsBack("watcher")) /\ UNCHANGED watcher
     \/ /\ terminateOnce \in {"done", "failed"} /\ watcher' = "done"
        /\ UNCHANGED <<treeVars, terminateOnce, commandFaults>>
  /\ UNCHANGED <<commandCancelled, exceeded, starter, reader, contextErr, finished,
                 commandFailure, overflow>>

----------------------------------------------------------------------------
(* the select of CombinedOutput: when both are ready either is taken *)
\* Variant: the limit is not looked at again when the command has returned.
Receive_Unlimited ==
  /\ reader = "waiting" /\ starter = "returned"
  /\ reader' = "returned" /\ overflow' = FALSE
  /\ UNCHANGED <<treeVars, commandCancelled, exceeded, starter, watcher, contextErr, finished,
                 terminateOnce, commandFailure, commandFaults>>

Receive ==
  /\ reader = "waiting" /\ starter = "returned"
  /\ reader' = "returned" /\ overflow' = exceeded
  /\ UNCHANGED <<treeVars, commandCancelled, exceeded, starter, watcher, contextErr, finished,
                 terminateOnce, commandFailure, commandFaults>>

\* Variant: the output is cut, and the command waited for.
StopOverflow_Join ==
  /\ reader = "waiting" /\ exceeded
  /\ reader' = "joining" /\ overflow' = TRUE
  /\ UNCHANGED <<treeVars, commandCancelled, exceeded, starter, watcher, contextErr, finished,
                 terminateOnce, commandFailure, commandFaults>>

StopOverflow ==
  /\ reader = "waiting" /\ exceeded
  /\ reader' = "terminating" /\ overflow' = TRUE
  /\ UNCHANGED <<treeVars, commandCancelled, exceeded, starter, watcher, contextErr, finished,
                 terminateOnce, commandFailure, commandFaults>>

TerminateInReader ==
  /\ reader = "terminating"
  /\ \/ (Terminates("reader") \/ FallsBack("reader")) /\ UNCHANGED reader
     \/ /\ terminateOnce \in {"done", "failed"} /\ reader' = "joining"
        /\ UNCHANGED <<treeVars, terminateOnce, commandFaults>>
  /\ UNCHANGED <<commandCancelled, exceeded, starter, watcher, contextErr, finished,
                 commandFailure, overflow>>

Join ==
  /\ reader = "joining" /\ starter = "returned" /\ reader' = "returned"
  /\ UNCHANGED <<treeVars, commandCancelled, exceeded, starter, watcher, contextErr, finished,
                 terminateOnce, commandFailure, overflow, commandFaults>>

----------------------------------------------------------------------------
CommandInit ==
  /\ root = "none" /\ descendant = "none" /\ assigned = FALSE /\ job = "none"
  /\ commandCancelled \in BOOLEAN /\ exceeded = FALSE
  /\ starter = "start" /\ watcher = "off" /\ reader = "off"
  /\ contextErr = FALSE /\ finished = FALSE /\ terminateOnce = "new"
  /\ commandFailure = FALSE /\ overflow = FALSE /\ commandFaults = 0

StartStep == CreateJob \/ StartSuspended \/ Assign \/ Resume \/ Publish
               \/ RollbackTerminate \/ RollbackClose \/ RollbackWait
WaitStep == Reap \/ Finish \/ JoinWatcher \/ TerminateInWait \/ CloseInWait
WatchStep == Watch \/ Decide \/ TerminateInWatcher
ReadStep == Receive \/ StopOverflow \/ TerminateInReader \/ Join
CommandNext == CancelCommand \/ Spawn \/ Exit \/ WriteTooMuch
                 \/ StartStep \/ WaitStep \/ WatchStep \/ ReadStep

\* The goroutines run; the processes need not end and the context need not be
\* cancelled.
CommandSpec ==
  /\ CommandInit /\ [][CommandNext]_cmdVars
  /\ WF_cmdVars(StartStep) /\ WF_cmdVars(WaitStep)
  /\ WF_cmdVars(WatchStep) /\ WF_cmdVars(ReadStep)

----------------------------------------------------------------------------
\* No program of the tree runs outside the job, and the job is not terminated
\* or closed through a handle that is no longer its own, whichever of the
\* three goroutines gets there first.
TreeOwned ==
  /\ root = "running" \/ descendant = "running" => assigned /\ job = "open"
  /\ /\ terminateOnce = "new"
     /\ starter = "terminating" \/ watcher = "terminating" \/ reader = "terminating"
     => job = "open"

\* When Start has failed or Wait has returned, nothing of the tree is left,
\* unless both the call that ends it and the fallback failed, which is
\* reported.
NothingSurvives == starter = "returned" /\ Alive => commandFailure /\ commandFaults > 1

\* The process tree of a command that runs, and of one that has ended
\* (command_windows.go, Start, Wait and watchContext).
TreeContained == TreeOwned /\ NothingSurvives

\* A tree that the watcher ends is reported as cancelled, and a result that
\* lacks output as one beyond the limit, also when the process ends in the
\* same moment by itself.
EndingIsReported ==
  /\ watcher = "terminating" => contextErr
  /\ finished /\ ~contextErr => watcher \in {"waiting", "deciding", "done"}
  /\ reader = "returned" /\ exceeded => overflow

\* A command that is cancelled or writes too much returns, though the process
\* would run on.
CommandEnds == (starter = "reaping" /\ (commandCancelled \/ exceeded)) ~> (reader = "returned")
==============================================================================
