------------------------ MODULE SandboxOutcomeProofs ------------------------
(* What SandboxLifecycle records of an operation and of a run: outcomes are    *)
(* final and published, a report made without the mutex is of one moment, and   *)
(* active.json is right while nothing fails. For every set of processes and     *)
(* runs and every bound.                                                        *)
EXTENDS SandboxLifecycleProofs

-----------------------------------------------------------------------------
(* The invariant, beside IInv.                                             *)

\* An `up` whose operation is still to be started.
Unstarted(p) ==
  /\ cmd[p] = "up"
  /\ stage[p] = "before" \/ pc[p] \notin Provisioning \cup {"release", "abort"}

\* A `status` or `attach` that goes on without the mutex.
Besides(p) ==
  \/ pc[p] \in Busy \ {"busy"}
  \/ pc[p] \in Inspection /\ lock # p

\* Which labels belong to which command, and to the holder of the mutex.
Labels(p) ==
  /\ lock = p => pc[p] \in Locked \cup Inspection
  /\ pc[p] \in Launching \cup Provisioning \cup {"retain", "begin"} => cmd[p] = "up"
  /\ cmd[p] = "up" =>
       /\ pc[p] \notin Busy
       /\ pc[p] \in Inspection => lock = p
       /\ stage[p] = "before" => pc[p] \in Cleanup \cup {"wait", "release", "abort"}

\* An operation has a number, and every number was given to one `up`.
Numbers ==
  /\ \A r \in Run : op[r].id <= ups /\ (op[r].state # "none" => op[r].id > 0)
  /\ \A p \in Proc : opid[p] <= ups

\* Nobody has met the number of an operation that is still to be started.
Fresh(p) ==
  Unstarted(p) =>
    /\ opid[p] > 0
    /\ \A r \in Run : op[r].id # opid[p]
    /\ \A q \in Proc : q # p => opid[q] # opid[p]

\* A process that has drawn a run which it has not recorded.
Launched(p) == pc[p] \in {"recensus", "launch", "identify", "record"}

Runs(r, id) == op[r] = [id |-> id, state |-> "running"]

\* What a report without the mutex has established so far. A run that is no
\* longer recorded will not be recorded again, and an operation that has ended
\* will not run again: that is why looking twice is enough.
Reports(p) ==
  /\ Besides(p) => held[p] \in used /\ \A q \in Proc : Launched(q) => held[q] # held[p]
  /\ Besides(p) /\ pc[p] \in {"query", "classify", "recheck"} /\ active = held[p] => seenRun[p] = held[p]
  /\ pc[p] \in {"recheckOp", "report"} => seenRun[p] = held[p]
  /\ pc[p] \in {"recheck", "recheckOp"} /\ seenRun[p] = held[p] /\ Runs(held[p], opid[p])
       => seenOp[p] = opid[p]
  /\ pc[p] = "report" => seenOp[p] = opid[p]

AtWork(p, r, labels) == pc[p] \in labels /\ held[p] = r

\* While nothing fails, whatever looks wrong is being put right by the holder of
\* the mutex.
PutRight ==
  faults = 0 =>
    /\ \A r \in Run : op[r].state = "running" => \E p \in Proc : AtWork(p, r, Provisioning)
    /\ \A r \in Run : Live(r) => active = r \/ \E p \in Proc : AtWork(p, r, {"identify", "record"})
    /\ active \notin dirs \cup {NoRun} =>
         \E p \in Proc : AtWork(p, active, {"remove", "unrecord"}) /\ gone[p]

NumberInv == Numbers /\ \A p \in Proc : Labels(p) /\ Fresh(p)

ReportInv == \A p \in Proc : Reports(p)

-----------------------------------------------------------------------------
(* What a step of a process can do.                                        *)

Acts(p) == (\E c \in Commands : Begin(p, c)) \/ HostStep(p) \/ Fault(p)

\* A process changes no other process's command either.
LEMMA CommandsAreLocal ==
  ASSUME TypeOK, NEW p \in Proc, NEW q \in Proc, q # p, Acts(p)
  PROVE  cmd'[q] = cmd[q] /\ stage'[q] = stage[q] /\ seenOp'[q] = seenOp[q]
<1> USE DEF TypeOK, Goto, Return, own, cleaning, seen
<1>1. CASE \E c \in Commands : Begin(p, c)
  BY <1>1 DEF Begin
<1>2. CASE AcquireLock(p) \/ LockTimeout(p) \/ Release(p) \/ Abort(p) \/ Refuse(p)
  BY <1>2 DEF AcquireLock, LockTimeout, Release, Abort, Refuse
<1>3. CASE CleanupStep(p)
  BY <1>3 DEF CleanupStep, Reconcile, ReconcileError, Protect, Plan, Revalidate, CleanupRefuses,
     CleanupFails, Unalias, RemoveRun, RunsRemoved, Unrecord
<1>4. CASE InspectStep(p)
  BY <1>4 DEF InspectStep, Load, Query, Classify, ReportStatus, BusyActive, BusyOperation,
     RecheckActive, RecheckOperation, BusyReturn
<1>5. CASE UpStep(p)
  BY <1>5 DEF UpStep, DecideUp, Retain, Census, PrepareRun, LaunchSandbox, IdentifyLauncher,
     RecordActive, RecordFails, StartOperation, WaitForConnectable, VerifySSH, InstallAlias,
     ProvisionGuest, PublishReady, ProvisioningFails, FinishOperation
<1>6. CASE DownStep(p) \/ AttachStep(p)
  BY <1>6 DEF DownStep, AttachStep, SelectActive, CaptureTailscale, StopOwned, Leftover,
     ForgetActive, DecideAttach, VerifyGuestHerdr, AttachAlias
<1>7. CASE Fault(p)
  BY <1>7 DEF Fault, Crash, CleanupFault, CleanupFails, FinishFails
<1> QED
  BY <1>1, <1>2, <1>3, <1>4, <1>5, <1>6, <1>7 DEF HostStep, Acts

\* An operation is left alone, lost with its run, interrupted, started or
\* finished; only its own `up` does the last two.
OperationStep(p, r) ==
  \/ op'[r] = op[r]
  \/ op'[r] = NoOperation
  \/ op'[r] = Interrupted(op[r])
  \/ /\ pc[p] = "begin" /\ pc'[p] = "bootstrap" /\ held[p] = r /\ op[r].state # "running"
     /\ held'[p] = held[p] /\ stage'[p] = stage[p]
     /\ op'[r] = [id |-> opid[p], state |-> "running"]
  \/ /\ pc[p] \in {"complete", "failing"} /\ held[p] = r /\ Runs(r, opid[p])
     /\ \E s \in {"succeeded", "failed"} : op'[r] = [id |-> opid[p], state |-> s]

LEMMA OperationSteps ==
  ASSUME IInv, NEW p \in Proc, Acts(p), NEW r \in Run
  PROVE  OperationStep(p, r)
<1> USE DEF IInv, TypeOK, OperationStep, own, seen
<1>1. CASE op' = op
  BY <1>1
<1>2. CASE Reconcile(p)
  BY <1>2 DEF Reconcile
<1>3. CASE RemoveRun(p)
  BY <1>3 DEF RemoveRun
<1>4. CASE CleanupFault(p)
  BY <1>4 DEF CleanupFault
<1>5. CASE StartOperation(p)
  BY <1>5 DEF StartOperation, Goto
<1>6. CASE FinishOperation(p)
  <2>1. pc[p] \in {"complete", "failing"} /\ Runs(held[p], opid[p])
    BY <1>6 DEF FinishOperation, ProcessInv, Provisions, Provisioning, Runs
  <2>2. PICK s \in {"succeeded", "failed"} : op' = [op EXCEPT ![held[p]] = [id |-> opid[p], state |-> s]]
    BY <1>6 DEF FinishOperation, Outcomes
  <2>3. CASE held[p] = r
    BY <2>1, <2>2, <2>3
  <2> QED
    BY <2>2, <2>3
<1>7. CASE \E c \in Commands : Begin(p, c)
  BY <1>1, <1>7 DEF Begin, shared
<1>8. CASE AcquireLock(p) \/ LockTimeout(p) \/ Release(p) \/ Abort(p) \/ Refuse(p)
  BY <1>1, <1>8 DEF AcquireLock, LockTimeout, Release, Abort, Refuse, shared
<1>9. CASE CleanupStep(p)
  BY <1>1, <1>2, <1>3, <1>9 DEF CleanupStep, ReconcileError, Protect, Plan, Revalidate, CleanupRefuses,
     Unalias, RunsRemoved, Unrecord, shared
<1>10. CASE InspectStep(p)
  BY <1>1, <1>10 DEF InspectStep, Load, Query, Classify, ReportStatus, BusyActive, BusyOperation,
     RecheckActive, RecheckOperation, BusyReturn, shared
<1>11. CASE UpStep(p)
  BY <1>1, <1>5, <1>6, <1>11 DEF UpStep, DecideUp, Retain, Census, PrepareRun, LaunchSandbox,
     IdentifyLauncher, RecordActive, RecordFails, WaitForConnectable, VerifySSH, InstallAlias,
     ProvisionGuest, PublishReady, ProvisioningFails, shared
<1>12. CASE DownStep(p) \/ AttachStep(p)
  BY <1>1, <1>12 DEF DownStep, AttachStep, SelectActive, CaptureTailscale, StopOwned, Leftover,
     ForgetActive, DecideAttach, VerifyGuestHerdr, AttachAlias, shared
<1>13. CASE Fault(p)
  BY <1>1, <1>4, <1>13 DEF Fault, Crash, FinishFails, shared
<1> QED
  BY <1>7, <1>8, <1>9, <1>10, <1>11, <1>12, <1>13 DEF HostStep, Acts

\* A number is kept, forgotten, newly drawn by `up`, or read beside the mutex.
NumberStep(p) ==
  \/ opid'[p] = opid[p] /\ ups' = ups /\ (Unstarted(p)' => Unstarted(p))
  \/ opid'[p] = 0 /\ ups' = ups /\ cmd'[p] # "up"
  \/ opid'[p] = ups + 1 /\ ups' = ups + 1 /\ op' = op
  \/ /\ pc[p] = "busyOp" /\ held[p] \in dirs /\ opid'[p] = op[held[p]].id
     /\ cmd'[p] = cmd[p] /\ ups' = ups

LEMMA NumberSteps ==
  ASSUME IInv, NEW p \in Proc, Labels(p), Acts(p)
  PROVE  NumberStep(p)
<1> USE DEF IInv, TypeOK, NumberStep, Unstarted, Goto, own, bounds
<1>1. CASE \E c \in Commands : Begin(p, c)
  BY <1>1 DEF Begin, shared
<1>2. CASE AcquireLock(p) \/ LockTimeout(p) \/ Release(p) \/ Abort(p) \/ Refuse(p)
  BY <1>2 DEF AcquireLock, LockTimeout, Release, Abort, Refuse, Return, Inspection, Stopping, Attaching,
     Provisioning
<1>3. CASE CleanupStep(p)
  BY <1>3 DEF CleanupStep, Reconcile, ReconcileError, Protect, Plan, Revalidate, CleanupRefuses,
     CleanupFails, Unalias, RemoveRun, RunsRemoved, Unrecord, Provisioning
<1>4. CASE InspectStep(p)
  BY <1>4 DEF InspectStep, Load, Query, Classify, ReportStatus, BusyActive, BusyOperation,
     RecheckActive, RecheckOperation, BusyReturn, Return, Provisioning
<1>5. CASE UpStep(p)
  BY <1>5 DEF UpStep, DecideUp, Retain, Census, PrepareRun, LaunchSandbox, IdentifyLauncher,
     RecordActive, RecordFails, StartOperation, WaitForConnectable, VerifySSH, InstallAlias,
     ProvisionGuest, PublishReady, ProvisioningFails, FinishOperation, Provisioning
<1>6. CASE DownStep(p) \/ AttachStep(p)
  BY <1>6 DEF DownStep, AttachStep, SelectActive, CaptureTailscale, StopOwned, Leftover,
     ForgetActive, DecideAttach, VerifyGuestHerdr, AttachAlias, Provisioning
<1>7. CASE Fault(p)
  BY <1>7 DEF Fault, Crash, CleanupFault, CleanupFails, FinishFails, Return, Cleanup, Provisioning
<1> QED
  BY <1>1, <1>2, <1>3, <1>4, <1>5, <1>6, <1>7 DEF HostStep, Acts

\* Labels belong to commands, and the mutex to its holder's labels.
LEMMA LabelSteps ==
  ASSUME IInv, NEW p \in Proc, Labels(p), Acts(p)
  PROVE  Labels(p)'
<1> USE DEF IInv, TypeOK, Labels, Goto, own, bounds, Locked, Cleanup, Launching, Provisioning, Stopping,
    Attaching, Inspection, Busy
<1>1. CASE \E c \in Commands : Begin(p, c)
  BY <1>1 DEF Begin
<1>2. CASE AcquireLock(p) \/ LockTimeout(p) \/ Release(p) \/ Abort(p) \/ Refuse(p)
  BY <1>2, DistinctAssumption DEF DistinctAssumption, AcquireLock, LockTimeout, Release, Abort, Refuse, Return
<1>3. CASE CleanupStep(p)
  <2>1. lock' = lock /\ lock = p /\ cmd'[p] = cmd[p] /\ stage'[p] = stage[p] /\ pc[p] \in Cleanup
    BY <1>3 DEF CleanupStep, Reconcile, ReconcileError, Protect, Plan, Revalidate, CleanupRefuses,
       CleanupFails, Unalias, RemoveRun, RunsRemoved, Unrecord, ProcessInv, Mutex
  <2>2. pc'[p] \in Cleanup \cup {AfterReconcile(p), AfterReconcileError(p), AfterCleanup(p, TRUE), AfterCleanup(p, FALSE)}
    BY <1>3 DEF CleanupStep, Reconcile, ReconcileError, Protect, Plan, Revalidate, RemovalStart, CleanupRefuses,
       CleanupFails, Unalias, RemoveRun, RunsRemoved, Unrecord
  <2> QED
    BY <2>1, <2>2 DEF AfterReconcile, AfterReconcileError, AfterCleanup
<1>4. CASE InspectStep(p)
  BY <1>4, DistinctAssumption DEF DistinctAssumption, InspectStep, Load, Query, Classify, ReportStatus, BusyActive,
     BusyOperation, RecheckActive, RecheckOperation, BusyReturn, Return, AfterInspection
<1>5. CASE UpStep(p)
  <2>1. lock' = lock /\ lock = p /\ cmd'[p] = cmd[p] /\ stage'[p] = stage[p] /\ cmd[p] = "up"
    BY <1>5 DEF UpStep, DecideUp, Retain, Census, PrepareRun, LaunchSandbox, IdentifyLauncher,
       RecordActive, RecordFails, StartOperation, WaitForConnectable, VerifySSH, InstallAlias,
       ProvisionGuest, PublishReady, ProvisioningFails, FinishOperation, ProcessInv, Mutex
  <2>2. pc'[p] \in Launching \cup Provisioning \cup {"retain", "begin", "release", "abort"}
    BY <1>5 DEF UpStep, DecideUp, Retain, Census, PrepareRun, LaunchSandbox, IdentifyLauncher,
       RecordActive, RecordFails, StartOperation, WaitForConnectable, VerifySSH, InstallAlias,
       ProvisionGuest, PublishReady, ProvisioningFails, FinishOperation
  <2>3. stage[p] = "main"
    BY <1>5, <2>1 DEF UpStep, DecideUp, Retain, Census, PrepareRun, LaunchSandbox, IdentifyLauncher,
       RecordActive, RecordFails, StartOperation, WaitForConnectable, VerifySSH, InstallAlias,
       ProvisionGuest, PublishReady, ProvisioningFails, FinishOperation
  <2> QED
    BY <2>1, <2>2, <2>3
<1>6. CASE DownStep(p) \/ AttachStep(p)
  <2>1. lock' = lock /\ lock = p /\ cmd'[p] = cmd[p] /\ stage'[p] = stage[p]
    BY <1>6 DEF DownStep, AttachStep, SelectActive, CaptureTailscale, StopOwned, Leftover,
       ForgetActive, DecideAttach, VerifyGuestHerdr, AttachAlias, ProcessInv, Mutex
  <2>2. pc'[p] \in Stopping \cup Attaching \cup {"release", "abort"}
    BY <1>6 DEF DownStep, AttachStep, SelectActive, CaptureTailscale, StopOwned, Leftover,
       ForgetActive, DecideAttach, VerifyGuestHerdr, AttachAlias
  <2>3. pc[p] \in Stopping \cup Attaching \cup {"decide"}
    BY <1>6 DEF DownStep, AttachStep, SelectActive, CaptureTailscale, StopOwned, Leftover,
       ForgetActive, DecideAttach, VerifyGuestHerdr, AttachAlias
  <2>4. stage[p] = "before" => cmd[p] # "up"
    BY <2>3
  <2> QED
    BY <2>1, <2>2, <2>4
<1>7. CASE Fault(p)
  <2>1. CASE Crash(p)
    BY <2>1, DistinctAssumption DEF DistinctAssumption, Crash, Return
  <2>2. CASE CleanupFault(p)
    BY <2>2 DEF CleanupFault, CleanupFails, AfterCleanup, ProcessInv, Mutex
  <2>3. CASE FinishFails(p)
    BY <2>3 DEF FinishFails, ProcessInv, Mutex
  <2> QED
    BY <1>7, <2>1, <2>2, <2>3 DEF Fault
<1> QED
  BY <1>1, <1>2, <1>3, <1>4, <1>5, <1>6, <1>7 DEF HostStep, Acts

\* Types are kept by a step of a process.
LEMMA TypeProcess == ASSUME IInv, NEW p \in Proc, Acts(p) PROVE TypeOK'
BY TypeBegin, TypeMutex, TypeCleanup, TypeInspect, TypeUp, TypeDownAttach, TypeFault
   DEF Acts, HostStep, IInv, ProcessInv

\* An operation that is lost or interrupted gets no other number.
LEMMA NumberKept ==
  ASSUME TypeOK, NEW r \in Run,
         op'[r] = op[r] \/ op'[r] = NoOperation \/ op'[r] = Interrupted(op[r])
  PROVE  /\ op'[r].id = 0 \/ op'[r].id = op[r].id
         /\ op'[r].state = "none" \/ (op'[r].id = op[r].id /\ op[r].state # "none")
<1>1. op[r] \in Operation
  BY DEF TypeOK
<1>2. CASE op'[r] = op[r]
  BY <1>2
<1>3. CASE op'[r] = NoOperation
  BY <1>3 DEF NoOperation
<1>4. CASE op'[r] = Interrupted(op[r])
  BY <1>1, <1>4 DEF Interrupted, Operation
<1> QED
  BY <1>2, <1>3, <1>4

\* The operation numbers stay one per `up`, and those still to be used unmet.
LEMMA NumbersKept ==
  ASSUME IInv, NumberInv, NEW p \in Proc, Acts(p)
  PROVE  Numbers' /\ \A q \in Proc : Fresh(q)'
<1> USE DEF IInv, NumberInv
<1>1. NumberStep(p) /\ \A r \in Run : OperationStep(p, r)
  BY NumberSteps, OperationSteps
<1>2. \A r \in Run : op[r].id \in Nat /\ op'[r].id \in Nat
  <2>1. TypeOK'
    BY TypeProcess
  <2> QED
    BY <2>1, BoundAssumption DEF BoundAssumption, TypeOK, Operation
<1>3. ups \in Nat /\ \A q \in Proc : opid[q] \in Nat
  BY BoundAssumption DEF BoundAssumption, TypeOK
<1>4. \A q \in Proc : q # p => /\ opid'[q] = opid[q] /\ (Unstarted(q)' <=> Unstarted(q))
  BY StepsAreLocal, CommandsAreLocal DEF Untouched, Unstarted, Acts
<1>5. ups' >= ups /\ ups' \in Nat /\ opid'[p] <= ups'
  BY <1>1, <1>2, <1>3 DEF NumberStep, Numbers, TypeOK
<1>6. pc[p] = "begin" => Unstarted(p) /\ opid[p] > 0 /\ stage[p] = "main"
  BY DEF Labels, Unstarted, Fresh, Provisioning, Cleanup, TypeOK
<1>7. Numbers'
  <2>1. ASSUME NEW r \in Run PROVE op'[r].id <= ups' /\ (op'[r].state # "none" => op'[r].id > 0)
    <3>1. op[r].id <= ups /\ (op[r].state # "none" => op[r].id > 0) /\ opid[p] <= ups
      BY DEF Numbers
    <3>2. CASE op'[r] = op[r] \/ op'[r] = NoOperation \/ op'[r] = Interrupted(op[r])
      BY <1>2, <1>3, <1>5, <3>1, <3>2, NumberKept
    <3>3. CASE pc[p] = "begin" /\ op'[r] = [id |-> opid[p], state |-> "running"]
      BY <1>3, <1>5, <1>6, <3>1, <3>3
    <3>4. CASE Runs(r, opid[p]) /\ \E s \in {"succeeded", "failed"} : op'[r] = [id |-> opid[p], state |-> s]
      <4>1. op[r].id = opid[p] /\ op[r].state # "none" /\ op'[r].id = opid[p]
        BY <3>4 DEF Runs
      <4> QED
        BY <1>3, <1>5, <3>1, <4>1
    <3> QED
      BY <1>1, <3>2, <3>3, <3>4 DEF OperationStep
  <2> QED
    BY <1>3, <1>4, <1>5, <2>1 DEF Numbers
<1>8. Fresh(p)'
  <2> SUFFICES ASSUME Unstarted(p)' PROVE opid'[p] > 0 /\ (\A r \in Run : op'[r].id # opid'[p])
                 /\ \A q \in Proc : q # p => opid'[q] # opid'[p]
    BY DEF Fresh
  <2>1. CASE opid'[p] = ups + 1 /\ op' = op
    BY <1>2, <1>3, <1>4, <2>1 DEF Numbers
  <2>2. CASE Unstarted(p) /\ opid'[p] = opid[p]
    <3>1. pc'[p] = "bootstrap" => stage'[p] # "main"
      BY DEF Unstarted, Provisioning
    <3>2. ASSUME NEW r \in Run PROVE op'[r].id # opid'[p]
      <4>1. op[r].id # opid[p] /\ opid[p] > 0 /\ ~Runs(r, opid[p])
        BY <2>2 DEF Fresh, Runs
      <4>2. ~(pc[p] = "begin" /\ pc'[p] = "bootstrap" /\ stage'[p] = stage[p])
        BY <1>6, <3>1
      <4>3. op'[r] = op[r] \/ op'[r] = NoOperation \/ op'[r] = Interrupted(op[r])
        BY <1>1, <4>1, <4>2 DEF OperationStep
      <4> QED
        BY <1>2, <1>3, <2>2, <4>1, <4>3, NumberKept
    <3> QED
      BY <1>4, <2>2, <3>2 DEF Fresh
  <2>3. cmd'[p] = "up"
    BY DEF Unstarted
  <2>4. pc[p] = "busyOp" => cmd[p] # "up"
    BY DEF Labels, Busy
  <2> QED
    BY <1>1, <2>1, <2>2, <2>3, <2>4 DEF NumberStep
<1>9. ASSUME NEW q \in Proc, q # p PROVE Fresh(q)'
  <2> SUFFICES ASSUME Unstarted(q) PROVE opid[q] > 0 /\ (\A r \in Run : op'[r].id # opid[q])
                 /\ \A x \in Proc : x # q => opid'[x] # opid[q]
    BY <1>4, <1>9 DEF Fresh
  <2>1. opid[q] > 0 /\ (\A r \in Run : op[r].id # opid[q]) /\ opid[p] # opid[q]
    BY <1>9 DEF Fresh
  <2>2. ASSUME NEW r \in Run PROVE op'[r].id # opid[q]
    <3>1. CASE op'[r] = op[r] \/ op'[r] = NoOperation \/ op'[r] = Interrupted(op[r])
      BY <1>2, <1>3, <2>1, <3>1, NumberKept
    <3>2. CASE op'[r].id = opid[p]
      BY <2>1, <3>2
    <3> QED
      BY <1>1, <3>1, <3>2 DEF OperationStep
  <2>3. opid'[p] # opid[q]
    BY <1>1, <1>3, <2>1 DEF NumberStep, Numbers, TypeOK
  <2> QED
    BY <1>4, <2>1, <2>2, <2>3 DEF Fresh
<1> QED
  BY <1>7, <1>8, <1>9

\* Another process's labels stay with its command.
LEMMA OthersLabels ==
  ASSUME IInv, NEW p \in Proc, Acts(p), NEW q \in Proc, q # p, Labels(q)
  PROVE  Labels(q)'
<1>1. Untouched(q) /\ cmd'[q] = cmd[q] /\ stage'[q] = stage[q]
  BY StepsAreLocal, CommandsAreLocal DEF IInv, Acts
<1>2. (lock' = q) <=> (lock = q)
  BY LockHandling, DistinctAssumption DEF IInv, Acts, DistinctAssumption
<1> QED
  BY <1>1, <1>2 DEF Labels, Untouched

\* The world outside touches no command and no number.
LEMMA WorldCommands ==
  ASSUME (\E r \in Run : GuestStep(r)) \/ ForeignSandbox
  PROVE  UNCHANGED <<cmd, stage, seenOp, ups, faults>>
BY DEF GuestStep, SandboxExits, PidReused, BootstrapConnects, BootstrapFails, BootstrapRetries,
   ForeignSandbox, own, seen, bounds

LEMMA InitNumbers == Init => NumberInv
<1> SUFFICES ASSUME Init PROVE NumberInv
  OBVIOUS
<1>1. Numbers
  BY DEF Init, Numbers, NoOperation
<1>2. ASSUME NEW p \in Proc PROVE Labels(p) /\ Fresh(p)
  BY DistinctAssumption DEF DistinctAssumption, Init, Labels, Fresh, Unstarted, Locked, Cleanup, Launching,
     Provisioning, Stopping, Attaching, Inspection, Busy
<1> QED
  BY <1>1, <1>2 DEF NumberInv

LEMMA NextNumbers == IInv /\ NumberInv /\ [Next]_vars => NumberInv'
<1> SUFFICES ASSUME IInv, NumberInv, [Next]_vars PROVE NumberInv'
  OBVIOUS
<1>1. ASSUME NEW p \in Proc, Acts(p) PROVE NumberInv'
  <2>1. \A q \in Proc : Labels(q)'
    BY <1>1, LabelSteps, OthersLabels DEF NumberInv
  <2> QED
    BY <1>1, <2>1, NumbersKept DEF NumberInv
<1>2. CASE (\E r \in Run : GuestStep(r)) \/ ForeignSandbox
  <2>1. UNCHANGED <<lock, op, pc, opid, cmd, stage, ups>>
    BY <1>2, WorldSteps, WorldCommands
  <2> QED
    BY <2>1 DEF NumberInv, Numbers, Labels, Fresh, Unstarted
<1>3. CASE UNCHANGED vars
  BY <1>3 DEF vars, shared, own, bounds, NumberInv, Numbers, Labels, Fresh, Unstarted
<1> QED
  BY <1>1, <1>2, <1>3 DEF Next, Acts

\* Every started operation has a number of its own, never met before.
THEOREM NumbersAreFresh == Spec => []NumberInv
BY InitNumbers, NextNumbers, InductiveInvariant, PTL DEF Spec

\* An outcome that has been published stays: neither a late finish, nor the
\* reconciliation of a later command, nor a retained run's next operation
\* rewrites it under the same number.
THEOREM OutcomesAreFinal == Spec => TerminalOutcomeFinal
<1>1. ASSUME IInv, NumberInv, NEW p \in Proc, Acts(p), NEW r \in Run,
             op[r].state \in Terminal, op'[r].id = op[r].id
      PROVE  op'[r] = op[r]
  <2>1. OperationStep(p, r) /\ op[r].id > 0 /\ op[r].state \in {"succeeded", "failed", "interrupted"}
    BY <1>1, OperationSteps DEF NumberInv, Numbers, Terminal
  <2>2. CASE op'[r] = NoOperation
    BY <1>1, <2>1, <2>2 DEF NoOperation
  <2>3. CASE op'[r] = Interrupted(op[r])
    BY <2>1, <2>3 DEF Interrupted
  <2>4. CASE pc[p] = "begin" /\ op'[r] = [id |-> opid[p], state |-> "running"]
    <3>1. Unstarted(p)
      BY <1>1, <2>4 DEF NumberInv, Labels, Unstarted, Provisioning, IInv
    <3> QED
      BY <1>1, <2>4, <3>1 DEF NumberInv, Fresh
  <2>5. ~Runs(r, opid[p])
    BY <2>1 DEF Runs
  <2> QED
    BY <2>1, <2>2, <2>3, <2>4, <2>5 DEF OperationStep
<1>2. IInv /\ NumberInv /\ [Next]_vars =>
        [\A r \in Run : op[r].state \in Terminal /\ op'[r].id = op[r].id => op'[r] = op[r]]_vars
  <2> SUFFICES ASSUME IInv, NumberInv, [Next]_vars, NEW r \in Run,
                      op[r].state \in Terminal, op'[r].id = op[r].id
               PROVE  op'[r] = op[r]
    OBVIOUS
  <2>1. CASE (\E s \in Run : GuestStep(s)) \/ ForeignSandbox
    BY <2>1, WorldSteps
  <2>2. CASE UNCHANGED vars
    BY <2>2 DEF vars, shared
  <2> QED
    BY <1>1, <2>1, <2>2 DEF Next, Acts
<1> QED
  BY <1>2, NumbersAreFresh, InductiveInvariant, PTL DEF Spec, TerminalOutcomeFinal

-----------------------------------------------------------------------------
(* Reports made beside the mutex.                                          *)

\* A process comes to have a launched run only by drawing a new one.
LEMMA LaunchedSteps ==
  ASSUME IInv, NEW p \in Proc, Acts(p)
  PROVE  /\ used \subseteq used'
         /\ Launched(p)' => (Launched(p) /\ held'[p] = held[p]) \/ (held'[p] \notin used /\ used' # used)
<1> USE DEF IInv, TypeOK, Launched, Goto, own, bounds
<1>1. CASE \E c \in Commands : Begin(p, c)
  BY <1>1 DEF Begin
<1>2. CASE AcquireLock(p) \/ LockTimeout(p) \/ Release(p) \/ Abort(p) \/ Refuse(p)
  BY <1>2 DEF AcquireLock, LockTimeout, Release, Abort, Refuse, Return
<1>3. CASE CleanupStep(p)
  BY <1>3 DEF CleanupStep, Reconcile, ReconcileError, Protect, Plan, Revalidate, CleanupRefuses,
     CleanupFails, Unalias, RemoveRun, RunsRemoved, Unrecord, AfterReconcile, AfterReconcileError,
     AfterCleanup, RemovalStart
<1>4. CASE InspectStep(p)
  BY <1>4 DEF InspectStep, Load, Query, Classify, ReportStatus, BusyActive, BusyOperation,
     RecheckActive, RecheckOperation, BusyReturn, Return, AfterInspection
<1>5. CASE PrepareRun(p)
  BY <1>5 DEF PrepareRun
<1>6. CASE UpStep(p) /\ ~PrepareRun(p)
  BY <1>6 DEF UpStep, DecideUp, Retain, Census, LaunchSandbox, IdentifyLauncher,
     RecordActive, RecordFails, StartOperation, WaitForConnectable, VerifySSH, InstallAlias,
     ProvisionGuest, PublishReady, ProvisioningFails, FinishOperation
<1>7. CASE DownStep(p) \/ AttachStep(p)
  BY <1>7 DEF DownStep, AttachStep, SelectActive, CaptureTailscale, StopOwned, Leftover,
     ForgetActive, DecideAttach, VerifyGuestHerdr, AttachAlias
<1>8. CASE Fault(p)
  BY <1>8 DEF Fault, Crash, CleanupFault, CleanupFails, FinishFails, Return, AfterCleanup
<1> QED
  BY <1>1, <1>2, <1>3, <1>4, <1>5, <1>6, <1>7, <1>8 DEF HostStep, Acts

\* The record is kept, dropped, or made for the run that was launched.
LEMMA ActiveSteps ==
  ASSUME NEW p \in Proc, Acts(p)
  PROVE  active' = active \/ active' = NoRun \/ (pc[p] = "record" /\ active' = held[p])
<1> USE DEF shared
<1>1. CASE \E c \in Commands : Begin(p, c)
  BY <1>1 DEF Begin
<1>2. CASE AcquireLock(p) \/ LockTimeout(p) \/ Release(p) \/ Abort(p) \/ Refuse(p)
  BY <1>2 DEF AcquireLock, LockTimeout, Release, Abort, Refuse
<1>3. CASE CleanupStep(p)
  BY <1>3 DEF CleanupStep, Reconcile, ReconcileError, Protect, Plan, Revalidate, CleanupRefuses,
     CleanupFails, Unalias, RemoveRun, RunsRemoved, Unrecord
<1>4. CASE InspectStep(p)
  BY <1>4 DEF InspectStep, Load, Query, Classify, ReportStatus, BusyActive, BusyOperation,
     RecheckActive, RecheckOperation, BusyReturn
<1>5. CASE UpStep(p)
  BY <1>5 DEF UpStep, DecideUp, Retain, Census, PrepareRun, LaunchSandbox, IdentifyLauncher,
     RecordActive, RecordFails, StartOperation, WaitForConnectable, VerifySSH, InstallAlias,
     ProvisionGuest, PublishReady, ProvisioningFails, FinishOperation
<1>6. CASE DownStep(p) \/ AttachStep(p)
  BY <1>6 DEF DownStep, AttachStep, SelectActive, CaptureTailscale, StopOwned, Leftover,
     ForgetActive, DecideAttach, VerifyGuestHerdr, AttachAlias
<1>7. CASE Fault(p)
  BY <1>7 DEF Fault, Crash, CleanupFault, CleanupFails, FinishFails
<1> QED
  BY <1>1, <1>2, <1>3, <1>4, <1>5, <1>6, <1>7 DEF HostStep, Acts

\* Nothing but an inspection step brings or leaves a process beside the mutex.
LEMMA BesideSteps ==
  ASSUME IInv, NEW p \in Proc, Acts(p), ~InspectStep(p)
  PROVE  ~Besides(p)'
<1> USE DEF IInv, TypeOK, Besides, Busy, Inspection, Goto
<1>1. CASE \E c \in Commands : Begin(p, c)
  BY <1>1 DEF Begin
<1>2. CASE AcquireLock(p) \/ LockTimeout(p) \/ Release(p) \/ Abort(p) \/ Refuse(p)
  BY <1>2 DEF AcquireLock, LockTimeout, Release, Abort, Refuse, Return
<1>3. CASE CleanupStep(p)
  <2>1. lock' = lock /\ lock = p
    BY <1>3 DEF CleanupStep, Reconcile, ReconcileError, Protect, Plan, Revalidate, CleanupRefuses,
       CleanupFails, Unalias, RemoveRun, RunsRemoved, Unrecord, ProcessInv, Mutex, Locked, Cleanup
  <2> QED
    BY <1>3, <2>1 DEF CleanupStep, Reconcile, ReconcileError, Protect, Plan, Revalidate, CleanupRefuses,
       CleanupFails, Unalias, RemoveRun, RunsRemoved, Unrecord, AfterReconcile, AfterReconcileError,
       AfterCleanup, RemovalStart
<1>4. CASE UpStep(p)
  BY <1>4 DEF UpStep, DecideUp, Retain, Census, PrepareRun, LaunchSandbox, IdentifyLauncher,
     RecordActive, RecordFails, StartOperation, WaitForConnectable, VerifySSH, InstallAlias,
     ProvisionGuest, PublishReady, ProvisioningFails, FinishOperation
<1>5. CASE DownStep(p) \/ AttachStep(p)
  BY <1>5 DEF DownStep, AttachStep, SelectActive, CaptureTailscale, StopOwned, Leftover,
     ForgetActive, DecideAttach, VerifyGuestHerdr, AttachAlias
<1>6. CASE Fault(p)
  <2>1. CASE CleanupFault(p)
    <3>1. lock' = lock /\ lock = p
      BY <2>1 DEF CleanupFault, CleanupFails, ProcessInv, Mutex, Locked, Cleanup
    <3> QED
      BY <2>1, <3>1 DEF CleanupFault, CleanupFails, AfterCleanup
  <2> QED
    BY <1>6, <2>1 DEF Fault, Crash, FinishFails, Return
<1> QED
  BY <1>1, <1>2, <1>3, <1>4, <1>5, <1>6 DEF HostStep, Acts

\* Each step of a report establishes what the next one relies on.
LEMMA OwnReport ==
  ASSUME IInv, NEW p \in Proc, Reports(p), InspectStep(p)
  PROVE  Reports(p)'
<1> USE DEF IInv, TypeOK, Besides, Busy, Inspection, Goto, own, shared, bounds, seen
<1>1. /\ NoRun \notin Run /\ used \subseteq Run
      /\ active # NoRun => active \in used /\ \A q \in Proc : ~Launched(q)
  BY DistinctAssumption DEF DistinctAssumption, DrawnRuns, ProcessInv, Launches, Launching, Launched
<1>2. \A q \in Proc : q # p => held'[q] = held[q] /\ pc'[q] = pc[q]
  BY StepsAreLocal DEF HostStep, Untouched
<1>3. UNCHANGED <<lock, active, op, used>>
  BY DEF InspectStep, Load, Query, Classify, ReportStatus, BusyActive, BusyOperation, RecheckActive,
     RecheckOperation, BusyReturn
<1>4. SUFFICES ASSUME Besides(p)' PROVE Reports(p)'
  BY DEF Reports
<1>5. ~Launched(p)'
  BY <1>4 DEF Launched
<1>6. CASE BusyActive(p)
  BY <1>1, <1>2, <1>3, <1>5, <1>6 DEF BusyActive, Reports, Launched
<1>7. ASSUME Besides(p), held'[p] = held[p]
      PROVE  held'[p] \in used' /\ \A q \in Proc : Launched(q)' => held'[q] # held'[p]
  BY <1>2, <1>3, <1>5, <1>7 DEF Reports, Launched
<1>8. CASE BusyOperation(p)
  BY <1>7, <1>8 DEF BusyOperation, Reports
<1>9. CASE Load(p)
  BY <1>3, <1>4, <1>7, <1>9 DEF Load, Reports
<1>10. CASE Query(p)
  <2>1. Besides(p) /\ pc'[p] \in {"recheck", "classify"} /\ UNCHANGED <<held, opid, seenRun, seenOp>>
    BY <1>3, <1>4, <1>10 DEF Query, AfterInspection
  <2>2. pc'[p] = "recheck" => seenRun[p] = NoRun
    BY <1>10 DEF Query
  <2> QED
    BY <1>1, <1>3, <1>7, <1>10, <2>1, <2>2 DEF Query, Reports
<1>11. CASE Classify(p)
  <2>1. /\ Besides(p) /\ pc[p] = "classify" /\ pc'[p] = "recheck" /\ UNCHANGED <<held, opid, seenRun>>
        /\ seenOp'[p] = op[seenRun[p]].id
    BY <1>3, <1>4, <1>11 DEF Classify, AfterInspection
  <2>2. seenRun[p] = held[p] /\ Runs(held[p], opid[p]) => op[seenRun[p]].id = opid[p]
    BY DEF Runs
  <2>3. Runs(held[p], opid[p])' <=> Runs(held[p], opid[p])
    BY <1>3, <2>1 DEF Runs
  <2> QED
    BY <1>1, <1>3, <1>7, <2>1, <2>2, <2>3 DEF Reports
<1>12. CASE RecheckActive(p)
  BY <1>3, <1>7, <1>12 DEF RecheckActive, SameActive, Reports, Runs
<1>13. CASE RecheckOperation(p)
  BY <1>3, <1>7, <1>13 DEF RecheckOperation, SameOperation, Reports, Runs
<1>14. ~ReportStatus(p) /\ ~BusyReturn(p)
  BY <1>4 DEF ReportStatus, BusyReturn, Return
<1> QED
  BY <1>6, <1>8, <1>9, <1>10, <1>11, <1>12, <1>13, <1>14 DEF InspectStep

\* What another process does takes nothing from it: no run is recorded twice
\* and no operation number runs twice.
LEMMA OthersReport ==
  ASSUME IInv, NumberInv, NEW p \in Proc, Acts(p), NEW q \in Proc, q # p, ReportInv
  PROVE  Reports(q)'
<1>1. Reports(q) /\ NoRun \notin Run /\ used \subseteq Run /\ TypeOK
  BY DistinctAssumption DEF DistinctAssumption, ReportInv, IInv, TypeOK
<1>2. \A x \in Proc : x # p => Untouched(x) /\ seenOp'[x] = seenOp[x]
  BY StepsAreLocal, CommandsAreLocal DEF IInv, Acts
<1>3. Besides(q)' <=> Besides(q)
  BY <1>2, LockHandling, DistinctAssumption DEF IInv, Acts, DistinctAssumption, Besides, Untouched
<1>4. Besides(q) => held'[q] \in used' /\ \A x \in Proc : Launched(x)' => held'[x] # held'[q]
  BY <1>1, <1>2, LaunchedSteps DEF Reports, Launched, Untouched
<1>5. Besides(q) /\ active' = held[q] => active = held[q]
  BY <1>1, ActiveSteps DEF Reports, Launched
<1>6. ASSUME Besides(q), Runs(held[q], opid[q])' PROVE Runs(held[q], opid[q])
  <2>1. held[q] \in Run /\ OperationStep(p, held[q]) /\ op'[held[q]] = [id |-> opid[q], state |-> "running"]
    BY <1>1, <1>2, <1>6, OperationSteps DEF Reports, Runs, Untouched
  <2>2. op'[held[q]].state = "running" /\ op'[held[q]].id = opid[q]
    BY <2>1
  <2>3. op'[held[q]] # NoOperation
    BY <2>2 DEF NoOperation
  <2>4. CASE op'[held[q]] = Interrupted(op[held[q]])
    <3>1. op[held[q]] \in Operation
      BY <1>1, <2>1 DEF TypeOK
    <3>2. op'[held[q]] = op[held[q]]
      BY <2>2, <2>4, <3>1 DEF Interrupted, Operation
    <3> QED
      BY <2>1, <3>2 DEF Runs
  <2>5. CASE pc[p] = "begin" /\ op'[held[q]] = [id |-> opid[p], state |-> "running"]
    <3>1. Unstarted(p)
      BY <2>5 DEF NumberInv, Labels, Unstarted, Provisioning
    <3> QED
      BY <2>2, <2>5, <3>1 DEF NumberInv, Fresh
  <2>6. \A s \in {"succeeded", "failed"} : op'[held[q]] # [id |-> opid[p], state |-> s]
    BY <2>2
  <2> QED
    BY <2>1, <2>3, <2>4, <2>5, <2>6 DEF OperationStep, Runs
<1>7. /\ pc[q] \in {"recheck", "recheckOp", "report"} => Besides(q)
      /\ Runs(held[q], opid[q])' = (op'[held[q]] = [id |-> opid[q], state |-> "running"])
  BY <1>2 DEF Besides, Busy, Runs, Untouched
<1> QED
  BY <1>1, <1>2, <1>3, <1>4, <1>5, <1>6, <1>7 DEF Reports, Untouched

LEMMA NextReports == IInv /\ NumberInv /\ ReportInv /\ [Next]_vars => ReportInv'
<1> SUFFICES ASSUME IInv, NumberInv, ReportInv, [Next]_vars PROVE ReportInv'
  OBVIOUS
<1>1. ASSUME NEW p \in Proc, Acts(p) PROVE ReportInv'
  <2>1. CASE InspectStep(p)
    BY <1>1, <2>1, OwnReport, OthersReport DEF ReportInv
  <2>2. CASE ~InspectStep(p)
    <3>1. Reports(p)'
      BY <1>1, <2>2, BesideSteps DEF Reports, Besides, Busy
    <3> QED
      BY <1>1, <3>1, OthersReport DEF ReportInv
  <2> QED
    BY <2>1, <2>2
<1>2. CASE (\E r \in Run : GuestStep(r)) \/ ForeignSandbox
  <2>1. UNCHANGED <<lock, active, op, used, pc, held, opid, seenRun, seenOp>>
    BY <1>2, WorldSteps, WorldCommands
  <2> QED
    BY <2>1 DEF ReportInv, Reports, Besides, Launched, Runs
<1>3. CASE UNCHANGED vars
  BY <1>3 DEF vars, shared, own, seen, bounds, ReportInv, Reports, Besides, Launched, Runs
<1> QED
  BY <1>1, <1>2, <1>3 DEF Next, Acts

\* A report made while another command has the mutex mixes no two moments: the
\* run and the operation it was classified by are those it names, since a run
\* that was replaced is not recorded again and no operation number runs twice.
THEOREM ReportsAreConsistent == Spec => []BusyReportConsistent
<1>1. Init => ReportInv
  BY DEF Init, ReportInv, Reports, Besides, Busy, Inspection
<1>2. ReportInv => BusyReportConsistent
  BY DEF ReportInv, Reports, BusyReportConsistent
<1> QED
  BY <1>1, <1>2, NextReports, NumbersAreFresh, InductiveInvariant, PTL DEF Spec

-----------------------------------------------------------------------------
(* While nothing fails, the record and the operations are right.           *)

\* A step after which nothing has failed is no fault.
LEMMA QuietSteps ==
  ASSUME IInv, NEW p \in Proc, Acts(p), faults' = 0
  PROVE  faults = 0 /\ ~Fault(p)
<1>1. faults \in Nat /\ (TakeFault => faults' # 0)
  BY BoundAssumption DEF BoundAssumption, IInv, TypeOK, TakeFault
<1>2. ~Fault(p)
  BY <1>1 DEF Fault, Crash, CleanupFault, FinishFails
<1>3. CASE \E c \in Commands : Begin(p, c)
  BY <1>2, <1>3 DEF Begin
<1>4. CASE AcquireLock(p) \/ LockTimeout(p) \/ Release(p) \/ Abort(p) \/ Refuse(p)
  BY <1>2, <1>4 DEF AcquireLock, LockTimeout, Release, Abort, Refuse, bounds
<1>5. CASE CleanupStep(p)
  BY <1>1, <1>2, <1>5 DEF CleanupStep, Reconcile, ReconcileError, Protect, Plan, Revalidate, CleanupRefuses,
     Unalias, RemoveRun, RunsRemoved, Unrecord, bounds
<1>6. CASE InspectStep(p)
  BY <1>2, <1>6 DEF InspectStep, Load, Query, Classify, ReportStatus, BusyActive, BusyOperation,
     RecheckActive, RecheckOperation, BusyReturn, bounds
<1>7. CASE UpStep(p)
  BY <1>1, <1>2, <1>7 DEF UpStep, DecideUp, Retain, Census, PrepareRun, LaunchSandbox, IdentifyLauncher,
     RecordActive, RecordFails, StartOperation, WaitForConnectable, VerifySSH, InstallAlias,
     ProvisionGuest, PublishReady, ProvisioningFails, FinishOperation, bounds
<1>8. CASE DownStep(p) \/ AttachStep(p)
  BY <1>2, <1>8 DEF DownStep, AttachStep, SelectActive, CaptureTailscale, StopOwned, Leftover,
     ForgetActive, DecideAttach, VerifyGuestHerdr, AttachAlias, bounds
<1> QED
  BY <1>2, <1>3, <1>4, <1>5, <1>6, <1>7, <1>8 DEF HostStep, Acts

\* A provisioning `up` that does not fail to publish ends by publishing.
LEMMA ProvisioningSteps ==
  ASSUME IInv, NEW p \in Proc, Acts(p), ~Fault(p), pc[p] \in Provisioning
  PROVE  \/ pc'[p] \in Provisioning /\ held'[p] = held[p]
         \/ held[p] \in Run /\ op'[held[p]].state # "running"
<1> USE DEF IInv, TypeOK, Provisioning, Goto, own
<1>1. ~(\E c \in Commands : Begin(p, c)) /\ ~InspectStep(p) /\ ~CleanupStep(p)
  BY DEF Begin, InspectStep, Load, Query, Classify, ReportStatus, BusyActive, BusyOperation, RecheckActive,
     RecheckOperation, BusyReturn, Busy, Inspection, CleanupStep, Reconcile, ReconcileError, Protect, Plan,
     Revalidate, CleanupRefuses, Unalias, RemoveRun, RunsRemoved, Unrecord
<1>2. ~(AcquireLock(p) \/ LockTimeout(p) \/ Release(p) \/ Abort(p) \/ Refuse(p)) /\ ~DownStep(p) /\ ~AttachStep(p)
  BY DEF AcquireLock, LockTimeout, Release, Abort, Refuse, Stopping, Attaching, Inspection, DownStep,
     AttachStep, SelectActive, CaptureTailscale, StopOwned, Leftover, ForgetActive, DecideAttach,
     VerifyGuestHerdr, AttachAlias
<1>3. UpStep(p)
  BY <1>1, <1>2 DEF HostStep, Acts
<1>4. CASE FinishOperation(p)
  <2>1. held[p] \in Run
    BY <1>4 DEF FinishOperation
  <2>2. PICK s \in {"succeeded", "failed"} : op' = [op EXCEPT ![held[p]] = [id |-> opid[p], state |-> s]]
    BY <1>4 DEF FinishOperation, Outcomes
  <2>3. op'[held[p]].state = s
    BY <2>1, <2>2
  <2> QED
    BY <2>1, <2>3
<1>5. CASE ~FinishOperation(p)
  BY <1>3, <1>5 DEF UpStep, DecideUp, Retain, Census, PrepareRun, LaunchSandbox, IdentifyLauncher,
     RecordActive, RecordFails, StartOperation, WaitForConnectable, VerifySSH, InstallAlias,
     ProvisionGuest, PublishReady, ProvisioningFails
<1> QED
  BY <1>4, <1>5

\* A launched Sandbox is recorded or ended.
LEMMA RecordingSteps ==
  ASSUME IInv, NEW p \in Proc, Acts(p), faults' = 0, pc[p] \in {"identify", "record"}
  PROVE  \/ pc'[p] \in {"identify", "record"} /\ held'[p] = held[p]
         \/ active' = held[p]
         \/ launcher'[held[p]] # "live"
<1> USE DEF IInv, TypeOK, Goto, own
<1>1. ~(\E c \in Commands : Begin(p, c)) /\ ~InspectStep(p) /\ ~CleanupStep(p)
  BY DEF Begin, InspectStep, Load, Query, Classify, ReportStatus, BusyActive, BusyOperation, RecheckActive,
     RecheckOperation, BusyReturn, Busy, Inspection, CleanupStep, Reconcile, ReconcileError, Protect, Plan,
     Revalidate, CleanupRefuses, Unalias, RemoveRun, RunsRemoved, Unrecord
<1>2. ~(AcquireLock(p) \/ LockTimeout(p) \/ Release(p) \/ Abort(p) \/ Refuse(p)) /\ ~DownStep(p) /\ ~AttachStep(p)
  BY DEF AcquireLock, LockTimeout, Release, Abort, Refuse, Stopping, Attaching, Inspection, DownStep,
     AttachStep, SelectActive, CaptureTailscale, StopOwned, Leftover, ForgetActive, DecideAttach,
     VerifyGuestHerdr, AttachAlias
<1>3. UpStep(p)
  BY <1>1, <1>2, QuietSteps DEF HostStep, Acts
<1>4. held[p] \in Run /\ ~TakeFault
  BY BoundAssumption DEF BoundAssumption, ProcessInv, Launches, TakeFault
<1> QED
  BY <1>3, <1>4 DEF UpStep, DecideUp, Retain, Census, PrepareRun, LaunchSandbox, IdentifyLauncher,
     RecordActive, RecordFails, StartOperation, WaitForConnectable, VerifySSH, InstallAlias,
     ProvisionGuest, PublishReady, ProvisioningFails, FinishOperation, Provisioning, Live

\* A Sandbox comes to run by being launched.
LEMMA LiveSteps ==
  ASSUME IInv, NEW p \in Proc, Acts(p), NEW r \in Run, Live(r)'
  PROVE  Live(r) \/ (held[p] = r /\ pc'[p] = "identify" /\ held'[p] = held[p])
<1> USE DEF IInv, TypeOK, Live, Goto, own, world
<1>1. CASE \E c \in Commands : Begin(p, c)
  BY <1>1 DEF Begin
<1>2. CASE AcquireLock(p) \/ LockTimeout(p) \/ Release(p) \/ Abort(p) \/ Refuse(p)
  BY <1>2 DEF AcquireLock, LockTimeout, Release, Abort, Refuse
<1>3. CASE CleanupStep(p)
  BY <1>3 DEF CleanupStep, Reconcile, ReconcileError, Protect, Plan, Revalidate, CleanupRefuses,
     CleanupFails, Unalias, RemoveRun, RunsRemoved, Unrecord
<1>4. CASE InspectStep(p)
  BY <1>4 DEF InspectStep, Load, Query, Classify, ReportStatus, BusyActive, BusyOperation,
     RecheckActive, RecheckOperation, BusyReturn
<1>5. CASE LaunchSandbox(p)
  BY <1>5 DEF LaunchSandbox
<1>6. CASE RecordFails(p)
  BY <1>6 DEF RecordFails
<1>7. CASE UpStep(p) /\ ~LaunchSandbox(p) /\ ~RecordFails(p)
  BY <1>7 DEF UpStep, DecideUp, Retain, Census, PrepareRun, IdentifyLauncher,
     RecordActive, StartOperation, WaitForConnectable, VerifySSH, InstallAlias,
     ProvisionGuest, PublishReady, ProvisioningFails, FinishOperation
<1>8. CASE StopOwned(p)
  BY <1>8 DEF StopOwned
<1>9. CASE (DownStep(p) /\ ~StopOwned(p)) \/ AttachStep(p)
  BY <1>9 DEF DownStep, AttachStep, SelectActive, CaptureTailscale, Leftover,
     ForgetActive, DecideAttach, VerifyGuestHerdr, AttachAlias
<1>10. CASE Fault(p)
  BY <1>10 DEF Fault, Crash, CleanupFault, CleanupFails, FinishFails
<1> QED
  BY <1>1, <1>2, <1>3, <1>4, <1>5, <1>6, <1>7, <1>8, <1>9, <1>10 DEF HostStep, Acts

\* A directory goes only by the removal, at its turn in the plan.
LEMMA DirectorySteps ==
  ASSUME IInv, NEW p \in Proc, Acts(p)
  PROVE  \/ dirs \subseteq dirs'
         \/ /\ pc[p] = "remove" /\ pc'[p] = "remove" /\ held'[p] = held[p] /\ gone'[p] = gone[p]
            /\ active' = active
            /\ \E r \in todo[p] : dirs' = dirs \ {r}
<1> USE DEF IInv, TypeOK, own, shared
<1>1. CASE \E c \in Commands : Begin(p, c)
  BY <1>1 DEF Begin
<1>2. CASE AcquireLock(p) \/ LockTimeout(p) \/ Release(p) \/ Abort(p) \/ Refuse(p)
  BY <1>2 DEF AcquireLock, LockTimeout, Release, Abort, Refuse
<1>3. CASE RemoveRun(p)
  BY <1>3 DEF RemoveRun
<1>4. CASE CleanupStep(p) /\ ~RemoveRun(p)
  BY <1>4 DEF CleanupStep, Reconcile, ReconcileError, Protect, Plan, Revalidate, CleanupRefuses,
     CleanupFails, Unalias, RunsRemoved, Unrecord
<1>5. CASE InspectStep(p)
  BY <1>5 DEF InspectStep, Load, Query, Classify, ReportStatus, BusyActive, BusyOperation,
     RecheckActive, RecheckOperation, BusyReturn
<1>6. CASE UpStep(p)
  BY <1>6 DEF UpStep, DecideUp, Retain, Census, PrepareRun, LaunchSandbox, IdentifyLauncher,
     RecordActive, RecordFails, StartOperation, WaitForConnectable, VerifySSH, InstallAlias,
     ProvisionGuest, PublishReady, ProvisioningFails, FinishOperation
<1>7. CASE DownStep(p) \/ AttachStep(p)
  BY <1>7 DEF DownStep, AttachStep, SelectActive, CaptureTailscale, StopOwned, Leftover,
     ForgetActive, DecideAttach, VerifyGuestHerdr, AttachAlias
<1>8. CASE Fault(p)
  BY <1>8 DEF Fault, Crash, CleanupFault, CleanupFails, FinishFails
<1> QED
  BY <1>1, <1>2, <1>3, <1>4, <1>5, <1>6, <1>7, <1>8 DEF HostStep, Acts

\* A removal that includes the recorded run ends by dropping the record.
LEMMA RemovalSteps ==
  ASSUME IInv, NEW p \in Proc, Acts(p), ~Fault(p), pc[p] \in {"remove", "unrecord"}, gone[p], held[p] # NoRun
  PROVE  \/ active' = NoRun
         \/ pc'[p] \in {"remove", "unrecord"} /\ held'[p] = held[p] /\ gone'[p] = gone[p]
<1> USE DEF IInv, TypeOK, Goto, own, cleaning
<1>1. ~(\E c \in Commands : Begin(p, c)) /\ ~InspectStep(p)
  BY DEF Begin, InspectStep, Load, Query, Classify, ReportStatus, BusyActive, BusyOperation, RecheckActive,
     RecheckOperation, BusyReturn, Busy, Inspection
<1>2. ~(AcquireLock(p) \/ LockTimeout(p) \/ Release(p) \/ Abort(p) \/ Refuse(p)) /\ ~DownStep(p) /\ ~AttachStep(p)
  BY DEF AcquireLock, LockTimeout, Release, Abort, Refuse, Stopping, Attaching, Inspection, DownStep,
     AttachStep, SelectActive, CaptureTailscale, StopOwned, Leftover, ForgetActive, DecideAttach,
     VerifyGuestHerdr, AttachAlias
<1>3. ~UpStep(p)
  BY DEF UpStep, DecideUp, Retain, Census, PrepareRun, LaunchSandbox, IdentifyLauncher,
     RecordActive, RecordFails, StartOperation, WaitForConnectable, VerifySSH, InstallAlias,
     ProvisionGuest, PublishReady, ProvisioningFails, FinishOperation, Provisioning
<1>4. CleanupStep(p)
  BY <1>1, <1>2, <1>3 DEF HostStep, Acts
<1> QED
  BY <1>4 DEF CleanupStep, Reconcile, ReconcileError, Protect, Plan, Revalidate, CleanupRefuses,
     Unalias, RemoveRun, RunsRemoved, Unrecord

\* A record is not dropped while its Sandbox runs.
LEMMA LiveRecordKept ==
  ASSUME IInv, NEW p \in Proc, Acts(p), active \in Run, Live(active)
  PROVE  active' = active
BY HostImplements, DistinctAssumption DEF DistinctAssumption, Acts, Live, Ownership!Next, Ownership!vars,
   Ownership!Launch, Ownership!Record, Ownership!End, Ownership!Reuse, Ownership!Forget, Ownership!Live

LEMMA HostPutsRight ==
  ASSUME IInv, PutRight, NEW p \in Proc, Acts(p)
  PROVE  PutRight'
<1> SUFFICES ASSUME faults' = 0
             PROVE  /\ \A r \in Run : op'[r].state = "running" => \E x \in Proc : AtWork(x, r, Provisioning)'
                    /\ \A r \in Run : Live(r)' =>
                         active' = r \/ \E x \in Proc : AtWork(x, r, {"identify", "record"})'
                    /\ active' \notin dirs' \cup {NoRun} =>
                         \E x \in Proc : AtWork(x, active, {"remove", "unrecord"})' /\ gone'[x]
  BY DEF PutRight, AtWork
<1>1. faults = 0 /\ ~Fault(p) /\ TypeOK /\ ProcessInv(p) /\ NoRun \notin Run
  BY QuietSteps, DistinctAssumption DEF DistinctAssumption, IInv
<1>2. \A x \in Proc : x # p => pc'[x] = pc[x] /\ held'[x] = held[x] /\ gone'[x] = gone[x]
  BY <1>1, StepsAreLocal DEF Untouched, Acts
<1>3. ASSUME NEW r \in Run, op'[r].state = "running"
      PROVE  \E x \in Proc : AtWork(x, r, Provisioning)'
  <2>1. op[r] \in Operation /\ OperationStep(p, r)
    BY <1>1, OperationSteps DEF TypeOK
  <2>2. CASE op'[r] = op[r]
    <3>1. PICK x \in Proc : AtWork(x, r, Provisioning)
      BY <1>1, <1>3, <2>2 DEF PutRight
    <3>2. CASE x # p
      BY <1>2, <3>1, <3>2 DEF AtWork
    <3>3. CASE x = p
      BY <1>1, <1>3, <3>1, <3>3, ProvisioningSteps DEF AtWork
    <3> QED
      BY <3>2, <3>3
  <2>3. op'[r] # NoOperation
    BY <1>3 DEF NoOperation
  <2>4. CASE op'[r] = Interrupted(op[r])
    BY <1>3, <2>1, <2>2, <2>4 DEF Interrupted, Operation
  <2>5. CASE pc'[p] = "bootstrap" /\ held[p] = r /\ held'[p] = held[p]
    BY <2>5 DEF AtWork, Provisioning
  <2>6. \A s \in {"succeeded", "failed"} : op'[r] # [id |-> opid[p], state |-> s]
    BY <1>3
  <2> QED
    BY <2>1, <2>2, <2>3, <2>4, <2>5, <2>6 DEF OperationStep
<1>4. ASSUME NEW r \in Run, Live(r)', active' # r
      PROVE  \E x \in Proc : AtWork(x, r, {"identify", "record"})'
  <2>1. CASE held[p] = r /\ pc'[p] = "identify" /\ held'[p] = held[p]
    BY <2>1 DEF AtWork
  <2>2. CASE Live(r)
    <3>1. active # r
      BY <1>4, <2>2, LiveRecordKept
    <3>2. PICK x \in Proc : AtWork(x, r, {"identify", "record"})
      BY <1>1, <2>2, <3>1 DEF PutRight
    <3>3. CASE x # p
      BY <1>2, <3>2, <3>3 DEF AtWork
    <3>4. CASE x = p
      BY <1>4, <3>2, <3>4, RecordingSteps DEF AtWork, Live
    <3> QED
      BY <3>3, <3>4
  <2> QED
    BY <1>4, <2>1, <2>2, LiveSteps
<1>5. ASSUME active' \notin dirs' \cup {NoRun}
      PROVE  \E x \in Proc : AtWork(x, active, {"remove", "unrecord"})' /\ gone'[x]
  <2>1. active' = active
    <3>1. ~(pc[p] = "record" /\ active' = held[p])
      <4>1. pc[p] = "record" => held[p] \in dirs /\ dirs \subseteq dirs'
        BY <1>1, DirectorySteps DEF ProcessInv, Launches
      <4> QED
        BY <1>5, <4>1
    <3> QED
      BY <1>5, <3>1, ActiveSteps
  <2>2. CASE active \notin dirs
    <3>1. PICK x \in Proc : AtWork(x, active, {"remove", "unrecord"}) /\ gone[x]
      BY <1>1, <1>5, <2>1, <2>2 DEF PutRight
    <3>2. CASE x # p
      BY <1>2, <2>1, <3>1, <3>2 DEF AtWork
    <3>3. CASE x = p
      BY <1>1, <1>5, <2>1, <3>1, <3>3, RemovalSteps DEF AtWork
    <3> QED
      BY <3>2, <3>3
  <2>3. CASE active \in dirs
    <3>1. /\ pc[p] = "remove" /\ pc'[p] = "remove" /\ held'[p] = held[p] /\ gone'[p] = gone[p]
          /\ active \in todo[p]
      BY <1>5, <2>1, <2>3, DirectorySteps
    <3>2. held[p] = active /\ gone[p]
      BY <1>1, <3>1 DEF ProcessInv, Cleans
    <3> QED
      BY <2>1, <3>1, <3>2 DEF AtWork
  <2> QED
    BY <2>2, <2>3
<1> QED
  BY <1>3, <1>4, <1>5

LEMMA NextPutsRight == IInv /\ PutRight /\ [Next]_vars => PutRight'
<1> SUFFICES ASSUME IInv, PutRight, [Next]_vars PROVE PutRight'
  OBVIOUS
<1>1. CASE (\E r \in Run : GuestStep(r)) \/ ForeignSandbox
  BY <1>1, WorldSteps, WorldCommands DEF PutRight, AtWork, Live
<1>2. CASE UNCHANGED vars
  BY <1>2 DEF vars, shared, world, own, cleaning, bounds, PutRight, AtWork, Live
<1> QED
  BY <1>1, <1>2, HostPutsRight DEF Next, Acts

\* Whatever looks wrong while nothing fails is being put right.
THEOREM AlwaysPutRight == Spec => []PutRight
<1>1. Init => PutRight
  BY DEF Init, PutRight, NoOperation, Live
<1> QED
  BY <1>1, NextPutsRight, InductiveInvariant, PTL DEF Spec

\* Unless a process is killed or a write fails, every `up` that started an
\* operation has published its outcome when it gives up the mutex.
THEOREM OutcomesPublished == Spec => []OutcomePublished
<1>1. IInv /\ PutRight => OutcomePublished
  BY DistinctAssumption DEF DistinctAssumption, IInv, ProcessInv, Mutex, Locked, PutRight, AtWork,
     OutcomePublished
<1> QED
  BY <1>1, AlwaysPutRight, InductiveInvariant, PTL

\* Unless a process is killed or a write fails, active.json is right: it names
\* the Sandbox that runs, and a run whose directory is there.
THEOREM RecordsAreRight == Spec => []RecordIsRight
<1>1. PutRight => LiveIsRecorded
  BY DEF PutRight, AtWork, LiveIsRecorded
<1>2. IInv /\ PutRight => RecordNamesItsRun
  BY DistinctAssumption DEF DistinctAssumption, IInv, ProcessInv, Mutex, Locked, Cleanup, PutRight, AtWork,
     RecordNamesItsRun
<1> QED
  BY <1>1, <1>2, AlwaysPutRight, InductiveInvariant, PTL DEF RecordIsRight
=============================================================================
