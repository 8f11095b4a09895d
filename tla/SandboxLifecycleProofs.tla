----------------------- MODULE SandboxLifecycleProofs -----------------------
(* Theorems about SandboxLifecycle for every set of processes and runs and *)
(* every bound.                                                            *)
EXTENDS SandboxLifecycle, TLAPS

\* Operation records keep their shape under the changes the code makes.
LEMMA OperationTypes ==
  /\ NoOperation \in Operation
  /\ \A o \in Operation : Interrupted(o) \in Operation
  /\ \A n \in 0..MaxUps, s \in OpStates : [id |-> n, state |-> s] \in Operation
BY BoundAssumption DEF BoundAssumption, NoOperation, Operation, OpStates, Interrupted

LEMMA TypeInit == Init => TypeOK
<1> SUFFICES ASSUME Init PROVE TypeOK
  OBVIOUS
<1> USE DEF Init
<1>1. ups \in 0..MaxUps /\ faults \in 0..MaxFaults /\ 0 \in 0..MaxUps
  BY BoundAssumption DEF BoundAssumption
<1>2. "idle" \in Label /\ "none" \in SeenStates
  BY DEF Label, SeenStates
<1> QED
  BY <1>1, <1>2, OperationTypes DEF TypeOK

\* The locals a returning process resets keep their types.
LEMMA TypeReturn ==
  ASSUME TypeOK, NEW p \in Proc, Return(p)
  PROVE  /\ pc' \in [Proc -> Label]
         /\ cmd' \in [Proc -> {"none", "up", "down", "clean", "status", "attach"}]
         /\ stage' \in [Proc -> {"before", "main"}]
         /\ held' \in [Proc -> Run \cup {NoRun}]
         /\ opid' \in [Proc -> 0..MaxUps]
         /\ gone' \in [Proc -> BOOLEAN]
         /\ retried' \in [Proc -> BOOLEAN]
         /\ todo' \in [Proc -> SUBSET Run]
         /\ seenRun' \in [Proc -> Run \cup {NoRun}]
         /\ seenState' \in [Proc -> SeenStates]
         /\ seenOp' \in [Proc -> 0..MaxUps]
<1>1. 0 \in 0..MaxUps
  BY BoundAssumption DEF BoundAssumption
<1>2. "idle" \in Label /\ "none" \in SeenStates
  BY DEF Label, SeenStates
<1> QED
  BY <1>1, <1>2 DEF TypeOK, Return, Goto

LEMMA TypeCleanup == ASSUME TypeOK, NEW p \in Proc, CleanupStep(p) PROVE TypeOK'
<1> USE DEF TypeOK, Label, Locked, Cleanup, Launching, Provisioning, Stopping, Attaching,
    Inspection, Busy, Goto, shared, world, own, cleaning, seen, bounds, AfterCleanup
<1>1. CASE Reconcile(p)
  <2>1. op' \in [Run -> Operation]
    BY <1>1, OperationTypes DEF Reconcile
  <2>2. pc' \in [Proc -> Label]
    BY <1>1 DEF Reconcile, AfterReconcile
  <2> QED
    BY <1>1, <2>1, <2>2 DEF Reconcile
<1>2. CASE ReconcileError(p)
  <2>1. faults' \in 0..MaxFaults
    BY <1>2, BoundAssumption DEF ReconcileError, TakeFault, BoundAssumption
  <2>2. pc' \in [Proc -> Label]
    BY <1>2 DEF ReconcileError, AfterReconcileError, AfterReconcile
  <2> QED
    BY <1>2, <2>1, <2>2 DEF ReconcileError
<1>3. CASE Protect(p)
  BY <1>3 DEF Protect, SandboxGone, Live
<1>4. CASE Plan(p)
  BY <1>4 DEF Plan, Candidates
<1>5. CASE Revalidate(p)
  <2>1. pc' \in [Proc -> Label]
    BY <1>5 DEF Revalidate, RemovalStart
  <2>2. gone' \in [Proc -> BOOLEAN] /\ retried' \in [Proc -> BOOLEAN]
    BY <1>5 DEF Revalidate
  <2>3. todo' \in [Proc -> SUBSET Run]
    BY <1>5 DEF Revalidate
  <2> QED
    BY <1>5, <2>1, <2>2, <2>3 DEF Revalidate
<1>6. CASE CleanupRefuses(p)
  BY <1>6 DEF CleanupRefuses, CleanupFails
<1>7. CASE Unalias(p)
  BY <1>7 DEF Unalias
<1>8. CASE RemoveRun(p)
  BY <1>8, OperationTypes DEF RemoveRun
<1>9. CASE RunsRemoved(p)
  BY <1>9 DEF RunsRemoved
<1>10. CASE Unrecord(p)
  BY <1>10 DEF Unrecord
<1> QED
  BY <1>1, <1>2, <1>3, <1>4, <1>5, <1>6, <1>7, <1>8, <1>9, <1>10 DEF CleanupStep

LEMMA TypeMutex ==
  ASSUME TypeOK, NEW p \in Proc, AcquireLock(p) \/ LockTimeout(p) \/ Release(p) \/ Abort(p) \/ Refuse(p)
  PROVE  TypeOK'
<1> USE DEF TypeOK, Label, Locked, Cleanup, Launching, Provisioning, Stopping, Attaching,
    Inspection, Busy, Goto, shared, world, own, cleaning, seen, bounds
<1>1. CASE AcquireLock(p)
  BY <1>1 DEF AcquireLock
<1>2. CASE LockTimeout(p)
  BY <1>2, TypeReturn DEF LockTimeout
<1>3. CASE Release(p)
  BY <1>3, TypeReturn DEF Release
<1>4. CASE Abort(p)
  BY <1>4, TypeReturn DEF Abort
<1>5. CASE Refuse(p)
  BY <1>5 DEF Refuse
<1> QED
  BY <1>1, <1>2, <1>3, <1>4, <1>5

LEMMA TypeBegin ==
  ASSUME TypeOK, NEW p \in Proc, NEW c \in Commands, Begin(p, c)
  PROVE  TypeOK'
<1>1. ups' \in 0..MaxUps /\ opid' \in [Proc -> 0..MaxUps]
  <2>1. ups' \in 0..MaxUps
    BY BoundAssumption DEF BoundAssumption, Begin, TypeOK
  <2>2. (IF c = "up" THEN ups + 1 ELSE 0) \in 0..MaxUps
    BY BoundAssumption DEF BoundAssumption, Begin, TypeOK
  <2> QED
    BY <2>1, <2>2 DEF Begin, TypeOK
<1>2. c \in {"none", "up", "down", "clean", "status", "attach"} /\ "wait" \in Label
  BY CommandAssumption DEF CommandAssumption, Label
<1> QED
  BY <1>1, <1>2 DEF Begin, TypeOK, Goto, shared, world, cleaning, seen

ProgressStates == {"starting", "connectable", "ready", "failed", "retryable"}

\* The status files of a run always classify it as one of five states.
LEMMA ProgressTypes == ASSUME TypeOK, NEW r \in Run PROVE Progress(r) \in ProgressStates
<1>1. ConnectableState(op[r]) \in ProgressStates
  BY DEF ConnectableState, ProgressStates
<1>2. files[r] \in SUBSET StatusFiles
  BY DEF TypeOK
<1>3. CASE "failed" \in files[r]
  BY <1>3 DEF Progress, ProgressStates
<1>4. CASE "failed" \notin files[r] /\ "ready" \in files[r]
  BY <1>4 DEF Progress, ProgressStates
<1>5. CASE "failed" \notin files[r] /\ "ready" \notin files[r]
  <2>1. files[r] = {} \/ files[r] = {"connectable"}
    BY <1>2, <1>5 DEF StatusFiles
  <2> QED
    BY <1>1, <1>5, <2>1 DEF Progress, ProgressStates
<1> QED
  BY <1>3, <1>4, <1>5

LEMMA TypeInspect ==
  ASSUME TypeOK, NEW p \in Proc, Inspects(p), InspectStep(p)
  PROVE  TypeOK'
<1> USE DEF TypeOK, Label, Locked, Cleanup, Launching, Provisioning, Stopping, Attaching,
    Inspection, Busy, Goto, shared, world, own, cleaning, seen, bounds, AfterInspection
<1>1. CASE Load(p)
  BY <1>1 DEF Load
<1>2. CASE Query(p)
  <2>1. pc' \in [Proc -> Label]
    BY <1>2 DEF Query
  <2>2. seenState' \in [Proc -> SeenStates]
    BY <1>2 DEF Query, CensusState, SeenStates
  <2> QED
    BY <1>2, <2>1, <2>2 DEF Query
<1>3. CASE Classify(p)
  <2>1. pc' \in [Proc -> Label]
    BY <1>3 DEF Classify
  <2>2. seenRun[p] \in Run /\ op[seenRun[p]].id \in 0..MaxUps
    BY <1>3 DEF Classify, Operation, Inspects
  <2>3. seenState' \in [Proc -> SeenStates]
    BY <1>3, <2>2, ProgressTypes DEF Classify, ProgressStates, SeenStates
  <2> QED
    BY <1>3, <2>1, <2>2, <2>3 DEF Classify
<1>4. CASE ReportStatus(p)
  BY <1>4 DEF ReportStatus
<1>5. CASE BusyActive(p)
  BY <1>5 DEF BusyActive
<1>6. CASE BusyOperation(p)
  BY <1>6 DEF BusyOperation, Operation
<1>7. CASE RecheckActive(p)
  BY <1>7 DEF RecheckActive
<1>8. CASE RecheckOperation(p)
  BY <1>8 DEF RecheckOperation
<1>9. CASE BusyReturn(p)
  BY <1>9, TypeReturn DEF BusyReturn
<1> QED
  BY <1>1, <1>2, <1>3, <1>4, <1>5, <1>6, <1>7, <1>8, <1>9 DEF InspectStep

LEMMA TypeUp == ASSUME TypeOK, NEW p \in Proc, UpStep(p) PROVE TypeOK'
<1> USE DEF TypeOK, Label, Locked, Cleanup, Launching, Provisioning, Stopping, Attaching,
    Inspection, Busy, Goto, shared, world, own, cleaning, seen, bounds
<1>1. CASE DecideUp(p)
  BY <1>1 DEF DecideUp
<1>2. CASE Retain(p)
  BY <1>2 DEF Retain
<1>3. CASE Census(p)
  BY <1>3 DEF Census
<1>4. CASE PrepareRun(p)
  BY <1>4 DEF PrepareRun
<1>5. CASE LaunchSandbox(p)
  BY <1>5 DEF LaunchSandbox
<1>6. CASE IdentifyLauncher(p)
  BY <1>6 DEF IdentifyLauncher
<1>7. CASE RecordActive(p)
  BY <1>7 DEF RecordActive
<1>8. CASE RecordFails(p)
  <2>1. faults' \in 0..MaxFaults
    BY <1>8, BoundAssumption DEF RecordFails, TakeFault, BoundAssumption
  <2> QED
    BY <1>8, <2>1 DEF RecordFails
<1>9. CASE StartOperation(p)
  <2>1. op' \in [Run -> Operation]
    BY <1>9, OperationTypes DEF StartOperation, OpStates
  <2> QED
    BY <1>9, <2>1 DEF StartOperation
<1>10. CASE WaitForConnectable(p)
  BY <1>10 DEF WaitForConnectable
<1>11. CASE VerifySSH(p)
  BY <1>11 DEF VerifySSH
<1>12. CASE InstallAlias(p)
  BY <1>12 DEF InstallAlias
<1>13. CASE ProvisionGuest(p)
  BY <1>13 DEF ProvisionGuest
<1>14. CASE PublishReady(p)
  BY <1>14 DEF PublishReady, StatusFiles
<1>15. CASE ProvisioningFails(p)
  BY <1>15 DEF ProvisioningFails
<1>16. CASE FinishOperation(p)
  <2>1. op' \in [Run -> Operation]
    <3>1. PICK s \in Outcomes(p) : op' = [op EXCEPT ![held[p]] = [id |-> opid[p], state |-> s]]
      BY <1>16 DEF FinishOperation
    <3>2. [id |-> opid[p], state |-> s] \in Operation
      BY <3>1, OperationTypes DEF Outcomes, OpStates
    <3> QED
      BY <3>1, <3>2
  <2>2. pc' \in [Proc -> Label]
    BY <1>16 DEF FinishOperation
  <2> QED
    BY <1>16, <2>1, <2>2 DEF FinishOperation
<1> QED
  BY <1>1, <1>2, <1>3, <1>4, <1>5, <1>6, <1>7, <1>8, <1>9, <1>10, <1>11, <1>12, <1>13, <1>14,
     <1>15, <1>16 DEF UpStep

LEMMA TypeDownAttach ==
  ASSUME TypeOK, NEW p \in Proc, DownStep(p) \/ AttachStep(p)
  PROVE  TypeOK'
<1> USE DEF TypeOK, Label, Locked, Cleanup, Launching, Provisioning, Stopping, Attaching,
    Inspection, Busy, Goto, shared, world, own, cleaning, seen, bounds
<1>1. CASE SelectActive(p)
  BY <1>1 DEF SelectActive
<1>2. CASE CaptureTailscale(p)
  BY <1>2 DEF CaptureTailscale
<1>3. CASE StopOwned(p)
  <2>1. launcher' \in [Run -> {"none", "live", "gone", "reused"}]
    BY <1>3 DEF StopOwned
  <2>2. pc' \in [Proc -> Label]
    BY <1>3 DEF StopOwned
  <2>3. UNCHANGED <<lock, shared, foreign, own, cleaning, seen, bounds>>
    BY <1>3 DEF StopOwned
  <2> QED
    BY <2>1, <2>2, <2>3
<1>4. CASE Leftover(p)
  BY <1>4 DEF Leftover
<1>5. CASE ForgetActive(p)
  BY <1>5 DEF ForgetActive
<1>6. CASE DecideAttach(p)
  BY <1>6 DEF DecideAttach
<1>7. CASE VerifyGuestHerdr(p)
  BY <1>7 DEF VerifyGuestHerdr
<1>8. CASE AttachAlias(p)
  BY <1>8 DEF AttachAlias
<1> QED
  BY <1>1, <1>2, <1>3, <1>4, <1>5, <1>6, <1>7, <1>8 DEF DownStep, AttachStep

LEMMA TypeFault == ASSUME TypeOK, NEW p \in Proc, Fault(p) PROVE TypeOK'
<1> USE DEF TypeOK, Label, Locked, Cleanup, Launching, Provisioning, Stopping, Attaching,
    Inspection, Busy, Goto, shared, world, own, cleaning, seen, bounds
<1>1. TakeFault => faults' \in 0..MaxFaults
  BY BoundAssumption DEF TakeFault, BoundAssumption
<1>2. CASE Crash(p)
  BY <1>1, <1>2, TypeReturn DEF Crash
<1>3. CASE CleanupFault(p)
  <2>1. op' \in [Run -> Operation] /\ files' \in [Run -> SUBSET StatusFiles]
    BY <1>3, OperationTypes DEF CleanupFault
  <2>2. pc' \in [Proc -> Label] /\ todo' \in [Proc -> SUBSET Run]
    BY <1>3 DEF CleanupFault, CleanupFails, AfterCleanup
  <2>3. faults' \in 0..MaxFaults
    BY <1>1, <1>3 DEF CleanupFault
  <2> QED
    BY <1>3, <2>1, <2>2, <2>3 DEF CleanupFault, CleanupFails
<1>4. CASE FinishFails(p)
  BY <1>1, <1>4 DEF FinishFails
<1> QED
  BY <1>2, <1>3, <1>4 DEF Fault

LEMMA TypeWorld ==
  ASSUME TypeOK, (\E r \in Run : GuestStep(r)) \/ ForeignSandbox
  PROVE  TypeOK'
<1> USE DEF TypeOK, shared, world, own, cleaning, seen, bounds
<1>1. ASSUME NEW r \in Run, GuestStep(r) PROVE TypeOK'
  BY <1>1 DEF GuestStep, SandboxExits, PidReused, BootstrapConnects, BootstrapFails,
     BootstrapRetries, StatusFiles
<1>2. CASE ForeignSandbox
  BY <1>2 DEF ForeignSandbox
<1> QED
  BY <1>1, <1>2

\* Type correctness is inductive given what an inspecting command holds.
LEMMA TypeStep ==
  ASSUME TypeOK, \A p \in Proc : Inspects(p), [Next]_vars
  PROVE  TypeOK'
<1>1. ASSUME NEW p \in Proc, (\E c \in Commands : Begin(p, c)) \/ HostStep(p) \/ Fault(p)
      PROVE  TypeOK'
  BY <1>1, TypeBegin, TypeMutex, TypeCleanup, TypeInspect, TypeUp, TypeDownAttach, TypeFault
     DEF HostStep
<1>2. CASE UNCHANGED vars
  BY <1>2 DEF vars, shared, world, own, cleaning, seen, bounds, TypeOK
<1> QED
  BY <1>1, <1>2, TypeWorld DEF Next

-----------------------------------------------------------------------------
(* The inductive invariant.                                                *)

\* The locals of q that the invariant speaks about stay as they are.
Untouched(q) ==
  /\ pc'[q] = pc[q]
  /\ held'[q] = held[q]
  /\ opid'[q] = opid[q]
  /\ gone'[q] = gone[q]
  /\ todo'[q] = todo[q]
  /\ seenRun'[q] = seenRun[q]
  /\ seenState'[q] = seenState[q]

\* A process changes no other process's locals.
LEMMA StepsAreLocal ==
  ASSUME TypeOK, NEW p \in Proc, NEW q \in Proc, q # p,
         (\E c \in Commands : Begin(p, c)) \/ HostStep(p) \/ Fault(p)
  PROVE  Untouched(q)
<1> USE DEF TypeOK, Untouched, Goto, Return, own, cleaning, seen
<1>1. CASE \E c \in Commands : Begin(p, c)
  BY <1>1 DEF Begin
<1>2. CASE AcquireLock(p) \/ LockTimeout(p) \/ Release(p) \/ Abort(p) \/ Refuse(p)
  BY <1>2 DEF AcquireLock, LockTimeout, Release, Abort, Refuse
<1>3. CASE CleanupStep(p)
  BY <1>3 DEF CleanupStep, Reconcile, ReconcileError, Protect, Plan, Revalidate, CleanupRefuses,
     CleanupFails, Unalias, RemoveRun, RunsRemoved, Unrecord
<1>4. CASE InspectStep(p)
  BY <1>4 DEF InspectStep, Load, Query, Classify, ReportStatus, BusyActive, BusyOperation,
     RecheckActive, RecheckOperation, BusyReturn
<1>5. CASE UpStep(p)
  BY <1>5 DEF UpStep, DecideUp, Retain, Census, PrepareRun, LaunchSandbox, IdentifyLauncher,
     RecordActive, RecordFails, StartOperation, WaitForConnectable, VerifySSH, InstallAlias,
     ProvisionGuest, PublishReady, ProvisioningFails, FinishOperation
<1>6. CASE DownStep(p) \/ AttachStep(p)
  BY <1>6 DEF DownStep, AttachStep, SelectActive, CaptureTailscale, StopOwned, Leftover,
     ForgetActive, DecideAttach, VerifyGuestHerdr, AttachAlias
<1>7. CASE Fault(p)
  BY <1>7 DEF Fault, Crash, CleanupFault, CleanupFails, FinishFails
<1> QED
  BY <1>1, <1>2, <1>3, <1>4, <1>5, <1>6, <1>7 DEF HostStep

\* While p has the mutex, nobody else is at a step the invariant constrains.
LEMMA OthersWait ==
  ASSUME TypeOK, NEW p \in Proc, NEW q \in Proc, q # p, ProcessInv(q), Untouched(q),
         lock = p, lock' \in {p, NoProc}
  PROVE  ProcessInv(q)'
<1>1. pc'[q] \notin Locked /\ lock' # q
  BY DistinctAssumption DEF DistinctAssumption, ProcessInv, Mutex, Untouched
<1> QED
  BY <1>1 DEF ProcessInv, Mutex, Inspects, Launches, Provisions, Cleans, Stops, Untouched, Locked,
     Cleanup, Launching, Provisioning, Stopping

\* A step that leaves shared state alone keeps what other processes rely on.
LEMMA OthersKept ==
  ASSUME TypeOK, NEW p \in Proc, NEW q \in Proc, q # p, ProcessInv(q), Untouched(q),
         UNCHANGED <<active, dirs, op, files, alias, launcher>>,
         lock' = lock \/ (lock = NoProc /\ lock' = p)
  PROVE  ProcessInv(q)'
<1>1. CASE lock' = lock
  BY <1>1 DEF ProcessInv, Mutex, Inspects, Launches, Provisions, Cleans, Stops, Untouched,
     NoneLive, Live, SandboxGone
<1>2. CASE lock = NoProc /\ lock' = p
  <2>1. pc'[q] \notin Locked /\ lock' # q
    BY <1>2, DistinctAssumption DEF DistinctAssumption, ProcessInv, Mutex, Untouched
  <2> QED
    BY <2>1 DEF ProcessInv, Mutex, Inspects, Launches, Provisions, Cleans, Stops, Untouched, Locked,
       Cleanup, Launching, Provisioning, Stopping
<1> QED
  BY <1>1, <1>2

\* Only the holder of the mutex changes shared state or gives the mutex up.
LEMMA LockHandling ==
  ASSUME TypeOK, NEW p \in Proc, ProcessInv(p),
         (\E c \in Commands : Begin(p, c)) \/ HostStep(p) \/ Fault(p)
  PROVE  \/ (lock = p /\ lock' \in {p, NoProc})
         \/ /\ UNCHANGED <<active, dirs, op, files, alias, launcher>>
            /\ lock' = lock \/ (lock = NoProc /\ lock' = p)
<1> USE DEF shared, world
<1>1. CASE pc[p] \in Locked
  <2>1. lock = p
    BY <1>1 DEF ProcessInv, Mutex
  <2>2. CASE \E c \in Commands : Begin(p, c)
    BY <2>1, <2>2 DEF Begin
  <2>3. CASE AcquireLock(p) \/ LockTimeout(p) \/ Release(p) \/ Abort(p) \/ Refuse(p)
    BY <2>1, <2>3 DEF AcquireLock, LockTimeout, Release, Abort, Refuse
  <2>4. CASE CleanupStep(p)
    BY <2>1, <2>4 DEF CleanupStep, Reconcile, ReconcileError, Protect, Plan, Revalidate,
       CleanupRefuses, CleanupFails, Unalias, RemoveRun, RunsRemoved, Unrecord
  <2>5. CASE InspectStep(p)
    BY <2>1, <2>5 DEF InspectStep, Load, Query, Classify, ReportStatus, BusyActive, BusyOperation,
       RecheckActive, RecheckOperation, BusyReturn
  <2>6. CASE UpStep(p)
    BY <2>1, <2>6 DEF UpStep, DecideUp, Retain, Census, PrepareRun, LaunchSandbox, IdentifyLauncher,
       RecordActive, RecordFails, StartOperation, WaitForConnectable, VerifySSH, InstallAlias,
       ProvisionGuest, PublishReady, ProvisioningFails, FinishOperation
  <2>7. CASE DownStep(p) \/ AttachStep(p)
    BY <2>1, <2>7 DEF DownStep, AttachStep, SelectActive, CaptureTailscale, StopOwned, Leftover,
       ForgetActive, DecideAttach, VerifyGuestHerdr, AttachAlias
  <2>8. CASE Fault(p)
    BY <2>1, <2>8 DEF Fault, Crash, CleanupFault, CleanupFails, FinishFails
  <2> QED
    BY <2>2, <2>3, <2>4, <2>5, <2>6, <2>7, <2>8 DEF HostStep
<1>2. CASE pc[p] \notin Locked
  <2> USE <1>2 DEF Locked, Cleanup, Launching, Provisioning, Stopping, Attaching
  <2>1. CASE \E c \in Commands : Begin(p, c)
    BY <2>1 DEF Begin
  <2>2. CASE AcquireLock(p) \/ LockTimeout(p) \/ Release(p) \/ Abort(p) \/ Refuse(p)
    BY <2>2 DEF AcquireLock, LockObtainable, LockTimeout, Release, Abort, Refuse
  <2>3. CASE InspectStep(p)
    BY <2>3 DEF InspectStep, Load, Query, Classify, ReportStatus, BusyActive, BusyOperation,
       RecheckActive, RecheckOperation, BusyReturn
  <2>4. ~CleanupStep(p) /\ ~UpStep(p) /\ ~DownStep(p) /\ ~AttachStep(p)
    BY DEF CleanupStep, Reconcile, ReconcileError, Protect, Plan, Revalidate,
       CleanupRefuses, CleanupFails, Unalias, RemoveRun, RunsRemoved, Unrecord,
       UpStep, DecideUp, Retain, Census, PrepareRun, LaunchSandbox, IdentifyLauncher,
       RecordActive, RecordFails, StartOperation, WaitForConnectable, VerifySSH, InstallAlias,
       ProvisionGuest, PublishReady, ProvisioningFails, FinishOperation,
       DownStep, AttachStep, SelectActive, CaptureTailscale, StopOwned, Leftover,
       ForgetActive, DecideAttach, VerifyGuestHerdr, AttachAlias
  <2>5. CASE Fault(p)
    BY <2>5 DEF Fault, Crash, CleanupFault, FinishFails
  <2> QED
    BY <2>1, <2>2, <2>3, <2>4, <2>5 DEF HostStep
<1> QED
  BY <1>1, <1>2

\* A step of p keeps what every other process relies on.
LEMMA OthersSafe ==
  ASSUME IInv, NEW p \in Proc, NEW q \in Proc, q # p,
         (\E c \in Commands : Begin(p, c)) \/ HostStep(p) \/ Fault(p)
  PROVE  ProcessInv(q)'
BY StepsAreLocal, LockHandling, OthersWait, OthersKept DEF IInv

\* The parts of the invariant that no single process is responsible for.
Globals ==
  /\ DrawnRuns
  /\ RecordLaunched
  /\ OneOwnedSandbox
  /\ LiveRunKept
  /\ ReadyAliasCurrent

\* They speak of neither the mutex, the operations nor local state.
LEMMA GlobalsKept ==
  ASSUME Globals, UNCHANGED <<active, dirs, files, alias, launcher, used>>
  PROVE  Globals'
BY DEF Globals, DrawnRuns, RecordLaunched, OneOwnedSandbox, LiveRunKept, ReadyAliasCurrent, Live

\* Steps at which a process relies on nothing but the mutex.
Free ==
  {"idle", "wait", "release", "abort", "reconcile", "protect", "load", "select", "retain",
   "attach", "attachAlias"} \cup Busy

LEMMA FreeLabels ==
  ASSUME NEW p \in Proc, pc'[p] \in Free, pc'[p] \in Locked => lock' = p
  PROVE  ProcessInv(p)'
BY DEF Free, Busy, ProcessInv, Mutex, Inspects, Launches, Provisions, Cleans, Stops, Launching,
   Provisioning, Stopping

LEMMA MutexInv ==
  ASSUME IInv, NEW p \in Proc,
         (\E c \in Commands : Begin(p, c)) \/ AcquireLock(p) \/ LockTimeout(p) \/ Release(p)
           \/ Abort(p) \/ Refuse(p) \/ Crash(p)
  PROVE  Globals' /\ ProcessInv(p)'
<1>1. Globals'
  BY GlobalsKept DEF IInv, Globals, Begin, AcquireLock, LockTimeout, Release, Abort, Refuse, Crash,
     shared, world, bounds
<1>2. ProcessInv(p)'
  <2> USE DEF TypeOK, IInv, Goto, Return
  <2>1. CASE Refuse(p)
    <3>1. lock = p
      BY <2>1 DEF Refuse, ProcessInv, Mutex, Locked, Launching
    <3> QED
      BY <2>1, <3>1, FreeLabels DEF Refuse, Free
  <2>2. CASE ~Refuse(p)
    <3>1. pc'[p] \in {"idle", "wait", "busy"} \/ (pc'[p] = "reconcile" /\ lock' = p)
      BY <2>2 DEF Begin, AcquireLock, LockTimeout, Release, Abort, Crash
    <3>2. pc'[p] \in Locked => lock' = p
      BY <3>1 DEF Locked, Cleanup, Launching, Provisioning, Stopping, Attaching
    <3> QED
      BY <3>1, <3>2, FreeLabels DEF Free, Busy
  <2> QED
    BY <2>1, <2>2
<1> QED
  BY <1>1, <1>2

\* At a cleanup step a process relies on its cleanup evidence only.
LEMMA CleaningLabels ==
  ASSUME NEW p \in Proc, lock' = p, Cleans(p)',
         pc'[p] \in {"plan", "revalidate", "unalias", "remove", "unrecord"}
  PROVE  ProcessInv(p)'
BY DEF ProcessInv, Mutex, Inspects, Launches, Provisions, Stops, Launching, Provisioning, Stopping

\* Cleanup removes nothing a running Sandbox uses.
LEMMA CleanupInv ==
  ASSUME IInv, NEW p \in Proc, CleanupStep(p) \/ CleanupFault(p)
  PROVE  Globals' /\ ProcessInv(p)'
<1> USE DEF IInv, TypeOK, Goto, shared, world, own, cleaning, seen, bounds
<1>1. pc[p] \in Locked
  BY DEF CleanupStep, Reconcile, ReconcileError, Protect, Plan, Revalidate, CleanupRefuses,
     Unalias, RemoveRun, RunsRemoved, Unrecord, CleanupFault, Locked, Cleanup
<1>2. lock = p /\ lock' = p
  <2>1. lock' = lock
    BY DEF CleanupStep, Reconcile, ReconcileError, Protect, Plan, Revalidate, CleanupRefuses,
       CleanupFails, Unalias, RemoveRun, RunsRemoved, Unrecord, CleanupFault
  <2> QED
    BY <1>1, <2>1 DEF ProcessInv, Mutex
<1>3. \A ok \in BOOLEAN : AfterCleanup(p, ok) \in Free
  BY DEF AfterCleanup, Free
<1>4. CASE Reconcile(p) \/ ReconcileError(p)
  <2>1. pc'[p] \in Free
    BY <1>3, <1>4 DEF Reconcile, ReconcileError, AfterReconcile, AfterReconcileError, Free
  <2> QED
    BY <1>2, <1>4, <2>1, FreeLabels, GlobalsKept DEF Globals, Reconcile, ReconcileError
<1>5. CASE Protect(p)
  <2>1. ProcessInv(p)'
    <3>1. pc'[p] = "plan" /\ held'[p] = active' /\ (gone'[p] => SandboxGone')
      BY <1>5 DEF Protect, SandboxGone, Live
    <3> QED
      BY <1>2, <3>1, CleaningLabels DEF Cleans
  <2> QED
    BY <1>5, <2>1, GlobalsKept DEF Globals, Protect
<1>6. CASE Plan(p)
  <2>1. ProcessInv(p)'
    <3>1. pc'[p] = "revalidate" /\ todo'[p] = Candidates(p)
      BY <1>6 DEF Plan
    <3>2. Cleans(p)'
      BY <1>6, <3>1 DEF Plan, Candidates, SandboxGone, Live, ProcessInv, Cleans
    <3> QED
      BY <1>2, <3>1, <3>2, CleaningLabels
  <2> QED
    BY <1>6, <2>1, GlobalsKept DEF Globals, Plan
<1>7. CASE Revalidate(p)
  <2>1. \A r \in Run : Live(r) => r = active
    BY <1>7 DEF Revalidate, OwnershipProven
  <2>2. held[p] = active /\ (gone[p] => SandboxGone) /\ (gone[p] \/ held[p] \notin todo[p])
    BY <1>7 DEF Revalidate, ProcessInv, Cleans
  <2>3. CASE Unchanged(p)
    <3>1. pc'[p] = RemovalStart(p) /\ gone'[p] = gone[p] /\ todo'[p] = todo[p] /\ held'[p] = held[p]
      BY <1>7, <2>3 DEF Revalidate
    <3> QED
      BY <1>2, <1>7, <2>1, <2>2, <3>1, GlobalsKept
         DEF Globals, Revalidate, RemovalStart, SandboxGone, Live, ProcessInv, Mutex,
             Inspects, Launches, Provisions, Cleans, Stops, Launching, Provisioning, Stopping
  <2>4. CASE ~Unchanged(p)
    <3>1. pc'[p] = "plan" /\ held'[p] = held[p] /\ SandboxGone
      BY <1>7, <2>4 DEF Revalidate, OwnedSandboxExited
    <3>2. ProcessInv(p)'
      BY <1>2, <1>7, <2>1, <2>2, <3>1
         DEF Revalidate, SandboxGone, Live, ProcessInv, Mutex,
             Inspects, Launches, Provisions, Cleans, Stops, Launching, Provisioning, Stopping
    <3> QED
      BY <1>7, <3>2, GlobalsKept DEF Globals, Revalidate
  <2> QED
    BY <2>3, <2>4
<1>8. CASE CleanupRefuses(p)
  BY <1>2, <1>3, <1>8, FreeLabels, GlobalsKept DEF Globals, CleanupRefuses, CleanupFails
<1>9. CASE Unalias(p)
  <2>1. ReadyAliasCurrent'
    BY <1>9 DEF Unalias, ReadyAliasCurrent, ProcessInv, Cleans, SandboxGone, Live
  <2>2. Globals'
    BY <1>9, <2>1 DEF Unalias, Globals, DrawnRuns, RecordLaunched, OneOwnedSandbox, LiveRunKept, Live
  <2>3. ProcessInv(p)'
    <3>1. pc'[p] = "remove"
      BY <1>9 DEF Unalias
    <3>2. Cleans(p)'
      BY <1>9, <3>1 DEF Unalias, SandboxGone, Live, ProcessInv, Cleans
    <3> QED
      BY <1>2, <3>1, <3>2, CleaningLabels
  <2> QED
    BY <2>2, <2>3
<1>10. CASE RemoveRun(p)
  <2>1. PICK r \in todo[p] :
          /\ dirs' = dirs \ {r}
          /\ files' = [files EXCEPT ![r] = {}]
          /\ todo' = [todo EXCEPT ![p] = @ \ {r}]
    BY <1>10 DEF RemoveRun
  <2>2. ~Live(r)
    <3>1. pc[p] = "remove" /\ r \in Run /\ r # NoRun
      BY <1>10, <2>1, DistinctAssumption DEF RemoveRun, DistinctAssumption
    <3>2. Cleans(p)
      BY DEF ProcessInv
    <3> QED
      BY <2>1, <3>1, <3>2 DEF Cleans, SandboxGone
  <2>3. Globals'
    BY <1>10, <2>1, <2>2 DEF RemoveRun, Globals, DrawnRuns, RecordLaunched, OneOwnedSandbox,
       LiveRunKept, ReadyAliasCurrent, Live
  <2>4. ProcessInv(p)'
    <3>1. pc[p] = "remove" /\ Cleans(p) /\ todo'[p] \subseteq todo[p]
      BY <1>10, <2>1 DEF RemoveRun, ProcessInv
    <3>2. UNCHANGED <<pc, active, held, gone, launcher>>
      BY <1>10 DEF RemoveRun
    <3>3. Cleans(p)'
      BY <3>1, <3>2 DEF Cleans, SandboxGone, Live
    <3> QED
      BY <1>2, <3>1, <3>2, <3>3, CleaningLabels
  <2> QED
    BY <2>3, <2>4
<1>11. CASE RunsRemoved(p)
  <2>1. CASE gone[p] /\ held[p] # NoRun
    <3>1. ProcessInv(p)'
      <4>1. pc[p] = "remove" /\ pc'[p] = "unrecord" /\ Cleans(p)
        BY <1>11, <2>1 DEF RunsRemoved, ProcessInv
      <4>2. UNCHANGED <<active, held, gone, launcher, todo>>
        BY <1>11 DEF RunsRemoved
      <4>3. Cleans(p)'
        BY <2>1, <4>1, <4>2 DEF Cleans, SandboxGone, Live
      <4> QED
        BY <1>2, <4>1, <4>3, CleaningLabels
    <3> QED
      BY <1>11, <3>1, GlobalsKept DEF Globals, RunsRemoved
  <2>2. CASE ~(gone[p] /\ held[p] # NoRun)
    BY <1>2, <1>3, <1>11, <2>2, FreeLabels, GlobalsKept DEF Globals, RunsRemoved
  <2> QED
    BY <2>1, <2>2
<1>12. CASE Unrecord(p)
  <2>1. Globals'
    BY <1>12 DEF Unrecord, Globals, DrawnRuns, RecordLaunched, OneOwnedSandbox, LiveRunKept,
       ReadyAliasCurrent, Live
  <2> QED
    BY <1>2, <1>3, <1>12, <2>1, FreeLabels DEF Unrecord
<1>13. CASE CleanupFault(p)
  <2>1. files' \in [Run -> SUBSET StatusFiles] /\ \A r \in Run : files'[r] \in {files[r], {}}
    BY <1>13 DEF CleanupFault
  <2>2. UNCHANGED <<active, dirs, alias, launcher, used>>
    BY <1>13 DEF CleanupFault, CleanupFails
  <2>3. Globals'
    BY <2>1, <2>2 DEF Globals, DrawnRuns, RecordLaunched, OneOwnedSandbox, LiveRunKept,
       ReadyAliasCurrent, Live
  <2> QED
    BY <1>2, <1>3, <1>13, <2>3, FreeLabels DEF CleanupFault, CleanupFails
<1> QED
  BY <1>4, <1>5, <1>6, <1>7, <1>8, <1>9, <1>10, <1>11, <1>12, <1>13 DEF CleanupStep

\* An inspection under the mutex sees the record as it stays.
LEMMA InspectInv ==
  ASSUME IInv, NEW p \in Proc, InspectStep(p)
  PROVE  Globals' /\ ProcessInv(p)'
<1> USE DEF IInv, TypeOK, Goto, shared, world, own, cleaning, seen, bounds
<1>1. Globals'
  BY GlobalsKept DEF Globals, InspectStep, Load, Query, Classify, ReportStatus, BusyActive,
     BusyOperation, RecheckActive, RecheckOperation, BusyReturn
<1>2. lock' = lock
  BY DEF InspectStep, Load, Query, Classify, ReportStatus, BusyActive, BusyOperation, RecheckActive,
     RecheckOperation, BusyReturn
<1>3. CASE Load(p)
  BY <1>1, <1>2, <1>3 DEF Load, ProcessInv, Mutex, Inspects, Launches, Provisions, Cleans, Stops,
     Locked, Cleanup, Launching, Provisioning, Stopping, Attaching
<1>4. CASE Query(p)
  <2>1. CASE seenRun[p] = NoRun
    BY <1>1, <1>2, <1>4, <2>1 DEF Query, AfterInspection, ProcessInv, Mutex, Inspects, Launches,
       Provisions, Cleans, Stops, Locked, Cleanup, Launching, Provisioning, Stopping, Attaching
  <2>2. CASE seenRun[p] # NoRun
    BY <1>1, <1>2, <1>4, <2>2 DEF Query, ProcessInv, Mutex, Inspects, Launches,
       Provisions, Cleans, Stops, Locked, Cleanup, Launching, Provisioning, Stopping, Attaching
  <2> QED
    BY <2>1, <2>2
<1>5. CASE Classify(p)
  <2>1. seenRun[p] \in Run /\ seenState[p] \in {"live", "stale"} /\ (lock = p => seenRun[p] = active)
    BY <1>5 DEF Classify, ProcessInv, Inspects
  <2>2. seenState'[p] # "stopped"
    BY <1>5, <2>1, ProgressTypes DEF Classify, ProgressStates
  <2>3. pc'[p] = AfterInspection(p) /\ seenRun'[p] = seenRun[p] /\ UNCHANGED active
    BY <1>5 DEF Classify
  <2>4. ProcessInv(p)'
    BY <1>2, <2>1, <2>2, <2>3 DEF AfterInspection, ProcessInv, Mutex, Inspects, Launches, Provisions,
       Cleans, Stops, Locked, Cleanup, Launching, Provisioning, Stopping, Attaching
  <2> QED
    BY <1>1, <2>4
<1>6. CASE ReportStatus(p)
  <2>1. lock = p
    BY <1>6 DEF ReportStatus, ProcessInv, Mutex, Locked
  <2> QED
    BY <1>1, <1>2, <1>6, <2>1, FreeLabels DEF ReportStatus, Free
<1>7. CASE BusyActive(p) \/ RecheckActive(p) \/ RecheckOperation(p) \/ BusyReturn(p)
  <2>1. pc'[p] \in Busy \cup {"idle"}
    BY <1>7 DEF BusyActive, RecheckActive, RecheckOperation, BusyReturn, Return, Busy
  <2>2. pc'[p] \in Free /\ pc'[p] \notin Locked
    BY <2>1 DEF Busy, Free, Locked, Cleanup, Launching, Provisioning, Stopping, Attaching
  <2> QED
    BY <1>1, <2>2, FreeLabels
<1>8. CASE BusyOperation(p)
  <2>1. pc'[p] = "load"
    BY <1>8 DEF BusyOperation
  <2>2. pc'[p] \in Free /\ pc'[p] \notin Locked
    BY <2>1 DEF Free, Locked, Cleanup, Launching, Provisioning, Stopping, Attaching
  <2> QED
    BY <1>1, <2>2, FreeLabels
<1> QED
  BY <1>3, <1>4, <1>5, <1>6, <1>7, <1>8 DEF InspectStep

\* At the steps of a launch, of a provisioning and of a stop a process relies
\* on the part of the invariant named after them.
LEMMA LaunchingLabels ==
  ASSUME NEW p \in Proc, lock' = p, Launches(p)', pc'[p] \in Launching
  PROVE  ProcessInv(p)'
BY DEF ProcessInv, Mutex, Inspects, Cleans, Provisions, Stops, Launching, Provisioning, Stopping

LEMMA ProvisioningLabels ==
  ASSUME NEW p \in Proc, lock' = p, Provisions(p)', pc'[p] \in Provisioning \cup {"begin"}
  PROVE  ProcessInv(p)'
BY DEF ProcessInv, Mutex, Inspects, Cleans, Launches, Stops, Launching, Provisioning, Stopping

LEMMA StoppingLabels ==
  ASSUME NEW p \in Proc, lock' = p, Stops(p)', pc'[p] \in Stopping
  PROVE  ProcessInv(p)'
BY DEF ProcessInv, Mutex, Inspects, Cleans, Launches, Provisions, Launching, Provisioning, Stopping

\* `up` launches only when nothing runs, and provisions what it recorded.
LEMMA UpInv ==
  ASSUME IInv, NEW p \in Proc, UpStep(p) \/ FinishFails(p)
  PROVE  Globals' /\ ProcessInv(p)'
<1> USE DEF IInv, TypeOK, Goto, shared, world, own, cleaning, seen, bounds
<1>1. pc[p] \in Locked
  BY DEF UpStep, DecideUp, Retain, Census, PrepareRun, LaunchSandbox, IdentifyLauncher,
     RecordActive, RecordFails, StartOperation, WaitForConnectable, VerifySSH, InstallAlias,
     ProvisionGuest, PublishReady, ProvisioningFails, FinishOperation, FinishFails,
     Locked, Launching, Provisioning
<1>2. lock = p /\ lock' = p
  <2>1. lock' = lock
    BY DEF UpStep, DecideUp, Retain, Census, PrepareRun, LaunchSandbox, IdentifyLauncher,
       RecordActive, RecordFails, StartOperation, WaitForConnectable, VerifySSH, InstallAlias,
       ProvisionGuest, PublishReady, ProvisioningFails, FinishOperation, FinishFails
  <2> QED
    BY <1>1, <2>1 DEF ProcessInv, Mutex
<1>3. Inspects(p) /\ Launches(p) /\ Provisions(p)
  BY DEF ProcessInv
<1>4. NoRun \notin Run
  BY DistinctAssumption DEF DistinctAssumption
<1>5. CASE DecideUp(p)
  <2>1. Globals'
    BY <1>5, GlobalsKept DEF Globals, DecideUp
  <2>2. CASE seenState[p] = "stopped"
    <3>1. pc[p] = "decide" /\ pc'[p] = "census" /\ active' = active
      BY <1>5, <2>2 DEF DecideUp, Resumable
    <3>2. active = NoRun
      BY <1>2, <1>3, <2>2, <3>1 DEF Inspects
    <3> QED
      BY <1>2, <2>1, <3>1, <3>2, LaunchingLabels DEF Launches, Launching
  <2>3. CASE seenState[p] # "stopped"
    <3>1. pc'[p] \in {"retain", "abort"}
      BY <1>5, <2>3 DEF DecideUp
    <3> QED
      BY <1>2, <2>1, <3>1, FreeLabels DEF Free
  <2> QED
    BY <2>2, <2>3
<1>6. CASE Retain(p)
  <2>1. Globals'
    BY <1>6, GlobalsKept DEF Globals, Retain
  <2>2. pc'[p] = "begin" /\ held'[p] = active' /\ active' # NoRun
    BY <1>6 DEF Retain
  <2> QED
    BY <1>2, <2>1, <2>2, ProvisioningLabels DEF Provisions, Provisioning
<1>7. CASE Census(p)
  <2>1. Globals'
    BY <1>7, GlobalsKept DEF Globals, Census
  <2>2. UNCHANGED <<active, dirs, files, launcher, held>>
    BY <1>7 DEF Census
  <2>3. CASE AnySandbox
    <3>1. pc'[p] = "abort"
      BY <1>7, <2>3 DEF Census, NoSandboxRunning
    <3> QED
      BY <1>2, <2>1, <3>1, FreeLabels DEF Free
  <2>4. CASE ~AnySandbox
    <3>1. \/ pc[p] = "census" /\ pc'[p] = "prepare"
          \/ pc[p] = "recensus" /\ pc'[p] = "launch"
      BY <1>7, <2>4 DEF Census, NoSandboxRunning
    <3>2. Launches(p)'
      BY <1>3, <2>2, <2>4, <3>1 DEF Launches, Launching, AnySandbox, NoneLive, Live
    <3> QED
      BY <1>2, <2>1, <3>1, <3>2, LaunchingLabels DEF Launching
  <2> QED
    BY <2>3, <2>4
<1>8. CASE PrepareRun(p)
  <2>1. PICK r \in Run \ used :
          used' = used \cup {r} /\ dirs' = dirs \cup {r} /\ held' = [held EXCEPT ![p] = r]
    BY <1>8 DEF PrepareRun
  <2>2. UNCHANGED <<active, files, alias, launcher>> /\ pc[p] = "prepare" /\ pc'[p] = "recensus"
    BY <1>8 DEF PrepareRun
  <2>3. Globals'
    BY <2>1, <2>2 DEF Globals, DrawnRuns, RecordLaunched, OneOwnedSandbox, LiveRunKept,
       ReadyAliasCurrent, Live
  <2>4. launcher[r] = "none" /\ files[r] = {} /\ held'[p] = r /\ r \in dirs' /\ active = NoRun
    BY <1>3, <2>1, <2>2 DEF DrawnRuns, Launches, Launching
  <2>5. Launches(p)'
    BY <2>2, <2>4 DEF Launches
  <2> QED
    BY <1>2, <2>2, <2>3, <2>5, LaunchingLabels DEF Launching
<1>9. CASE LaunchSandbox(p)
  <2>1. pc[p] = "launch" /\ pc'[p] = "identify" /\ UNCHANGED <<active, dirs, files, alias, held, used>>
    BY <1>9 DEF LaunchSandbox
  <2>2. active = NoRun /\ held[p] \in dirs /\ "ready" \notin files[held[p]] /\ NoneLive
    BY <1>3, <2>1 DEF Launches, Launching
  <2>3. launcher' = [launcher EXCEPT ![held[p]] = "live"] /\ held[p] \in Run
    BY <1>9, <2>2 DEF LaunchSandbox
  <2>4. Globals'
    BY <2>1, <2>2, <2>3 DEF Globals, DrawnRuns, RecordLaunched, OneOwnedSandbox, LiveRunKept,
       ReadyAliasCurrent, Live, NoneLive
  <2>5. Launches(p)'
    BY <2>1, <2>2, <2>3 DEF Launches
  <2> QED
    BY <1>2, <2>1, <2>4, <2>5, LaunchingLabels DEF Launching
<1>10. CASE IdentifyLauncher(p)
  <2>1. Globals'
    BY <1>10, GlobalsKept DEF Globals, IdentifyLauncher
  <2>2. pc[p] = "identify" /\ pc'[p] = "record" /\ UNCHANGED <<active, dirs, files, launcher, held>>
    BY <1>10 DEF IdentifyLauncher
  <2>3. Launches(p)'
    BY <1>3, <2>2 DEF Launches, Launching
  <2> QED
    BY <1>2, <2>1, <2>2, <2>3, LaunchingLabels DEF Launching
<1>11. CASE RecordActive(p)
  <2>1. pc[p] = "record" /\ pc'[p] = "begin" /\ active' = held[p]
        /\ UNCHANGED <<dirs, files, alias, launcher, held, used>>
    BY <1>11 DEF RecordActive
  <2>2. held[p] \in dirs /\ "ready" \notin files[held[p]] /\ launcher[held[p]] # "none"
    BY <1>3, <2>1 DEF Launches, Launching
  <2>3. held[p] # NoRun /\ held[p] \in used
    BY <1>4, <2>2 DEF DrawnRuns
  <2>4. Globals'
    BY <2>1, <2>2, <2>3 DEF Globals, DrawnRuns, RecordLaunched, OneOwnedSandbox, LiveRunKept,
       ReadyAliasCurrent, Live
  <2> QED
    BY <1>2, <2>1, <2>3, <2>4, ProvisioningLabels DEF Provisions, Provisioning
<1>12. CASE RecordFails(p)
  <2>1. pc[p] \in {"identify", "record"} /\ pc'[p] = "abort"
        /\ UNCHANGED <<active, dirs, files, alias, held, used>>
    BY <1>12 DEF RecordFails
  <2>2. active = NoRun /\ held[p] \in dirs /\ launcher[held[p]] # "none"
    BY <1>3, <2>1 DEF Launches, Launching
  <2>3. launcher' = [launcher EXCEPT ![held[p]] = "gone"] \/ UNCHANGED launcher
    BY <1>12 DEF RecordFails
  <2>4. Globals'
    BY <2>1, <2>2, <2>3 DEF Globals, DrawnRuns, RecordLaunched, OneOwnedSandbox, LiveRunKept,
       ReadyAliasCurrent, Live
  <2> QED
    BY <1>2, <2>1, <2>4, FreeLabels DEF Free
<1>13. CASE StartOperation(p)
  <2>1. Globals'
    BY <1>13, GlobalsKept DEF Globals, StartOperation
  <2>2. pc[p] = "begin" /\ pc'[p] = "bootstrap" /\ held[p] \in dirs
        /\ op' = [op EXCEPT ![held[p]] = [id |-> opid[p], state |-> "running"]]
        /\ UNCHANGED <<active, dirs, held, opid>>
    BY <1>13 DEF StartOperation
  <2>3. Provisions(p)'
    BY <1>3, <2>2 DEF Provisions, Provisioning
  <2> QED
    BY <1>2, <2>1, <2>2, <2>3, ProvisioningLabels DEF Provisioning
<1>14. CASE WaitForConnectable(p) \/ VerifySSH(p) \/ ProvisionGuest(p) \/ ProvisioningFails(p)
  <2>1. Globals'
    BY <1>14, GlobalsKept DEF Globals, WaitForConnectable, VerifySSH, ProvisionGuest,
       ProvisioningFails
  <2>2. /\ pc[p] \in Provisioning
        /\ pc'[p] \in {"verify", "alias", "failing"} \/ (pc[p] = "develop" /\ pc'[p] = "publish")
        /\ UNCHANGED <<active, dirs, op, alias, held, opid>>
    BY <1>14 DEF WaitForConnectable, VerifySSH, ProvisionGuest, ProvisioningFails, Provisioning
  <2>3. pc'[p] \in Provisioning
    BY <2>2 DEF Provisioning
  <2>4. Provisions(p)'
    BY <1>3, <2>2, <2>3 DEF Provisions
  <2> QED
    BY <1>2, <2>1, <2>3, <2>4, ProvisioningLabels
<1>15. CASE InstallAlias(p)
  <2>1. pc[p] = "alias" /\ pc'[p] = "develop" /\ alias' = held[p]
        /\ UNCHANGED <<active, dirs, op, files, launcher, held, opid, used>>
    BY <1>15 DEF InstallAlias
  <2>2. held[p] = active
    BY <1>3, <2>1 DEF Provisions, Provisioning
  <2>3. Globals'
    BY <2>1, <2>2 DEF Globals, DrawnRuns, RecordLaunched, OneOwnedSandbox, LiveRunKept,
       ReadyAliasCurrent, Live
  <2>4. Provisions(p)'
    BY <1>3, <2>1 DEF Provisions, Provisioning
  <2> QED
    BY <1>2, <2>1, <2>3, <2>4, ProvisioningLabels DEF Provisioning
<1>16. CASE PublishReady(p)
  <2>1. pc[p] = "publish" /\ pc'[p] = "complete" /\ held[p] \in dirs
        /\ files' = [files EXCEPT ![held[p]] = @ \cup {"ready"}]
        /\ UNCHANGED <<active, dirs, op, alias, launcher, held, opid, used>>
    BY <1>16 DEF PublishReady
  <2>2. held[p] = active /\ alias = held[p] /\ held[p] \in used
    BY <1>3, <2>1 DEF Provisions, Provisioning, DrawnRuns
  <2>3. Globals'
    BY <2>1, <2>2 DEF Globals, DrawnRuns, RecordLaunched, OneOwnedSandbox, LiveRunKept,
       ReadyAliasCurrent, Live
  <2>4. Provisions(p)'
    BY <1>3, <2>1 DEF Provisions, Provisioning
  <2> QED
    BY <1>2, <2>1, <2>3, <2>4, ProvisioningLabels DEF Provisioning
<1>17. CASE FinishOperation(p) \/ FinishFails(p)
  <2>1. Globals'
    BY <1>17, GlobalsKept DEF Globals, FinishOperation, FinishFails
  <2>2. pc'[p] \in {"release", "abort"}
    BY <1>17 DEF FinishOperation, FinishFails
  <2> QED
    BY <1>2, <2>1, <2>2, FreeLabels DEF Free
<1> QED
  BY <1>5, <1>6, <1>7, <1>8, <1>9, <1>10, <1>11, <1>12, <1>13, <1>14, <1>15, <1>16, <1>17 DEF UpStep

\* `down` forgets an ended Sandbox only; `attach` aliases the recorded run.
LEMMA DownAttachInv ==
  ASSUME IInv, NEW p \in Proc, DownStep(p) \/ AttachStep(p)
  PROVE  Globals' /\ ProcessInv(p)'
<1> USE DEF IInv, TypeOK, Goto, shared, world, own, cleaning, seen, bounds
<1>1. pc[p] \in Locked
  BY DEF DownStep, AttachStep, SelectActive, CaptureTailscale, StopOwned, Leftover, ForgetActive,
     DecideAttach, VerifyGuestHerdr, AttachAlias, Locked, Stopping, Attaching
<1>2. lock = p /\ lock' = p
  <2>1. lock' = lock
    BY DEF DownStep, AttachStep, SelectActive, CaptureTailscale, StopOwned, Leftover, ForgetActive,
       DecideAttach, VerifyGuestHerdr, AttachAlias
  <2> QED
    BY <1>1, <2>1 DEF ProcessInv, Mutex
<1>3. Stops(p)
  BY DEF ProcessInv
<1>4. CASE SelectActive(p)
  <2>1. Globals'
    BY <1>4, GlobalsKept DEF Globals, SelectActive
  <2>2. \/ pc'[p] = "capture" /\ held'[p] = active' /\ active' # NoRun
        \/ pc'[p] \in {"abort", "release"}
    BY <1>4 DEF SelectActive
  <2> QED
    BY <1>2, <2>1, <2>2, StoppingLabels, FreeLabels DEF Stops, Stopping, Free
<1>5. CASE CaptureTailscale(p)
  <2>1. Globals'
    BY <1>5, GlobalsKept DEF Globals, CaptureTailscale
  <2>2. pc[p] = "capture" /\ pc'[p] = "stop" /\ UNCHANGED <<active, held, launcher>>
    BY <1>5 DEF CaptureTailscale
  <2> QED
    BY <1>2, <1>3, <2>1, <2>2, StoppingLabels DEF Stops, Stopping
<1>6. CASE StopOwned(p)
  <2>1. /\ pc[p] = "stop"
        /\ launcher' = [launcher EXCEPT ![held[p]] = IF @ = "live" THEN "gone" ELSE @]
        /\ UNCHANGED <<active, dirs, files, alias, held, used>>
    BY <1>6 DEF StopOwned
  <2>2. held[p] = active /\ held[p] \in Run
    BY <1>3, <2>1 DEF Stops, Stopping
  <2>3. \A r \in Run : launcher'[r] = launcher[r] \/ (launcher[r] = "live" /\ launcher'[r] = "gone")
    BY <2>1
  <2>4. Globals'
    BY <2>1, <2>3 DEF Globals, DrawnRuns, RecordLaunched, OneOwnedSandbox,
       LiveRunKept, ReadyAliasCurrent, Live
  <2>5. launcher'[held[p]] # "live"
    BY <2>1, <2>2
  <2>6. pc'[p] \in {"abort", "leftover", "forget"}
    BY <1>6 DEF StopOwned
  <2>7. pc'[p] # "abort" => Stops(p)'
    BY <1>3, <2>1, <2>5, <2>6 DEF Stops, Stopping, Live
  <2> QED
    BY <1>2, <2>4, <2>6, <2>7, StoppingLabels, FreeLabels DEF Stopping, Free
<1>7. CASE Leftover(p)
  <2>1. Globals'
    BY <1>7, GlobalsKept DEF Globals, Leftover
  <2>2. pc[p] = "leftover" /\ pc'[p] \in {"abort", "forget"} /\ UNCHANGED <<active, held, launcher>>
    BY <1>7 DEF Leftover
  <2>3. pc'[p] # "abort" => Stops(p)'
    BY <1>3, <2>2 DEF Stops, Stopping, Live
  <2> QED
    BY <1>2, <2>1, <2>2, <2>3, StoppingLabels, FreeLabels DEF Stopping, Free
<1>8. CASE ForgetActive(p)
  <2>1. Globals'
    BY <1>8 DEF ForgetActive, Globals, DrawnRuns, RecordLaunched, OneOwnedSandbox, LiveRunKept,
       ReadyAliasCurrent, Live
  <2>2. pc'[p] = "release"
    BY <1>8 DEF ForgetActive
  <2> QED
    BY <1>2, <2>1, <2>2, FreeLabels DEF Free
<1>9. CASE DecideAttach(p) \/ VerifyGuestHerdr(p)
  <2>1. Globals'
    BY <1>9, GlobalsKept DEF Globals, DecideAttach, VerifyGuestHerdr
  <2>2. pc'[p] \in {"attach", "attachAlias", "abort"}
    BY <1>9 DEF DecideAttach, VerifyGuestHerdr
  <2> QED
    BY <1>2, <2>1, <2>2, FreeLabels DEF Free
<1>10. CASE AttachAlias(p)
  <2>1. Globals'
    BY <1>10 DEF AttachAlias, Globals, DrawnRuns, RecordLaunched, OneOwnedSandbox, LiveRunKept,
       ReadyAliasCurrent, Live
  <2>2. pc'[p] = "release"
    BY <1>10 DEF AttachAlias
  <2> QED
    BY <1>2, <2>1, <2>2, FreeLabels DEF Free
<1> QED
  BY <1>4, <1>5, <1>6, <1>7, <1>8, <1>9, <1>10 DEF DownStep, AttachStep

\* The world outside starts no launcher and publishes no ready status.
LEMMA WorldSteps ==
  ASSUME IInv, (\E r \in Run : GuestStep(r)) \/ ForeignSandbox
  PROVE  /\ UNCHANGED <<lock, active, dirs, op, alias, used>>
         /\ UNCHANGED <<pc, held, opid, gone, todo, seenRun, seenState>>
         /\ \A r \in Run : launcher'[r] = "live" => launcher[r] = "live"
         /\ \A r \in Run : launcher'[r] = "none" <=> launcher[r] = "none"
         /\ \A r \in Run : launcher'[r] = "reused" => launcher[r] = "reused" \/ r = active
         /\ \A r \in Run : "ready" \in files'[r] => "ready" \in files[r]
         /\ \A r \in Run : files'[r] # {} => files[r] # {} \/ r \in dirs
<1> USE DEF IInv, TypeOK, shared, world, own, cleaning, seen, bounds
<1>1. ASSUME NEW r \in Run, SandboxExits(r) \/ PidReused(r)
      PROVE  /\ \A s \in Run : launcher'[s] = "live" => launcher[s] = "live"
             /\ \A s \in Run : launcher'[s] = "none" <=> launcher[s] = "none"
             /\ \A s \in Run : launcher'[s] = "reused" => launcher[s] = "reused" \/ s = active
             /\ UNCHANGED files
  BY <1>1 DEF SandboxExits, PidReused, Live
<1>2. ASSUME NEW r \in Run, BootstrapConnects(r) \/ BootstrapFails(r) \/ BootstrapRetries(r)
      PROVE  /\ UNCHANGED launcher
             /\ \A s \in Run : "ready" \in files'[s] => "ready" \in files[s]
             /\ \A s \in Run : files'[s] # {} => files[s] # {} \/ s \in dirs
  BY <1>2 DEF BootstrapConnects, BootstrapFails, BootstrapRetries
<1>3. UNCHANGED <<lock, active, dirs, op, alias, used>>
      /\ UNCHANGED <<pc, held, opid, gone, todo, seenRun, seenState>>
  BY DEF GuestStep, SandboxExits, PidReused, BootstrapConnects, BootstrapFails, BootstrapRetries,
     ForeignSandbox
<1>4. ForeignSandbox => UNCHANGED <<launcher, files>>
  BY DEF ForeignSandbox
<1> QED
  BY <1>1, <1>2, <1>3, <1>4 DEF GuestStep

LEMMA WorldInv ==
  ASSUME IInv, (\E r \in Run : GuestStep(r)) \/ ForeignSandbox
  PROVE  Globals' /\ \A q \in Proc : ProcessInv(q)'
<1>1. Globals'
  BY WorldSteps DEF IInv, Globals, DrawnRuns, RecordLaunched, OneOwnedSandbox, LiveRunKept,
     ReadyAliasCurrent, Live, TypeOK
<1>2. ASSUME NEW q \in Proc PROVE ProcessInv(q)'
  <2>1. ProcessInv(q) /\ TypeOK /\ DrawnRuns /\ RecordLaunched /\ NoRun \notin Run
    BY DistinctAssumption DEF IInv, DistinctAssumption
  <2>2. Mutex(q)' /\ Inspects(q)'
    BY <2>1, WorldSteps DEF ProcessInv, Mutex, Inspects
  <2>3. Launches(q)'
    <3>1. TypeOK' /\ Launches(q)
      BY <2>1, TypeWorld DEF ProcessInv
    <3>2. pc[q] \in {"identify", "record"} => launcher'[held[q]] \in {"live", "gone"}
      BY <2>1, <3>1, WorldSteps DEF Launches, Launching, TypeOK
    <3> QED
      BY <2>1, <3>1, <3>2, WorldSteps DEF Launches, Launching, NoneLive, Live, TypeOK
  <2>4. Provisions(q)'
    BY <2>1, WorldSteps DEF ProcessInv, Provisions
  <2>5. SandboxGone => SandboxGone'
    BY <2>1, WorldSteps DEF SandboxGone, Live, TypeOK
  <2>6. Cleans(q)'
    BY <2>1, <2>5, WorldSteps DEF ProcessInv, Cleans, Live
  <2>7. Stops(q)'
    BY <2>1, WorldSteps DEF ProcessInv, Stops, Stopping, Live, TypeOK
  <2> QED
    BY <2>2, <2>3, <2>4, <2>6, <2>7 DEF ProcessInv
<1> QED
  BY <1>1, <1>2

LEMMA InitInv == Init => IInv
<1> SUFFICES ASSUME Init PROVE IInv
  OBVIOUS
<1>1. Globals
  BY DEF Init, Globals, DrawnRuns, RecordLaunched, OneOwnedSandbox, LiveRunKept, ReadyAliasCurrent, Live
<1>2. ASSUME NEW p \in Proc PROVE ProcessInv(p)
  BY DEF Init, ProcessInv, Mutex, Inspects, Launches, Provisions, Cleans, Stops, Locked, Cleanup,
     Launching, Provisioning, Stopping, Attaching
<1> QED
  BY <1>1, <1>2, TypeInit DEF IInv, Globals

LEMMA NextInv == IInv /\ [Next]_vars => IInv'
<1> SUFFICES ASSUME IInv, [Next]_vars PROVE IInv'
  OBVIOUS
<1>1. TypeOK'
  BY TypeStep DEF IInv, ProcessInv
<1>2. ASSUME NEW p \in Proc, (\E c \in Commands : Begin(p, c)) \/ HostStep(p) \/ Fault(p)
      PROVE  Globals' /\ \A q \in Proc : ProcessInv(q)'
  <2>1. Globals' /\ ProcessInv(p)'
    BY <1>2, MutexInv, CleanupInv, InspectInv, UpInv, DownAttachInv DEF HostStep, Fault
  <2>2. \A q \in Proc : q # p => ProcessInv(q)'
    BY <1>2, OthersSafe
  <2> QED
    BY <2>1, <2>2
<1>3. CASE UNCHANGED vars
  BY <1>1, <1>3 DEF vars, shared, world, own, cleaning, seen, bounds, IInv, DrawnRuns,
     RecordLaunched, OneOwnedSandbox, LiveRunKept, ReadyAliasCurrent, ProcessInv, Mutex, Inspects,
     Launches, Provisions, Cleans, Stops, NoneLive, SandboxGone, Live
<1> QED
  BY <1>1, <1>2, <1>3, WorldInv DEF Next, Globals, IInv

-----------------------------------------------------------------------------
(* What holds in every reachable state.                                    *)

\* The strengthening every safety result below rests on: the mutex makes what
\* a command read and decided stay true until it acts on it.
THEOREM InductiveInvariant == Spec => []IInv
BY InitInv, NextInv, PTL DEF Spec

\* Every variable keeps its type, in every interleaving of commands.
THEOREM TypeCorrect == Spec => []TypeOK
BY InductiveInvariant, PTL DEF IInv

\* Two Sandboxes of this host never run at the same time, however `up`, `down`,
\* cleanup, crashes and closed windows interleave.
THEOREM OneSandbox == Spec => []OneOwnedSandbox
BY InductiveInvariant, PTL DEF IInv

\* Cleanup never deletes the directory of a run whose Sandbox is running.
THEOREM LiveRunsKept == Spec => []LiveRunKept
BY InductiveInvariant, PTL DEF IInv

\* A Sandbox that reports ready is the one the managed SSH alias points to.
THEOREM ReadyIsReachable == Spec => []ReadyAliasCurrent
BY InductiveInvariant, PTL DEF IInv

\* While `up` provisions, the operation on disk is its own and still running:
\* no reconciliation of another command can have interrupted it.
THEOREM ProvisionerOwns == Spec => []ProvisionerOwnsOperation
<1>1. IInv => ProvisionerOwnsOperation
  BY DEF IInv, ProcessInv, Provisions, ProvisionerOwnsOperation
<1> QED
  BY <1>1, InductiveInvariant, PTL

\* While `up` provisions a run, that run is the recorded one and its directory
\* stays.
THEOREM ProvisionsRecorded == Spec => []ProvisionsActiveRun
<1>1. IInv => ProvisionsActiveRun
  BY DEF IInv, ProcessInv, Provisions, ProvisionsActiveRun
<1> QED
  BY <1>1, InductiveInvariant, PTL

-----------------------------------------------------------------------------
(* The lifecycle implements SandboxOwnership.                              *)

\* A step of a command changes record and launchers as the promise allows.
LEMMA HostImplements ==
  ASSUME IInv, NEW p \in Proc, (\E c \in Commands : Begin(p, c)) \/ HostStep(p) \/ Fault(p)
  PROVE  [Ownership!Next]_Ownership!vars
<1> USE DEF shared, world, Ownership!vars
<1>1. ProcessInv(p) /\ TypeOK /\ NoRun \notin Run
  BY DistinctAssumption DEF IInv, DistinctAssumption
<1>2. CASE LaunchSandbox(p)
  <2>1. pc[p] = "launch" /\ launcher' = [launcher EXCEPT ![held[p]] = "live"] /\ active' = active
    BY <1>2 DEF LaunchSandbox
  <2>2. held[p] \in Run /\ launcher[held[p]] = "none" /\ NoneLive
    BY <1>1, <2>1 DEF ProcessInv, Launches, TypeOK
  <2>3. Ownership!Launch(held[p])
    BY <2>1, <2>2 DEF Ownership!Launch, Ownership!Live, NoneLive, Live
  <2> QED
    BY <2>2, <2>3 DEF Ownership!Next
<1>3. CASE RecordActive(p)
  <2>1. pc[p] = "record" /\ active' = held[p] /\ launcher' = launcher
    BY <1>3 DEF RecordActive
  <2>2. held[p] \in Run /\ launcher[held[p]] # "none" /\ active = NoRun
    BY <1>1, <2>1 DEF ProcessInv, Launches, Launching, TypeOK
  <2>3. Ownership!Record(held[p])
    BY <2>1, <2>2 DEF Ownership!Record
  <2> QED
    BY <2>2, <2>3 DEF Ownership!Next
<1>4. CASE RecordFails(p)
  <2>1. pc[p] \in {"identify", "record"} /\ active' = active
    BY <1>4 DEF RecordFails
  <2>2. held[p] \in Run
    BY <1>1, <2>1 DEF ProcessInv, Launches, TypeOK
  <2>3. launcher' = [launcher EXCEPT ![held[p]] = "gone"] \/ launcher' = launcher
    BY <1>4 DEF RecordFails
  <2>4. launcher[held[p]] \in {"live", "gone"}
    BY <1>1, <2>1 DEF ProcessInv, Launches
  <2>5. CASE Live(held[p]) /\ launcher' # launcher
    <3>1. Ownership!End(held[p])
      BY <2>1, <2>3, <2>5 DEF Ownership!End, Ownership!Live, Live
    <3> QED
      BY <2>2, <3>1 DEF Ownership!Next
  <2>6. CASE ~Live(held[p]) \/ launcher' = launcher
    <3>1. launcher' = launcher
      BY <1>1, <2>2, <2>3, <2>4, <2>6 DEF TypeOK, Live
    <3> QED
      BY <2>1, <3>1
  <2> QED
    BY <2>5, <2>6
<1>5. CASE StopOwned(p)
  <2>1. /\ pc[p] = "stop"
        /\ launcher' = [launcher EXCEPT ![held[p]] = IF @ = "live" THEN "gone" ELSE @]
        /\ active' = active
    BY <1>5 DEF StopOwned
  <2>2. held[p] \in Run
    BY <1>1, <2>1 DEF ProcessInv, Stops, Stopping, TypeOK
  <2>3. CASE Live(held[p])
    <3>1. Ownership!End(held[p])
      BY <2>1, <2>3 DEF Ownership!End, Ownership!Live, Live
    <3> QED
      BY <2>2, <3>1 DEF Ownership!Next
  <2>4. CASE ~Live(held[p])
    <3>1. launcher' = launcher
      BY <1>1, <2>1, <2>2, <2>4 DEF TypeOK, Live
    <3> QED
      BY <2>1, <3>1
  <2> QED
    BY <2>3, <2>4
<1>6. CASE Unrecord(p) \/ ForgetActive(p)
  <2>1. active' = NoRun /\ launcher' = launcher
    BY <1>6 DEF Unrecord, ForgetActive
  <2>2. active = NoRun \/ ~Live(active)
    BY <1>1, <1>6 DEF Unrecord, ForgetActive, ProcessInv, Cleans, Stops, Stopping, SandboxGone
  <2>3. active # NoRun => Ownership!Forget
    BY <2>1, <2>2 DEF Ownership!Forget, Ownership!Live, Live
  <2> QED
    BY <2>1, <2>3 DEF Ownership!Next
<1>7. ASSUME ~LaunchSandbox(p), ~RecordActive(p), ~RecordFails(p), ~StopOwned(p), ~Unrecord(p),
             ~ForgetActive(p)
      PROVE  UNCHANGED <<active, launcher>>
  <2>1. CASE \E c \in Commands : Begin(p, c)
    BY <2>1 DEF Begin
  <2>2. CASE AcquireLock(p) \/ LockTimeout(p) \/ Release(p) \/ Abort(p) \/ Refuse(p)
    BY <2>2 DEF AcquireLock, LockTimeout, Release, Abort, Refuse
  <2>3. CASE CleanupStep(p)
    BY <1>7, <2>3 DEF CleanupStep, Reconcile, ReconcileError, Protect, Plan, Revalidate,
       CleanupRefuses, CleanupFails, Unalias, RemoveRun, RunsRemoved
  <2>4. CASE InspectStep(p)
    BY <2>4 DEF InspectStep, Load, Query, Classify, ReportStatus, BusyActive, BusyOperation,
       RecheckActive, RecheckOperation, BusyReturn
  <2>5. CASE UpStep(p)
    BY <1>7, <2>5 DEF UpStep, DecideUp, Retain, Census, PrepareRun, IdentifyLauncher,
       StartOperation, WaitForConnectable, VerifySSH, InstallAlias, ProvisionGuest, PublishReady,
       ProvisioningFails, FinishOperation
  <2>6. CASE DownStep(p) \/ AttachStep(p)
    BY <1>7, <2>6 DEF DownStep, AttachStep, SelectActive, CaptureTailscale, Leftover,
       DecideAttach, VerifyGuestHerdr, AttachAlias
  <2>7. CASE Fault(p)
    BY <2>7 DEF Fault, Crash, CleanupFault, CleanupFails, FinishFails
  <2> QED
    BY <2>1, <2>2, <2>3, <2>4, <2>5, <2>6, <2>7 DEF HostStep
<1> QED
  BY <1>2, <1>3, <1>4, <1>5, <1>6, <1>7

\* So does a step of the world outside.
LEMMA WorldImplements ==
  ASSUME IInv, (\E r \in Run : GuestStep(r)) \/ ForeignSandbox
  PROVE  [Ownership!Next]_Ownership!vars
<1> USE DEF shared, world, Ownership!vars
<1>1. ASSUME NEW r \in Run, SandboxExits(r) PROVE Ownership!Next
  <2>1. Ownership!End(r)
    BY <1>1 DEF SandboxExits, Ownership!End, Ownership!Live, Live
  <2> QED
    BY <2>1 DEF Ownership!Next
<1>2. ASSUME NEW r \in Run, PidReused(r) PROVE Ownership!Next
  <2>1. Ownership!Reuse(r)
    BY <1>2 DEF PidReused, Ownership!Reuse
  <2> QED
    BY <2>1 DEF Ownership!Next
<1>3. ASSUME NEW r \in Run, BootstrapConnects(r) \/ BootstrapFails(r) \/ BootstrapRetries(r)
      PROVE  UNCHANGED <<active, launcher>>
  BY <1>3 DEF BootstrapConnects, BootstrapFails, BootstrapRetries
<1>4. ForeignSandbox => UNCHANGED <<active, launcher>>
  BY DEF ForeignSandbox
<1> QED
  BY <1>1, <1>2, <1>3, <1>4 DEF GuestStep

\* Every behaviour of the commands and their environment keeps the ownership
\* promise: a Sandbox is launched only while none of the host's runs, a record
\* is never overwritten, and it is dropped only after its launcher has ended.
THEOREM OwnershipRefinement == Spec => OwnershipKept
<1>1. Init => Ownership!Init
  BY DEF Init, Ownership!Init
<1>2. IInv /\ [Next]_vars => [Ownership!Next]_Ownership!vars
  <2> SUFFICES ASSUME IInv, [Next]_vars PROVE [Ownership!Next]_Ownership!vars
    OBVIOUS
  <2>1. CASE UNCHANGED vars
    BY <2>1 DEF vars, shared, world, Ownership!vars
  <2> QED
    BY <2>1, HostImplements, WorldImplements DEF Next
<1> QED
  BY <1>1, <1>2, InductiveInvariant, PTL DEF Spec, OwnershipKept, Ownership!Spec
=============================================================================
