----------------------- MODULE ArchiveTransportProofs -----------------------
(* The proofs about ArchiveTransport. The lemmas show, action by action,    *)
(* that the steps of the guest and of the host preserve the inductive       *)
(* invariant IInv; the safety properties and the refinement follow from it. *)
EXTENDS ArchiveTransport, TLAPS

\* The guest has seen no attempt, the host has begun none.
LEMMA InitInv == Init => IInv
<1> SUFFICES ASSUME Init PROVE IInv OBVIOUS
<1> USE ReceiverAssumption, TransportAssumption DEF Init, ReceiverInit
<1>1. TypeOK
  <2>1. 0 \in 0..MaxFaults /\ 0 \in 0..MaxUpdates OBVIOUS
  <2>2. ReceiverTypeOK BY <2>1 DEF ReceiverTypeOK, Running, Owning, Outcomes
  <2>3. updates \in [Attempt -> 0..MaxUpdates] BY <2>1
  <2> QED BY <2>2, <2>3 DEF TypeOK, Final
<1>2. MutexHeld /\ InputKept BY DEF MutexHeld, InputKept, Running, Owning, Live
<1>3. LauncherOwned /\ Admitted BY DEF LauncherOwned, Admitted, Early
<1>4. Heard /\ OneLauncher /\ NothingEscapes BY DEF Heard, OneLauncher, NothingEscapes, Live
<1> QED BY <1>1, <1>2, <1>3, <1>4 DEF IInv

\* The steps of the transport script.
LEMMA ScriptInv ==
  ASSUME IInv, NEW a \in Attempt, ScriptStep(a), UNCHANGED hostVars
  PROVE  IInv'
<1> USE ReceiverAssumption, TransportAssumption
<1> USE DEF IInv, TypeOK, ReceiverTypeOK, MutexHeld, InputKept, LauncherOwned, Admitted, Heard,
    OneLauncher, NothingEscapes, Running, Owning, Early, Outcomes, Live, hostVars, inputVars,
    lockVars, processVars, receiverVars
<1>1. CASE ReceiveFrames(a) BY <1>1 DEF ReceiveFrames
<1>2. CASE ReceiveFails(a) BY <1>2 DEF ReceiveFails, Ends
<1>3. CASE AcquireMutex(a) BY <1>3 DEF AcquireMutex
<1>4. CASE AcquireAbandoned(a)
  <2> USE <1>4 DEF AcquireAbandoned, Ends
  <2>1. TypeOK' OBVIOUS
  <2>2. MutexHeld' OBVIOUS
  <2>3. InputKept' OBVIOUS
  <2>4. LauncherOwned' OBVIOUS
  <2>5. Admitted' OBVIOUS
  <2>6. Heard' OBVIOUS
  <2>7. OneLauncher' OBVIOUS
  <2>8. NothingEscapes' OBVIOUS
  <2> QED BY <2>1, <2>2, <2>3, <2>4, <2>5, <2>6, <2>7, <2>8
<1>5. CASE WaitTimesOut(a) BY <1>5 DEF WaitTimesOut, Ends
<1>6. CASE CheckOthers(a) BY <1>6 DEF CheckOthers
<1>7. CASE OtherTransfer(a) BY <1>7 DEF OtherTransfer, Ends
<1>8. CASE NotStarted(a) BY <1>8 DEF NotStarted, Ends
<1>9. CASE Launch(a) BY <1>9 DEF Launch
<1>10. CASE Stop(a) BY <1>10 DEF Stop, Kill
<1>11. CASE Completes(a) BY <1>11 DEF Completes, Ends
<1>12. CASE RemoveStaging(a) BY <1>12 DEF RemoveStaging
<1>13. CASE RemoveFails(a) BY <1>13 DEF RemoveFails, Fault
<1>14. CASE Release(a) BY <1>14 DEF Release, CloseHandle
<1> QED BY <1>1, <1>2, <1>3, <1>4, <1>5, <1>6, <1>7, <1>8, <1>9, <1>10, <1>11, <1>12, <1>13, <1>14 DEF ScriptStep

\* The launcher's processes, and what fails in the guest.
LEMMA GuestInv ==
  ASSUME IInv, NEW a \in Attempt, GuestStep(a), UNCHANGED hostVars
  PROVE  IInv'
<1> USE ReceiverAssumption, TransportAssumption
<1> USE DEF IInv, TypeOK, ReceiverTypeOK, MutexHeld, InputKept, LauncherOwned, Admitted, Heard,
    OneLauncher, NothingEscapes, Running, Owning, Early, Outcomes, Live, hostVars, inputVars,
    lockVars, processVars, receiverVars
<1>0. CASE ScriptStep(a) BY <1>0, ScriptInv
<1>1. CASE Arrive(a) BY <1>1 DEF Arrive
<1>2. CASE RootExits(a) BY <1>2 DEF RootExits
<1>3. CASE TailExits(a) BY <1>3 DEF TailExits
<1>4. CASE TerminateResidual(a) BY <1>4 DEF TerminateResidual
<1>5. CASE Unfinished(a) BY <1>5 DEF Unfinished, Ends, Fault, Kill
<1>6. CASE ReceiverDies(a) BY <1>6 DEF ReceiverDies, Fault, Kill, CloseHandle
<1> QED BY <1>0, <1>1, <1>2, <1>3, <1>4, <1>5, <1>6 DEF GuestStep, ProcessStep

\* The operation and its observer.
LEMMA HostInv ==
  ASSUME IInv, NEW a \in Attempt, HostStep(a)
  PROVE  IInv'
<1> USE ReceiverAssumption, TransportAssumption
<1> USE DEF IInv, TypeOK, ReceiverTypeOK, MutexHeld, InputKept, LauncherOwned, Admitted, Heard,
    OneLauncher, NothingEscapes, Running, Owning, Early, Outcomes, Live, Final, hostVars, inputVars,
    lockVars, processVars, receiverVars
<1>1. CASE Begin(a) BY <1>1 DEF Begin
<1>2. CASE SendFrames(a) BY <1>2 DEF SendFrames, Connected
<1>3. CASE Cancel(a) BY <1>3 DEF Cancel, Connected
<1>4. CASE CloseLease(a) BY <1>4 DEF CloseLease, Connected
<1>5. CASE GiveUp(a) BY <1>5 DEF GiveUp, Connected, Returns
<1>6. CASE SSHReturns(a) BY <1>6 DEF SSHReturns, Connected, Returns
<1>7. CASE ConnectionLost(a) BY <1>7 DEF ConnectionLost, Connected, Returns, Fault
<1>8. CASE Return(a) BY <1>8 DEF Return, Forget
<1>9. CASE HostDies(a) BY <1>9 DEF HostDies, Forget, Fault
<1>10. CASE Update(a) BY <1>10 DEF Update
<1>11. CASE ObserverFails(a) BY <1>11 DEF ObserverFails
<1>12. CASE ObserverStops(a) BY <1>12 DEF ObserverStops
<1> QED BY <1>1, <1>2, <1>3, <1>4, <1>5, <1>6, <1>7, <1>8, <1>9, <1>10, <1>11, <1>12 DEF HostStep, HostAnswer

LEMMA StepInv == IInv /\ [Next]_vars => IInv'
<1> SUFFICES ASSUME IInv, [Next]_vars PROVE IInv' OBVIOUS
<1>1. CASE Next BY <1>1, GuestInv, HostInv DEF Next
<1>2. CASE UNCHANGED vars
  BY <1>2 DEF vars, IInv, TypeOK, ReceiverTypeOK, MutexHeld, InputKept, LauncherOwned, Admitted,
     Heard, OneLauncher, NothingEscapes, Live, hostVars, inputVars, lockVars, processVars, receiverVars
<1> QED BY <1>1, <1>2

\* Every step of the receivers, of their launchers' processes and of the host
\* keeps the mutex, the directories and the outcomes in agreement, for any
\* number of attempts and of faults.
THEOREM TransportInvariant == Spec => []IInv
BY InitInv, StepInv, PTL DEF Spec

\* Every variable keeps its type.
THEOREM TransportTypes == Spec => []TypeOK
<1>1. IInv => TypeOK BY DEF IInv
<1> QED BY <1>1, TransportInvariant, PTL

\* At most one launcher runs in the guest, and none starts beside processes
\* that another receiver did not report as unfinished.
THEOREM LaunchersExclude == Spec => []OneLauncher
<1>1. IInv => OneLauncher BY DEF IInv
<1> QED BY <1>1, TransportInvariant, PTL

\* No process of a launcher outlives its receiver unterminated.
THEOREM LaunchersContained == Spec => []NothingEscapes
<1>1. IInv => NothingEscapes BY DEF IInv
<1> QED BY <1>1, TransportInvariant, PTL

\* Reported success means applied, ended and cleaned up.
THEOREM SuccessCompletes == Spec => []SuccessIsComplete
<1>1. IInv => SuccessIsComplete
  BY DEF IInv, Heard, LauncherOwned, MutexHeld, SuccessIsComplete
<1> QED BY <1>1, TransportInvariant, PTL

\* No observer changes the record of an operation that has ended.
THEOREM OutcomeIsLast == Spec => NoLateUpdate
<1> DEFINE Kept == \A a \in Attempt : host[a] \in Final => updates'[a] = updates[a]
<1>1. IInv /\ [Next]_vars => [Kept]_vars
  <2> SUFFICES ASSUME IInv, Next PROVE Kept BY DEF vars
  <2>1. PICK a \in Attempt : HostStep(a) \/ (GuestStep(a) /\ UNCHANGED hostVars) BY DEF Next
  <2>2. CASE Update(a)
    BY <2>2 DEF Update, IInv, Heard, Final, TypeOK
  <2>3. CASE ~Update(a)
    <3>1. updates' = updates
      BY <2>1, <2>3 DEF HostStep, HostAnswer, Begin, SendFrames, Cancel, CloseLease, GiveUp, SSHReturns,
         Returns, ConnectionLost, Return, HostDies, ObserverFails, ObserverStops, hostVars
    <3> QED BY <3>1
  <2> QED BY <2>2, <2>3
<1> QED BY <1>1, TransportInvariant, PTL DEF Spec, NoLateUpdate

\* Without faults, an attempt that ended leaves no directory behind.
THEOREM RetryIsPermitted == Spec => []RetryPermitted
<1>1. IInv => RetryPermitted BY DEF IInv, LauncherOwned, RetryPermitted
<1> QED BY <1>1, TransportInvariant, PTL

-----------------------------------------------------------------------------
(* The refinement.                                                         *)

LEMMA RefinesInit == Init => Transfer!Init
BY DEF Init, ReceiverInit, Transfer!Init

\* A step that neither launches, nor ends a launcher, nor reports success.
LEMMA RefinesStutter ==
  ASSUME UNCHANGED applied,
         \A b \in Attempt : (tree[b] # "none") = (tree'[b] # "none"),
         \A b \in Attempt : (tree[b] = "root") = (tree'[b] = "root"),
         \A b \in Attempt : (host[b] = "succeeded") = (host'[b] = "succeeded")
  PROVE  UNCHANGED Transfer!vars
BY DEF Transfer!vars

LEMMA RefinesNext == IInv /\ [Next]_vars => [Transfer!Next]_(Transfer!vars)
<1> SUFFICES ASSUME IInv, [Next]_vars PROVE [Transfer!Next]_(Transfer!vars) OBVIOUS
<1>1. CASE UNCHANGED vars
  BY <1>1, RefinesStutter DEF vars, hostVars, receiverVars, processVars
<1>2. CASE Next
  <2>1. PICK a \in Attempt : HostStep(a) \/ (GuestStep(a) /\ UNCHANGED hostVars) BY <1>2 DEF Next
  <2> USE DEF IInv, TypeOK, ReceiverTypeOK
  <2>2. CASE GuestStep(a) /\ UNCHANGED hostVars
    <3>1. CASE Launch(a)
      <4>1. tree[a] = "none" /\ \A b \in Attempt : tree[b] # "root"
        BY <3>1 DEF Launch, LauncherOwned, Admitted, Early
      <4>2. Transfer!Begin(a)
        BY <2>2, <3>1, <4>1 DEF Launch, Transfer!Begin, hostVars
      <4> QED BY <4>2 DEF Transfer!Next
    <3>2. CASE RootExits(a)
      <4>1. Transfer!Finish(a)
        BY <2>2, <3>2 DEF RootExits, Transfer!Finish, hostVars
      <4> QED BY <4>1 DEF Transfer!Next
    <3>3. CASE TailExits(a)
      BY <2>2, <3>3, RefinesStutter DEF TailExits, hostVars
    <3>4. CASE ~Launch(a) /\ ~RootExits(a) /\ ~TailExits(a)
      <4>1. UNCHANGED <<tree, applied>>
        BY <2>2, <3>4 DEF GuestStep, ScriptStep, ProcessStep, ReceiveFrames, ReceiveFails, AcquireMutex,
           AcquireAbandoned, WaitTimesOut, CheckOthers, OtherTransfer, NotStarted, Stop, Completes,
           RemoveStaging, RemoveFails, Release, Arrive, TerminateResidual, Unfinished, ReceiverDies,
           processVars
      <4> QED BY <2>2, <4>1, RefinesStutter DEF hostVars
    <3> QED BY <3>1, <3>2, <3>3, <3>4
  <2>3. CASE HostStep(a)
    <3>1. UNCHANGED <<tree, applied>>
      BY <2>3 DEF HostStep, HostAnswer, Begin, SendFrames, Cancel, CloseLease, GiveUp, SSHReturns, Returns,
         ConnectionLost, Return, HostDies, Update, ObserverFails, ObserverStops, receiverVars, processVars
    <3>2. CASE Return(a) /\ ran[a] = "ok"
      <4>1. CASE host'[a] = "succeeded"
        <5>1. a \in applied BY <3>2 DEF Heard, LauncherOwned
        <5>2. Transfer!Report(a)
          BY <3>1, <3>2, <4>1, <5>1 DEF Return, Transfer!Report
        <5> QED BY <5>2 DEF Transfer!Next
      <4>2. CASE host'[a] # "succeeded"
        BY <3>1, <3>2, <4>2, RefinesStutter DEF Return
      <4> QED BY <4>1, <4>2
    <3>3. CASE Begin(a) \/ HostDies(a) \/ (Return(a) /\ ran[a] # "ok")
      BY <3>1, <3>3, RefinesStutter DEF Begin, HostDies, Return
    <3>4. CASE ~Begin(a) /\ ~HostDies(a) /\ ~Return(a)
      <4>1. host' = host
        BY <2>3, <3>4 DEF HostStep, HostAnswer, SendFrames, Cancel, CloseLease, GiveUp, SSHReturns, Returns,
           ConnectionLost, Update, ObserverFails, ObserverStops, hostVars
      <4> QED BY <3>1, <4>1, RefinesStutter
    <3> QED BY <3>2, <3>3, <3>4
  <2> QED BY <2>1, <2>2, <2>3
<1> QED BY <1>1, <1>2

\* The transport implements SerialApply: archives are applied one at a time,
\* each at most once, and one reported as applied was applied.
THEOREM TransportRefines == Spec => Refinement
BY RefinesInit, RefinesNext, TransportInvariant, PTL DEF Spec, Refinement, Transfer!Spec
=============================================================================
