------------------------- MODULE ArchiveTransport -------------------------
(***************************************************************************)
(* An archive operation of the host: it sends the frames over SSH, keeps   *)
(* the receiver's input open while the launcher runs, closes it when it is *)
(* cancelled, and waits for the guest to clean up. While it provisions, an *)
(* observer publishes the guest's progress.                                *)
(*                                                                         *)
(* One operation runs at a time, under the lifecycle mutex; the receivers  *)
(* of earlier ones may still run in the guest.                             *)
(***************************************************************************)
EXTENDS ArchiveReceiver

CONSTANTS
  Observed,    \* the attempts that provision: their progress is observed
  MaxUpdates   \* bound: progress updates of an operation

ASSUME TransportAssumption == Observed \subseteq Attempt /\ MaxUpdates \in Nat

VARIABLES
  host,       \* the operation of the attempt
  cancelled,  \* operations whose context is done
  ran,        \* what the SSH command returned
  observer,   \* the goroutine that watches the mapped progress
  updates     \* how many updates of the operation record it made

hostVars == <<host, cancelled, ran, observer, updates>>
vars == <<inputVars, receiverVars, faults, hostVars>>

Final == {"succeeded", "failed", "crashed"}

TypeOK ==
  /\ ReceiverTypeOK
  /\ host \in [Attempt -> {"idle", "running"} \cup Final]
  /\ cancelled \subseteq Attempt
  /\ ran \in [Attempt -> {"none", "ok", "failed"}]
  /\ observer \in [Attempt -> {"idle", "watching", "broken", "quiet"}]
  /\ updates \in [Attempt -> 0..MaxUpdates]

Init ==
  /\ ReceiverInit
  /\ host = [a \in Attempt |-> "idle"]
  /\ cancelled = {}
  /\ ran = [a \in Attempt |-> "none"]
  /\ observer = [a \in Attempt |-> "idle"]
  /\ updates = [a \in Attempt |-> 0]

\* The SSH command of the operation has not returned.
Connected(a) == host[a] = "running" /\ ran[a] = "none"

-----------------------------------------------------------------------------
(* The operation.                                                          *)

Begin(a) ==
  /\ host[a] = "idle" /\ \A b \in Attempt : host[b] # "running"
  /\ host' = [host EXCEPT ![a] = "running"]
  /\ observer' = IF a \in Observed THEN [observer EXCEPT ![a] = "watching"] ELSE observer
  /\ lease' = [lease EXCEPT ![a] = "open"]
  /\ UNCHANGED <<sent, receiverVars, faults, cancelled, ran, updates>>

SendFrames(a) ==
  /\ Connected(a) /\ lease[a] = "open" /\ a \notin sent
  /\ sent' = sent \cup {a}
  /\ UNCHANGED <<lease, receiverVars, faults, hostVars>>

\* The user interrupts the command, or its time is up.
Cancel(a) ==
  /\ Connected(a)
  /\ cancelled' = cancelled \cup {a}
  /\ UNCHANGED <<inputVars, receiverVars, faults, host, ran, observer, updates>>

CloseLease(a) ==
  /\ Connected(a) /\ a \in cancelled /\ lease[a] = "open"
  /\ lease' = [lease EXCEPT ![a] = "closed"]
  /\ UNCHANGED <<sent, receiverVars, faults, hostVars>>

\* The SSH command has returned a result.
Returns(a, results) ==
  /\ Connected(a)
  /\ \E result \in results : ran' = [ran EXCEPT ![a] = result]
  /\ lease' = [lease EXCEPT ![a] = "closed"]
  /\ UNCHANGED <<sent, receiverVars, host, cancelled, observer, updates>>

\* The receiver has exited; an answer that is too long is a failure.
SSHReturns(a) ==
  /\ receiver[a] \in {"exited", "dead"}
  /\ Returns(a, IF receiver[a] = "exited" /\ outcome[a] = "ok" /\ a \notin cancelled
                THEN {"ok", "failed"} ELSE {"failed"})
  /\ UNCHANGED faults

\* Variant: the host waits for the guest however long it takes.
GiveUp_Never(a) ==
  /\ FALSE
  /\ UNCHANGED vars

\* Forty seconds after the cancellation SSH is terminated.
GiveUp(a) ==
  /\ a \in cancelled /\ lease[a] = "closed"
  /\ Returns(a, {"failed"})
  /\ UNCHANGED faults

ConnectionLost(a) == Fault /\ Returns(a, {"failed"})

\* The context and the goroutines of an operation end with it.
Forget(a) ==
  /\ cancelled' = cancelled \ {a}
  /\ ran' = [ran EXCEPT ![a] = "none"]
  /\ observer' = [observer EXCEPT ![a] = "idle"]

\* Variant: the outcome is published without joining the observer.
Return_Early(a) ==
  /\ host[a] = "running" /\ ran[a] # "none"
  /\ host' = [host EXCEPT ![a] = IF ran[a] = "ok" /\ observer[a] # "broken" THEN "succeeded" ELSE "failed"]
  /\ cancelled' = cancelled \ {a}
  /\ ran' = [ran EXCEPT ![a] = "none"]
  /\ UNCHANGED <<inputVars, receiverVars, faults, observer, updates>>

\* The operation ends after its observer.
Return(a) ==
  /\ host[a] = "running" /\ ran[a] # "none" /\ observer[a] # "watching"
  /\ host' = [host EXCEPT ![a] = IF ran[a] = "ok" /\ observer[a] # "broken" THEN "succeeded" ELSE "failed"]
  /\ Forget(a)
  /\ UNCHANGED <<inputVars, receiverVars, faults, updates>>

HostDies(a) ==
  /\ Fault
  /\ host[a] = "running"
  /\ host' = [host EXCEPT ![a] = "crashed"]
  /\ lease' = [lease EXCEPT ![a] = "closed"]
  /\ Forget(a)
  /\ UNCHANGED <<sent, receiverVars, updates>>

-----------------------------------------------------------------------------
(* The observer.                                                           *)

Update(a) ==
  /\ observer[a] = "watching" /\ updates[a] < MaxUpdates
  /\ updates' = [updates EXCEPT ![a] = @ + 1]
  /\ UNCHANGED <<inputVars, receiverVars, faults, host, cancelled, ran, observer>>

\* Progress cannot be read or recorded: the operation is cancelled.
ObserverFails(a) ==
  /\ observer[a] = "watching"
  /\ observer' = [observer EXCEPT ![a] = "broken"]
  /\ cancelled' = cancelled \cup {a}
  /\ UNCHANGED <<inputVars, receiverVars, faults, host, ran, updates>>

ObserverStops(a) ==
  /\ observer[a] = "watching" /\ (a \in cancelled \/ ran[a] # "none")
  /\ observer' = [observer EXCEPT ![a] = "quiet"]
  /\ UNCHANGED <<inputVars, receiverVars, faults, host, cancelled, ran, updates>>

-----------------------------------------------------------------------------

HostAnswer(a) == CloseLease(a) \/ GiveUp(a) \/ SSHReturns(a)

HostStep(a) ==
  \/ Begin(a) \/ SendFrames(a) \/ Cancel(a) \/ HostAnswer(a)
  \/ ConnectionLost(a) \/ Return(a) \/ HostDies(a)
  \/ Update(a) \/ ObserverFails(a) \/ ObserverStops(a)

Next == \E a \in Attempt : HostStep(a) \/ (GuestStep(a) /\ UNCHANGED hostVars)

Spec == Init /\ [][Next]_vars

\* The host's timers and goroutines run, the receiver's script goes on, and
\* Windows ends the processes of a closed or terminated Job Object. When a
\* launcher exits by itself is not assumed.
Fairness ==
  \A a \in Attempt :
    /\ WF_vars(HostAnswer(a))
    /\ WF_vars(ObserverStops(a))
    /\ WF_vars(Return(a))
    /\ WF_vars(ScriptStep(a) /\ UNCHANGED hostVars)
    /\ WF_vars(TerminateResidual(a) /\ UNCHANGED hostVars)
    /\ WF_vars(a \in killed /\ (RootExits(a) \/ TailExits(a)) /\ UNCHANGED hostVars)

FairSpec == Spec /\ Fairness

-----------------------------------------------------------------------------
(* Safety.                                                                 *)

\* No two launchers run at once, and no launcher starts beside processes of
\* another attempt unless that attempt's receiver failed to end them: the
\* mutex and the directories serialize the attempts of ssh-archive-transport.ps1
\* across lost hosts, killed receivers and slow terminations.
OneLauncher ==
  \A a, b \in Attempt : a # b =>
    /\ ~(tree[a] = "root" /\ tree[b] = "root")
    /\ Live(a) /\ Live(b) => "unfinished" \in {outcome[a], outcome[b]}

\* When the receiver has ended, or is past its wait, what is left of the
\* launcher's processes was terminated: no launcher outlives its receiver
\* (provisioning-process.cs, KILL_ON_JOB_CLOSE).
NothingEscapes ==
  \A a \in Attempt : Live(a) /\ receiver[a] \notin {"leased", "stopping"} => a \in killed

\* A host that reports success has applied the archive: the launcher exited
\* with 0, nothing of it runs, and the guest is ready for the next attempt.
SuccessIsComplete ==
  \A a \in Attempt : host[a] = "succeeded" =>
    a \in applied /\ tree[a] = "gone" /\ a \notin staging /\ a \notin handles

\* While nothing was killed and no call failed, an attempt that ended, also one
\* cancelled, refused or timed out, leaves no directory behind that refuses the
\* next one (ssh_archive_test.go, CancellationAndTimeoutPermitRetry).
RetryPermitted ==
  \A a \in Attempt : faults = 0 /\ receiver[a] = "exited" => a \notin staging

\* Once an operation has ended, its observer changes its record no more: the
\* outcome written next is not overwritten with progress (progress_observer.go).
NoLateUpdate ==
  [][\A a \in Attempt : host[a] \in Final => updates'[a] = updates[a]]_vars

\* The transport implements the abstract transfer.
Transfer == INSTANCE SerialApply WITH
  started  <- {a \in Attempt : tree[a] # "none"},
  active   <- {a \in Attempt : tree[a] = "root"},
  applied  <- applied,
  reported <- {a \in Attempt : host[a] = "succeeded"}

Refinement == Transfer!Spec

-----------------------------------------------------------------------------
(* Liveness.                                                               *)

\* A cancelled operation returns, whatever the guest does.
CancelledReturns ==
  \A a \in Attempt : a \in cancelled ~> host[a] \in Final

\* The processes of an attempt end when its host lets go of the lease, or is
\* gone, whatever they do themselves.
LeaseEndsProcesses ==
  \A a \in Attempt : (Live(a) /\ lease[a] = "closed") ~> ~Live(a)

-----------------------------------------------------------------------------
(* The invariant behind the safety properties.                             *)

\* The steps of a receiver before it starts the launcher.
Early == {"none", "receiving", "waiting", "checking", "admitted"}

\* Where the mutex is, and whose handles are open.
MutexHeld ==
  /\ \A a \in Attempt : receiver[a] \in Owning => mutex = a
  /\ \A a \in Attempt : receiver[a] \in Owning \cup {"waiting"} => a \in handles
  /\ \A a \in Attempt : receiver[a] \in {"none", "exited", "dead"} => a \notin handles /\ mutex # a
  /\ abandoned => mutex = NoOwner

\* Until it removes it, a receiver has its directory, and so has a launcher.
InputKept ==
  \A a \in Attempt :
    /\ receiver[a] \in Running \ {"releasing"} => a \in staging
    /\ tree[a] = "root" => a \in staging
    /\ Live(a) /\ a \notin staging => outcome[a] = "unfinished"

\* How far the launcher is at each step of its receiver.
LauncherOwned ==
  \A a \in Attempt :
    /\ receiver[a] \in Early => tree[a] = "none" /\ outcome[a] = "none"
    /\ receiver[a] \in {"leased", "stopping"} => tree[a] # "none" /\ outcome[a] = "none"
    /\ receiver[a] \in {"cleanup", "releasing", "exited"} => outcome[a] # "none"
    /\ outcome[a] = "refused" => tree[a] = "none"
    /\ outcome[a] \in {"ok", "failed"} => tree[a] = "gone"
    /\ outcome[a] = "ok" => a \in applied
    /\ a \in applied => tree[a] \in {"tail", "gone"}
    /\ receiver[a] \in {"releasing", "exited"} /\ (outcome[a] = "ok" \/ faults = 0) => a \notin staging
    /\ outcome[a] = "unfinished" => faults > 0

\* An admitted attempt meets no processes but those a receiver failed to end.
Admitted ==
  \A a, b \in Attempt : receiver[a] = "admitted" /\ a # b =>
    tree[b] # "root" /\ (Live(b) => outcome[b] = "unfinished")

\* What the host has heard of the guest.
Heard ==
  \A a \in Attempt :
    /\ ran[a] = "ok" \/ host[a] = "succeeded" => receiver[a] = "exited" /\ outcome[a] = "ok"
    /\ host[a] # "running" => observer[a] = "idle" /\ ran[a] = "none" /\ a \notin cancelled

IInv ==
  TypeOK /\ MutexHeld /\ InputKept /\ LauncherOwned /\ Admitted /\ Heard
  /\ OneLauncher /\ NothingEscapes
=============================================================================
