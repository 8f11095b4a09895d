-------------------------- MODULE ArchiveReceiver --------------------------
(***************************************************************************)
(* The guest's side of the SSH archive transport. sshd starts a receiver   *)
(* for each attempt; it stores the frames of its input in a directory of   *)
(* its own, takes the guest's apply mutex, and runs the launcher in a Job  *)
(* Object for as long as the host keeps the input open, the lease.         *)
(***************************************************************************)
EXTENDS Naturals

CONSTANTS
  Attempt,    \* the transfers of one Sandbox, by their attempt ID
  NoOwner,
  MaxFaults   \* bound: killed processes, lost connections, failed cleanups

ASSUME ReceiverAssumption == NoOwner \notin Attempt /\ MaxFaults \in Nat

VARIABLES
  lease,      \* the receiver's standard input
  sent,       \* attempts whose frames the host has sent completely
  receiver,   \* the step of the transport script
  staging,    \* attempts whose transport-* directory exists
  handles,    \* receivers with an open handle of the apply mutex
  mutex,      \* its owner
  abandoned,  \* its last owner ended without releasing it
  tree,       \* the processes of the attempt's Job Object
  killed,     \* attempts whose Job Object was terminated or closed
  cut,        \* attempts whose launcher the receiver stopped
  applied,    \* attempts whose launcher exited with 0
  outcome,    \* what the script ends with
  faults

inputVars == <<lease, sent>>
lockVars == <<handles, mutex, abandoned>>
processVars == <<tree, killed, applied>>
receiverVars == <<receiver, staging, lockVars, processVars, cut, outcome>>

Owning == {"checking", "admitted", "leased", "stopping"}
Running == Owning \cup {"receiving", "waiting", "cleanup", "releasing"}
Outcomes == {"none", "ok", "failed", "refused", "unfinished"}

Live(a) == tree[a] \in {"root", "tail"}

ReceiverTypeOK ==
  /\ lease \in [Attempt -> {"none", "open", "closed"}]
  /\ sent \subseteq Attempt
  /\ receiver \in [Attempt -> Running \cup {"none", "exited", "dead"}]
  /\ staging \subseteq Attempt
  /\ handles \subseteq Attempt
  /\ mutex \in Attempt \cup {NoOwner}
  /\ abandoned \in BOOLEAN
  /\ tree \in [Attempt -> {"none", "root", "tail", "gone"}]
  /\ killed \subseteq Attempt
  /\ cut \subseteq Attempt
  /\ applied \subseteq Attempt
  /\ outcome \in [Attempt -> Outcomes]
  /\ faults \in 0..MaxFaults

ReceiverInit ==
  /\ lease = [a \in Attempt |-> "none"]
  /\ sent = {}
  /\ receiver = [a \in Attempt |-> "none"]
  /\ staging = {} /\ handles = {} /\ mutex = NoOwner /\ abandoned = FALSE
  /\ tree = [a \in Attempt |-> "none"]
  /\ killed = {} /\ cut = {} /\ applied = {}
  /\ outcome = [a \in Attempt |-> "none"]
  /\ faults = 0

Fault == faults < MaxFaults /\ faults' = faults + 1

\* The script leaves its `try` with the given outcome.
Ends(a, result) ==
  /\ receiver' = [receiver EXCEPT ![a] = "cleanup"]
  /\ outcome' = [outcome EXCEPT ![a] = result]

\* The Job Object is terminated, or closed.
Kill(a) == killed' = IF Live(a) THEN killed \cup {a} ELSE killed

-----------------------------------------------------------------------------
(* Input and admission.                                                    *)

\* The prologue makes the attempt's directory.
Arrive(a) ==
  /\ receiver[a] = "none" /\ lease[a] # "none"
  /\ receiver' = [receiver EXCEPT ![a] = "receiving"]
  /\ staging' = staging \cup {a}
  /\ UNCHANGED <<inputVars, lockVars, processVars, cut, outcome, faults>>

\* All frames are stored, the digests agree, the mutex is opened.
ReceiveFrames(a) ==
  /\ receiver[a] = "receiving" /\ a \in sent
  /\ receiver' = [receiver EXCEPT ![a] = "waiting"]
  /\ handles' = handles \cup {a}
  /\ UNCHANGED <<inputVars, staging, mutex, abandoned, processVars, cut, outcome, faults>>

\* Variant: a failed transfer skips the cleanup.
ReceiveFails_NoCleanup(a) ==
  /\ receiver[a] = "receiving"
  /\ receiver' = [receiver EXCEPT ![a] = "exited"]
  /\ outcome' = [outcome EXCEPT ![a] = "refused"]
  /\ UNCHANGED <<inputVars, staging, lockVars, processVars, cut, faults>>

\* The input ended, the deadline passed, or a digest differs.
ReceiveFails(a) ==
  /\ receiver[a] = "receiving"
  /\ Ends(a, "refused")
  /\ UNCHANGED <<inputVars, staging, lockVars, processVars, cut, faults>>

AcquireMutex(a) ==
  /\ receiver[a] = "waiting" /\ mutex = NoOwner /\ ~abandoned
  /\ receiver' = [receiver EXCEPT ![a] = "checking"]
  /\ mutex' = a
  /\ UNCHANGED <<inputVars, staging, handles, abandoned, processVars, cut, outcome, faults>>

\* The mutex of an ended owner is acquired, and the attempt refused.
AcquireAbandoned(a) ==
  /\ receiver[a] = "waiting" /\ abandoned
  /\ mutex' = a
  /\ abandoned' = FALSE
  /\ Ends(a, "refused")
  /\ UNCHANGED <<inputVars, staging, handles, processVars, cut, faults>>

\* The owner held the mutex for thirty seconds.
WaitTimesOut(a) ==
  /\ receiver[a] = "waiting" /\ mutex # NoOwner
  /\ Ends(a, "refused")
  /\ UNCHANGED <<inputVars, staging, lockVars, processVars, cut, faults>>

\* Variant: the directories of other attempts are ignored.
CheckOthers_Any(a) ==
  /\ receiver[a] = "checking"
  /\ receiver' = [receiver EXCEPT ![a] = "admitted"]
  /\ UNCHANGED <<inputVars, staging, lockVars, processVars, cut, outcome, faults>>

\* No other attempt has a directory.
CheckOthers(a) ==
  /\ receiver[a] = "checking" /\ staging \subseteq {a}
  /\ receiver' = [receiver EXCEPT ![a] = "admitted"]
  /\ UNCHANGED <<inputVars, staging, lockVars, processVars, cut, outcome, faults>>

OtherTransfer(a) ==
  /\ receiver[a] = "checking" /\ ~(staging \subseteq {a})
  /\ Ends(a, "refused")
  /\ UNCHANGED <<inputVars, staging, lockVars, processVars, cut, faults>>

\* The deadline has passed, or the process cannot be created.
NotStarted(a) ==
  /\ receiver[a] = "admitted"
  /\ Ends(a, "refused")
  /\ UNCHANGED <<inputVars, staging, lockVars, processVars, cut, faults>>

-----------------------------------------------------------------------------
(* The launcher and its Job Object.                                        *)

Launch(a) ==
  /\ receiver[a] = "admitted"
  /\ receiver' = [receiver EXCEPT ![a] = "leased"]
  /\ tree' = [tree EXCEPT ![a] = "root"]
  /\ UNCHANGED <<inputVars, staging, lockVars, killed, applied, cut, outcome, faults>>

\* The launcher exits, with 0 if it is not killed, and leaves descendants
\* or none.
RootExits(a) ==
  /\ tree[a] = "root"
  /\ \E rest \in {"tail", "gone"} : tree' = [tree EXCEPT ![a] = rest]
  /\ applied' \in {applied} \cup (IF a \in killed THEN {} ELSE {applied \cup {a}})
  /\ UNCHANGED <<inputVars, receiver, staging, lockVars, killed, cut, outcome, faults>>

TailExits(a) ==
  /\ tree[a] = "tail"
  /\ tree' = [tree EXCEPT ![a] = "gone"]
  /\ UNCHANGED <<inputVars, receiver, staging, lockVars, killed, applied, cut, outcome, faults>>

\* TerminateDescendantsAfterRootExit.
TerminateResidual(a) ==
  /\ receiver[a] \in {"leased", "stopping"} /\ tree[a] = "tail" /\ a \notin killed
  /\ killed' = killed \cup {a}
  /\ UNCHANGED <<inputVars, receiver, staging, lockVars, tree, applied, cut, outcome, faults>>

\* Variant: a stop is requested of the launcher and not enforced.
Stop_Gentle(a) ==
  /\ receiver[a] = "leased"
  /\ receiver' = [receiver EXCEPT ![a] = "stopping"]
  /\ cut' = cut \cup {a}
  /\ UNCHANGED <<inputVars, staging, lockVars, processVars, outcome, faults>>

\* The lease is closed, or the launcher's time is up.
Stop(a) ==
  /\ receiver[a] = "leased"
  /\ receiver' = [receiver EXCEPT ![a] = "stopping"]
  /\ cut' = cut \cup {a}
  /\ Kill(a)
  /\ UNCHANGED <<inputVars, staging, lockVars, tree, applied, outcome, faults>>

\* Variant: the launcher's exit completes the task, not that of its tree.
Completes_Root(a) ==
  /\ receiver[a] \in {"leased", "stopping"} /\ tree[a] \in {"tail", "gone"}
  /\ \E result \in IF a \in applied \ cut THEN {"ok", "failed"} ELSE {"failed"} : Ends(a, result)
  /\ UNCHANGED <<inputVars, staging, lockVars, processVars, cut, faults>>

\* Variant: the exit code of the launcher is not looked at.
Completes_AnyExit(a) ==
  /\ receiver[a] \in {"leased", "stopping"} /\ tree[a] = "gone"
  /\ Ends(a, IF a \in cut THEN "failed" ELSE "ok")
  /\ UNCHANGED <<inputVars, staging, lockVars, processVars, cut, faults>>

\* No process is left. Too much output, or output nobody reads, is a failure.
Completes(a) ==
  /\ receiver[a] \in {"leased", "stopping"} /\ tree[a] = "gone"
  /\ \E result \in IF a \in applied \ cut THEN {"ok", "failed"} ELSE {"failed"} : Ends(a, result)
  /\ UNCHANGED <<inputVars, staging, lockVars, processVars, cut, faults>>

\* The task fails or its processes outlast thirty seconds of cleanup; its
\* disposal closes the Job Object, which kills what is left.
Unfinished(a) ==
  /\ Fault
  /\ receiver[a] \in {"leased", "stopping"} /\ Live(a)
  /\ Ends(a, "unfinished")
  /\ Kill(a)
  /\ UNCHANGED <<inputVars, staging, lockVars, tree, applied, cut>>

-----------------------------------------------------------------------------
(* The end of the script.                                                  *)

RemoveStaging(a) ==
  /\ receiver[a] = "cleanup" /\ tree[a] # "root"
  /\ receiver' = [receiver EXCEPT ![a] = "releasing"]
  /\ staging' = staging \ {a}
  /\ UNCHANGED <<inputVars, lockVars, processVars, cut, outcome, faults>>

\* Variant: the script reports the launcher's result whatever its cleanup did.
RemoveFails_Ignored(a) ==
  /\ receiver[a] = "cleanup"
  /\ IF tree[a] = "root" THEN UNCHANGED faults ELSE Fault
  /\ receiver' = [receiver EXCEPT ![a] = "releasing"]
  /\ UNCHANGED <<inputVars, staging, lockVars, processVars, cut, outcome>>

\* A launcher that runs keeps its working directory and its input in use;
\* other files may fail to be removed too. The script then fails.
RemoveFails(a) ==
  /\ receiver[a] = "cleanup"
  /\ IF tree[a] = "root" THEN UNCHANGED faults ELSE Fault
  /\ receiver' = [receiver EXCEPT ![a] = "releasing"]
  /\ outcome' = [outcome EXCEPT ![a] = IF @ = "ok" THEN "failed" ELSE @]
  /\ UNCHANGED <<inputVars, staging, lockVars, processVars, cut>>

\* The handles left of a mutex keep it; without any it is a new one.
CloseHandle(a) == handles' = handles \ {a}

Release(a) ==
  /\ receiver[a] = "releasing"
  /\ receiver' = [receiver EXCEPT ![a] = "exited"]
  /\ CloseHandle(a)
  /\ mutex' = IF mutex = a THEN NoOwner ELSE mutex
  /\ abandoned' = (abandoned /\ handles' # {})
  /\ UNCHANGED <<inputVars, staging, processVars, cut, outcome, faults>>

\* The receiver is killed; its Job Object and mutex handles close.
ReceiverDies(a) ==
  /\ Fault
  /\ receiver[a] \in Running
  /\ receiver' = [receiver EXCEPT ![a] = "dead"]
  /\ CloseHandle(a)
  /\ mutex' = IF mutex = a THEN NoOwner ELSE mutex
  /\ abandoned' = ((abandoned \/ mutex = a) /\ handles' # {})
  /\ Kill(a)
  /\ UNCHANGED <<inputVars, staging, tree, applied, cut, outcome>>

ScriptStep(a) ==
  \/ ReceiveFrames(a) \/ ReceiveFails(a)
  \/ AcquireMutex(a) \/ AcquireAbandoned(a) \/ WaitTimesOut(a)
  \/ CheckOthers(a) \/ OtherTransfer(a) \/ NotStarted(a) \/ Launch(a)
  \/ Stop(a) \/ Completes(a) \/ RemoveStaging(a) \/ RemoveFails(a) \/ Release(a)

ProcessStep(a) == RootExits(a) \/ TailExits(a) \/ TerminateResidual(a)

GuestStep(a) ==
  ScriptStep(a) \/ ProcessStep(a) \/ Arrive(a) \/ Unfinished(a) \/ ReceiverDies(a)
=============================================================================
