-------------------------- MODULE SandboxLifecycle --------------------------
(***************************************************************************)
(* The lifecycle of the app-owned Windows Sandbox: the host commands `up`, *)
(* `down`, `clean`, `status` and `attach`, each a process of its own, that *)
(* share one named mutex and the files under the data root; the launcher   *)
(* process and the guest bootstrap they supervise; and their environment   *)
(* (users closing windows, crashes, PID reuse, unrelated Sandboxes).       *)
(*                                                                         *)
(* A run is the ephemeral state of one launched Sandbox (runs/<run ID>).   *)
(* A run ID is a time and random bits, so no run is used twice.            *)
(***************************************************************************)
EXTENDS Naturals, FiniteSets

CONSTANTS
  Proc,       \* host processes, each running one command at a time
  Run,        \* run IDs that can be drawn
  NoProc,     \* the value of the mutex nobody holds
  NoRun,      \* the absence of a run
  Commands,   \* the commands this instance lets processes start
  MaxUps,     \* bound: how many `up` commands are started
  MaxFaults   \* bound: crashes of a host process, plus cleanup I/O errors

ASSUME DistinctAssumption == NoProc \notin Proc /\ NoRun \notin Run
ASSUME CommandAssumption == Commands \subseteq {"up", "down", "clean", "status", "attach"}
ASSUME BoundAssumption == MaxUps \in Nat /\ MaxFaults \in Nat

VARIABLES
  \* shared by all host processes
  lock,       \* holder of the lifecycle mutex
  active,     \* active.json: the run it names
  dirs,       \* the run directories that exist
  op,         \* operation.json of every run
  files,      \* the status files of every run
  alias,      \* the run the managed SSH configuration points to
  \* the world outside
  launcher,   \* the launcher process of every run
  foreign,    \* an unrelated Windows Sandbox is running
  \* local to a host process
  pc, cmd,    \* the step it is at, and the command it runs
  stage,      \* "before": the cleanup `up` and `down` do first
  held,       \* the run it works on
  opid,       \* the operation it started, or saw before a busy report
  gone,       \* cleanup's protection snapshot: the Sandbox has ended
  retried,    \* cleanup already replanned once
  todo,       \* the run directories cleanup still has to remove
  seenRun, seenState, seenOp,   \* what inspectSessionAt found
  \* bookkeeping
  used,       \* run IDs drawn so far
  ups, faults \* uses of the bounds

shared   == <<active, dirs, op, files, alias>>
world    == <<launcher, foreign>>
own      == <<cmd, stage, held, opid>>
cleaning == <<gone, retried, todo>>
seen     == <<seenRun, seenState, seenOp>>
bounds   == <<used, ups, faults>>
vars     == <<lock, shared, world, pc, own, cleaning, seen, bounds>>

-----------------------------------------------------------------------------
(* Steps of the commands.                                                  *)

Cleanup      == {"reconcile", "protect", "plan", "revalidate", "unalias", "remove", "unrecord"}
Inspection   == {"load", "query", "classify"}
Launching    == {"census", "prepare", "recensus", "launch", "identify", "record"}
Provisioning == {"bootstrap", "verify", "alias", "develop", "publish", "complete", "failing"}
Stopping     == {"select", "capture", "stop", "leftover", "forget"}
Attaching    == {"attach", "attachAlias"}
Locked       == Cleanup \cup Launching \cup Provisioning \cup Stopping \cup Attaching
                  \cup {"decide", "retain", "begin", "release", "abort"}
Busy         == {"busy", "busyOp", "recheck", "recheckOp", "report"}
Label        == {"idle", "wait"} \cup Locked \cup Inspection \cup Busy

OpStates     == {"none", "running", "succeeded", "failed", "interrupted"}
Operation    == [id : 0..MaxUps, state : OpStates]
NoOperation  == [id |-> 0, state |-> "none"]
StatusFiles  == {"connectable", "failed", "ready"}
SeenStates   == {"none", "stopped", "unmanaged", "stale", "live", "starting",
                 "connectable", "ready", "failed", "retryable"}

Goto(p, label) == pc' = [pc EXCEPT ![p] = label]

\* The process is back at the prompt and keeps nothing of the command.
Return(p) ==
  /\ Goto(p, "idle")
  /\ cmd' = [cmd EXCEPT ![p] = "none"]
  /\ stage' = [stage EXCEPT ![p] = "main"]
  /\ held' = [held EXCEPT ![p] = NoRun]
  /\ opid' = [opid EXCEPT ![p] = 0]
  /\ gone' = [gone EXCEPT ![p] = FALSE]
  /\ retried' = [retried EXCEPT ![p] = FALSE]
  /\ todo' = [todo EXCEPT ![p] = {}]
  /\ seenRun' = [seenRun EXCEPT ![p] = NoRun]
  /\ seenState' = [seenState EXCEPT ![p] = "none"]
  /\ seenOp' = [seenOp EXCEPT ![p] = 0]

TakeFault ==
  /\ faults < MaxFaults
  /\ faults' = faults + 1

Live(r) == launcher[r] = "live"

\* Any WindowsSandbox or WindowsSandboxClient process.
AnySandbox == foreign \/ \E r \in Run : Live(r)

TypeOK ==
  /\ lock \in Proc \cup {NoProc}
  /\ active \in Run \cup {NoRun}
  /\ dirs \in SUBSET Run
  /\ op \in [Run -> Operation]
  /\ files \in [Run -> SUBSET StatusFiles]
  /\ alias \in Run \cup {NoRun}
  /\ launcher \in [Run -> {"none", "live", "gone", "reused"}]
  /\ foreign \in BOOLEAN
  /\ pc \in [Proc -> Label]
  /\ cmd \in [Proc -> {"none", "up", "down", "clean", "status", "attach"}]
  /\ stage \in [Proc -> {"before", "main"}]
  /\ held \in [Proc -> Run \cup {NoRun}]
  /\ opid \in [Proc -> 0..MaxUps]
  /\ gone \in [Proc -> BOOLEAN]
  /\ retried \in [Proc -> BOOLEAN]
  /\ todo \in [Proc -> SUBSET Run]
  /\ seenRun \in [Proc -> Run \cup {NoRun}]
  /\ seenState \in [Proc -> SeenStates]
  /\ seenOp \in [Proc -> 0..MaxUps]
  /\ used \in SUBSET Run
  /\ ups \in 0..MaxUps
  /\ faults \in 0..MaxFaults

Init ==
  /\ lock = NoProc
  /\ active = NoRun
  /\ dirs = {}
  /\ op = [r \in Run |-> NoOperation]
  /\ files = [r \in Run |-> {}]
  /\ alias = NoRun
  /\ launcher = [r \in Run |-> "none"]
  /\ foreign = FALSE
  /\ pc = [p \in Proc |-> "idle"]
  /\ cmd = [p \in Proc |-> "none"]
  /\ stage = [p \in Proc |-> "main"]
  /\ held = [p \in Proc |-> NoRun]
  /\ opid = [p \in Proc |-> 0]
  /\ gone = [p \in Proc |-> FALSE]
  /\ retried = [p \in Proc |-> FALSE]
  /\ todo = [p \in Proc |-> {}]
  /\ seenRun = [p \in Proc |-> NoRun]
  /\ seenState = [p \in Proc |-> "none"]
  /\ seenOp = [p \in Proc |-> 0]
  /\ used = {}
  /\ ups = 0
  /\ faults = 0

-----------------------------------------------------------------------------
(* Starting a command and the lifecycle mutex.                             *)

\* A command is typed. `up` and `down` first run a complete cleanup under
\* their own acquisition of the mutex.
Begin(p, c) ==
  /\ pc[p] = "idle"
  /\ c = "up" => ups < MaxUps
  /\ Goto(p, "wait")
  /\ cmd' = [cmd EXCEPT ![p] = c]
  /\ stage' = [stage EXCEPT ![p] = IF c \in {"up", "down"} THEN "before" ELSE "main"]
  /\ ups' = IF c = "up" THEN ups + 1 ELSE ups
  /\ opid' = [opid EXCEPT ![p] = IF c = "up" THEN ups + 1 ELSE 0]
  /\ UNCHANGED <<lock, shared, world, held, cleaning, seen, used, faults>>

\* Variant: the mutex is not waited for.
LockObtainable_Ignored == TRUE

LockObtainable == lock = NoProc

AcquireLock(p) ==
  /\ pc[p] = "wait"
  /\ LockObtainable
  /\ lock' = p
  /\ Goto(p, "reconcile")
  /\ UNCHANGED <<shared, world, own, cleaning, seen, bounds>>

\* The wait ends with the context: `status` and `attach` then look at the
\* session without the mutex, the others give up.
LockTimeout(p) ==
  /\ pc[p] = "wait"
  /\ lock # NoProc
  /\ \/ /\ cmd[p] \in {"status", "attach"}
        /\ Goto(p, "busy")
        /\ UNCHANGED <<own, cleaning, seen>>
     \/ /\ cmd[p] \notin {"status", "attach"}
        /\ Return(p)
  /\ UNCHANGED <<lock, shared, world, bounds>>

\* The command, or the cleanup in front of it, is done.
Release(p) ==
  /\ pc[p] = "release"
  /\ lock' = NoProc
  /\ \/ /\ stage[p] = "before"
        /\ Goto(p, "wait")
        /\ stage' = [stage EXCEPT ![p] = "main"]
        /\ held' = [held EXCEPT ![p] = NoRun]
        /\ gone' = [gone EXCEPT ![p] = FALSE]
        /\ retried' = [retried EXCEPT ![p] = FALSE]
        /\ UNCHANGED <<cmd, opid, todo, seen>>
     \/ /\ stage[p] = "main"
        /\ Return(p)
  /\ UNCHANGED <<shared, world, bounds>>

\* The command returns an error.
Abort(p) ==
  /\ pc[p] = "abort"
  /\ lock' = NoProc
  /\ Return(p)
  /\ UNCHANGED <<shared, world, bounds>>

\* A step that only reads or calls out fails, is cancelled or times out; the
\* command returns its error.
Refuse(p) ==
  /\ \/ pc[p] \in Stopping \cup Attaching
     \/ pc[p] \in {"decide", "retain", "census", "prepare", "recensus", "launch", "begin"}
     \/ pc[p] \in Inspection /\ lock = p
  /\ Goto(p, "abort")
  /\ UNCHANGED <<lock, shared, world, own, cleaning, seen, bounds>>

-----------------------------------------------------------------------------
(* Stale-state cleanup, and the reconciliation every mutating command      *)
(* starts with.                                                            *)

AfterReconcile(p) ==
  CASE stage[p] = "main" /\ cmd[p] = "up"   -> "load"
    [] stage[p] = "main" /\ cmd[p] = "down" -> "select"
    [] OTHER                                -> "protect"

\* `status` reports a failed cleanup as a warning, the others return it.
AfterCleanup(p, ok) ==
  CASE cmd[p] = "status"       -> "load"
    [] ok /\ cmd[p] = "attach" -> "load"
    [] ok                      -> "release"
    [] OTHER                   -> "abort"

AfterReconcileError(p) ==
  IF AfterReconcile(p) = "protect" THEN AfterCleanup(p, FALSE) ELSE "abort"

\* Variant: terminal outcomes are rewritten too.
Interrupted_Always(o) ==
  IF o.id > 0 THEN [o EXCEPT !.state = "interrupted"] ELSE o

Interrupted(o) ==
  IF o.state = "running" THEN [o EXCEPT !.state = "interrupted"] ELSE o

\* Whoever gets the mutex marks a running operation of the active run as
\* interrupted: its owner can only have died.
Reconcile(p) ==
  /\ pc[p] = "reconcile"
  /\ \/ /\ active = NoRun
        /\ UNCHANGED op
     \/ /\ active \in dirs
        /\ op' = [op EXCEPT ![active] = Interrupted(@)]
  /\ Goto(p, AfterReconcile(p))
  /\ UNCHANGED <<lock, active, dirs, files, alias, world, own, cleaning, seen, bounds>>

\* Reading operation.json fails when the active run's directory is missing, and
\* the write of the interrupted outcome may fail.
ReconcileError(p) ==
  /\ pc[p] = "reconcile"
  /\ active # NoRun
  /\ IF active \in dirs THEN op[active].state = "running" /\ TakeFault ELSE UNCHANGED faults
  /\ Goto(p, AfterReconcileError(p))
  /\ UNCHANGED <<lock, shared, world, own, cleaning, seen, used, ups>>

\* Cleanup goes on only if every Sandbox process is the recorded launcher.
OwnershipProven ==
  /\ ~foreign
  /\ \A r \in Run : Live(r) => r = active
  /\ active # NoRun => launcher[active] # "reused"

SandboxGone == active = NoRun \/ ~Live(active)

Protect(p) ==
  /\ pc[p] = "protect"
  /\ OwnershipProven
  /\ held' = [held EXCEPT ![p] = active]
  /\ gone' = [gone EXCEPT ![p] = SandboxGone]
  /\ Goto(p, "plan")
  /\ UNCHANGED <<lock, shared, world, cmd, stage, opid, retried, todo, seen, bounds>>

\* Variant: the active run is not protected.
Candidates_Unprotected(p) == dirs

\* The run directories to remove: all, or all but the protected run's.
Candidates(p) == {r \in dirs : gone[p] \/ r # held[p]}

Plan(p) ==
  /\ pc[p] = "plan"
  /\ todo' = [todo EXCEPT ![p] = Candidates(p)]
  /\ Goto(p, "revalidate")
  /\ UNCHANGED <<lock, shared, world, own, gone, retried, seen, bounds>>

Unchanged(p) == held[p] = active /\ gone[p] = SandboxGone

OwnedSandboxExited(p) ==
  held[p] # NoRun /\ ~gone[p] /\ held[p] = active /\ SandboxGone

\* Variant: the SSH alias goes with every cleanup.
RemovalStart_Unalias(p) == "unalias"

\* Only a Sandbox proven gone loses its SSH alias.
RemovalStart(p) == IF gone[p] THEN "unalias" ELSE "remove"

\* The process evidence is read again after planning. If the owned Sandbox
\* ended meanwhile the plan is made once more.
Revalidate(p) ==
  /\ pc[p] = "revalidate"
  /\ OwnershipProven
  /\ \/ /\ Unchanged(p)
        /\ Goto(p, RemovalStart(p))
        /\ UNCHANGED <<gone, retried, todo>>
     \/ /\ ~Unchanged(p)
        /\ ~retried[p]
        /\ OwnedSandboxExited(p)
        /\ gone' = [gone EXCEPT ![p] = TRUE]
        /\ retried' = [retried EXCEPT ![p] = TRUE]
        /\ todo' = [todo EXCEPT ![p] = {}]
        /\ Goto(p, "plan")
  /\ UNCHANGED <<lock, shared, world, own, seen, bounds>>

CleanupFails(p) ==
  /\ todo' = [todo EXCEPT ![p] = {}]
  /\ Goto(p, AfterCleanup(p, FALSE))
  /\ UNCHANGED <<lock, active, dirs, alias, world, own, gone, retried, seen, used, ups>>

\* Unowned or changed process evidence: nothing has been removed.
CleanupRefuses(p) ==
  /\ \/ pc[p] = "protect" /\ ~OwnershipProven
     \/ pc[p] = "revalidate" /\ ~OwnershipProven
     \/ pc[p] = "revalidate" /\ ~Unchanged(p) /\ (retried[p] \/ ~OwnedSandboxExited(p))
  /\ CleanupFails(p)
  /\ UNCHANGED <<op, files, faults>>

\* A file operation of the cleanup fails; removing a run may fail halfway.
CleanupFault(p) ==
  /\ pc[p] \in Cleanup \ {"reconcile"}
  /\ TakeFault
  /\ CleanupFails(p)
  /\ \/ UNCHANGED <<op, files>>
     \/ \E r \in todo[p] :
          /\ pc[p] = "remove"
          /\ op' = [op EXCEPT ![r] = NoOperation]
          /\ files' = [files EXCEPT ![r] = {}]

Unalias(p) ==
  /\ pc[p] = "unalias"
  /\ alias' = NoRun
  /\ Goto(p, "remove")
  /\ UNCHANGED <<lock, active, dirs, op, files, world, own, cleaning, seen, bounds>>

\* Directories go one at a time, in the order the directory lists them.
RemoveRun(p) ==
  /\ pc[p] = "remove"
  /\ \E r \in todo[p] :
       /\ dirs' = dirs \ {r}
       /\ op' = [op EXCEPT ![r] = NoOperation]
       /\ files' = [files EXCEPT ![r] = {}]
       /\ todo' = [todo EXCEPT ![p] = @ \ {r}]
  /\ UNCHANGED <<lock, active, alias, world, pc, own, gone, retried, seen, bounds>>

\* Variant: the ownership record of a removed run stays.
RunsRemoved_KeepRecord(p) ==
  /\ pc[p] = "remove"
  /\ todo[p] = {}
  /\ Goto(p, AfterCleanup(p, TRUE))
  /\ UNCHANGED <<lock, shared, world, own, cleaning, seen, bounds>>

RunsRemoved(p) ==
  /\ pc[p] = "remove"
  /\ todo[p] = {}
  /\ Goto(p, IF gone[p] /\ held[p] # NoRun THEN "unrecord" ELSE AfterCleanup(p, TRUE))
  /\ UNCHANGED <<lock, shared, world, own, cleaning, seen, bounds>>

\* The ownership record goes last.
Unrecord(p) ==
  /\ pc[p] = "unrecord"
  /\ active' = NoRun
  /\ Goto(p, AfterCleanup(p, TRUE))
  /\ UNCHANGED <<lock, dirs, op, files, alias, world, own, cleaning, seen, bounds>>

-----------------------------------------------------------------------------
(* inspectSessionAt: who owns the Sandbox, and how far is it?              *)

Load(p) ==
  /\ pc[p] = "load"
  /\ seenRun' = [seenRun EXCEPT ![p] = active]
  /\ Goto(p, "query")
  /\ UNCHANGED <<lock, shared, world, own, cleaning, seenState, seenOp, bounds>>

\* `up`, `down`, `status` and `attach` act on the inspection; a busy report
\* is checked against the record and the operation read before.
AfterInspection(p) == IF lock = p THEN "decide" ELSE "recheck"

CensusState == IF AnySandbox THEN "unmanaged" ELSE "stopped"

\* The process query: a census without a record, else the recorded launcher.
Query(p) ==
  /\ pc[p] = "query"
  /\ \/ /\ seenRun[p] = NoRun
        /\ seenState' = [seenState EXCEPT ![p] = CensusState]
        /\ Goto(p, AfterInspection(p))
     \/ /\ seenRun[p] # NoRun
        /\ seenState' = [seenState EXCEPT ![p] = IF Live(seenRun[p]) THEN "live" ELSE "stale"]
        /\ Goto(p, "classify")
  /\ UNCHANGED <<lock, shared, world, own, cleaning, seenRun, seenOp, bounds>>

\* A connectable Sandbox is classified by its last operation ("retryable" is
\* the failed state that has a guest address).
ConnectableState(o) ==
  CASE o.state \in {"none", "succeeded"} -> "connectable"
    [] o.state = "running"               -> "starting"
    [] OTHER                             -> "retryable"

\* failed.json outranks ready.json, which outranks connectable.json.
Progress(r) ==
  LET f == files[r] IN
  CASE "failed" \in f                       -> "failed"
    [] "failed" \notin f /\ "ready" \in f   -> "ready"
    [] f = {"connectable"}                  -> ConnectableState(op[r])
    [] f = {}                               -> "starting"

\* An operation that cannot be read, as that of a run whose directory is gone, is
\* a warning, and counts as none.
Classify(p) ==
  LET r == seenRun[p] IN
  /\ pc[p] = "classify"
  /\ seenState' = [seenState EXCEPT ![p] = IF @ = "live" THEN Progress(r) ELSE @]
  /\ seenOp' = [seenOp EXCEPT ![p] = op[r].id]
  /\ Goto(p, AfterInspection(p))
  /\ UNCHANGED <<lock, shared, world, own, cleaning, seenRun, bounds>>

\* `status` prints what it found.
ReportStatus(p) ==
  /\ pc[p] = "decide"
  /\ cmd[p] = "status"
  /\ Goto(p, "release")
  /\ UNCHANGED <<lock, shared, world, own, cleaning, seen, bounds>>

-----------------------------------------------------------------------------
(* `status` and `attach` while another command holds the mutex             *)
(* (inspectSessionDuringOperation): two reads around the inspection.       *)

BusyActive(p) ==
  /\ pc[p] = "busy"
  /\ active # NoRun
  /\ held' = [held EXCEPT ![p] = active]
  /\ Goto(p, "busyOp")
  /\ UNCHANGED <<lock, shared, world, cmd, stage, opid, cleaning, seen, bounds>>

BusyOperation(p) ==
  /\ pc[p] = "busyOp"
  /\ held[p] \in dirs
  /\ op[held[p]].state = "running"
  /\ opid' = [opid EXCEPT ![p] = op[held[p]].id]
  /\ Goto(p, "load")
  /\ UNCHANGED <<lock, shared, world, cmd, stage, held, cleaning, seen, bounds>>

SameActive(p) == active = held[p]

RecheckActive(p) ==
  /\ pc[p] = "recheck"
  /\ SameActive(p)
  /\ Goto(p, "recheckOp")
  /\ UNCHANGED <<lock, shared, world, own, cleaning, seen, bounds>>

\* Variant: any running operation will do.
SameOperation_AnyId(p) ==
  held[p] \in dirs /\ op[held[p]].state = "running"

SameOperation(p) ==
  /\ held[p] \in dirs
  /\ op[held[p]] = [id |-> opid[p], state |-> "running"]

RecheckOperation(p) ==
  /\ pc[p] = "recheckOp"
  /\ SameOperation(p)
  /\ Goto(p, "report")
  /\ UNCHANGED <<lock, shared, world, own, cleaning, seen, bounds>>

\* The busy session is reported (`attach`: as the reason for its error), or
\* some read or comparison failed and the command ends with an error.
BusyReturn(p) ==
  /\ pc[p] \in Busy \/ (pc[p] \in Inspection /\ lock # p)
  /\ Return(p)
  /\ UNCHANGED <<lock, shared, world, bounds>>

-----------------------------------------------------------------------------
(* `up`: resume the recorded Sandbox or launch a new one, then provision.  *)

Resumable == {"ready", "connectable", "starting", "retryable"}

\* Only a stopped session is replaced, only a resumable one is retained.
DecideUp(p) ==
  /\ pc[p] = "decide"
  /\ cmd[p] = "up"
  /\ \/ seenState[p] = "stopped" /\ Goto(p, "census")
     \/ seenState[p] \in Resumable /\ Goto(p, "retain")
     \/ seenState[p] \notin Resumable \cup {"stopped"} /\ Goto(p, "abort")
  /\ UNCHANGED <<lock, shared, world, own, cleaning, seen, bounds>>

Retain(p) ==
  /\ pc[p] = "retain"
  /\ active # NoRun
  /\ seenState[p] = "ready" => "ready" \in files[active]
  /\ held' = [held EXCEPT ![p] = active]
  /\ Goto(p, "begin")
  /\ UNCHANGED <<lock, shared, world, cmd, stage, opid, cleaning, seen, bounds>>

NoSandboxRunning == ~AnySandbox

\* ensureNoRunningSandbox, before and after the run is prepared.
Census(p) ==
  /\ pc[p] \in {"census", "recensus"}
  /\ \/ ~NoSandboxRunning /\ Goto(p, "abort")
     \/ NoSandboxRunning /\ pc[p] = "census" /\ Goto(p, "prepare")
     \/ NoSandboxRunning /\ pc[p] = "recensus" /\ Goto(p, "launch")
  /\ UNCHANGED <<lock, shared, world, own, cleaning, seen, bounds>>

PrepareRun(p) ==
  /\ pc[p] = "prepare"
  /\ \E r \in Run \ used :
       /\ used' = used \cup {r}
       /\ dirs' = dirs \cup {r}
       /\ held' = [held EXCEPT ![p] = r]
  /\ Goto(p, "recensus")
  /\ UNCHANGED <<lock, active, op, files, alias, world, cmd, stage, opid, cleaning, seen, ups, faults>>

LaunchSandbox(p) ==
  /\ pc[p] = "launch"
  /\ launcher' = [launcher EXCEPT ![held[p]] = "live"]
  /\ Goto(p, "identify")
  /\ UNCHANGED <<lock, shared, foreign, own, cleaning, seen, bounds>>

\* recordActiveSession: the identity of the launcher is read, then published.
IdentifyLauncher(p) ==
  /\ pc[p] = "identify"
  /\ Live(held[p])
  /\ Goto(p, "record")
  /\ UNCHANGED <<lock, shared, world, own, cleaning, seen, bounds>>

\* Variant: a failed write of active.json is ignored.
RecordActive_Unwritten(p) ==
  /\ pc[p] = "record"
  /\ active' \in {active, held[p]}
  /\ Goto(p, "begin")
  /\ UNCHANGED <<lock, dirs, op, files, alias, world, own, cleaning, seen, bounds>>

RecordActive(p) ==
  /\ pc[p] = "record"
  /\ active' = held[p]
  /\ Goto(p, "begin")
  /\ UNCHANGED <<lock, dirs, op, files, alias, world, own, cleaning, seen, bounds>>

\* Variant: the launched Sandbox is left running.
RecordFails_LeftRunning(p) ==
  /\ pc[p] \in {"identify", "record"}
  /\ Goto(p, "abort")
  /\ UNCHANGED <<lock, shared, world, own, cleaning, seen, bounds>>

\* A Sandbox that could not be recorded is terminated again; failing that
\* too is a fault, and leaves it running without a record.
RecordFails(p) ==
  /\ pc[p] \in {"identify", "record"}
  /\ \/ /\ launcher' = [launcher EXCEPT ![held[p]] = "gone"]
        /\ UNCHANGED faults
     \/ /\ TakeFault
        /\ UNCHANGED launcher
  /\ Goto(p, "abort")
  /\ UNCHANGED <<lock, shared, foreign, own, cleaning, seen, used, ups>>

\* startSessionOperation: the previous operation must have ended.
StartOperation(p) ==
  LET r == held[p] IN
  /\ pc[p] = "begin"
  /\ r \in dirs
  /\ op[r].state # "running"
  /\ op' = [op EXCEPT ![r] = [id |-> opid[p], state |-> "running"]]
  /\ Goto(p, "bootstrap")
  /\ UNCHANGED <<lock, active, dirs, files, alias, world, own, cleaning, seen, bounds>>

BootstrapDone(p) == "connectable" \in files[held[p]] /\ "failed" \notin files[held[p]]

WaitForConnectable(p) ==
  /\ pc[p] = "bootstrap"
  /\ BootstrapDone(p)
  /\ Goto(p, "verify")
  /\ UNCHANGED <<lock, shared, world, own, cleaning, seen, bounds>>

VerifySSH(p) ==
  /\ pc[p] = "verify"
  /\ Live(held[p])
  /\ Goto(p, "alias")
  /\ UNCHANGED <<lock, shared, world, own, cleaning, seen, bounds>>

InstallAlias(p) ==
  /\ pc[p] = "alias"
  /\ alias' = held[p]
  /\ Goto(p, "develop")
  /\ UNCHANGED <<lock, active, dirs, op, files, world, own, cleaning, seen, bounds>>

\* Everything provisionSession does over SSH after that: tools, Tailscale,
\* configuration, Herdr.
ProvisionGuest(p) ==
  /\ pc[p] = "develop"
  /\ Live(held[p])
  /\ Goto(p, "publish")
  /\ UNCHANGED <<lock, shared, world, own, cleaning, seen, bounds>>

PublishReady(p) ==
  /\ pc[p] = "publish"
  /\ held[p] \in dirs
  /\ files' = [files EXCEPT ![held[p]] = @ \cup {"ready"}]
  /\ Goto(p, "complete")
  /\ UNCHANGED <<lock, active, dirs, op, alias, world, own, cleaning, seen, bounds>>

\* Variants: an error path returns before the outcome is published; the wait
\* for the guest has no deadline.
ProvisioningFails_NoOutcome(p) ==
  /\ pc[p] \in Provisioning \ {"failing"}
  /\ Goto(p, "abort")
  /\ UNCHANGED <<lock, shared, world, own, cleaning, seen, bounds>>

ProvisioningFails_NoDeadline(p) ==
  /\ pc[p] \in Provisioning \ {"bootstrap", "failing"}
  /\ Goto(p, "failing")
  /\ UNCHANGED <<lock, shared, world, own, cleaning, seen, bounds>>

\* Any step of the provisioning may fail, be cancelled or time out.
ProvisioningFails(p) ==
  /\ pc[p] \in Provisioning \ {"failing"}
  /\ Goto(p, "failing")
  /\ UNCHANGED <<lock, shared, world, own, cleaning, seen, bounds>>

\* "failed" stands for the outcomes failed, cancelled and timed-out; a ready
\* Sandbox still fails when development or optional steps did.
Outcomes(p) == IF pc[p] = "complete" THEN {"succeeded", "failed"} ELSE {"failed"}

\* finishSessionOperation, deferred: the terminal outcome is published.
FinishOperation(p) ==
  /\ pc[p] \in {"complete", "failing"}
  /\ held[p] \in dirs
  /\ \E s \in Outcomes(p) :
       /\ op' = [op EXCEPT ![held[p]] = [id |-> opid[p], state |-> s]]
       /\ Goto(p, IF pc[p] = "complete" /\ s = "succeeded" THEN "release" ELSE "abort")
  /\ UNCHANGED <<lock, active, dirs, files, alias, world, own, cleaning, seen, bounds>>

\* Publishing the outcome fails: the operation stays running on disk.
FinishFails(p) ==
  /\ pc[p] \in {"complete", "failing"}
  /\ TakeFault
  /\ Goto(p, "abort")
  /\ UNCHANGED <<lock, shared, world, own, cleaning, seen, used, ups>>

-----------------------------------------------------------------------------
(* `down`: close exactly the recorded Sandbox, then forget it.             *)

SelectActive(p) ==
  /\ pc[p] = "select"
  /\ \/ /\ active # NoRun
        /\ held' = [held EXCEPT ![p] = active]
        /\ Goto(p, "capture")
     \/ /\ active = NoRun
        /\ Goto(p, IF AnySandbox THEN "abort" ELSE "release")
        /\ UNCHANGED held
  /\ UNCHANGED <<lock, shared, world, cmd, stage, opid, cleaning, seen, bounds>>

\* The Tailscale identity is preserved first; Refuse covers its refusals.
CaptureTailscale(p) ==
  /\ pc[p] = "capture"
  /\ Goto(p, "stop")
  /\ UNCHANGED <<lock, shared, world, own, cleaning, seen, bounds>>

\* Variant: only the client is terminated, the launcher stays.
StopOwned_ClientOnly(p) ==
  /\ pc[p] = "stop"
  /\ Goto(p, IF Live(held[p]) THEN "forget" ELSE "leftover")
  /\ UNCHANGED <<lock, shared, world, own, cleaning, seen, bounds>>

\* stopOwnedSandboxProcess: kills the launcher, finds it absent (exit 3), or
\* finds another process under its PID (exit 12).
StopOwned(p) ==
  LET r == held[p] IN
  /\ pc[p] = "stop"
  /\ launcher' = [launcher EXCEPT ![r] = IF @ = "live" THEN "gone" ELSE @]
  /\ Goto(p, CASE launcher[r] = "live"   -> "forget"
               [] launcher[r] = "reused" -> "abort"
               [] OTHER                  -> "leftover")
  /\ UNCHANGED <<lock, shared, foreign, own, cleaning, seen, bounds>>

\* The recorded Sandbox had ended already: nothing else may be running.
Leftover(p) ==
  /\ pc[p] = "leftover"
  /\ Goto(p, IF AnySandbox THEN "abort" ELSE "forget")
  /\ UNCHANGED <<lock, shared, world, own, cleaning, seen, bounds>>

ForgetActive(p) ==
  /\ pc[p] = "forget"
  /\ active' = NoRun
  /\ Goto(p, "release")
  /\ UNCHANGED <<lock, dirs, op, files, alias, world, own, cleaning, seen, bounds>>

-----------------------------------------------------------------------------
(* `attach`: reconnect to a ready Sandbox without provisioning.            *)

DecideAttach(p) ==
  /\ pc[p] = "decide"
  /\ cmd[p] = "attach"
  /\ held' = [held EXCEPT ![p] = seenRun[p]]
  /\ Goto(p, IF seenState[p] = "ready" THEN "attach" ELSE "abort")
  /\ UNCHANGED <<lock, shared, world, cmd, stage, opid, cleaning, seen, bounds>>

VerifyGuestHerdr(p) ==
  /\ pc[p] = "attach"
  /\ "ready" \in files[held[p]]
  /\ Live(held[p])
  /\ Goto(p, "attachAlias")
  /\ UNCHANGED <<lock, shared, world, own, cleaning, seen, bounds>>

\* Record and ready status are read again before the alias is installed.
AttachAlias(p) ==
  /\ pc[p] = "attachAlias"
  /\ active = held[p]
  /\ "ready" \in files[held[p]]
  /\ alias' = held[p]
  /\ Goto(p, "release")
  /\ UNCHANGED <<lock, active, dirs, op, files, world, own, cleaning, seen, bounds>>

-----------------------------------------------------------------------------
(* The environment.                                                        *)

\* A host process is killed at any point. Windows abandons its mutex, which
\* the next waiter then obtains; a Sandbox it launched keeps running.
Crash(p) ==
  /\ pc[p] # "idle"
  /\ TakeFault
  /\ lock' = IF lock = p THEN NoProc ELSE lock
  /\ Return(p)
  /\ UNCHANGED <<shared, world, used, ups>>

\* The user closes the Sandbox, or it dies.
SandboxExits(r) ==
  /\ Live(r)
  /\ launcher' = [launcher EXCEPT ![r] = "gone"]
  /\ UNCHANGED <<lock, shared, foreign, pc, own, cleaning, seen, bounds>>

\* The recorded PID is given to an unrelated process, which later ends.
PidReused(r) ==
  /\ active = r
  /\ \/ launcher[r] = "gone" /\ launcher' = [launcher EXCEPT ![r] = "reused"]
     \/ launcher[r] = "reused" /\ launcher' = [launcher EXCEPT ![r] = "gone"]
  /\ UNCHANGED <<lock, shared, foreign, pc, own, cleaning, seen, bounds>>

\* The guest bootstrap ends with connectable.json, or with failed.json that a
\* retry in the guest console removes; it has nothing to do once connectable.
BootstrapConnects(r) ==
  /\ Live(r)
  /\ r \in dirs
  /\ files[r] = {}
  /\ files' = [files EXCEPT ![r] = {"connectable"}]
  /\ UNCHANGED <<lock, active, dirs, op, alias, world, pc, own, cleaning, seen, bounds>>

BootstrapFails(r) ==
  /\ Live(r)
  /\ r \in dirs
  /\ files[r] = {}
  /\ files' = [files EXCEPT ![r] = {"failed"}]
  /\ UNCHANGED <<lock, active, dirs, op, alias, world, pc, own, cleaning, seen, bounds>>

BootstrapRetries(r) ==
  /\ Live(r)
  /\ r \in dirs
  /\ files[r] = {"failed"}
  /\ files' = [files EXCEPT ![r] = {}]
  /\ UNCHANGED <<lock, active, dirs, op, alias, world, pc, own, cleaning, seen, bounds>>

ForeignSandbox ==
  /\ foreign' = ~foreign
  /\ UNCHANGED <<lock, shared, launcher, pc, own, cleaning, seen, bounds>>

-----------------------------------------------------------------------------
CleanupStep(p) ==
  \/ Reconcile(p) \/ ReconcileError(p) \/ Protect(p) \/ Plan(p) \/ Revalidate(p)
  \/ CleanupRefuses(p) \/ Unalias(p) \/ RemoveRun(p) \/ RunsRemoved(p) \/ Unrecord(p)

InspectStep(p) ==
  \/ Load(p) \/ Query(p) \/ Classify(p) \/ ReportStatus(p)
  \/ BusyActive(p) \/ BusyOperation(p) \/ RecheckActive(p) \/ RecheckOperation(p)
  \/ BusyReturn(p)

UpStep(p) ==
  \/ DecideUp(p) \/ Retain(p) \/ Census(p) \/ PrepareRun(p) \/ LaunchSandbox(p)
  \/ IdentifyLauncher(p) \/ RecordActive(p) \/ RecordFails(p) \/ StartOperation(p)
  \/ WaitForConnectable(p) \/ VerifySSH(p) \/ InstallAlias(p) \/ ProvisionGuest(p)
  \/ PublishReady(p) \/ ProvisioningFails(p) \/ FinishOperation(p)

DownStep(p) ==
  \/ SelectActive(p) \/ CaptureTailscale(p) \/ StopOwned(p) \/ Leftover(p) \/ ForgetActive(p)

AttachStep(p) == DecideAttach(p) \/ VerifyGuestHerdr(p) \/ AttachAlias(p)

\* A step of a running command.
HostStep(p) ==
  \/ AcquireLock(p) \/ LockTimeout(p) \/ Release(p) \/ Abort(p) \/ Refuse(p)
  \/ CleanupStep(p) \/ InspectStep(p) \/ UpStep(p) \/ DownStep(p) \/ AttachStep(p)

Fault(p) == Crash(p) \/ CleanupFault(p) \/ FinishFails(p)

GuestStep(r) ==
  SandboxExits(r) \/ PidReused(r) \/ BootstrapConnects(r) \/ BootstrapFails(r) \/ BootstrapRetries(r)

Next ==
  \/ \E p \in Proc : (\E c \in Commands : Begin(p, c)) \/ HostStep(p) \/ Fault(p)
  \/ \E r \in Run : GuestStep(r)
  \/ ForeignSandbox

Spec == Init /\ [][Next]_vars

(* Fairness: a command at work goes on (every wait of the code has a       *)
(* deadline), the mutex is handed out to waiters again and again, and the  *)
(* user follows the advice `status` prints for a stale session: run it     *)
(* again.                                                                  *)
Fairness ==
  \A p \in Proc :
    /\ WF_vars(HostStep(p))
    /\ SF_vars(AcquireLock(p))
    /\ SF_vars(Begin(p, "status"))

FairSpec == Spec /\ Fairness

-----------------------------------------------------------------------------
(* Safety.                                                                 *)

\* However commands, crashes and Sandbox exits interleave, the host never has
\* two Sandboxes of its own running: `up` launches only after a census under
\* the mutex (ensureNoRunningSandbox, inspectSessionAt).
OneOwnedSandbox == \A r, s \in Run : Live(r) /\ Live(s) => r = s

\* Cleanup never deletes the run directory (guest mappings, keys, status) of
\* a Sandbox that is still running, recorded or not.
LiveRunKept == \A r \in Run : Live(r) => r \in dirs

\* Unless a host process is killed, a Sandbox that runs is recorded, or is
\* just being recorded: `up` terminates what it could not record.
LiveIsRecorded ==
  faults = 0 =>
    \A r \in Run : Live(r) =>
      active = r \/ \E p \in Proc : pc[p] \in {"identify", "record"} /\ held[p] = r

\* While an `up` provisions, operation.json of its run is its own running
\* operation: the mutex is what makes it sound that whoever else gets it
\* marks a running operation as interrupted.
ProvisionerOwnsOperation ==
  \A p \in Proc : pc[p] \in Provisioning =>
    op[held[p]] = [id |-> opid[p], state |-> "running"]

\* While an `up` provisions a run, that run is the recorded one and nobody
\* cleans it up or replaces it, even if its Sandbox ends meanwhile.
ProvisionsActiveRun ==
  \A p \in Proc : pc[p] \in Provisioning => held[p] = active /\ held[p] \in dirs

\* A Sandbox that reports ready is the one `herdr --remote sandbox` reaches:
\* the managed SSH alias is in place before ready.json, and stays until the
\* Sandbox ends.
ReadyAliasCurrent ==
  active # NoRun =>
    ("ready" \in files[active] /\ Live(active) => alias = active)

\* A busy status report mixes no two moments: the run and the operation it
\* was classified by are the ones it names, still running when it is printed.
BusyReportConsistent ==
  \A p \in Proc : pc[p] = "report" => seenRun[p] = held[p] /\ seenOp[p] = opid[p]

\* Without crashes and I/O errors, whenever no command holds the mutex the
\* record names a run whose directory exists. Every later command depends on
\* that: reconciliation fails on a missing directory.
RecordNamesItsRun ==
  faults = 0 /\ lock = NoProc /\ active # NoRun => active \in dirs

\* Without crashes and I/O errors, active.json is right whatever commands run
\* against each other: it names the Sandbox that runs, and a run that is there.
RecordIsRight == LiveIsRecorded /\ RecordNamesItsRun

\* Without crashes and I/O errors, an `up` that started an operation has
\* published its terminal outcome by the time it gives up the mutex, on every
\* error path.
OutcomePublished ==
  faults = 0 /\ lock = NoProc => \A r \in Run : op[r].state # "running"

-----------------------------------------------------------------------------
(* The inductive invariant: what each step of a command relies on.         *)

NoneLive == \A r \in Run : ~Live(r)

\* Steps that change shared state are taken by the holder of the mutex.
Mutex(p) == pc[p] \in Locked => lock = p

\* What inspectSessionAt found still holds while its caller has the mutex.
Inspects(p) ==
  /\ lock = p /\ pc[p] \in {"query", "classify", "decide"} => seenRun[p] = active
  /\ pc[p] = "classify" => seenRun[p] # NoRun /\ seenState[p] \in {"live", "stale"}
  /\ pc[p] = "decide" /\ seenState[p] = "stopped" => seenRun[p] = NoRun

\* A launch starts from nothing: no record, no Sandbox, a directory of its own.
Launches(p) ==
  /\ pc[p] \in Launching => active = NoRun
  /\ pc[p] \in {"recensus", "launch", "identify", "record"} =>
       held[p] \in dirs /\ "ready" \notin files[held[p]]
  /\ pc[p] \in {"recensus", "launch"} => launcher[held[p]] = "none"
  /\ pc[p] = "launch" => NoneLive
  /\ pc[p] \in {"identify", "record"} => launcher[held[p]] \in {"live", "gone"}

\* Provisioning works on the recorded run, under its own running operation.
Provisions(p) ==
  /\ pc[p] = "begin" => held[p] = active /\ held[p] # NoRun
  /\ pc[p] \in Provisioning =>
       /\ held[p] = active
       /\ held[p] \in dirs
       /\ op[held[p]] = [id |-> opid[p], state |-> "running"]
  /\ pc[p] \in {"develop", "publish", "complete"} => alias = held[p]

\* Cleanup removes only what it proved to be unused, and its proof stays true.
Cleans(p) ==
  /\ pc[p] \in {"plan", "revalidate", "unalias", "remove", "unrecord"} =>
       held[p] = active /\ (gone[p] => SandboxGone)
  /\ pc[p] \in {"revalidate", "unalias", "remove"} =>
       gone[p] \/ held[p] \notin todo[p]
  /\ pc[p] \in {"unalias", "remove", "unrecord"} => \A r \in Run : Live(r) => r = active
  /\ pc[p] \in {"unalias", "unrecord"} => gone[p]
  /\ pc[p] = "unrecord" => held[p] # NoRun

\* `down` forgets the recorded Sandbox only after it has ended.
Stops(p) ==
  /\ pc[p] \in Stopping \ {"select"} => held[p] = active /\ held[p] # NoRun
  /\ pc[p] \in {"leftover", "forget"} => ~Live(held[p])

ProcessInv(p) ==
  /\ Mutex(p)
  /\ Inspects(p)
  /\ Launches(p)
  /\ Provisions(p)
  /\ Cleans(p)
  /\ Stops(p)

\* What is on disk or running belongs to a run ID that was drawn.
DrawnRuns ==
  /\ dirs \subseteq used
  /\ active \in used \cup {NoRun}
  /\ \A r \in Run : launcher[r] # "none" => r \in used
  /\ \A r \in Run : files[r] # {} => r \in used

\* The record names a Sandbox that was launched.
RecordLaunched == active # NoRun => launcher[active] # "none"

IInv ==
  /\ TypeOK
  /\ DrawnRuns
  /\ RecordLaunched
  /\ OneOwnedSandbox
  /\ LiveRunKept
  /\ ReadyAliasCurrent
  /\ \A p \in Proc : ProcessInv(p)

-----------------------------------------------------------------------------
(* Action and temporal properties.                                         *)

Terminal == {"succeeded", "failed", "interrupted"}

\* The terminal outcome of an operation is final: neither a late finish nor
\* the reconciliation of a later command rewrites it.
TerminalOutcomeFinal ==
  [][\A r \in Run : op[r].state \in Terminal /\ op'[r].id = op[r].id => op'[r] = op[r]]_vars

\* The lifecycle implements its ownership promise: one Sandbox at a time, and
\* a record that is never dropped or overwritten while its Sandbox runs.
Ownership == INSTANCE SandboxOwnership WITH record <- active

OwnershipKept == Ownership!Spec

\* No command keeps the mutex forever.
LockFreed == \A p \in Proc : lock = p ~> lock # p

Stale == active # NoRun /\ ~Live(active)

Quiet == ~foreign /\ \A r \in Run : launcher[r] # "reused"

\* Once the recorded Sandbox has ended and nothing else looks like one,
\* repeating `status` gets rid of the stale record ("Run `sandbox status`
\* again to retry bounded stale-state cleanup.").
StaleCleared == <>[]Quiet => (Stale ~> ~Stale)
=============================================================================
