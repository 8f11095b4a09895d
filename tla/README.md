# herdr-sandbox: verification project

`herdr-sandbox` is a Windows command-line program. It launches one Windows
Sandbox, provisions it over SSH, keeps it reachable by an SSH alias, and clears
what a closed or crashed Sandbox leaves behind. Several of its commands may run
at once (terminals, agents, an installer), the Sandbox may be closed by its user
at any moment, and any command may be killed; the files below the data root and
one named mutex are all that they share. This directory holds TLA+ modules
translated from the source, the TLC instances that check them, and proofs that
TLAPS checks.

## 1. The parts of the system

| Part | State it keeps | Operations | What makes it correct |
|---|---|---|---|
| Lifecycle commands (`lifecycle.go`, `session.go`) | `active.json`, `runs/<run>` | `Up`, `Down`, `InspectSession`, `CleanupStaleState` | one owned Sandbox; never remove the run of a live one; end only what is owned |
| Lifecycle mutex (`lifecycle_lock_windows.go`) | a named mutex of the logon session | acquire with a bound, release, abandonment | its holder survives any crash of the previous one |
| Operation record (`operation.go`) | `runs/<run>/operation.json` | start, update, finish, interrupt, read | an outcome is published and is final |
| Session status (`session_status.go`) | none; reads the others | inspect, inspect while busy, reconcile | a busy report never mixes two operations |
| Ready connection, attach (`ready_connection.go`) | `ready.json` | read, verify, repair the alias | attaches to the Sandbox it verified |
| Provisioning (`reprovision.go`, `provisioning.go`) | `connectable.json`, `ready.json`, snapshots | provision or resume a run | works on the active run under the mutex |
| Progress observer (`progress_observer.go`) | `progress.json` of the guest | a goroutine beside the provisioning | no update after the outcome |
| SSH alias (`connection.go`) | the managed SSH file, an Include in the user's | install, verify, remove | the alias names the ready Sandbox; user edits survive |
| Process inspection (`process_inspection.go`, `inspect-processes.ps1`) | none | census of Sandbox processes | uncertain answers are errors, never "none" |
| Guest bootstrap (`bootstrap.ps1`) | status directory shared with the host | publish connection, error | publishes once it can be reached |
| Tailscale identity (`tailscale.go`, `tailscale_identity.go`) | a DPAPI file | prepare, capture, recover before `down` | an identity is not lost, nor replaced by another |
| SSH archive transport (`ssh_archive.go`, `provisioning-process.cs`) | a child process and its stdin lease | send, wait, cancel | guest work ends when the host goes |
| Mapped folders (`provisioning.go`, `session.go`) | the folders of a run's `.wsb` | resolve, make, validate, write, launch, resume | disjoint, and nothing private in them, although directories change |
| Configuration sync (`configuration_sync.go`, `.ps1`) | Herdr's file and the GitHub accounts (`hosts.yml`) of the guest | read, export, archive, copy, import, verify | the guest's edits survive; the accounts sent are in the guest under the logins their tokens answer to |
| Host Herdr (`host_herdr.go`, `reprovision.go`) | the guest's runtime and its identity in `ready.json` | inspect, deploy, verify, inspect again | the guest runs what the host had all along |
| Configuration repositories (`host_configuration.go`) | Git working trees | pull, reload, pull | pulls what the reloaded configuration selects |
| Speech bundle (`voxcpm2.go`) | archives, models, two records | fetch, admit, publish | the current release is a whole one |
| Visual Studio layout (`visual-studio-layout.ps1`) | layout slots | download, publish | a crash leaves the old or the new one |
| Workstation setup (`workstation*.go`, `.ps1`) | `steps.json`, reports, selection, imported settings | jobs in a dependency graph | a success is never claimed for what is not installed |
| Uninstall, installer (`uninstall.go`, `packaging/`) | handles of the directories to go | plan, remove, repeat | no directory of the user goes |
| Hidden processes (`hiddenprocess`) | a job object | start, wait, cancel | no orphan, no ending mistaken for another |
| Tool versions, packages (`project_plan.go`, `winget_packages.go`) | none | merge, remove, add, validate | refuses exactly what is contradictory |

How they interact. `cli/run.go` dispatches a command; each one about the Sandbox takes the
mutex and cleans up stale state before anything else, `up` and `down` under an
acquisition of its own. `Up` prepares a run directory, launches Windows
Sandbox, records it in `active.json` and hands it to the provisioning, which
talks to the guest through status files and SSH, publishes phases into
`operation.json` and finally `ready.json`. `status` and `attach` wait for the
mutex only a short time and otherwise report, from the files alone, what its holder is
doing. `attach` reads `active.json` and `ready.json`, talks to the guest, and reads both
again before it repairs the alias. The parts below the provisioning (SSH configuration, synchronization, bundle,
archive transport, hidden processes) are called by it one after the other and share no
state with each other, which is why each is a module of its own here; they
share state with somebody else: the user, the guest, another program, or their own
earlier call that died.

What is hard. Commands interleave between the acquisition of the mutex and
their last write, except where the mutex excludes it; `status` and `attach` work
beside it. A command may die between any two writes and the mutex is then
abandoned, not lost. The census of processes is stale as soon as it returns:
the user closes a Sandbox, another product starts one, Windows reuses a process
id. A guest may never answer. `PROJECT.json` lists these hazards, each at its
line.

## 2. Modules

| Module | Models |
|---|---|
| `SandboxOwnership` | what the host promises about Sandboxes: launched one at a time, recorded, ended only by their owner, forgotten only once not live |
| `SandboxLifecycle` | the commands, the mutex, the files, the launcher, the guest and the environment |
| `MCSandboxLifecycle` | its instances for TLC |
| `SandboxLifecycleProofs` | the proofs about `SandboxLifecycle`, and that it implements `SandboxOwnership` |
| `SandboxOutcomeProofs` | further proofs: operations, reports, and the record while nothing fails |
| `TailscaleGuest` | the Tailscale client in the guest and the scripts the host runs there |
| `TailscaleIdentity` | the identity `up` enrolls, restores and stores and `down` captures; extends `TailscaleGuest` |
| `MCTailscaleIdentity` | its instances for TLC |
| `TailscaleIdentityProofs` | the proofs about `TailscaleIdentity` |
| `SerialApply` | what the archive transport promises: archives are applied one at a time, and only an applied one is reported |
| `ArchiveReceiver` | the guest's receiver: input, mutex, staging directory, launcher and Job Object, cleanup |
| `ArchiveTransport` | the host's operation and its progress observer; extends `ArchiveReceiver` |
| `ArchiveTransportProofs` | the proofs about `ArchiveTransport`, and that it implements `SerialApply` |
| `ProcessGroup` | two native installers that run side by side during provisioning |
| `ProcessGroupProofs` | the proofs about `ProcessGroup` |
| `HiddenCommand` | one noninteractive command of the host, its process tree and the goroutines that end it |
| `HiddenCommandProofs` | the proofs about `HiddenCommand` |
| `MCProcesses` | the instances for TLC of the three modules above that own process trees |
| `WorkstationSetup` | `sandbox workstation setup`: the command, the elevated script and its jobs |
| `WorkstationSetupProofs` | the proofs about `WorkstationSetup` |
| `FolderMappings` | the host directories a Sandbox gets |
| `InstallerCleanup` | the directories the uninstaller removes; extends `FolderMappings` |
| `ModelBundle` | the speech bundle in the shared models directory |
| `UserSSHConfig` | the block in the user's `~/.ssh/config` |
| `ConfigurationSync` | one synchronization into the guest, and its retries |
| `HostHerdr` | the Herdr runtime `up` brings into the guest |
| `HostConfigurationPull` | the pull of the configuration repositories |
| `ToolPlan` | the merged version of one tool |
| `PackagePlan` | the packages of Base |
| `HostConfigurationProofs` | the proofs about the last nine |
| `MCHostConfiguration` | the instances for TLC of `WorkstationSetup` and the nine parts after it |

### SandboxLifecycle

A member of `Proc` is a host process; `pc[p]` is the step of the command `cmd[p]`
it is at, one label for each point between two calls that read or write shared
state. A member of `Run` is a run ID. The shared variables are the mutex (`lock`),
`active.json` (`active`), the run directories (`dirs`), the operation and status
files of each run (`op`, `files`), and the managed SSH alias (`alias`). The world
is `launcher`, the state of each run's launcher process (`none`, `live`, `gone`, `reused`: its process id belongs to another
process), and `foreign`, an unrelated Sandbox.

Actions follow the order of the code:

- `Begin`, `AcquireLock`, `LockTimeout`, `Release` (`run.go`,
  `lifecycle_lock_windows.go`): `status` and `attach` fall back to a busy report,
  every other command gives up. A holder that dies leaves the mutex obtainable
  (`WAIT_ABANDONED`).
- `Reconcile`, then `Load`, `Query`, `Classify`: a running operation nobody can
  own is interrupted, then the session is classified from record, processes and status
  files. The write of the interrupted outcome may fail (`ReconcileError`). An operation that cannot be read
  is a warning and counts as none, as for a run whose directory is gone. `BusyActive`, `BusyOperation`, `RecheckActive`, `RecheckOperation` are the reads
  around the same classification without the mutex.
- `Plan`, `Revalidate`, `RemoveRun`, `Unrecord` and the failures of each
  (`cleanupStaleStateWithInspector`): the plan, the second look, the removal of the
  alias, of each run directory and of the record, in this order.
- `DecideUp`, `Retain`, `Census`, `PrepareRun`, `LaunchSandbox`, `IdentifyLauncher`, `RecordActive` and
  `RecordFails` (`Up`).
- `StartOperation` to `FinishOperation` (`reprovision.go`): preparation,
  connection, alias, guest provisioning, `ready.json`, outcome, and the errors.
- `SelectActive`, `StopOwned`, `ForgetActive` (`Down`), `DecideAttach` and its
  successors (`attach`).
- `Crash`, `SandboxExits`, `PidReused`, `ForeignSandbox` and the guest's
  `Bootstrap*` steps.

Abstractions, each of which adds behaviour or hides data that no property
reads:

- The sequence of reads that classifies a session under the mutex is one step:
  only the holder writes those files, except the bootstrap, whose file is
  read once.
- Preparing a snapshot and what the guest does during provisioning are one step
  that succeeds, fails or never answers. `failed` stands for failed, cancelled
  and timed out. A failed development setup still publishes `ready.json`, as in
  the code.
- `down`'s capture of a Tailscale identity is a nondeterministic refusal.
- File contents are the run or operation they name; a malformed file is a read
  that fails.
- An uncertain census (two Sandbox processes, or access denied) is a
  nondeterministic error where the code can meet one.

### TailscaleGuest and TailscaleIdentity

Herdr Sandbox keeps one tailnet device for a user across Sandboxes that are
thrown away. `stored` is the protected file on the host, `guest` the client in the
Sandbox that runs now: its Windows user, whether it is installed, whether its
service runs, whether its state file is portable plaintext, and whose keys that
file holds. A device (`Node`) stands for node ID, node key, address and names,
which `verifyStableTailscaleIdentity` compares together.

A script of the host in the guest is a sequence of steps (`script`), translated from
`tailscale-apply.ps1` and `tailscale-lifecycle.ps1`: stop, write or read, start,
identify, confirm. An error is carried over a `finally` block (`thrown`). `CutOff` ends
a script at any step, `ClientWrites` lets a running client change its state
between any two, `IdentityChanges` lets the tailnet give it another device.

The host is `pc`: the phases of one `up` (`provisionSession`) or the steps of one
`down` (`downAtWithExecutable`). `operation.json` is `op`; its phase decides whether a
failed Sandbox is captured (`PrecedesIdentity`), its message tells a rejected
enrollment (a script that ends `rejected`) from every other failure. One command runs at a time:
that the mutex sees to it is `SandboxLifecycle`'s subject. `Crash` kills it at any
step.

Abstractions:

- Only Sandboxes that opted in are modelled; the choice is fixed per Sandbox
  (`retainedRunPlan` refuses a changed one).
- A lost connection ends the script in the guest, at any step: sshd is external.
- Starting the service always works; a start that fails is a step at which the
  connection is lost.
- Phases between two modelled ones (layout, credentials, Herdr runtime, mobile
  endpoint) are part of their neighbour: they leave the identity and `ready.json`
  alone, and `PrecedesIdentity` treats them alike.
- A process that no longer matches the record, and the removal of the
  record, are `SandboxLifecycle`'s; here `down` may simply refuse (`EndFails`).
- Whether a second `up` has an auth key is the user's choice.

### ArchiveReceiver and ArchiveTransport

A member of `Attempt` is one call of `runSSHArchivePowerShellWithDiagnostics`: an
attempt ID, an SSH command, and in the guest the PowerShell that
`buildSSHArchiveTransportCommand` starts. Attempts of one host follow each other,
under the lifecycle mutex; a host that gave up, lost its connection or died leaves
a receiver that may still run when the next one arrives, so receivers overlap.

`ArchiveReceiver` is the script of the guest, `receiver[a]`: it stores the frames
(`receiving`), waits for the named mutex (`waiting`), looks for other attempts'
directories (`checking`), starts the launcher in a Job Object and waits for its end
or for the end of its input (`leased`, `stopping`), removes its directory
(`cleanup`) and lets go of the mutex (`releasing`). `tree[a]` is the launcher
(`root`), or what it leaves behind (`tail`); `killed` holds the jobs that
were terminated or closed, whose processes end later. `outcome[a]` is what the
script will say: `ok`, `failed`, `refused` before a launch, or `unfinished` when its
wait for the end of the processes failed.

`ArchiveTransport` adds the host: `lease[a]`, the pipe on the receiver's input,
closed by the cancellation; `GiveUp` after the cleanup budget of forty seconds; the
classification of what SSH returned; and, for the attempts that provision
(`Observed`), the goroutine of `runWithRetainedProgress`, which updates the operation
record and whose end `Return` waits for.

Facts about Windows the modules rest on: a process that runs keeps its working
directory and its redirected input from being deleted; terminating or closing a job
ends its processes some time later; a named mutex exists while a handle of it does,
and a waiter is told that its owner died.

Abstractions: time is nondeterministic, each deadline an action that may happen at
any step at which the code waits with that deadline; frames arrive or do
not, and a digest that differs is a failed reception; the launcher's script applies
the archive when it exits with 0; progress is counted, not named.

### SerialApply

A launch begins when nothing is being applied, ends with or without effect, and
only what took effect is reported. `ArchiveTransport` implements it under
`started <- launched`, `active <- launchers that run`, `reported <- host reports
success`. The mapping says nothing of descendants; `OneLauncher` does.

### ProcessGroup

`ProvisioningProcessGroup` runs two installers, each in a Job Object of its own. `pc`
is the thread of the script in `Start`, `Complete` (`waiting`, `stopping`, `draining`),
`Stop` and `Dispose`. A thread per task waits for the end of the job's last process
and then makes the result from two flags that the script's thread sets;
`SeesEnd` reads the first, `Completes` the second. A failed termination unwinds
`Complete` to its `finally` (`failure = "thrown"`), a failed thread is kept for the end
(`met`).

### HiddenCommand

`root` and `descendant` are the process tree, `assigned` and `job` its Job Object.
`starter` is the thread that calls `Start` and then `Wait`, `watcher` the goroutine that waits
for the context, `reader` the `select` of `CombinedOutput`. Three of them may end the
tree; `terminateOnce` is the `sync.Once` they meet at. Every native call may fail (`Breaks`);
`StartSuspended` to `Publish` are the start, `Rollback*` its way back. The output is whether
it exceeds its bound; the context whether it is cancelled.

### WorkstationSetup

`machine[j]` is what the last action of job `j` left, `saved` is `steps.json`, `marker` the owner
of the state root, `report` and `html` what the user is shown. The host command is `setup`, the
elevated script `script` with the job `at` which it is; a job goes through
`Invoke-ProvisioningIndependentStep`: blocked, retained because its fingerprint is the saved one,
or invalidated, run, and saved again. A fingerprint is what the job was asked for and the
fingerprints of the jobs it requires. `SetupDies` kills the command, and with its job object
the script and its action, at any step; `DiskChanges` damages the saved steps or edits the imported file;
every write may fail, or be torn where the code writes in place. An action
installs what it is asked for on top of what its required jobs left, or something else
when it fails. One setup at a time: a mutex named after the state root sees to that.

### FolderMappings and InstallerCleanup

A directory is a sequence of names, the first of which is a drive letter. `Alias` gives the first
letter of a volume for each second one, and `Direct` writes a name with it. `junction` says which
directories are junctions, and to what; any of `Moves` can become one, or stop to be one, between any two
steps (`DirectoriesChange`). `Physical` is what Windows resolves a name to (`physicalMappedDirectory`):
`Follow` replaces the outermost junction in it, as often as needed. `Plain` is the code's walk
upwards that refuses every reparse point, `Canonical` also asks for the directory. `Resolve` makes
the plan of a configuration, `MakeDirectories` makes the run's own directories and looks at the names of
all, `ValidateMappings` opens them and compares what they are, `WriteConfiguration` is the snapshot, the
inspections and the `.wsb`, and `LaunchMapped` the second census and the launch, when Windows looks the names
up once more. `Resume` compares a running Sandbox with the configuration as it is then and maps nothing; the
checks are made on names or on identities exactly where the code makes them so.

Nothing looks at the directories again between `ValidateMappings` (`session.go:533`) and the launch (`session.go:304`).
A directory that becomes a junction in between is mapped as what it is by then, two folders may overlap and one may
show the guest a key: TLC reaches such states. `unproven` records that this may have happened, and `FoldersAreSafe`
promises nothing then, until an `up` that resumes the Sandbox finds the same folders, each where it was
mapped, in order. What Windows maps of a name, and that it keeps it while the Sandbox runs, is outside the
source. Nobody is taken to make junctions of a run's own new directories (`RunAssumption`): only the pairs of
folders are compared there, not the identity.

`InstallerCleanup` takes the same directories: `BeginCleanup` finds the roots and what the user keeps and
compares them (`compared` are the roots that existed then, which is decided by `Lstat`: a junction exists although
what it leads to may not), `PlanRoots` opens the parents, `ValidateRoot` and `RemoveRoot` walk and remove through those
handles. Removal takes a junction and leaves what it leads to; `gone` is what was removed and for which root.
`hindered` says that files in use, a junction in a tree or a changed directory were in the way; `StopCleanup` is the
deadline of fifteen seconds.

Two things that the comparison cannot see are excepted from `PreservedSurvives` and follow from the code: a root that did
not exist when it was compared and appears before it is planned, and the parent of the default cache, which is removed
when it is empty without being compared with anything.

Both leave out the parsing of configuration files, and name a configured workspace after its
directory.

### ModelBundle

`archive`, `model`, `completion` and `current` are the files of the shared directory, each with the
release whose bytes it has, whole or part. A preparation fetches or copies the archive, admits or
downloads the models, and publishes the completion record and the descriptor; it may end at any
step (`PreparationEnds`), and upstream or the configuration may select another release
between two preparations. Releases may share model sizes; the sizes are constants.

### UserSSHConfig

`file` is the user's file as a sequence of lines, `managed` the file it includes. `up` and `attach`
read, compare when the new file is on the disk, rename, and try again after a change; the uninstaller
compares twice and does not try again. The user edits at any step (`Edit`). `late` holds lines written
after the last comparison: the code cannot see those, and `UsersFileKept` says so.

### ConfigurationSync

`store`, `active` and `shell` are the host user's, `guestHerdr`, `guestStore` and `currentLogin` the guest's. The
export reads one login after the other, then the archive is made, applied and the
guest's report compared. With credential synchronization of the GitHub CLI the archive also holds the host's `hosts.yml`
as it is when the archive is made (`HostsFile`): the recorded logins, each with the token when that is in the file and
without it when it is in a keyring (`InFile`). `CopyHosts` puts it in the place of the guest's, accounts and all, before
`Import` logs each exported account in and `Present` looks at the result. The property is about what is left after that
check: `hosts.yml` may have brought other logins and tokens, and they stay. Logins that the guest's user keeps in the
guest's keyring are left out. Users of both sides act at any step. `lateEdit` marks an edit between the comparison
of the digest and the replacement. Only the part of the archive that merges with what
the guest has is modelled; the other files are overwritten.

### HostHerdr

The host's `command`, `exe` and `conpty` (`herdrHost`) are updated one after the other by another program; an
inspection reads them in the order of the code (`Reads`). `up` inspects, enters a new, unready or ready
guest, lets Herdr deploy itself file by file, verifies the server it meets, installs the
integration, and inspects again. Versions only grow.

### HostConfigurationPull, ToolPlan, PackagePlan

Bounded pure algorithms and one short protocol, each against a definition that does not follow the
code: `PullFollowsReload` says which repositories had to be pulled; `ResultIsAgreed` what the
requirements of all projects mean together, independent of their order; `PlanIsWanted` which
configurations of packages are acceptable. `.git` directories are repositories: two configured
directories can have one. Pinned package versions are left out.

### SandboxOwnership

Its state is the launcher of each run and the record. `Launch` requires that no
owned Sandbox lives, `Record` names a Sandbox just launched, `End` needs either
the record or the launch itself, `Forget` needs the recorded Sandbox not to live.
It says nothing of mutex, files, commands or crashes. `SandboxLifecycle`
implements it under the mapping `record <- active`; the `launcher` is the same
variable.

## 3. Runs

| Run | Instance | Shows |
|---|---|---|
| `lifecycle_crashes` | one process after another, two runs, all commands, two faults | the inductive invariant (which contains `LiveRunKept` and the rest), the finality of outcomes and the refinement, with a crash or I/O error at every step, twice |
| `lifecycle_races` | two processes, two runs, `up`/`down`/`clean` | the mutex protocol: one Sandbox, recorded in a directory that exists, operated on by its holder only, outcomes published |
| `lifecycle_contention` | two processes, all five commands, one run, two `up`s | ready and alias agree, whatever `attach` and `status` do beside it; a report made without the mutex never mixes two operations |
| `lifecycle_progress` | two processes, `up` and `status`, fair | the mutex is always released; stale state is cleared |
| `lifecycle_wedged` | one process, `up` and `status`, one fault, fair | the first finding below: expected to violate `StaleCleared` |
| `tailscale_faults` | two devices, two Windows users, two kills or lost connections, one changed identity | the stored identity stays one device's and one user's; a ready Sandbox is stored; `down` ends it with its last state; a failed `down` leaves the client running |
| `tailscale_lost` | two devices, no faults | the second finding: expected to violate `EnrolledKept` |
| `tailscale_overwritten` | one device, one kill | the third finding: expected to violate `StoredRestores` |
| `tailscale_rejected` | one device, no faults | the fourth finding: a rejected enrollment, then a `down` refused because of its capture; expected to violate `UnenrolledEnds` |
| `processes_faults` | two observed archive attempts, two installers, one hidden command, two faults each | one launcher at a time; success means applied, ended and cleaned up; no update after the outcome; the refinement of `SerialApply`; no installer escapes and results agree with the jobs; a command's tree is contained and its ending told right |
| `processes_progress` | the same, one fault each, fair | the end of the lease ends the guest's work; a cancelled transfer returns; one installer's failure ends the other; a cancelled or overflowing command returns |
| `host_configuration` | ten parts, bounds below | what a setup claims is installed; folders are safe; the user's directories and SSH lines survive; the bundle is whole; accounts and edits survive a synchronization; ready means the host's Herdr; pulls, versions and packages are what was asked for |

`MCProcesses` and `MCHostConfiguration` hold several components that share no state. Their variable `part`
is drawn at the start and says which of them runs; the others stay in one initial state. A
behaviour of such an instance is a behaviour of one component, so nothing is checked less than in
a run of its own, and no property of one is helped by another.

The type invariants, and the inductive invariants of all components but the first, are not
part of a run: section 5 proves them. TLC has checked each one on the instance of its component before it was proved.

Bounds. Two processes suffice for every race of the lifecycle: one holds the mutex and the
other waits or reads beside it; a third can only wait. Two runs let a command
launch a second Sandbox while something of the first is left; a run ID
is never drawn twice (`used`). `MaxUps` bounds the number of `up` commands, without
which runs would be used up at once; `MaxFaults` the crashes and the I/O errors of a
cleanup. Two faults let a crash hit the recovery from a crash. A run left
permanently without a next step has used its `MaxUps`; other commands remain
possible, so deadlock is checked.

Of `TailscaleIdentity`: two devices and two Windows users are one that is expected
and one that is not. `MaxVersion` bounds the rewrites of a client's state: one tells
a stale capture from a current one. `MaxFaults` 2 allows a kill of the command that
recovers from a kill. Nothing bounds how many Sandboxes are launched.

Of `MCProcesses`: two attempts are one whose receiver was left behind and one that meets
it; attempt IDs are random and never repeat. What three or more do is covered by the
proofs. A fault is a dead receiver or host, a lost connection, a
directory that cannot be removed, or a cleanup past its limit; deadlines are no
faults and are not bounded. Two tasks are what `Start-ProvisioningNativeGroup`
insists on; a fault hits a group while it handles a failure or a timeout, which are no
faults. Of a hidden command two native calls may fail: the one that ends the tree, and its
fallback. Once all attempts are used the system stops, and groups and commands end, so deadlock
is not checked.

Of `MCHostConfiguration`. Setup: two jobs of which one requires the other, whose wish changes, two setups
and one mishap: the second setup meets what the first one left. Mappings: fifteen
directories with a profile, keys, the data root, two projects and a second drive letter, eight
configurations chosen for their near misses, two changes among four directories that may become junctions
(`MovedInMappings`). Cleanup: the same directories, four configurations, two changes among three directories
(`MovedInCleanup`: a cache, the parent of one, and the temporary directory), two cleanups. Bundle: two public releases and a local one, three preparations, one interrupted.
SSH: files of up to one user line and a block, three edits around two commands. Synchronization:
two logins of two accounts, one with its token in `hosts.yml` and one in a keyring, a guest with no login or one, two
values of the guest user's setting, two changes on the host, one in the guest, one fault. Herdr: two
releases, two `up`s, one fault. Pull: two configured directories and Sandbox's own, one pull. Plans:
every pair of requirements and every two removals and additions. Each part comes to an end, so
deadlock is not checked.

Fairness of `SandboxLifecycle` (`FairSpec`). Every step of a started command is weakly fair: each has
a deadline in the code, `up` one of four hours by default (`ARCHITECTURE.md`), the
waits for the guest and for the mutex their own. Starting a `status` is strongly
fair per process: the program tells its user to run it, and without repeated commands
nothing would clear anything. Obtaining the mutex is strongly fair: Windows hands it to its
waiters in turn. No fairness is given to the environment: the guest
may stay silent, the user may never close a Sandbox. `StaleCleared` assumes that
unrelated Sandboxes end and that no process id stays reused, since the program
must refuse to clean up while it cannot tell.

Fairness of `FairProcesses`. In `ArchiveTransport` the host's timers, goroutines and its
`Return` run, the receiver's script takes one of its steps (each wait of it has a deadline),
and Windows ends the processes of a terminated job; no launcher is
assumed to exit by itself, no user to cancel. In `ProcessGroup` the script goes on up to the
tasks' deadlines, the threads see an empty job, and killed processes end. In `HiddenCommand` the
goroutines run; the processes need not end and the context need not be cancelled, and
`CommandEnds` asks for an end only of a command that is cancelled or writes too much.

Why these properties. `BusyReportConsistent` relates three reads made at three
moments. `ReadyAliasCurrent` relates two files that are written by different commands
and removed by a third. `TerminalOutcomeFinal` compares a record with its past.
`OneOwnedSandbox`, `RecordIsRight` and the parts of `IInv` relate processes to files
through crashes at every label. `IdentityStable` compares the file before
and after every store, through every mixture of failed enrollments, restorations and
captures. `ReadyStateKept` relates the host's file to the guest's state at the
moment the guest is thrown away. `ServiceRestarted` is about the one thing a
capture breaks on purpose and must repair on every way out. `OneLauncher` and
`SuccessIsComplete` relate the guest's mutex, directories and processes to a host that may
be gone; `NoLateUpdate` depends on a join of two goroutines. `ResultsAreTrue`
compares results made by one thread with decisions of another. `TreeContained` and `EndingIsReported` depend on
the order in which three goroutines meet at one `sync.Once`, one process and one handle, with calls that
fail. `EvidenceIsInstalled` relates a file to a machine that nobody inspects again; `ReportIsTrue` relates a
report, an exit code and both of them, after a profile changed and a setup died. `FoldersAreSafe`
and `PreservedSurvives` are about names that mean something else at the second look;
`LeftoversAreRemoved` about a cleanup that follows one that stopped. `GuestEditsKept`, `UsersFileKept`
and `AccountsAreTheTokens` are about a user who acts between a read and the write that depends on it,
`ReadyIsTheHosts` about another program that does.

`OneLauncher` has an exception because the code has it: when the processes of a job outlast the
thirty seconds of its cleanup, the receiver reports a failure, removes what it can and
releases the mutex, and a later launcher may run beside them until Windows ends them. `UsersFileKept` and
`GuestEditsKept` except the moment between the last comparison and the rename, which no
program can close without a lock that the other side respects. `CurrentIsWhole` speaks of the
archive at any time, and of the sizes of the models when a preparation has just ended well; it does not speak of
their contents: see the observation about models below. `FoldersAreSafe` excepts a change between
the validation and the launch, as said above.

The documents promise these properties: `ARCHITECTURE.md` that the uninstaller removes only what is
safely the product's (line 337), how the SSH include is written (252 to 254), that the host's Herdr identity
is verified again before ready (173, and `PRODUCT.md` line 93), and that a bundle is bound to its release (307).

## 4. Findings

`lifecycle_wedged`. `cleanupStaleStateWithInspector` removes inactive run
directories, then `active.json`. When it dies between the two, or the removal of
the record fails, `active.json` names a run without directory. From then on
every command that looks at the session first reads the operation of that
run, and `readSessionOperation` reports the missing directory as an error
before cleanup can remove the record: `status`, `up`, `down` and `clean` all fail
until the user deletes the file. The documents promise that the next command
clears stale state (`PRODUCT.md`), and the message of `status` tells the
user to repeat it. The run's counterexample shows the shortest such history:
launch, closed window, cleanup, crash.

`lifecycle_progress` shows that without faults the stale state is cleared.

`tailscale_lost`. `down` decides from the phase of the last operation whether a
Sandbox that is not ready can have an identity. A first `up` enrolls the device and
fails to store it; a second `up` in the same Sandbox fails while it verifies the
connection. The phase is now an early one, and `down` discards an enrolled device
that nothing has stored. `ARCHITECTURE.md` says that a failed first enrollment can
be recovered before termination.

`tailscale_overwritten`. With a stored identity, `down` asks the guest only for its
Windows user and its state file. When the `up` was killed before it restored the
identity, that file is what the client wrote when Base installed it; if it is
plaintext, it replaces the device's keys, of which there is no other copy.
The name and address next to it are still the device's (`IdentityStable` holds), so
nothing notices until a later `up` restores a client that belongs to no device.

`tailscale_rejected`. The phase `tailscale-not-enrolled`, with which `down` skips
the capture after a rejected enrollment, is tested and never published: the operation
keeps the phase `tailscale-identity`, and only its message names the cause. `down`
waits for an identity that cannot come, the capture fails, and `down` refuses to end the Sandbox.
The property speaks only of this refusal: with a phase that precedes the identity it
holds, although `down` may still fail to end the Sandbox (`EndFails`).

Observations of smaller weight, without a run, all met while the modules were written:

- `ProcessGroup` shows a task reported as `stopped after sibling failure` (`base.ps1`) although its sibling
  succeeded: a task whose time is up may read the first of two flags before and the second
  after they are set (`provisioning-process.cs`), or complete between the wait and the stop. The result
  as a whole is a failure either way; its printed reason is wrong. `StoppedHasCause` therefore only
  claims that some task failed or ran out of time.
- `workstation-owner.json` is created and then written. A setup that dies between the two leaves a
  torn marker, which every later setup refuses as an unknown owner until it is deleted by hand. An
  imported settings file torn in the same way is later reported as a different file of the user's.
- A local speech bundle is copied in place into a new file. A preparation that dies during the copy leaves
  a file that every later one refuses as an identity conflict.
- A completion record vouches for model files of which only the sizes are compared. `ModelBundle` can reach a
  bundle whose models are another release's of the same sizes, although the document says that the
  hashes bind the result (`ARCHITECTURE.md:307`); once a vouched file is missing or has another size, every
  preparation fails until the record is deleted.
- The uninstaller learns the name of a custom cache from the configuration. When the cache is in use and the
  configuration is removed with it, a repeated cleanup no longer finds it; `LeftoversAreRemoved` assumes
  that the configuration is still there. Its protected roots are compared with the cache by name
  only (`uninstall.go`), the user's directories by identity too.
- A line the user puts before the SSH block makes the uninstaller refuse the file until the next
  `up` moves the block to the front.
- With credential synchronization the host's `hosts.yml` replaces the guest's accounts by the logins recorded
  on the host, outdated ones and ones without a token included. When the import after that fails, the guest is left with those
  until a retry succeeds. Without a `hosts.yml` on the host the guest's accounts stay, also those that
  are logged out on the host.
- The mapped folders are not looked at again between their validation and the launch, which a snapshot,
  PowerShell inspections and a census separate (`session.go:533` to `304`).

## 5. Proofs

`SandboxLifecycleProofs` proves for every set of processes, of runs and every
value of the bounds, from `DistinctAssumption`, `CommandAssumption` and
`BoundAssumption`:

- `TypeCorrect`: `TypeOK` always holds.
- `InductiveInvariant`: `IInv` always holds.
- `OneSandbox`, `LiveRunsKept`, `ReadyIsReachable`, `ProvisionerOwns`,
  `ProvisionsRecorded`: the five safety invariants that follow from it.
- `OwnershipRefinement`: `Spec` implements `SandboxOwnership`.

None of the five is inductive: at most one Sandbox lives only because a launch
follows a census made under the mutex by the same process, and because the
process that launched holds the mutex until the Sandbox is recorded or ended.
`IInv` says so, label by label. `Mutex` gives each locked label to the holder;
`Inspects`, `Launches`, `Provisions`, `Cleans` and `Stops` say what a process at a
label has established about its run; `DrawnRuns` and `RecordLaunched` relate
drawn runs, launchers and the record; the rest are the invariants themselves. The step of
one process is handled action by action; `OthersWait` and `OthersKept` show once
that, by `Mutex`, a process at a locked label is the only one, so the facts
about the others say nothing that it could break. `lifecycle_crashes` checks
`IInv` with TLC as an invariant.

The refinement needs `IInv`: that `StopOwned` ends only the recorded or just
launched Sandbox, and that a launch finds none alive, are facts about labels.

`SandboxOutcomeProofs` proves from the same assumptions what needs more than `IInv`:

- `OutcomesAreFinal`: the action property `TerminalOutcomeFinal`.
- `ReportsAreConsistent`: `BusyReportConsistent`.
- `OutcomesPublished` and `RecordsAreRight`: `OutcomePublished` and `RecordIsRight`.

Three invariants are inductive on top of `IInv`. `NumberInv` (theorem `NumbersAreFresh`) says that the
number of an operation still to be started has been met by nobody, neither by a record nor by a
report; hence a terminal outcome is never replaced under its own number, and an operation that was
running at two moments ran in between. `ReportInv` says the same of runs: one that is no longer
recorded is not recorded again, since nobody who is launching holds it. `PutRight` (theorem
`AlwaysPutRight`) is about behaviours without faults: whatever looks wrong on the disk is being put
right by a process at a label that it cannot leave otherwise. Lemmas reduce some fifty actions to the
few ways in which a step changes an operation (`OperationSteps`), a number, a label, the record, a
launcher or a directory; the invariants are proved from those.

`TailscaleIdentityProofs` proves for every set of devices and Windows users and
every value of the bounds, from `ValueAssumption` and `BoundAssumption`:

- `TailscaleTypes` and `TailscaleInvariant`: `TypeOK` and `IInv` always hold.
- `ReadyStored`, `ReadyKept`, `ServiceIsRestarted`: the three safety invariants.
- `StoredIsStable`: the action property `IdentityStable`.

Here the strengthening is about scripts. `ScriptOwned` ties a script to the
command that started it; `ExpectsStored` says that what `up` compares with is what
is stored, although it was read long before; `CapturedCurrent` says what a script
has established at each step, and that a state read with the service left
stopped is still the client's, because only a running client writes;
`StoppedByScript` lists who may have stopped the service while nothing was cut off.

`ArchiveTransportProofs` proves for every set of attempts and every value of the bounds,
from `ReceiverAssumption` and `TransportAssumption`:

- `TransportTypes` and `TransportInvariant`: `TypeOK` and `IInv` always hold.
- `LaunchersExclude`, `LaunchersContained`, `SuccessCompletes`, `RetryIsPermitted`: the safety
  invariants.
- `OutcomeIsLast`: the action property `NoLateUpdate`.
- `TransportRefines`: `Spec` implements `SerialApply`.

That one launcher runs does not follow from the mutex alone: an owner that dies leaves its
launcher running, and the mutex obtainable. `InputKept` therefore says that a launcher
that runs keeps its directory, and `Admitted` that an admitted receiver, which has seen no
other directory, meets no launcher; `MutexHeld` ties the mutex and its handles to the
labels, and `LauncherOwned` the launcher and the outcome. `Heard` says what an SSH command that
returned `ok` has established in the guest, which is what `SuccessIsComplete` needs later,
when the guest has gone on.

`ProcessGroupProofs` proves for every set of tasks and any number of faults, from no
assumption: `GroupInvariant` (`GroupIInv`, which contains the types), `GroupContained`,
`GroupResults`, and `GroupReports` with its parts `GroupStopsForCause` and `GroupSuccess`. `Flags` is
the heart of the invariant: a job that was terminated has its stop flag set or its thread failed, so
that no result can call it a success; `Causes` carries the reason of a stop through the steps between
the decision and the result.

`HiddenCommandProofs` proves for any number of failing calls, from no assumption: `CommandInvariant`,
`CommandContained` (`TreeContained`) and `CommandEndingTold` (`EndingIsReported`). The
invariant follows the three goroutines past the `sync.Once`: `Terminated` says what holds once
somebody has ended the tree, `Goroutines` and `Told` which of them may still act and what it already
knows, `GivenUp` what a start that failed has undone. A count of faults
enters only as "at least one" and "at least two", which is what a call and its fallback are about.

`WorkstationSetupProofs` proves for every plan of jobs, every profile and any number of mishaps, from
`PlanAssumption` (a job comes after the jobs it requires): `SetupInvariant`, `SavedIsInstalled`
(`EvidenceIsInstalled`) and `ReportHolds` (`ReportIsTrue`). `Evidence` says that what is saved of a job, and what the
script remembers of it, is what is installed or nothing; it survives an action only because the
invalidation reaches the disk first (`Acting`). `GoodIsCurrent` says that a job that is good has the fingerprint of its
wish and of its required jobs as they are now; since jobs run in the order of the plan no later action disturbs it.
`Reported`, `ReportIsOf` and `ExitIsTrue` carry that through the report to the exit code, past reports that could not be written.

`HostConfigurationProofs` proves for each of nine parts its inductive invariant and the property it is for:

- `BundleInvariant`, `CurrentBundleIsWhole` (`CurrentIsWhole`), for any releases, models and sizes.
  `PreparingIsWhole` says what a preparation has established of the archive and of the sizes of the models at each of its
  steps; it survives a preparation of another release because a copy is only ever written while it is torn, and
  because one preparation runs at a time. That every model of the manifest has its size is `AdmittedSizes`.
- `SSHInvariant`, `UsersFileIsKept` (`UsersFileKept`), for any lines of the user, edits and commands, from `LineAssumption`
  (a line of the user is no line of the block, and a missing file is not an empty one). `Framed` says that a file has at most
  one line that begins a block and one that ends it, with no line of the user between them, whichever lines the user
  deletes: it is why taking out what lies between them costs the user nothing. `SnapshotIsRead` says that between the last
  comparison and the rename the file differs from what was read only by `late`.
- `HerdrInvariant`, `ReadyGuestIsTheHosts` (`ReadyIsTheHosts`), for any number of updates and `up`s. Versions
  only grow, and the two inspections are in `Inspections` as far as each has come; `Deployed` bounds what was
  brought into the guest by what the first one read from below and by what the second one will read from above, so
  that it is both once they agree.
- `SyncInvariant` and the action properties `ExportedAccountsAreTheTokens` (`AccountsAreTheTokens`) and
  `ReplacementKeepsEdits` (`GuestEditsKept`), for any logins, accounts and settings. `ReplacementIsRead` says that what is sent
  contains what was read and that, from the comparison on, this is what the guest has; `ExportIsUnique`
  and `ArchiveIsExport` follow the accounts from the tokens to the archive, `ImportedIsOwn` to the guest: an imported
  account has its own token, or none once the guest's user logs it out, whatever `hosts.yml` had for its login, and two exported accounts never have
  one login, so none replaces another.
- `PullInvariant`, `PulledIsSelected` (`PullFollowsReload`), for any repositories and directories, from
  `NoRepositoryAssumption`. `SeenIsVisited`: what was pulled is, once each, the repositories of the directories
  visited so far (`Visited`), under the configuration as it was then loaded.
- `PackageInvariant`, `PackagePlanIsWanted` (`PlanIsWanted`), for any lists of any length, from
  `PackageAssumption`. `ListsApplied` says of every prefix of a list that what it names was acceptable and what the plan holds after it.
- `ToolInvariant`, `MergedToolIsAgreed` (`ResultIsAgreed`), for any requirements, from `ToolAssumption` (what is
  no version is none, and every series has one). `RequirementsMerged`: the collected values are those the merged prefix names
  (`Named`). That the values meant are the values named, and that one version and one series, when they are the
  only ones, admit exactly the versions that all requirements meet, are lemmas about finite sets; a version of
  Python without its series would break them, which is what the mutant of this property shows.
- `MapInvariant`, `MappedFoldersStaySafe` (`FoldersAreSafe`), for any directories, second letters, configurations and
  number of changes, from `PathAssumption` (the names are names, a first letter is not a second one) and
  `MoveAssumption` (a junction leads to a directory that no other junction takes away: the code takes a directory of
  credentials that leads nowhere for one that is not there, and compares nothing with it) and `RunAssumption`. What is
  validated is safe by what its directories are then (`MappedFoldersAreSafe`): the identity and the runs are `Plain`, and with a
  profile they are where their names say. `PlanIsChecked` carries that through the `.wsb` to the launch, as long as no
  directory changes; a resumption that finds the mapped folders establishes it again, whatever happened before the launch. A directory of credentials may itself be a junction, so what was
  compared is what it leads to: `SensitiveSpared` shows that the directories on the way to it, which the code
  also compares, keep its own place out of every folder.
- `CleanInvariant`, `PreservedDirectoriesSurvive` (`PreservedSurvives`) and `LeftoversGo` (`LeftoversAreRemoved`), from
  the same and `RootAssumption` (the data root and the default cache are below a drive, the data root is not below
  the configuration, and a missing configuration names a cache). `ComparedApart` keeps the result of the comparison for the rest of the cleanup, `PlansAreDirect` says
  that a tree is removed where its name says although directories move after it was planned, because it is walked again;
  two prefixes of one directory overlap, so nothing removed lies in what is preserved. For the leftovers,
  `RootsApart` says that the cache is a root by itself, and `RootsPlanned` that, as long as nothing hinders, a root
  that exists has a plan, in a tree without a junction.

`PackagePlan` and `ToolPlan` go through their lists by an index, and the definitions that their properties compare with do
not go through them at all, so none of these proofs is an induction over data: each is one over the steps of the program.

Model-checked only: liveness (`LockFreed`, `StaleCleared`, `LeaseEndsProcesses`,
`CancelledReturns`, `FailureStopsAll`, `CommandEnds`), which the prover does not reach. Every safety property
and every action property that a passing run checks is also proved.

## 6. Plan

What would come next, in this order:

1. The restart of Explorer that the guest asks for during a provisioning (`reprovision.go`), a
   handshake by files with a deadline on either side.
2. The slots of the Visual Studio layout, once it is settled what a killed layout program leaves.
3. Mobile access: keys and services that converge.

## 7. Not modelled

- Mobile access and its SSH endpoint: key files and a guest service that converge on what the host has.
- The Visual Studio layout: what its crashes leave is decided by the vendor's program.
- TradingView authentication, coding-agent and Git files: selection and copying of files into the
  archive of `ConfigurationSync`, cryptography and other programs' stores.
- The Explorer restart handshake; terminal detection and patching.
- The NSIS installer's pages and its check of running processes; package managers and
  registry edits in `provisioning/*.ps1`.
- The second look of `attach` at the guest's Herdr after it connected (`session.go`), which
  reads without the mutex and changes nothing.
- Parsing of configuration files, diagnostics, text layout, developer tasks, product
  identity: I/O without state of their own, or wording.

`PROJECT.json` gives a reason for each component.
