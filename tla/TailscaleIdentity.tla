------------------------- MODULE TailscaleIdentity -------------------------
(***************************************************************************)
(* The stable Tailscale identity: one device that outlives the Sandboxes.  *)
(* `up` enrolls it once or restores it, captures it again and stores it    *)
(* with DPAPI; `down` of a Sandbox that opted in captures it before it     *)
(* ends the Sandbox.                                                       *)
(*                                                                         *)
(* One host command runs at a time, under the lifecycle mutex; it may die  *)
(* at any step, and its user may close the Sandbox at any moment.          *)
(***************************************************************************)
EXTENDS TailscaleGuest

CONSTANTS
  MaxFaults,   \* bound: killed commands and lost SSH connections
  MaxChanges   \* bound: how often the tailnet changes a client's identity

ASSUME BoundAssumption == MaxFaults \in Nat /\ MaxChanges \in Nat

VARIABLES
  stored,       \* identity/tailscale-identity.json
  connectable,  \* connectable.json of the run of this Sandbox
  ready,        \* its ready.json
  op,           \* its operation.json
  pc,           \* the step of the host command
  bootstrap,    \* tailscaleBootstrap.Existing: what `up` restores
  wasReady,     \* `up` found a ready Sandbox
  repair,       \* it only repairs that Sandbox's development setup
  faults, changes

runVars == <<connectable, ready, op>>
choices == <<bootstrap, wasReady, repair>>
hostVars == <<pc, choices>>
bounds == <<faults, changes>>
vars == <<guestVars, stored, runVars, hostVars, bounds>>

\* The phases of an `up`, each the step of the host while it lasts.
Phases == {"bootstrap", "connection-verification", "development-provisioning",
           "tailscale-identity", "configuration-sync"}
DownSteps == {"select", "recheck", "capture", "captured", "end", "rollback", "refused"}
Steps == {"idle", "start", "finish"} \cup Phases \cup DownSteps

Operation == [state: {"none", "running", "succeeded", "failed", "interrupted"},
              phase: Phases \cup {"none", "interrupted", "completed", "development-incomplete"},
              message: {"any", "not-established"}]
NoOperation == [state |-> "none", phase |-> "none", message |-> "any"]

-----------------------------------------------------------------------------
(* What every command does first.                                          *)

\* A running operation of a dead command is interrupted.
Reconciled ==
  IF op.state = "running"
  THEN [state |-> "interrupted", phase |-> "interrupted", message |-> "any"] ELSE op

\* A command that stops after reconciliation: `status`, an `up` without a key.
Reconcile ==
  /\ pc = "idle"
  /\ guest # NoGuest
  /\ op' = Reconciled
  /\ UNCHANGED <<guestVars, stored, connectable, ready, hostVars, bounds>>

\* `up` launches a fresh Sandbox. Without a protected identity it has an
\* auth key: prepareTailscaleBootstrap refuses an `up` that has neither.
Launch ==
  /\ pc = "idle"
  /\ guest = NoGuest
  /\ \E sid \in Sid : guest' = FreshGuest(sid)
  /\ connectable' = FALSE
  /\ ready' = FALSE
  /\ op' = NoOperation
  /\ bootstrap' = stored
  /\ wasReady' = FALSE
  /\ repair' = FALSE
  /\ pc' = "start"
  /\ UNCHANGED <<script, thrown, leave, captured, stored, bounds>>

\* `up` continues in the Sandbox it finds.
Retain ==
  /\ pc = "idle"
  /\ guest # NoGuest
  /\ op' = Reconciled
  /\ wasReady' = ready
  /\ bootstrap' = IF ready THEN NoIdentity ELSE stored
  /\ \E refresh \in BOOLEAN :
       repair' = (ready /\ ~refresh /\ Reconciled.phase = "development-incomplete")
  /\ pc' = "start"
  /\ UNCHANGED <<guestVars, stored, connectable, ready, bounds>>

-----------------------------------------------------------------------------
(* `up`: provisionSession.                                                 *)

InPhase(phase) ==
  /\ op' = [state |-> "running", phase |-> phase, message |-> "any"]
  /\ pc' = phase

StartOperation ==
  /\ pc = "start"
  /\ InPhase("bootstrap")
  /\ UNCHANGED <<guestVars, stored, connectable, ready, choices, bounds>>

VerifyConnection ==
  /\ pc = "bootstrap"
  /\ connectable
  /\ InPhase("connection-verification")
  /\ UNCHANGED <<guestVars, stored, connectable, ready, choices, bounds>>

RunDevelopment ==
  /\ pc = "connection-verification"
  /\ guest # NoGuest
  /\ InPhase("development-provisioning")
  /\ UNCHANGED <<guestVars, stored, connectable, ready, choices, bounds>>

\* Base installs the client; its service writes a state of its own.
EnterIdentity ==
  /\ pc = "development-provisioning"
  /\ ~repair
  /\ guest # NoGuest
  /\ \/ guest.installed /\ guest' = guest
     \/ ~guest.installed /\ \E plain \in BOOLEAN :
          guest' = [guest EXCEPT !.installed = TRUE, !.running = TRUE, !.plain = plain]
  /\ InPhase("tailscale-identity")
  /\ UNCHANGED <<script, thrown, leave, captured, stored, connectable, ready, choices,
                 bounds>>

\* A continuation that repairs a ready Sandbox leaves the identity alone.
Repair ==
  /\ pc = "development-provisioning"
  /\ repair
  /\ guest # NoGuest
  /\ pc' = "finish"
  /\ UNCHANGED <<guestVars, stored, runVars, choices, bounds>>

\* configureFreshTailscale, or captureAndStoreTailscale in a ready Sandbox.
StartScript ==
  /\ pc = "tailscale-identity"
  /\ script = "none"
  /\ guest # NoGuest
  /\ \/ ~wasReady /\ bootstrap = NoIdentity /\ script' = "enroll"
     \/ ~wasReady /\ bootstrap # NoIdentity /\ script' = "restore"
     \/ wasReady /\ stored # NoIdentity /\ script' = "identify"
  /\ leave' = FALSE
  /\ UNCHANGED <<guest, thrown, captured, stored, runVars, hostVars, bounds>>

\* verifyStableTailscaleIdentity
Stable(expected, actual) == expected.sid = actual.sid /\ expected.node = actual.node

\* The identity an `up` must get back, if it expects one.
Expected == IF wasReady THEN stored ELSE bootstrap

\* Variant: the captured identity is not compared with the expected one.
StoreIdentity_Unverified ==
  /\ pc = "tailscale-identity"
  /\ script = "done"
  /\ stored' = captured
  /\ script' = "none"
  /\ InPhase("configuration-sync")
  /\ UNCHANGED <<guest, thrown, leave, captured, connectable, ready, choices, bounds>>

\* Variant: a failed write of the identity is ignored.
StoreIdentity_Ignored ==
  /\ pc = "tailscale-identity"
  /\ script = "done"
  /\ Expected # NoIdentity => Stable(Expected, captured)
  /\ stored' \in {captured, stored}
  /\ script' = "none"
  /\ InPhase("configuration-sync")
  /\ UNCHANGED <<guest, thrown, leave, captured, connectable, ready, choices, bounds>>

StoreIdentity ==
  /\ pc = "tailscale-identity"
  /\ script = "done"
  /\ Expected # NoIdentity => Stable(Expected, captured)
  /\ stored' = captured
  /\ script' = "none"
  /\ InPhase("configuration-sync")
  /\ UNCHANGED <<guest, thrown, leave, captured, connectable, ready, choices, bounds>>

\* ready.json is published once everything is verified.
PublishReady ==
  /\ pc = "configuration-sync"
  /\ guest # NoGuest
  /\ ready' = TRUE
  /\ pc' = "finish"
  /\ UNCHANGED <<guestVars, stored, connectable, op, choices, bounds>>

FinishOperation ==
  /\ pc = "finish"
  /\ \/ op' = [state |-> "succeeded", phase |-> "completed", message |-> "any"]
     \/ op' = [state |-> "failed", phase |-> "development-incomplete", message |-> "any"]
  /\ pc' = "idle"
  /\ UNCHANGED <<guestVars, stored, connectable, ready, choices, bounds>>

\* Any step may fail, among them the write of the identity; the phase stays,
\* and the message is the error (errTailscaleIdentityNotEstablished).
ProvisioningFails ==
  /\ pc \in Phases
  /\ script \notin Working
  /\ op' = [op EXCEPT !.state = "failed",
                     !.message = IF script = "rejected" THEN "not-established" ELSE "any"]
  /\ script' = "none"
  /\ pc' = "idle"
  /\ UNCHANGED <<guest, thrown, leave, captured, stored, connectable, ready, choices, bounds>>

-----------------------------------------------------------------------------
(* `down` of a Sandbox that opted in: downAtWithExecutable.                *)

\* tailscaleFailurePrecedesIdentity, without the phases nothing publishes.
PrecedesIdentity(phase) ==
  phase \in {"none", "bootstrap", "connection-verification", "development-provisioning"}

BeginDown ==
  /\ pc = "idle"
  /\ guest # NoGuest
  /\ op' = Reconciled
  /\ leave' = FALSE
  /\ pc' = "select"
  /\ UNCHANGED <<guest, script, thrown, captured, stored, connectable, ready, choices,
                 bounds>>

\* A ready Sandbox is captured, and a failed one unless its phase tells that
\* it cannot have an identity.
SelectCapture ==
  /\ pc = "select"
  /\ \/ ready /\ pc' = "capture"
     \/ ~ready /\ connectable /\ ~PrecedesIdentity(op.phase) /\ pc' = "capture"
     \/ ~ready /\ connectable /\ PrecedesIdentity(op.phase) /\ pc' = "end"
     \/ ~ready /\ ~connectable /\ pc' = "recheck"
  /\ UNCHANGED <<guestVars, stored, runVars, choices, bounds>>

\* A starting Sandbox that became connectable meanwhile is not ended.
RecheckConnectable ==
  /\ pc = "recheck"
  /\ pc' = IF connectable THEN "idle" ELSE "end"
  /\ UNCHANGED <<guestVars, stored, runVars, choices, bounds>>

\* Variant: the capture before `down` restarts the service, as `up` does.
StartCapture_Restarting ==
  /\ pc = "capture"
  /\ guest # NoGuest
  /\ leave' = FALSE
  /\ script' = "identify"
  /\ captured' = Blank(Unenrolled, guest.sid)
  /\ pc' = "captured"
  /\ UNCHANGED <<guest, thrown, stored, runVars, choices, bounds>>

\* recoverAndStoreTailscaleForDown: only the state of a known identity is
\* read, and the service left stopped; an unknown one is captured in full.
StartCapture ==
  /\ pc = "capture"
  /\ guest # NoGuest
  /\ leave' = (stored # NoIdentity)
  /\ script' = IF stored # NoIdentity THEN "stop" ELSE "identify"
  /\ captured' = Blank(Unenrolled, guest.sid)
  /\ pc' = "captured"
  /\ UNCHANGED <<guest, thrown, stored, runVars, choices, bounds>>

\* captureTailscaleBeforeDown refuses when the Sandbox is no longer there.
SandboxMissing ==
  /\ pc = "capture"
  /\ guest = NoGuest
  /\ pc' = "refused"
  /\ UNCHANGED <<guestVars, stored, runVars, choices, bounds>>

\* The captured state of the same Windows user replaces the stored one.
StoreState ==
  /\ pc = "captured"
  /\ script = "done"
  /\ leave
  /\ captured.sid = stored.sid
  /\ stored' = [stored EXCEPT !.state = captured.state]
  /\ script' = "none"
  /\ pc' = "end"
  /\ UNCHANGED <<guest, thrown, leave, captured, runVars, choices, bounds>>

\* A first identity that was never stored is recovered from the Sandbox.
StoreRecovered ==
  /\ pc = "captured"
  /\ script = "done"
  /\ ~leave
  /\ stored' = captured
  /\ script' = "none"
  /\ pc' = "end"
  /\ UNCHANGED <<guest, thrown, leave, captured, runVars, choices, bounds>>

\* Variant: a failed capture returns without restarting the service.
CaptureFails_NoRestart ==
  /\ pc = "captured"
  /\ script \in {"done", "failed"}
  /\ script' = "none"
  /\ pc' = "refused"
  /\ UNCHANGED <<guest, thrown, leave, captured, stored, runVars, choices, bounds>>

\* Capture, the comparison of the Windows user, or the write failed.
CaptureFails ==
  /\ pc = "captured"
  /\ script \in {"done", "failed"}
  /\ script' = "none"
  /\ pc' = IF leave THEN "rollback" ELSE "refused"
  /\ UNCHANGED <<guest, thrown, leave, captured, stored, runVars, choices, bounds>>

\* stopOwnedSandboxProcess ends the Sandbox, or refuses.
EndSandbox ==
  /\ pc = "end"
  /\ guest' = NoGuest
  /\ pc' = "idle"
  /\ UNCHANGED <<script, thrown, leave, captured, stored, runVars, choices, bounds>>

EndFails ==
  /\ pc = "end"
  /\ guest # NoGuest
  /\ pc' = IF leave THEN "rollback" ELSE "refused"
  /\ UNCHANGED <<guestVars, stored, runVars, choices, bounds>>

\* restartTailscaleAfterFailedDown
RestartAfterFailure ==
  /\ pc = "rollback"
  /\ guest' = IF guest # NoGuest /\ guest.installed
              THEN [guest EXCEPT !.running = TRUE] ELSE guest
  /\ pc' = "refused"
  /\ UNCHANGED <<script, thrown, leave, captured, stored, runVars, choices, bounds>>

DownRefused ==
  /\ pc = "refused"
  /\ pc' = "idle"
  /\ UNCHANGED <<guestVars, stored, runVars, choices, bounds>>

-----------------------------------------------------------------------------
(* The environment.                                                        *)

\* The guest's bootstrap publishes its SSH connection.
BootstrapConnects ==
  /\ guest # NoGuest
  /\ ~connectable
  /\ connectable' = TRUE
  /\ UNCHANGED <<guestVars, stored, ready, op, hostVars, bounds>>

\* The user closes the Sandbox; a script it was running fails.
SandboxExits ==
  /\ guest # NoGuest
  /\ guest' = NoGuest
  /\ script' = IF script \in Working THEN "failed" ELSE script
  /\ thrown' = FALSE
  /\ UNCHANGED <<leave, captured, stored, runVars, hostVars, bounds>>

\* The host command dies, and the connection of its script with it.
Crash ==
  /\ pc # "idle"
  /\ faults < MaxFaults
  /\ faults' = faults + 1
  /\ pc' = "idle"
  /\ script' = "none"
  /\ thrown' = FALSE
  /\ UNCHANGED <<guest, leave, captured, stored, runVars, choices, changes>>

LoseConnection ==
  /\ faults < MaxFaults
  /\ faults' = faults + 1
  /\ CutOff
  /\ UNCHANGED <<stored, runVars, hostVars, changes>>

RestartLost ==
  /\ pc = "rollback"
  /\ faults < MaxFaults
  /\ faults' = faults + 1
  /\ pc' = "refused"
  /\ UNCHANGED <<guestVars, stored, runVars, choices, changes>>

ChangeIdentity ==
  /\ changes < MaxChanges
  /\ changes' = changes + 1
  /\ IdentityChanges
  /\ UNCHANGED <<stored, runVars, hostVars, faults>>

-----------------------------------------------------------------------------

Init ==
  /\ guest = NoGuest
  /\ script = "none" /\ thrown = FALSE /\ leave = FALSE /\ captured = NoIdentity
  /\ stored = NoIdentity
  /\ connectable = FALSE /\ ready = FALSE /\ op = NoOperation
  /\ pc = "idle" /\ bootstrap = NoIdentity /\ wasReady = FALSE /\ repair = FALSE
  /\ faults = 0 /\ changes = 0

UpStep ==
  \/ Launch \/ Retain \/ StartOperation \/ VerifyConnection \/ RunDevelopment
  \/ EnterIdentity \/ Repair \/ StartScript \/ StoreIdentity \/ PublishReady
  \/ FinishOperation \/ ProvisioningFails

DownStep ==
  \/ BeginDown \/ SelectCapture \/ RecheckConnectable \/ StartCapture \/ SandboxMissing
  \/ StoreState \/ StoreRecovered \/ CaptureFails \/ EndSandbox \/ EndFails \/ RestartAfterFailure
  \/ DownRefused

GuestStep ==
  /\ ScriptStep(bootstrap) \/ ClientWrites
  /\ UNCHANGED <<stored, runVars, hostVars, bounds>>

Next ==
  \/ Reconcile \/ UpStep \/ DownStep \/ GuestStep
  \/ BootstrapConnects \/ SandboxExits \/ Crash \/ LoseConnection \/ RestartLost
  \/ ChangeIdentity

Spec == Init /\ [][Next]_vars

-----------------------------------------------------------------------------
(* Properties.                                                             *)

TypeOK ==
  /\ guest \in Guest \cup {NoGuest}
  /\ script \in Working \cup Ended
  /\ thrown \in BOOLEAN /\ leave \in BOOLEAN
  /\ captured \in Identity \cup {NoIdentity}
  /\ stored \in Identity \cup {NoIdentity}
  /\ connectable \in BOOLEAN /\ ready \in BOOLEAN
  /\ op \in Operation
  /\ pc \in Steps
  /\ bootstrap \in Identity \cup {NoIdentity}
  /\ wasReady \in BOOLEAN /\ repair \in BOOLEAN
  /\ faults \in Nat /\ changes \in Nat

\* Once stored, the identity is never lost and never becomes that of another
\* device or Windows user, whatever fails and whatever the Sandbox returns:
\* every later fresh Sandbox restores that same device (PRODUCT.md:312).
IdentityStable ==
  [][stored # NoIdentity => stored' # NoIdentity /\ Stable(stored, stored')]_stored

\* A Sandbox is ready only when the identity of its Windows user is stored.
ReadyIsStored ==
  ready /\ guest # NoGuest => stored # NoIdentity /\ stored.sid = guest.sid

\* `down` ends a ready Sandbox only when the stored state is the last one
\* its client wrote: the service stays stopped after the capture.
ReadyStateKept ==
  pc = "end" /\ ready /\ guest # NoGuest =>
    stored # NoIdentity /\ stored.state = guest.state

\* Only a killed command or a lost connection leaves the service of a
\* Sandbox stopped: every `down` that fails starts it again.
ServiceRestarted ==
  pc = "idle" /\ guest # NoGuest /\ guest.installed /\ ~guest.running => faults > 0

\* The enrolled identity survives `down` (README.md:504), also when it was
\* never stored (ARCHITECTURE.md:432).
EnrolledKept ==
  pc = "end" /\ guest # NoGuest /\ guest.state.node \in Node =>
    stored # NoIdentity /\ stored.node = guest.state.node

\* The stored state restores the device it is stored for (PRODUCT.md:312).
StoredRestores == stored # NoIdentity => stored.state.node = stored.node

\* A Sandbox whose enrollment the tailnet rejected, as its operation says, can
\* be discarded with `down` (README.md:235): no `down` is refused because the
\* capture of the identity that the Sandbox never had fails.
UnenrolledEnds ==
  [][op.message = "not-established" /\ guest # NoGuest /\ guest.state.node = Unenrolled
       => ~(pc = "captured" /\ pc' = "refused")]_vars

-----------------------------------------------------------------------------
(* The inductive invariant.                                                *)

\* A script runs for the command that started it, and only to restore one
\* identity does it need it.
ScriptOwned ==
  /\ script # "none" => pc \in {"tailscale-identity", "captured"}
  /\ pc = "tailscale-identity" /\ script # "none" => ~leave
  /\ script \in {"restore", "write"} => bootstrap # NoIdentity
  /\ script \in {"restart", "confirm"} => ~leave

\* `up` expects the stored identity; `down` keeps the service stopped
\* exactly when there is one.
ExpectsStored ==
  /\ pc \in {"start"} \cup (Phases \ {"configuration-sync"}) =>
       /\ wasReady = ready
       /\ ~wasReady => bootstrap = stored
  /\ pc = "captured" => (leave <=> stored # NoIdentity)
  /\ pc = "recheck" => ~ready

\* What a script has captured belongs to the Windows user of its Sandbox; a
\* state read with the service left stopped is still the client's.
CapturedCurrent ==
  /\ script \in {"stop", "read", "restart", "confirm", "done"} =>
       /\ captured # NoIdentity
       /\ guest # NoGuest => captured.sid = guest.sid
  /\ guest # NoGuest /\ script = "read" => ~guest.running
  /\ guest # NoGuest /\ script = "done" /\ leave =>
       ~guest.running /\ captured.state = guest.state

\* Before ready.json is published the identity has been stored.
SyncIsStored ==
  pc = "configuration-sync" /\ guest # NoGuest =>
    stored # NoIdentity /\ stored.sid = guest.sid

\* At the end of `down` the service of a ready Sandbox is stopped for good.
EndIsStopped ==
  pc = "end" /\ ready /\ guest # NoGuest =>
    stored # NoIdentity /\ stored.state = guest.state /\ ~guest.running

\* Who stopped the service, as long as nothing was cut off.
StoppedByScript ==
  guest # NoGuest /\ guest.installed /\ ~guest.running /\ faults = 0 =>
    \/ script \in {"admit", "write", "start", "read", "restart"}
    \/ leave /\ pc = "captured" /\ script \in {"done", "failed"}
    \/ leave /\ pc \in {"end", "rollback"}

IInv ==
  /\ TypeOK /\ ScriptOwned /\ ExpectsStored /\ CapturedCurrent
  /\ SyncIsStored /\ ReadyIsStored /\ EndIsStopped /\ StoppedByScript
=============================================================================
