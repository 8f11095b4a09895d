--------------------------- MODULE TailscaleGuest ---------------------------
(***************************************************************************)
(* The Tailscale client inside the Sandbox, and the PowerShell scripts the *)
(* host runs there over SSH, one at a time: `apply` (enroll or restore),   *)
(* `capture`, the capture before `down`, and the restart after it failed.  *)
(* A script runs step by step; it ends "done", "failed", or "rejected"     *)
(* when the tailnet refused to enroll the client, and is cut off wherever  *)
(* it is when its SSH connection is lost.                                  *)
(***************************************************************************)
EXTENDS Naturals

CONSTANTS
  Node,        \* tailnet devices: node ID, node key, address and names
  Unenrolled,  \* the client's state before it belongs to a device
  Sid,         \* security identifiers a Sandbox's Windows user can have
  NoGuest,     \* no Sandbox is running
  NoIdentity,  \* the absence of an identity
  MaxVersion   \* bound: how often the client rewrites its state

VARIABLES
  guest,     \* the client: its Windows user, service and state file
  script,    \* the step the host's script is at in the guest
  thrown,    \* an error waits for that script's `finally` block to end
  leave,     \* the script was started with -LeaveServiceStopped
  captured   \* what the script returns

guestVars == <<guest, script, thrown, leave, captured>>

\* server-state.conf: whose keys it holds, and how often it was rewritten
State == [node: Node \cup {Unenrolled}, version: Nat]
Guest == [sid: Sid, installed: BOOLEAN, running: BOOLEAN, plain: BOOLEAN, state: State]
Identity == [node: Node \cup {Unenrolled}, sid: Sid, state: State]

ASSUME ValueAssumption ==
  /\ Unenrolled \notin Node
  /\ NoGuest \notin Guest
  /\ NoIdentity \notin Identity
  /\ MaxVersion \in Nat

Working == {"enroll", "admit", "restore", "write", "start", "identify", "stop", "read",
            "restart", "confirm"}
Ended == {"none", "done", "failed", "rejected"}

\* The result of a script that has read no state yet.
Blank(node, sid) == [node |-> node, sid |-> sid, state |-> [node |-> Unenrolled, version |-> 0]]

\* `tailscale status` shows one tagged, running device.
Identified == guest.installed /\ guest.running /\ guest.state.node \in Node

FreshGuest(sid) ==
  [sid |-> sid, installed |-> FALSE, running |-> FALSE, plain |-> FALSE,
   state |-> [node |-> Unenrolled, version |-> 0]]

-----------------------------------------------------------------------------
(* Steps of the scripts.                                                   *)

\* Enrolling restarts the service, for the policy of a portable state ...
StopForEnroll ==
  /\ script = "enroll"
  /\ guest' = [guest EXCEPT !.running = FALSE]
  /\ script' = "admit"
  /\ UNCHANGED <<thrown, leave, captured>>

\* ... and runs `tailscale up --auth-key`: the control plane admits a new
\* device or not; a client that belongs to a device keeps it. Without any the
\* script exits with a code of its own (IdentityNotEstablishedExitCode).
Enroll ==
  /\ script = "admit"
  /\ \/ /\ \E n \in Node :
             /\ guest.state.node \in {Unenrolled, n}
             /\ guest' = [guest EXCEPT !.running = TRUE, !.plain = TRUE, !.state.node = n]
        /\ script' = "identify"
     \/ /\ guest' = [guest EXCEPT !.running = TRUE, !.plain = TRUE]
        /\ script' = IF guest.state.node \in Node THEN "identify" ELSE "rejected"
  /\ UNCHANGED <<thrown, leave, captured>>

\* Restoring refuses another Windows user, then stops the service.
StopForRestore(identity) ==
  /\ script = "restore"
  /\ IF identity.sid = guest.sid
     THEN guest' = [guest EXCEPT !.running = FALSE] /\ script' = "write"
     ELSE guest' = guest /\ script' = "failed"
  /\ UNCHANGED <<thrown, leave, captured>>

\* Set-TailscaleState replaces the state file, or throws and leaves it.
WriteState(identity) ==
  /\ script = "write"
  /\ \/ guest' = [guest EXCEPT !.plain = TRUE, !.state = identity.state] /\ thrown' = FALSE
     \/ guest' = guest /\ thrown' = TRUE
  /\ script' = "start"
  /\ UNCHANGED <<leave, captured>>

\* The `finally` block that starts the service whether or not it threw.
StartService ==
  /\ script = "start"
  /\ guest' = [guest EXCEPT !.running = TRUE]
  /\ script' = IF thrown THEN "failed" ELSE "identify"
  /\ thrown' = FALSE
  /\ UNCHANGED <<leave, captured>>

\* Wait-TailscaleIdentity: gives up after two minutes.
Identify ==
  /\ script = "identify"
  /\ \/ /\ Identified
        /\ captured' = Blank(guest.state.node, guest.sid)
        /\ script' = "stop"
     \/ script' = "failed" /\ captured' = captured
  /\ UNCHANGED <<guest, thrown, leave>>

\* Capture-TailscaleStateBytes stops the service before it reads ...
StopService ==
  /\ script = "stop"
  /\ IF guest.installed
     THEN guest' = [guest EXCEPT !.running = FALSE] /\ script' = "read"
     ELSE guest' = guest /\ script' = "failed"
  /\ UNCHANGED <<thrown, leave, captured>>

\* ... a portable plaintext state, and leaves it stopped only for `down`.
ReadState ==
  /\ script = "read"
  /\ \/ /\ ~leave
        /\ script' = "restart"
        /\ thrown' = ~guest.plain
     \/ /\ leave
        /\ script' = IF guest.plain THEN "done" ELSE "failed"
        /\ thrown' = FALSE
  /\ captured' = IF guest.plain THEN [captured EXCEPT !.state = guest.state] ELSE captured
  /\ UNCHANGED <<guest, leave>>

RestartService ==
  /\ script = "restart"
  /\ guest' = [guest EXCEPT !.running = TRUE]
  /\ script' = IF thrown THEN "failed" ELSE "confirm"
  /\ thrown' = FALSE
  /\ UNCHANGED <<leave, captured>>

\* Capture-TailscaleState: the device is still the one identified before.
Confirm ==
  /\ script = "confirm"
  /\ \/ Identified /\ guest.state.node = captured.node /\ script' = "done"
     \/ script' = "failed"
  /\ UNCHANGED <<guest, thrown, leave, captured>>

ScriptStep(identity) ==
  /\ guest # NoGuest
  /\ \/ StopForEnroll \/ Enroll \/ StopForRestore(identity) \/ WriteState(identity) \/ StartService
     \/ Identify \/ StopService \/ ReadState \/ RestartService \/ Confirm

\* The SSH connection is lost, or the deadline of the command passes.
CutOff ==
  /\ script \in Working
  /\ script' = "failed"
  /\ thrown' = FALSE
  /\ UNCHANGED <<guest, leave, captured>>

-----------------------------------------------------------------------------
(* The client itself.                                                      *)

\* A running client rewrites its state: keys it rotates, the network map.
ClientWrites ==
  /\ guest # NoGuest
  /\ Identified
  /\ guest.state.version < MaxVersion
  /\ guest' = [guest EXCEPT !.state.version = @ + 1]
  /\ UNCHANGED <<script, thrown, leave, captured>>

\* The tailnet gives a running client another identity.
IdentityChanges ==
  /\ guest # NoGuest
  /\ Identified
  /\ \E n \in Node \ {guest.state.node} :
       guest' = [guest EXCEPT !.state = [node |-> n, version |-> 0]]
  /\ UNCHANGED <<script, thrown, leave, captured>>
=============================================================================
