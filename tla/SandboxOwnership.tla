-------------------------- MODULE SandboxOwnership --------------------------
(***************************************************************************)
(* What the lifecycle commands promise about the one Windows Sandbox they  *)
(* own, without processes, locks, files or intermediate steps:             *)
(*                                                                         *)
(*   - a Sandbox is launched only while no owned launcher runs;            *)
(*   - the ownership record (active.json) names a Sandbox that was really  *)
(*     launched, is written only over an absent record, and                *)
(*   - is forgotten only once that launcher has ended.                     *)
(*                                                                         *)
(* SandboxLifecycle implements this specification with record <- active.   *)
(***************************************************************************)
CONSTANTS Run, NoRun

VARIABLES
  record,    \* the run the ownership record names, NoRun when there is none
  launcher   \* the launcher process of every run

vars == <<record, launcher>>

LauncherStates == {"none", "live", "gone", "reused"}

Live(r) == launcher[r] = "live"

Init ==
  /\ record = NoRun
  /\ launcher = [r \in Run |-> "none"]

\* A new Sandbox may start only while no owned one is running.
Launch(r) ==
  /\ launcher[r] = "none"
  /\ \A s \in Run : ~Live(s)
  /\ launcher' = [launcher EXCEPT ![r] = "live"]
  /\ UNCHANGED record

\* The record is published after the launch, when no other record exists.
Record(r) ==
  /\ record = NoRun
  /\ launcher[r] # "none"
  /\ record' = r
  /\ UNCHANGED launcher

\* A launcher ends: closed by its user, by `down`, or by a failed `up`.
End(r) ==
  /\ Live(r)
  /\ launcher' = [launcher EXCEPT ![r] = "gone"]
  /\ UNCHANGED record

\* Windows gives the PID of an ended launcher to an unrelated process.
Reuse(r) ==
  /\ launcher[r] \in {"gone", "reused"}
  /\ \E s \in {"gone", "reused"} : launcher' = [launcher EXCEPT ![r] = s]
  /\ UNCHANGED record

\* The record may be removed only once its launcher has ended.
Forget ==
  /\ record # NoRun
  /\ ~Live(record)
  /\ record' = NoRun
  /\ UNCHANGED launcher

Next ==
  \/ \E r \in Run : Launch(r) \/ Record(r) \/ End(r) \/ Reuse(r)
  \/ Forget

Spec == Init /\ [][Next]_vars
=============================================================================
