---------------------------- MODULE SerialApply ----------------------------
(***************************************************************************)
(* What the SSH archive transport promises its callers: archives are       *)
(* applied one at a time, each at most once, and an archive reported as    *)
(* applied was applied.                                                    *)
(***************************************************************************)
CONSTANT Attempt

VARIABLES started, active, applied, reported
vars == <<started, active, applied, reported>>

Init == started = {} /\ active = {} /\ applied = {} /\ reported = {}

Begin(a) ==
  /\ a \notin started
  /\ active = {}
  /\ started' = started \cup {a}
  /\ active' = {a}
  /\ UNCHANGED <<applied, reported>>

Finish(a) ==
  /\ a \in active
  /\ active' = active \ {a}
  /\ applied' \in {applied, applied \cup {a}}
  /\ UNCHANGED <<started, reported>>

Report(a) ==
  /\ a \in applied
  /\ reported' = reported \cup {a}
  /\ UNCHANGED <<started, active, applied>>

Next == \E a \in Attempt : Begin(a) \/ Finish(a) \/ Report(a)

Spec == Init /\ [][Next]_vars
=============================================================================
