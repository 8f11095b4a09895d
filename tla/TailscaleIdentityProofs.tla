---------------------- MODULE TailscaleIdentityProofs ----------------------
(* The proofs about TailscaleIdentity. Each lemma shows that a group of    *)
(* actions preserves the inductive invariant IInv, action by action.       *)
EXTENDS TailscaleIdentity, TLAPS

\* The values the variables range over are told apart from their absence.
LEMMA Values ==
  /\ \A i \in Identity : i # NoIdentity /\ i.sid \in Sid /\ i.state \in State
  /\ \A g \in Guest : g # NoGuest
  /\ \A sid \in Sid : FreshGuest(sid) \in Guest /\ ~FreshGuest(sid).installed
  /\ \A sid \in Sid : \A n \in Node \cup {Unenrolled} :
       Blank(n, sid) \in Identity /\ Blank(n, sid).sid = sid
BY ValueAssumption DEF Identity, State, Guest, FreshGuest, Blank

LEMMA InitInv == Init => IInv
<1> SUFFICES ASSUME Init PROVE IInv OBVIOUS
<1> USE DEF Init
<1>1. TypeOK BY ValueAssumption DEF TypeOK, NoOperation, Operation, Ended, Steps
<1>2. ScriptOwned /\ CapturedCurrent BY DEF ScriptOwned, CapturedCurrent
<1>3. ExpectsStored BY DEF ExpectsStored, Phases
<1>4. SyncIsStored /\ ReadyIsStored /\ EndIsStopped BY DEF SyncIsStored, ReadyIsStored, EndIsStopped
<1>5. StoppedByScript BY DEF StoppedByScript
<1> QED BY <1>1, <1>2, <1>3, <1>4, <1>5 DEF IInv

LEMMA UpInv ==
  ASSUME IInv, UpStep PROVE IInv'
<1> USE Values
<1> USE DEF IInv, TypeOK, ScriptOwned, ExpectsStored, CapturedCurrent, SyncIsStored, ReadyIsStored,
    EndIsStopped, StoppedByScript, NoOperation, Operation, Ended, Working, Steps, Phases, DownSteps,
    guestVars, runVars, hostVars, choices, bounds, InPhase, Reconciled
<1>1. CASE Launch
  <2>1. PICK sid \in Sid : guest' = FreshGuest(sid) BY <1>1 DEF Launch
  <2>2. guest' \in Guest /\ guest' # NoGuest /\ ~guest'.installed BY <2>1
  <2> QED BY <1>1, <2>2 DEF Launch
<1>2. CASE Retain BY <1>2 DEF Retain
<1>3. CASE StartOperation BY <1>3 DEF StartOperation
<1>4. CASE VerifyConnection BY <1>4 DEF VerifyConnection
<1>5. CASE RunDevelopment BY <1>5 DEF RunDevelopment
<1>6. CASE EnterIdentity
  <2>1. guest' \in Guest /\ guest'.sid = guest.sid /\ guest'.state = guest.state
    BY <1>6 DEF EnterIdentity, Guest
  <2>2. guest'.running \/ guest' = guest BY <1>6 DEF EnterIdentity, Guest
  <2>3. op' \in Operation /\ pc' = "tailscale-identity" BY <1>6 DEF EnterIdentity
  <2>4. /\ script = "none" /\ ExpectsStored
        /\ UNCHANGED <<script, thrown, leave, captured, stored, connectable, ready, bootstrap,
                       wasReady, repair, faults, changes>>
        /\ pc = "development-provisioning" /\ guest # NoGuest
    BY <1>6 DEF EnterIdentity
  <2>5. TypeOK'
    <3> HIDE DEF Operation
    <3> QED BY <2>1, <2>3, <2>4
  <2>6. ScriptOwned' /\ ExpectsStored' BY <2>3, <2>4
  <2>7. CapturedCurrent' BY <2>4
  <2>8. SyncIsStored' /\ ReadyIsStored' /\ EndIsStopped' BY <2>1, <2>3, <2>4
  <2>9. StoppedByScript' BY <2>2, <2>3, <2>4
  <2> QED BY <2>5, <2>6, <2>7, <2>8, <2>9
<1>7. CASE Repair BY <1>7 DEF Repair
<1>8. CASE StartScript
  <2>1. script' \in {"enroll", "restore", "identify"} BY <1>8 DEF StartScript
  <2>2. script' = "restore" => bootstrap # NoIdentity BY <1>8 DEF StartScript
  <2>3. /\ pc = "tailscale-identity" /\ script = "none" /\ leave' = FALSE
        /\ UNCHANGED <<guest, thrown, captured, stored, connectable, ready, op, pc, bootstrap,
                       wasReady, repair, faults, changes>>
    BY <1>8 DEF StartScript
  <2>4. TypeOK'
    <3> HIDE DEF Operation
    <3> QED BY <2>1, <2>3
  <2>5. ScriptOwned' BY <2>1, <2>2, <2>3
  <2>6. ExpectsStored' BY <2>3
  <2>8. CapturedCurrent' BY <2>1, <2>3
  <2>7. SyncIsStored' /\ ReadyIsStored' /\ EndIsStopped' /\ StoppedByScript' BY <2>1, <2>3
  <2> QED BY <2>4, <2>5, <2>6, <2>7, <2>8
<1>9. CASE StoreIdentity BY <1>9 DEF StoreIdentity, Expected, Stable
<1>10. CASE PublishReady BY <1>10 DEF PublishReady
<1>11. CASE FinishOperation BY <1>11 DEF FinishOperation
<1>12. CASE ProvisioningFails
  <2>1. op' \in Operation BY <1>12 DEF ProvisioningFails
  <2>2. /\ pc \in Phases /\ script' = "none" /\ pc' = "idle"
        /\ UNCHANGED <<guest, thrown, leave, captured, stored, connectable, ready, bootstrap, wasReady,
                       repair, faults, changes>>
    BY <1>12 DEF ProvisioningFails
  <2>3. script \notin Working BY <1>12 DEF ProvisioningFails
  <2>4. TypeOK'
    <3> HIDE DEF Operation
    <3> QED BY <2>1, <2>2
  <2>5. ScriptOwned' /\ ExpectsStored' /\ CapturedCurrent' BY <2>2
  <2>6. SyncIsStored' /\ ReadyIsStored' /\ EndIsStopped' BY <2>2
  <2>7. StoppedByScript' BY <2>2, <2>3
  <2> QED BY <2>4, <2>5, <2>6, <2>7
<1> QED BY <1>1, <1>2, <1>3, <1>4, <1>5, <1>6, <1>7, <1>8, <1>9, <1>10, <1>11, <1>12 DEF UpStep

LEMMA DownInv ==
  ASSUME IInv, DownStep PROVE IInv'
<1> USE Values
<1> USE DEF IInv, TypeOK, ScriptOwned, ExpectsStored, CapturedCurrent, SyncIsStored, ReadyIsStored,
    EndIsStopped, StoppedByScript, NoOperation, Operation, Ended, Working, Steps, Phases, DownSteps,
    guestVars, runVars, hostVars, choices, bounds, InPhase, Reconciled
<1>1. CASE BeginDown
  <2> USE <1>1 DEF BeginDown
  <2>1. TypeOK'
    <3>1. op' \in Operation OBVIOUS
    <3> HIDE DEF Operation, Reconciled, Crash, LoseConnection
    <3> QED BY <3>1
  <2>2. ScriptOwned' /\ ExpectsStored' OBVIOUS
  <2>3. CapturedCurrent' OBVIOUS
  <2>4. SyncIsStored' /\ ReadyIsStored' OBVIOUS
  <2>5. EndIsStopped' /\ StoppedByScript' OBVIOUS
  <2> QED BY <2>1, <2>2, <2>3, <2>4, <2>5
<1>2. CASE SelectCapture BY <1>2 DEF SelectCapture
<1>3. CASE RecheckConnectable BY <1>3 DEF RecheckConnectable
<1>4. CASE StartCapture
  <2> USE <1>4 DEF StartCapture
  <2>6. captured' = Blank(Unenrolled, guest.sid) /\ guest.sid \in Sid /\ guest' = guest
    BY DEF Guest
  <2>7. captured' \in Identity /\ captured'.sid = guest'.sid BY <2>6
  <2>1. TypeOK'
    <3> HIDE DEF Operation
    <3> QED BY <2>7
  <2>2. ScriptOwned' /\ ExpectsStored' OBVIOUS
  <2>3. CapturedCurrent' BY <2>7
  <2>4. SyncIsStored' /\ ReadyIsStored' OBVIOUS
  <2>5. EndIsStopped' /\ StoppedByScript' OBVIOUS
  <2> QED BY <2>1, <2>2, <2>3, <2>4, <2>5
<1>5. CASE SandboxMissing BY <1>5 DEF SandboxMissing
<1>6. CASE StoreState BY <1>6 DEF StoreState, Identity
<1>7. CASE StoreRecovered BY <1>7 DEF StoreRecovered
<1>8. CASE CaptureFails BY <1>8 DEF CaptureFails
<1>9. CASE EndSandbox BY <1>9 DEF EndSandbox
<1>10. CASE EndFails BY <1>10 DEF EndFails
<1>11. CASE RestartAfterFailure
  <2> USE <1>11 DEF RestartAfterFailure, Guest
  <2>1. TypeOK'
    <3> HIDE DEF Operation
    <3> QED OBVIOUS
  <2>2. ScriptOwned' /\ ExpectsStored' OBVIOUS
  <2>3. CapturedCurrent' OBVIOUS
  <2>4. SyncIsStored' /\ ReadyIsStored' OBVIOUS
  <2>5. EndIsStopped' /\ StoppedByScript' OBVIOUS
  <2> QED BY <2>1, <2>2, <2>3, <2>4, <2>5
<1>12. CASE DownRefused BY <1>12 DEF DownRefused
<1> QED BY <1>1, <1>2, <1>3, <1>4, <1>5, <1>6, <1>7, <1>8, <1>9, <1>10, <1>11, <1>12 DEF DownStep

LEMMA WorldInv ==
  ASSUME IInv,
         Reconcile \/ BootstrapConnects \/ SandboxExits \/ Crash \/ LoseConnection \/ RestartLost
  PROVE IInv'
<1> USE Values, BoundAssumption
<1> USE DEF IInv, TypeOK, ScriptOwned, ExpectsStored, CapturedCurrent, SyncIsStored, ReadyIsStored,
    EndIsStopped, StoppedByScript, NoOperation, Operation, Ended, Working, Steps, Phases, DownSteps,
    guestVars, runVars, hostVars, choices, bounds, InPhase, Reconciled
<1>1. CASE Reconcile BY <1>1 DEF Reconcile
<1>2. CASE BootstrapConnects BY <1>2 DEF BootstrapConnects
<1>3. CASE SandboxExits
  <2> USE <1>3 DEF SandboxExits
  <2>1. TypeOK'
    <3>1. guest' = NoGuest /\ thrown' = FALSE OBVIOUS
    <3>2. UNCHANGED <<leave, captured, stored, connectable, ready, op, pc, bootstrap, wasReady,
                      repair, faults, changes>>
      OBVIOUS
    <3>3. script' \in {script, "failed"} OBVIOUS
    <3> HIDE <1>3 DEF Operation, SandboxExits
    <3>4. script' \in Working \cup Ended /\ pc' \in Steps BY <3>2, <3>3
    <3>5. /\ guest' \in Guest \cup {NoGuest} /\ thrown' \in BOOLEAN /\ leave' \in BOOLEAN
          /\ captured' \in Identity \cup {NoIdentity} /\ stored' \in Identity \cup {NoIdentity}
          /\ connectable' \in BOOLEAN /\ ready' \in BOOLEAN /\ op' \in Operation
          /\ bootstrap' \in Identity \cup {NoIdentity} /\ changes' \in Nat /\ faults' \in Nat
          /\ wasReady' \in BOOLEAN /\ repair' \in BOOLEAN
      BY <3>1, <3>2
    <3> QED BY ONLY <3>4, <3>5 DEF TypeOK
  <2>2. ScriptOwned' /\ ExpectsStored' OBVIOUS
  <2>3. CapturedCurrent' OBVIOUS
  <2>4. SyncIsStored' /\ ReadyIsStored' OBVIOUS
  <2>5. EndIsStopped' /\ StoppedByScript' OBVIOUS
  <2> QED BY <2>1, <2>2, <2>3, <2>4, <2>5
<1>4. CASE Crash
  <2> USE <1>4 DEF Crash
  <2>1. TypeOK'
    <3>1. faults' \in Nat OBVIOUS
    <3>2. UNCHANGED <<guest, leave, captured, stored, connectable, ready, op, bootstrap, wasReady,
                      repair, changes>>
      OBVIOUS
    <3>3. script' \in Ended /\ thrown' = FALSE /\ pc' \in {pc, "idle"} OBVIOUS
    <3> HIDE <1>4 DEF Operation, Crash
    <3>4. script' \in Working \cup Ended /\ pc' \in Steps BY <3>2, <3>3
    <3>5. /\ guest' \in Guest \cup {NoGuest} /\ thrown' \in BOOLEAN /\ leave' \in BOOLEAN
          /\ captured' \in Identity \cup {NoIdentity} /\ stored' \in Identity \cup {NoIdentity}
          /\ connectable' \in BOOLEAN /\ ready' \in BOOLEAN /\ op' \in Operation
          /\ bootstrap' \in Identity \cup {NoIdentity} /\ changes' \in Nat
          /\ wasReady' \in BOOLEAN /\ repair' \in BOOLEAN
      BY <3>2, <3>3
    <3> QED BY ONLY <3>1, <3>4, <3>5 DEF TypeOK
  <2>2. ScriptOwned' /\ ExpectsStored' OBVIOUS
  <2>3. CapturedCurrent' OBVIOUS
  <2>4. SyncIsStored' /\ ReadyIsStored' OBVIOUS
  <2>5. EndIsStopped' /\ StoppedByScript' OBVIOUS
  <2> QED BY <2>1, <2>2, <2>3, <2>4, <2>5
<1>5. CASE LoseConnection
  <2> USE <1>5 DEF LoseConnection, CutOff
  <2>1. TypeOK'
    <3>1. faults' \in Nat OBVIOUS
    <3>2. UNCHANGED <<guest, leave, captured, stored, connectable, ready, op, bootstrap, wasReady,
                      repair, changes>>
      OBVIOUS
    <3>3. script' \in Ended /\ thrown' = FALSE /\ pc' \in {pc, "idle"} OBVIOUS
    <3> HIDE <1>5 DEF Operation, LoseConnection, CutOff
    <3>4. script' \in Working \cup Ended /\ pc' \in Steps BY <3>2, <3>3
    <3>5. /\ guest' \in Guest \cup {NoGuest} /\ thrown' \in BOOLEAN /\ leave' \in BOOLEAN
          /\ captured' \in Identity \cup {NoIdentity} /\ stored' \in Identity \cup {NoIdentity}
          /\ connectable' \in BOOLEAN /\ ready' \in BOOLEAN /\ op' \in Operation
          /\ bootstrap' \in Identity \cup {NoIdentity} /\ changes' \in Nat
          /\ wasReady' \in BOOLEAN /\ repair' \in BOOLEAN
      BY <3>2, <3>3
    <3> QED BY ONLY <3>1, <3>4, <3>5 DEF TypeOK
  <2>2. ScriptOwned' /\ ExpectsStored' OBVIOUS
  <2>3. CapturedCurrent' OBVIOUS
  <2>4. SyncIsStored' /\ ReadyIsStored' OBVIOUS
  <2>5. EndIsStopped' /\ StoppedByScript' OBVIOUS
  <2> QED BY <2>1, <2>2, <2>3, <2>4, <2>5
<1>6. CASE RestartLost BY <1>6 DEF RestartLost
<1> QED BY <1>1, <1>2, <1>3, <1>4, <1>5, <1>6

\* What the steps of the scripts make of a client and of an identity.
LEMMA Updates ==
  /\ \A g \in Guest : \A b \in BOOLEAN :
       /\ [g EXCEPT !.running = b] \in Guest /\ [g EXCEPT !.running = b].sid = g.sid
       /\ [g EXCEPT !.running = TRUE, !.plain = TRUE] \in Guest
       /\ [g EXCEPT !.running = TRUE, !.plain = TRUE].sid = g.sid
  /\ \A g \in Guest : \A n \in Node :
       /\ [g EXCEPT !.running = TRUE, !.plain = TRUE, !.state.node = n] \in Guest
       /\ [g EXCEPT !.running = TRUE, !.plain = TRUE, !.state.node = n].sid = g.sid
  /\ \A g \in Guest : \A st \in State :
       /\ [g EXCEPT !.plain = TRUE, !.state = st] \in Guest
       /\ [g EXCEPT !.plain = TRUE, !.state = st].sid = g.sid
  /\ \A i \in Identity : \A st \in State :
       LET j == [i EXCEPT !.state = st] IN j \in Identity /\ j.sid = i.sid /\ j.state = st
  /\ \A g \in Guest : g.state \in State /\ g.state.node \in Node \cup {Unenrolled} /\ g.sid \in Sid
BY DEF Guest, State, Identity

LEMMA GuestInv ==
  ASSUME IInv, GuestStep PROVE IInv'
<1> USE Values
<1> USE DEF IInv, TypeOK, ScriptOwned, ExpectsStored, CapturedCurrent, SyncIsStored, ReadyIsStored,
    EndIsStopped, StoppedByScript, Ended, Working, Steps, Phases, DownSteps,
    runVars, hostVars, choices, bounds
<1> DEFINE Frame == UNCHANGED <<stored, connectable, ready, op, pc, bootstrap, wasReady, repair,
                                faults, changes>>
<1>0. Frame BY DEF GuestStep
<1>11. guest # NoGuest => guest \in Guest OBVIOUS
<1>12. script = "write" => bootstrap.state \in State OBVIOUS
<1>1. CASE guest # NoGuest /\ Enroll
  <2> USE <1>0, <1>1 DEF Enroll, Identified
  <2>1. guest' \in Guest /\ guest'.sid = guest.sid
  <3>1. CASE guest' = [guest EXCEPT !.running = TRUE, !.plain = TRUE]
      BY ONLY <1>1, <1>11, <3>1, Updates
    <3>2. ASSUME NEW n \in Node,
                 guest' = [guest EXCEPT !.running = TRUE, !.plain = TRUE, !.state.node = n]
          PROVE  guest' \in Guest /\ guest'.sid = guest.sid
      BY ONLY <1>1, <1>11, <3>2, Updates
    <3> QED BY ONLY <1>1, <3>1, <3>2 DEF Enroll
  <2>2. TypeOK' BY <2>1
  <2>3. ScriptOwned' /\ ExpectsStored' BY <2>1
  <2>4. CapturedCurrent' BY <2>1 DEF Guest
  <2>5. SyncIsStored' /\ ReadyIsStored' BY <2>1
  <2>6. EndIsStopped' /\ StoppedByScript' BY <2>1 DEF Guest
  <2> QED BY <2>2, <2>3, <2>4, <2>5, <2>6
<1>2. CASE guest # NoGuest /\ StopForRestore(bootstrap)
  <2> USE <1>0, <1>2 DEF StopForRestore
  <2>1. guest' \in Guest /\ guest'.sid = guest.sid
    BY ONLY <1>2, <1>11, <1>12, Updates DEF StopForRestore
  <2>2. TypeOK' BY <2>1
  <2>3. ScriptOwned' /\ ExpectsStored' BY <2>1
  <2>4. CapturedCurrent' BY <2>1 DEF Guest
  <2>5. SyncIsStored' /\ ReadyIsStored' BY <2>1
  <2>6. EndIsStopped' /\ StoppedByScript' BY <2>1 DEF Guest
  <2> QED BY <2>2, <2>3, <2>4, <2>5, <2>6
<1>3. CASE guest # NoGuest /\ WriteState(bootstrap)
  <2> USE <1>0, <1>3 DEF WriteState
  <2>1. guest' \in Guest /\ guest'.sid = guest.sid BY DEF Guest, State, Identity
  <2>2. TypeOK' BY <2>1
  <2>3. ScriptOwned' /\ ExpectsStored' BY <2>1
  <2>4. CapturedCurrent' BY <2>1 DEF Guest
  <2>5. SyncIsStored' /\ ReadyIsStored' BY <2>1
  <2>6. EndIsStopped' /\ StoppedByScript' BY <2>1 DEF Guest
  <2> QED BY <2>2, <2>3, <2>4, <2>5, <2>6
<1>4. CASE guest # NoGuest /\ StartService
  <2> USE <1>0, <1>4 DEF StartService
  <2>1. guest' \in Guest /\ guest'.sid = guest.sid
    BY ONLY <1>4, <1>11, <1>12, Updates DEF StartService
  <2>2. TypeOK' BY <2>1
  <2>3. ScriptOwned' /\ ExpectsStored' BY <2>1
  <2>4. CapturedCurrent' BY <2>1 DEF Guest
  <2>5. SyncIsStored' /\ ReadyIsStored' BY <2>1
  <2>6. EndIsStopped' /\ StoppedByScript' BY <2>1 DEF Guest
  <2> QED BY <2>2, <2>3, <2>4, <2>5, <2>6
<1>5. CASE guest # NoGuest /\ Identify
  <2>1. UNCHANGED <<guest, thrown, leave>> /\ script = "identify" BY <1>5 DEF Identify
  <2>2. /\ script' \in {"stop", "failed"}
        /\ captured' = IF script' = "stop" THEN Blank(guest.state.node, guest.sid) ELSE captured
    BY <1>5 DEF Identify
  <2>3. script' = "stop" => captured' \in Identity /\ captured'.sid = guest.sid
    BY ONLY <1>5, <1>11, <2>2, Updates, Values
  <2>4. captured' \in Identity \cup {NoIdentity}
    BY <2>2, <2>3
  <2>5. TypeOK' BY <1>0, <2>1, <2>2, <2>4
  <2>6. ScriptOwned' /\ ExpectsStored' BY <1>0, <2>1, <2>2
  <2>7. CapturedCurrent'
    <3>1. CASE script' = "failed" BY <3>1
    <3>2. CASE script' = "stop" BY <2>1, <2>3, <3>2
    <3> QED BY <2>2, <3>1, <3>2
  <2>8. SyncIsStored' /\ ReadyIsStored' BY <1>0, <2>1
  <2>9. EndIsStopped' /\ StoppedByScript' BY <1>0, <2>1, <2>2
  <2> QED BY <2>5, <2>6, <2>7, <2>8, <2>9
<1>6. CASE guest # NoGuest /\ StopService
  <2> USE <1>0, <1>6 DEF StopService
  <2>1. guest' \in Guest /\ guest'.sid = guest.sid
    BY ONLY <1>6, <1>11, <1>12, Updates DEF StopService
  <2>2. TypeOK' BY <2>1
  <2>3. ScriptOwned' /\ ExpectsStored' BY <2>1
  <2>4. CapturedCurrent' BY <2>1 DEF Guest
  <2>5. SyncIsStored' /\ ReadyIsStored' BY <2>1
  <2>6. EndIsStopped' /\ StoppedByScript' BY <2>1 DEF Guest
  <2> QED BY <2>2, <2>3, <2>4, <2>5, <2>6
<1>7. CASE guest # NoGuest /\ ReadState
  <2>1. UNCHANGED <<guest, leave>> /\ script = "read" BY <1>7 DEF ReadState
  <2>2. /\ script' \in {"restart", "done", "failed"} /\ thrown' \in BOOLEAN
        /\ (script' = "restart" <=> ~leave)
        /\ (script' = "done" => guest.plain)
        /\ captured' = IF guest.plain THEN [captured EXCEPT !.state = guest.state] ELSE captured
    BY <1>7, <1>11 DEF ReadState, Guest
  <2>3. captured \in Identity /\ captured.sid = guest.sid BY <1>7, <2>1
  <2>4. /\ captured' \in Identity /\ captured' # NoIdentity /\ captured'.sid = guest.sid
        /\ (guest.plain => captured'.state = guest.state)
    BY ONLY <1>7, <1>11, <2>2, <2>3, Updates, Values
  <2>5. TypeOK' BY <1>0, <2>1, <2>2, <2>4
  <2>6. ScriptOwned' /\ ExpectsStored' BY <1>0, <2>1, <2>2
  <2>7. ~guest.running BY <1>7, <2>1
  <2>8. CapturedCurrent' BY ONLY <2>1, <2>2, <2>4, <2>7 DEF CapturedCurrent
  <2>9. SyncIsStored' /\ ReadyIsStored' BY <1>0, <2>1
  <2>10. EndIsStopped' BY <1>0, <2>1
  <2>11. StoppedByScript' BY <1>0, <2>1, <2>2
  <2> QED BY <2>5, <2>6, <2>8, <2>9, <2>10, <2>11
<1>8. CASE guest # NoGuest /\ RestartService
  <2> USE <1>0, <1>8 DEF RestartService
  <2>1. guest' \in Guest /\ guest'.sid = guest.sid
    BY ONLY <1>8, <1>11, <1>12, Updates DEF RestartService
  <2>2. TypeOK' BY <2>1
  <2>3. ScriptOwned' /\ ExpectsStored' BY <2>1
  <2>4. CapturedCurrent' BY <2>1 DEF Guest
  <2>5. SyncIsStored' /\ ReadyIsStored' BY <2>1
  <2>6. EndIsStopped' /\ StoppedByScript' BY <2>1 DEF Guest
  <2> QED BY <2>2, <2>3, <2>4, <2>5, <2>6
<1>9. CASE guest # NoGuest /\ Confirm
  <2>1. /\ script' \in {"done", "failed"} /\ script = "confirm"
        /\ UNCHANGED <<guest, thrown, leave, captured>>
    BY <1>9 DEF Confirm
  <2>2. TypeOK' BY <1>0, <2>1
  <2>3. ScriptOwned' /\ ExpectsStored' BY <1>0, <2>1
  <2>4. captured # NoIdentity /\ captured.sid = guest.sid BY <1>9, <2>1
  <2>5. pc = "captured" => (leave <=> stored # NoIdentity) OBVIOUS
  <2>6. CapturedCurrent' BY <2>1, <2>4, <2>5
  <2>7. SyncIsStored' /\ ReadyIsStored' BY <1>0, <2>1
  <2>8. EndIsStopped' /\ StoppedByScript' BY <1>0, <2>1
  <2> QED BY <2>2, <2>3, <2>6, <2>7, <2>8
<1>10. CASE ClientWrites
  <2> USE <1>0, <1>10 DEF ClientWrites, Identified
  <2>1. guest' \in Guest /\ guest'.sid = guest.sid BY DEF Guest, State, Identity
  <2>2. TypeOK' BY <2>1
  <2>3. ScriptOwned' /\ ExpectsStored' BY <2>1
  <2>4. CapturedCurrent' BY <2>1 DEF Guest
  <2>5. SyncIsStored' /\ ReadyIsStored' BY <2>1
  <2>6. EndIsStopped' /\ StoppedByScript' BY <2>1 DEF Guest
  <2> QED BY <2>2, <2>3, <2>4, <2>5, <2>6
<1>13. CASE guest # NoGuest /\ StopForEnroll
  <2> USE <1>0, <1>13 DEF StopForEnroll
  <2>1. guest' \in Guest /\ guest'.sid = guest.sid
    BY ONLY <1>13, <1>11, <1>12, Updates DEF StopForEnroll
  <2>2. TypeOK' BY <2>1
  <2>3. ScriptOwned' /\ ExpectsStored' BY <2>1
  <2>4. CapturedCurrent' BY <2>1 DEF Guest
  <2>5. SyncIsStored' /\ ReadyIsStored' BY <2>1
  <2>6. EndIsStopped' /\ StoppedByScript' BY <2>1 DEF Guest
  <2> QED BY <2>2, <2>3, <2>4, <2>5, <2>6
<1> QED BY <1>0, <1>1, <1>2, <1>3, <1>4, <1>5, <1>6, <1>7, <1>8, <1>9, <1>10, <1>13
       DEF GuestStep, ScriptStep

LEMMA ChangeInv ==
  ASSUME IInv, ChangeIdentity PROVE IInv'
<1> USE DEF IInv, TypeOK, ScriptOwned, ExpectsStored, CapturedCurrent, SyncIsStored, ReadyIsStored,
    EndIsStopped, StoppedByScript, Ended, Working, Steps, Phases, DownSteps,
    runVars, hostVars, choices
<1>1. /\ guest \in Guest /\ guest # NoGuest /\ guest.running
      /\ UNCHANGED <<script, thrown, leave, captured, stored, connectable, ready, op, pc, bootstrap,
                     wasReady, repair, faults>>
  BY DEF ChangeIdentity, IdentityChanges, Identified
<1>2. PICK n \in Node : guest' = [guest EXCEPT !.state = [node |-> n, version |-> 0]]
  BY DEF ChangeIdentity, IdentityChanges
<1>3. guest' \in Guest /\ guest'.sid = guest.sid /\ guest'.running /\ guest' # NoGuest
  BY <1>1, <1>2, Values DEF Guest, State
<1>4. changes' \in Nat BY DEF ChangeIdentity
<1>5. TypeOK'
  <2> HIDE DEF Operation
  <2> QED BY <1>1, <1>3, <1>4
<1>6. ScriptOwned' /\ ExpectsStored' BY <1>1
<1>7. CapturedCurrent' BY <1>1, <1>3
<1>8. SyncIsStored' /\ ReadyIsStored' /\ EndIsStopped' BY <1>1, <1>3
<1>9. StoppedByScript' BY <1>3
<1> QED BY <1>5, <1>6, <1>7, <1>8, <1>9

LEMMA StutterInv ==
  ASSUME IInv, UNCHANGED vars PROVE IInv'
BY DEF IInv, TypeOK, ScriptOwned, ExpectsStored, CapturedCurrent, SyncIsStored, ReadyIsStored,
   EndIsStopped, StoppedByScript, vars, guestVars, runVars, hostVars, choices, bounds

LEMMA NextInv == IInv /\ [Next]_vars => IInv'
BY UpInv, DownInv, GuestInv, WorldInv, ChangeInv, StutterInv DEF Next

-----------------------------------------------------------------------------
(* The theorems.                                                           *)

\* What the steps of the commands rely on, in every reachable state, however
\* many commands die, connections are lost or identities change.
THEOREM TailscaleInvariant == Spec => []IInv
<1>1. IInv /\ [Next]_vars => IInv' BY NextInv
<1> QED BY InitInv, <1>1, PTL DEF Spec

\* Every variable keeps its type.
THEOREM TailscaleTypes == Spec => []TypeOK
<1>1. IInv => TypeOK BY DEF IInv
<1> QED BY TailscaleInvariant, <1>1, PTL

\* A ready Sandbox's identity is stored, for the Windows user of that
\* Sandbox (StoreIdentity before PublishReady in session.go).
THEOREM ReadyStored == Spec => []ReadyIsStored
<1>1. IInv => ReadyIsStored BY DEF IInv
<1> QED BY TailscaleInvariant, <1>1, PTL

\* When `down` ends a ready Sandbox, the stored state is the last one its
\* client wrote (the capture leaves the service stopped).
THEOREM ReadyKept == Spec => []ReadyStateKept
<1>1. IInv => ReadyStateKept BY DEF IInv, EndIsStopped, ReadyStateKept
<1> QED BY TailscaleInvariant, <1>1, PTL

\* Without a kill or a lost connection no command leaves the service of a
\* Sandbox stopped (restartTailscaleAfterFailedDown, the `finally` blocks).
THEOREM ServiceIsRestarted == Spec => []ServiceRestarted
<1>1. IInv => ServiceRestarted
  <2> SUFFICES ASSUME IInv, pc = "idle", guest # NoGuest, guest.installed, ~guest.running,
                      ~(faults > 0)
               PROVE  FALSE
    BY DEF ServiceRestarted
  <2>1. faults = 0 BY DEF IInv, TypeOK
  <2>2. script = "none" BY DEF IInv, ScriptOwned
  <2> QED BY <2>1, <2>2 DEF IInv, StoppedByScript
<1> QED BY TailscaleInvariant, <1>1, PTL

\* No step loses the stored identity or gives it to another device or
\* Windows user (verifyStableTailscaleIdentity, the comparison of the SID).
THEOREM StoredIsStable == Spec => IdentityStable
<1> DEFINE Kept == stored # NoIdentity => stored' # NoIdentity /\ Stable(stored, stored')
<1>1. IInv /\ [Next]_vars => [Kept]_stored
  <2> SUFFICES ASSUME IInv, Next, stored # NoIdentity, stored' # stored
               PROVE  stored' # NoIdentity /\ Stable(stored, stored')
    BY DEF vars
  <2>1. CASE StoreIdentity
    <3>1. captured # NoIdentity /\ Expected = stored
      BY <2>1 DEF StoreIdentity, IInv, CapturedCurrent, ExpectsStored, Expected, Phases
    <3> QED BY <2>1, <3>1 DEF StoreIdentity
  <2>2. CASE StoreState
    <3>1. stored \in Identity /\ stored' = [stored EXCEPT !.state = captured.state]
          /\ captured \in Identity
      BY <2>2 DEF StoreState, IInv, TypeOK, CapturedCurrent
    <3>2. stored'.sid = stored.sid /\ stored'.node = stored.node /\ stored' \in Identity
      BY ONLY <3>1 DEF Identity
    <3> QED BY <3>2, Values DEF Stable
  <2>3. CASE StoreRecovered
    BY <2>3 DEF StoreRecovered, IInv, ExpectsStored
  <2> QED
    BY <2>1, <2>2, <2>3
    DEF Next, UpStep, DownStep, GuestStep, Reconcile, Launch, Retain, StartOperation, VerifyConnection,
        RunDevelopment, EnterIdentity, Repair, StartScript, PublishReady, FinishOperation,
        ProvisioningFails, BeginDown, SelectCapture, RecheckConnectable, StartCapture, SandboxMissing,
        CaptureFails, EndSandbox, EndFails, RestartAfterFailure, DownRefused, BootstrapConnects,
        SandboxExits, Crash, LoseConnection, RestartLost, ChangeIdentity
<1> QED BY TailscaleInvariant, <1>1, PTL DEF Spec, IdentityStable
=============================================================================
