----------------------- MODULE WorkstationSetupProofs -----------------------
(***************************************************************************)
(* WorkstationSetup for every plan of jobs, every profile and any number   *)
(* of setups and mishaps: the evidence of steps.json is what the jobs left *)
(* on the machine, and a report that says complete is right.               *)
(***************************************************************************)
EXTENDS WorkstationSetup, TLAPS

IsJobMap(f) == f = [j \in Job |-> f[j]]

Result == {"pending", "running", "blocked", "retained", "succeeded", "unavailable", "failed"}

Kind == {"none", "started", "steps", "final"}

\* The steps of the host before the script runs, and after it has ended.
Early == {"idle", "entering", "marking", "selected", "resetting", "planning"}
Late == {"collecting", "importing", "publishing"}

JobsTypeOK ==
  /\ IsJobMap(machine) /\ IsJobMap(steps)
  /\ saved # Torn => IsJobMap(saved)
  /\ results \in [Job -> Result]

HostAndScript ==
  /\ host \in Early \cup {"running"} \cup Late
  /\ host \in Early => script = "off"
  /\ host = "running" => script \in {"loading", "job", "acting", "told"}
  /\ host \in Late => script \in {"ok", "failed"}
  /\ script \in {"off", "loading"} => results = Pending /\ steps = NoSteps
  /\ script = "ok" => ~flawed

\* What the script knows and what is saved is what the machine holds.
Evidence ==
  /\ \A j \in Job : steps[j] # NoPrint => machine[j] = steps[j]
  /\ saved # Torn => \A j \in Job : saved[j] # NoPrint => machine[j] = saved[j]

\* The job whose action runs: nothing is known of it, nothing is built on it.
Acting ==
  script = "acting" =>
    /\ at \in DOMAIN Plan /\ results[Plan[at]] = "running" /\ ~Blocked(Plan[at])
    /\ steps[Plan[at]] = NoPrint
    /\ saved # Torn => saved[Plan[at]] = NoPrint

\* A good job is as it was asked for, upon good jobs as they are now.
GoodIsCurrent ==
  \A j \in Job : results[j] \in Good =>
    /\ steps[j] = Fingerprint(j)
    /\ \A d \in Requires[j] : results[d] \in Good

JobsInv == JobsTypeOK /\ HostAndScript /\ Evidence /\ Acting /\ GoodIsCurrent

ReportTypeOK ==
  /\ setup \in Nat
  /\ report \in [by : Nat, kind : Kind, complete : BOOLEAN, results : [Job -> Result]]
  /\ report.by <= setup

\* Which setup the report is of, and whether it is the last.
ReportIsOf ==
  /\ host \in {"resetting", "planning", "running"} \cup Late => report.by = setup
  /\ host = "publishing" => report.kind = "final"
  /\ report.kind = "final" /\ report.by = setup => host \in {"publishing", "idle"}

\* A report that could be saved says what the script knows.
Reported == script \in {"job", "ok"} /\ ~flawed => report.results = results

Installed(j) ==
  machine[j] = <<request.profile.wanted[j], [d \in Requires[j] |-> machine[d]]>>

CompleteInstalled ==
  report.kind = "final" /\ report.complete /\ report.by = setup => \A j \in Job : Installed(j)

ExitIsTrue == exit \in {"complete", "incomplete"} => host = "idle" /\ ExitMatchesReport

ReportInv ==
  ReportTypeOK /\ ReportIsOf /\ Reported /\ CompleteInstalled /\ ExitIsTrue

SetupInv == JobsInv /\ ReportInv

-----------------------------------------------------------------------------
\* The jobs of a plan, and what they require.
LEMMA PlanFacts ==
  /\ \A i \in DOMAIN Plan : Plan[i] \in Job
  /\ \A j \in Job : Requires[j] \subseteq Job
BY PlanAssumption DEF Job

\* Before the script knows anything.
LEMMA NothingKnown ==
  /\ IsJobMap(NoSteps) /\ Pending \in [Job -> Result]
  /\ \A j \in Job : NoSteps[j] = NoPrint /\ Pending[j] = "pending" /\ Pending[j] \notin Good
BY DEF IsJobMap, NoSteps, Pending, Result, Good

\* A fingerprint is not the absence of one.
LEMMA PrintIsSome == \A a, b : <<a, b>> # NoPrint
BY DEF NoPrint

-----------------------------------------------------------------------------
(* The jobs. *)

\* A step of the host that leaves the script and the machine alone.
LEMMA JobsKept ==
  ASSUME JobsInv, HostAndScript', UNCHANGED <<machine, saved, scriptVars>>,
         request'.profile = request.profile \/ host \in Early
  PROVE  JobsInv'
<1>1. JobsTypeOK' /\ Evidence'
  BY DEF JobsInv, JobsTypeOK, IsJobMap, Evidence, scriptVars
<1>2. CASE host \in Early
  <2>1. script = "off" /\ results = Pending
    BY <1>2 DEF JobsInv, HostAndScript
  <2>2. Acting'
    BY <2>1 DEF Acting, scriptVars
  <2>3. GoodIsCurrent'
    BY <2>1, NothingKnown DEF GoodIsCurrent, scriptVars
  <2>. QED BY <1>1, <2>2, <2>3 DEF JobsInv
<1>3. CASE request'.profile = request.profile
  <2>1. \A j : Fingerprint(j)' = Fingerprint(j)
    BY <1>3 DEF Fingerprint, scriptVars
  <2>2. Acting'
    BY DEF JobsInv, Acting, Blocked, scriptVars
  <2>3. GoodIsCurrent'
    BY <2>1 DEF JobsInv, GoodIsCurrent, scriptVars
  <2>. QED BY <1>1, <2>2, <2>3 DEF JobsInv
<1>. QED BY <1>2, <1>3

\* The script is not there, or is only just there.
LEMMA JobsReset ==
  ASSUME JobsInv, HostAndScript', UNCHANGED <<machine, saved>>, script' # "acting",
         steps' = NoSteps, results' = Pending
  PROVE  JobsInv'
<1>1. JobsTypeOK'
  BY NothingKnown DEF JobsInv, JobsTypeOK, IsJobMap
<1>2. Evidence'
  BY NothingKnown DEF JobsInv, Evidence
<1>3. Acting' /\ GoodIsCurrent'
  BY NothingKnown DEF Acting, GoodIsCurrent
<1>. QED BY <1>1, <1>2, <1>3 DEF JobsInv

\* One action of the host after the other: where it is with the script.
LEMMA HostKeepsJobs ==
  ASSUME JobsInv, HostStep
  PROVE  JobsInv'
<1>1. CASE RunScript \/ PublishHTML \/ PublishFails \/ SetupDies
  <2>1. HostAndScript' /\ UNCHANGED <<machine, saved>> /\ script' # "acting"
        /\ steps' = NoSteps /\ results' = Pending
    BY <1>1 DEF JobsInv, HostAndScript, RunScript, PublishHTML, PublishFails, SetupDies, ScriptGone,
                diskVars, Early, Late
  <2>. QED BY <2>1, JobsReset
<1>2. CASE Begin \/ Select
  <2>1. HostAndScript' /\ UNCHANGED <<machine, saved, scriptVars>> /\ host \in Early
    BY <1>2 DEF JobsInv, HostAndScript, Begin, Select, diskVars, scriptVars, Early, Late
  <2>. QED BY <2>1, JobsKept
<1>3. CASE \/ CreateMarker \/ WriteMarker \/ RefuseRoot \/ ResetReport \/ ResetHTML \/ PrepareFails
           \/ CreateSettings \/ WriteSettings \/ PublishReport
  <2>1. HostAndScript' /\ UNCHANGED <<machine, saved, scriptVars, request>>
    BY <1>3 DEF JobsInv, HostAndScript, CreateMarker, WriteMarker, RefuseRoot, ResetReport,
                ResetHTML, PrepareFails, CreateSettings, WriteSettings, PublishReport,
                diskVars, scriptVars, hostVars, Early, Late
  <2>. QED BY <2>1, JobsKept
<1>4. CASE StopScript
  <2>1. /\ HostAndScript' /\ UNCHANGED <<machine, saved, steps, results, request>>
        /\ script' # "acting"
    BY <1>4 DEF JobsInv, HostAndScript, StopScript, diskVars, Early, Late
  <2>2. JobsTypeOK' /\ Evidence' /\ Acting'
    BY <2>1 DEF JobsInv, JobsTypeOK, IsJobMap, Evidence, Acting
  <2>3. GoodIsCurrent'
    BY <2>1 DEF JobsInv, GoodIsCurrent, Fingerprint
  <2>. QED BY <2>1, <2>2, <2>3 DEF JobsInv
<1>. QED BY <1>1, <1>2, <1>3, <1>4 DEF HostStep

\* What is read from the file holds as long as the file does.
LEMMA LoadKeepsJobs ==
  ASSUME JobsInv, LoadSteps
  PROVE  JobsInv'
<1>. USE DEF JobsInv
<1>1. results = Pending /\ UNCHANGED <<machine, saved, results>> /\ script' = "job"
      /\ (steps' = NoSteps \/ (saved # Torn /\ steps' = saved))
  BY DEF LoadSteps, HostAndScript, diskVars
<1>2. JobsTypeOK'
  BY <1>1, NothingKnown DEF JobsTypeOK, IsJobMap
<1>3. HostAndScript'
  BY DEF LoadSteps, HostAndScript, Early, Late
<1>4. Evidence'
  BY <1>1, NothingKnown DEF Evidence
<1>5. Acting' /\ GoodIsCurrent'
  BY <1>1, NothingKnown DEF Acting, GoodIsCurrent
<1>. QED BY <1>2, <1>3, <1>4, <1>5

\* A job becomes blocked, or retained for what is known of it.
LEMMA PassedOver ==
  ASSUME JobsInv, NEW j \in Job, NEW r \in {"blocked", "retained"},
         HostAndScript', UNCHANGED <<machine, saved, steps, request>>, script' # "acting",
         results' = [results EXCEPT ![j] = r],
         r = "blocked" => results[j] \notin Good \/ Blocked(j),
         r = "retained" => ~Blocked(j) /\ Current(j)
  PROVE  JobsInv'
<1>. USE DEF JobsInv
<1>1. JobsTypeOK' /\ Evidence' /\ Acting'
  BY DEF JobsTypeOK, IsJobMap, Evidence, Acting, Result
<1>2. \A k : Fingerprint(k)' = Fingerprint(k)
  BY DEF Fingerprint
<1>3. r = "blocked" => results[j] \notin Good
  BY DEF GoodIsCurrent, Blocked
<1>4. \A k \in Job : results'[k] = IF k = j THEN r ELSE results[k]
  BY DEF JobsTypeOK
<1>5. \A k \in Job : results[k] \in Good => results'[k] \in Good
  BY <1>3, <1>4 DEF Good
<1>6. ASSUME NEW k \in Job, results'[k] \in Good
      PROVE  steps'[k] = Fingerprint(k)' /\ \A d \in Requires[k] : results'[d] \in Good
  <2>1. CASE k # j
    BY <1>2, <1>4, <1>5, <1>6, <2>1, PlanFacts DEF GoodIsCurrent
  <2>2. CASE k = j
    <3>1. ~Blocked(j) /\ Current(j)
      BY <1>4, <1>6, <2>2 DEF Good
    <3>. QED BY <1>2, <1>5, <2>2, <3>1, PlanFacts DEF Blocked, Current
  <2>. QED BY <2>1, <2>2
<1>7. GoodIsCurrent'
  BY <1>6 DEF GoodIsCurrent
<1>. QED BY <1>1, <1>7

\* Nothing good is built on a job that is not good: it may change.
LEMMA OthersStayGood ==
  ASSUME JobsInv, NEW j \in Job, results[j] \notin Good, UNCHANGED request,
         NEW r, results' = [results EXCEPT ![j] = r],
         \A k \in Job \ {j} : steps'[k] = steps[k]
  PROVE  \A k \in Job \ {j} : results'[k] \in Good =>
           /\ steps'[k] = Fingerprint(k)'
           /\ \A d \in Requires[k] : results'[d] \in Good
<1>1. SUFFICES ASSUME NEW k \in Job \ {j}, results'[k] \in Good
               PROVE  /\ steps'[k] = Fingerprint(k)'
                      /\ \A d \in Requires[k] : results'[d] \in Good
  OBVIOUS
<1>2. results[k] \in Good
  BY <1>1 DEF JobsInv, JobsTypeOK
<1>3. steps[k] = Fingerprint(k) /\ \A d \in Requires[k] : results[d] \in Good
  BY <1>2 DEF JobsInv, GoodIsCurrent
<1>4. \A d \in Requires[k] : d \in Job \ {j}
  BY <1>3, PlanFacts
<1>5. [d \in Requires[k] |-> steps'[d]] = [d \in Requires[k] |-> steps[d]]
  BY <1>4
<1>6. Fingerprint(k)' = Fingerprint(k)
  BY <1>5 DEF Fingerprint
<1>7. \A d \in Requires[k] : results'[d] \in Good
  BY <1>3, <1>4 DEF JobsInv, JobsTypeOK
<1>. QED BY <1>1, <1>3, <1>6, <1>7

\* What a job left is forgotten before the job is run again.
LEMMA Forgotten ==
  ASSUME JobsInv, NEW j \in Job, ~Current(j), UNCHANGED <<machine, request>>,
         steps' = [steps EXCEPT ![j] = NoPrint],
         saved' = saved \/ (saved # Torn /\ saved' = steps'),
         NEW r \in Result \ Good, results' = [results EXCEPT ![j] = r]
  PROVE  JobsTypeOK' /\ Evidence' /\ GoodIsCurrent' /\ steps'[j] = NoPrint /\ results'[j] = r
<1>. USE DEF JobsInv
<1>1. results[j] \notin Good
  BY DEF GoodIsCurrent, Current
<1>2. \A k \in Job : steps'[k] = IF k = j THEN NoPrint ELSE steps[k]
  BY DEF JobsTypeOK, IsJobMap
<1>3. IsJobMap(steps')
  BY DEF JobsTypeOK, IsJobMap
<1>4. JobsTypeOK'
  BY <1>3 DEF JobsTypeOK, IsJobMap
<1>5. \A k \in Job : steps'[k] # NoPrint => machine'[k] = steps'[k]
  BY <1>2 DEF Evidence
<1>6. Evidence'
  BY <1>5 DEF Evidence
<1>7. results'[j] = r
  BY DEF JobsTypeOK
<1>8. \A k \in Job \ {j} : steps'[k] = steps[k]
  BY <1>2
<1>9. GoodIsCurrent'
  BY <1>1, <1>7, <1>8, OthersStayGood DEF GoodIsCurrent
<1>. QED BY <1>2, <1>4, <1>6, <1>7, <1>9

LEMMA StartKeepsJobs ==
  ASSUME JobsInv, StartJob
  PROVE  JobsInv'
<1>. DEFINE j == Plan[at]
<1>1. j \in Job /\ script = "job" /\ UNCHANGED <<machine, request, host, at>>
  BY PlanFacts DEF StartJob, hostVars
<1>2. HostAndScript'
  BY DEF JobsInv, HostAndScript, StartJob, Early, Late
<1>3. CASE Blocked(j) /\ results' = [results EXCEPT ![j] = "blocked"] /\ script' = "told"
           /\ UNCHANGED <<saved, steps>>
  BY <1>1, <1>2, <1>3, PassedOver
<1>4. CASE ~Blocked(j) /\ Current(j) /\ results' = [results EXCEPT ![j] = "retained"]
           /\ script' = "told" /\ UNCHANGED <<saved, steps>>
  BY <1>1, <1>2, <1>4, PassedOver
<1>5. CASE ~Blocked(j) /\ ~Current(j) /\ results' = [results EXCEPT ![j] = "running"]
           /\ Invalidate(j) /\ script' = "acting"
  <2>1. /\ steps' = [steps EXCEPT ![j] = NoPrint]
        /\ saved' = IF saved = Torn THEN saved ELSE steps'
    BY <1>5 DEF Invalidate, SaveSteps
  <2>2. "running" \in Result \ Good
    BY DEF Result, Good
  <2>3. /\ JobsTypeOK' /\ Evidence' /\ GoodIsCurrent'
        /\ steps'[j] = NoPrint /\ results'[j] = "running"
    BY <1>1, <1>5, <2>1, <2>2, Forgotten
  <2>4. ~Blocked(j)'
    <3>1. \A d \in Requires[j] : d # j
      BY <1>1, <1>5, PlanFacts, <2>2 DEF Blocked, JobsInv, GoodIsCurrent, Current
    <3>. QED BY <1>1, <1>5, <3>1, PlanFacts DEF Blocked, JobsInv, JobsTypeOK
  <2>5. Acting'
    BY <1>1, <2>1, <2>3, <2>4 DEF Acting, StartJob
  <2>. QED BY <1>2, <2>3, <2>5 DEF JobsInv
<1>. QED BY <1>3, <1>4, <1>5 DEF StartJob

LEMMA InvalidateFailsKeepsJobs ==
  ASSUME JobsInv, InvalidateFails
  PROVE  JobsInv'
<1>1. Plan[at] \in Job /\ "failed" \in Result \ Good
  BY PlanFacts DEF InvalidateFails, Result, Good
<1>2. JobsTypeOK' /\ Evidence' /\ GoodIsCurrent'
  BY <1>1, Forgotten DEF InvalidateFails, diskVars, hostVars
<1>3. HostAndScript' /\ Acting'
  BY DEF JobsInv, HostAndScript, Acting, InvalidateFails, Early, Late
<1>. QED BY <1>2, <1>3 DEF JobsInv

LEMMA ActionKeepsJobs ==
  ASSUME JobsInv, StartAction
  PROVE  JobsInv'
<1>. USE DEF JobsInv
<1>. DEFINE j == Plan[at]
<1>1. /\ j \in Job /\ machine' = [machine EXCEPT ![j] = Torn]
      /\ UNCHANGED <<saved, steps, results, script, at, flawed, request, host>>
  BY PlanFacts DEF StartAction, Acting, scriptVars, hostVars
<1>2. steps[j] = NoPrint /\ (saved # Torn => saved[j] = NoPrint)
  BY DEF StartAction, Acting
<1>3. JobsTypeOK'
  BY <1>1 DEF JobsTypeOK, IsJobMap
<1>4. \A k \in Job \ {j} : machine'[k] = machine[k]
  BY <1>1 DEF JobsTypeOK, IsJobMap
<1>5. Evidence'
  BY <1>1, <1>2, <1>4 DEF Evidence
<1>6. HostAndScript' /\ Acting' /\ GoodIsCurrent'
  BY <1>1 DEF HostAndScript, Acting, Blocked, GoodIsCurrent, Fingerprint
<1>. QED BY <1>3, <1>5, <1>6

\* The job whose action ends well is as it was asked for.
LEMMA Succeeds ==
  ASSUME JobsInv, script = "acting", UNCHANGED request, NEW j, j = Plan[at],
         machine' = [machine EXCEPT ![j] = Fingerprint(j)],
         steps' = [steps EXCEPT ![j] = Fingerprint(j)],
         saved' = saved \/ (saved # Torn /\ saved' = steps'),
         NEW r \in Result, results' = [results EXCEPT ![j] = r]
  PROVE  JobsTypeOK' /\ Evidence' /\ GoodIsCurrent'
<1>. USE DEF JobsInv
<1>1. /\ j \in Job /\ results[j] = "running" /\ ~Blocked(j) /\ steps[j] = NoPrint
      /\ saved # Torn => saved[j] = NoPrint
  BY PlanFacts DEF Acting
<1>2. results[j] \notin Good
  BY <1>1 DEF Good
<1>3. \A k \in Job : steps'[k] = IF k = j THEN Fingerprint(j) ELSE steps[k]
  BY <1>1 DEF JobsTypeOK, IsJobMap
<1>4. \A k \in Job : machine'[k] = IF k = j THEN Fingerprint(j) ELSE machine[k]
  BY <1>1 DEF JobsTypeOK, IsJobMap
<1>5. IsJobMap(steps') /\ IsJobMap(machine')
  BY <1>1 DEF JobsTypeOK, IsJobMap
<1>6. JobsTypeOK'
  BY <1>1, <1>5 DEF JobsTypeOK, IsJobMap
<1>7. \A k \in Job : steps'[k] # NoPrint => machine'[k] = steps'[k]
  BY <1>3, <1>4 DEF Evidence
<1>8. Evidence'
  <2>1. CASE saved' = saved
    BY <1>1, <1>4, <1>7, <2>1 DEF Evidence
  <2>2. CASE saved # Torn /\ saved' = steps'
    BY <1>7, <2>2 DEF Evidence
  <2>. QED BY <2>1, <2>2
<1>9. \A d \in Requires[j] : d \in Job \ {j} /\ results[d] \in Good
  BY <1>1, <1>2, PlanFacts DEF Blocked
<1>10. Fingerprint(j)' = Fingerprint(j)
  <2>1. [d \in Requires[j] |-> steps'[d]] = [d \in Requires[j] |-> steps[d]]
    BY <1>3, <1>9
  <2>. QED BY <2>1 DEF Fingerprint
<1>11. \A d \in Requires[j] : results'[d] \in Good
  BY <1>9 DEF JobsTypeOK
<1>12. \A k \in Job \ {j} : steps'[k] = steps[k]
  BY <1>3
<1>13. GoodIsCurrent'
  <2>1. \A k \in Job \ {j} : results'[k] \in Good =>
          /\ steps'[k] = Fingerprint(k)'
          /\ \A d \in Requires[k] : results'[d] \in Good
    BY <1>1, <1>2, <1>12, OthersStayGood
  <2>2. steps'[j] = Fingerprint(j)'
    BY <1>1, <1>3, <1>10
  <2>. QED BY <1>11, <2>1, <2>2 DEF GoodIsCurrent
<1>. QED BY <1>6, <1>8, <1>13

LEMMA EndKeepsJobs ==
  ASSUME JobsInv, EndAction
  PROVE  JobsInv'
<1>. USE DEF JobsInv
<1>. DEFINE j == Plan[at]
<1>1. script = "acting" /\ UNCHANGED request /\ j \in Job
  BY PlanFacts DEF EndAction, hostVars, Acting
<1>2. HostAndScript' /\ Acting'
  BY DEF HostAndScript, Acting, EndAction, Early, Late
<1>3. CASE /\ machine' = [machine EXCEPT ![j] = Fingerprint(j)]
           /\ steps' = [steps EXCEPT ![j] = Fingerprint(j)]
           /\ results' = [results EXCEPT ![j] = "succeeded"]
           /\ SaveSteps
  <2>1. "succeeded" \in Result /\ (saved' = saved \/ (saved # Torn /\ saved' = steps'))
    BY <1>3 DEF SaveSteps, Result
  <2>2. JobsTypeOK' /\ Evidence' /\ GoodIsCurrent'
    BY <1>1, <1>3, <2>1, Succeeds
  <2>. QED BY <1>2, <2>2
<1>4. ASSUME NEW r \in {"unavailable", "failed"}, results' = [results EXCEPT ![j] = r],
             UNCHANGED <<machine, saved, steps>>
      PROVE  JobsInv'
  <2>1. JobsTypeOK' /\ Evidence'
    BY <1>4 DEF JobsTypeOK, IsJobMap, Evidence, Result
  <2>2. results[j] \notin Good /\ results'[j] \notin Good
    BY <1>1, <1>4 DEF Acting, JobsTypeOK, Good
  <2>3. GoodIsCurrent'
    BY <1>1, <1>4, <2>2, OthersStayGood DEF GoodIsCurrent
  <2>. QED BY <1>2, <2>1, <2>3
<1>. QED BY <1>3, <1>4 DEF EndAction

LEMMA EvidenceFailsKeepsJobs ==
  ASSUME JobsInv, EvidenceFails
  PROVE  JobsInv'
<1>1. JobsTypeOK' /\ Evidence' /\ GoodIsCurrent'
  <2>1. "failed" \in Result
    BY DEF Result
  <2>. QED BY <2>1, Succeeds DEF EvidenceFails, hostVars
<1>2. HostAndScript' /\ Acting'
  BY DEF JobsInv, HostAndScript, Acting, EvidenceFails, Early, Late
<1>. QED BY <1>1, <1>2 DEF JobsInv

LEMMA OthersKeepJobs ==
  ASSUME JobsInv, EndJob \/ EndScript \/ DiskChanges \/ UNCHANGED setupVars
  PROVE  JobsInv'
<1>1. /\ UNCHANGED <<machine, steps, results, request>>
      /\ script' # "acting" \/ UNCHANGED <<script, at>>
      /\ saved' = saved \/ saved' = Torn
  BY DEF EndJob, EndScript, DiskChanges, setupVars, diskVars, hostVars, scriptVars
<1>2. HostAndScript'
  <2>1. CASE EndJob
    BY <2>1 DEF JobsInv, HostAndScript, EndJob, Early, Late
  <2>2. CASE EndScript
    BY <2>2 DEF JobsInv, HostAndScript, EndScript, Early, Late
  <2>3. CASE DiskChanges \/ UNCHANGED setupVars
    BY <2>3 DEF JobsInv, HostAndScript, DiskChanges, setupVars, scriptVars
  <2>. QED BY <2>1, <2>2, <2>3
<1>3. JobsTypeOK' /\ Evidence'
  BY <1>1 DEF JobsInv, JobsTypeOK, IsJobMap, Evidence
<1>4. Acting'
  BY <1>1 DEF JobsInv, Acting, Blocked
<1>5. GoodIsCurrent'
  BY <1>1 DEF JobsInv, GoodIsCurrent, Fingerprint
<1>. QED BY <1>2, <1>3, <1>4, <1>5 DEF JobsInv

LEMMA JobsInit == SetupInit => JobsInv
<1>. SUFFICES ASSUME SetupInit PROVE JobsInv
  OBVIOUS
<1>1. machine = NoSteps /\ saved = NoSteps /\ steps = NoSteps /\ results = Pending
  BY DEF SetupInit
<1>2. JobsTypeOK
  BY <1>1, NothingKnown DEF JobsTypeOK
<1>3. Evidence /\ GoodIsCurrent
  BY <1>1, NothingKnown DEF Evidence, GoodIsCurrent
<1>4. HostAndScript /\ Acting
  BY <1>1 DEF SetupInit, HostAndScript, Acting, Early, Late
<1>. QED BY <1>2, <1>3, <1>4 DEF JobsInv

LEMMA JobsNext == JobsInv /\ [SetupNext]_setupVars => JobsInv'
BY HostKeepsJobs, LoadKeepsJobs, StartKeepsJobs, InvalidateFailsKeepsJobs, ActionKeepsJobs,
   EndKeepsJobs, EvidenceFailsKeepsJobs, OthersKeepJobs DEF SetupNext, ScriptStep

-----------------------------------------------------------------------------
(* The report. *)

\* A step that says nothing new and leaves the machine alone.
LEMMA ReportKept ==
  ASSUME ReportInv, UNCHANGED <<report, html, setup, exit, machine, request>>,
         host' = host \/ (host' = "idle" /\ exit \notin {"complete", "incomplete"})
           \/ (host \in {"running", "collecting", "importing", "planning"}
                 /\ host' \in {"running", "collecting", "importing"}),
         Reported'
  PROVE  ReportInv'
<1>1. ReportTypeOK' /\ ReportIsOf' /\ CompleteInstalled'
  BY DEF ReportInv, ReportTypeOK, ReportIsOf, CompleteInstalled, Installed, Late
<1>2. ExitIsTrue'
  BY DEF ReportInv, ExitIsTrue, ExitMatchesReport
<1>. QED BY <1>1, <1>2 DEF ReportInv

\* A new report of a setup that has not ended.
LEMMA ReportOfThis ==
  ASSUME ReportInv, NEW k \in {"started", "steps"}, NEW r \in [Job -> Result],
         report' = [by |-> setup, kind |-> k, complete |-> FALSE, results |-> r],
         UNCHANGED <<setup, exit>>, host # "idle", host' \in {"resetting", "running"},
         Reported'
  PROVE  ReportInv'
<1>0. setup' \in Nat /\ k \in Kind
  BY DEF ReportInv, ReportTypeOK, Kind
<1>1. ReportTypeOK'
  <2>1. report' \in [by : Nat, kind : Kind, complete : BOOLEAN, results : [Job -> Result]]
    BY <1>0
  <2>2. report'.by <= setup'
    BY <1>0
  <2>. QED BY <1>0, <2>1, <2>2 DEF ReportTypeOK
<1>2. report'.kind = k /\ k # "final" /\ report'.by = setup
  OBVIOUS
<1>3. ReportIsOf' /\ CompleteInstalled'
  BY <1>2 DEF ReportIsOf, CompleteInstalled, Late
<1>4. ExitIsTrue'
  BY DEF ReportInv, ExitIsTrue
<1>. QED BY <1>1, <1>3, <1>4 DEF ReportInv

\* Save-WorkstationReport.
LEMMA SaveKeepsReport ==
  ASSUME JobsInv, ReportInv, NEW bad, SaveReport(results, bad), UNCHANGED results,
         UNCHANGED <<html, setup, exit, machine, request, host>>, host = "running"
  PROVE  ReportInv'
<1>1. CASE report' = [by |-> setup, kind |-> "steps", complete |-> FALSE, results |-> results]
  <2>1. results \in [Job -> Result]
    BY DEF JobsInv, JobsTypeOK
  <2>2. Reported'
    BY <1>1 DEF Reported
  <2>. QED BY <1>1, <2>1, <2>2, ReportOfThis
<1>2. CASE UNCHANGED report /\ flawed' = TRUE
  <2>1. Reported'
    BY <1>2 DEF Reported
  <2>. QED BY <1>2, <2>1, ReportKept
<1>. QED BY <1>1, <1>2 DEF SaveReport

LEMMA ScriptKeepsReport ==
  ASSUME JobsInv, ReportInv, ScriptStep
  PROVE  ReportInv'
<1>. USE DEF JobsInv
<1>0. script \in {"loading", "job", "acting", "told"} => host = "running"
  BY DEF HostAndScript, Early, Late
<1>1. CASE LoadSteps \/ EndJob
  BY <1>0, <1>1, SaveKeepsReport DEF LoadSteps, EndJob, hostVars, diskVars
<1>2. CASE StartJob
  <2>1. [results EXCEPT ![Plan[at]] = "running"] \in [Job -> Result]
    BY <1>2 DEF JobsTypeOK, Result
  <2>2. Reported' /\ UNCHANGED <<setup, exit, host>> /\ host = "running"
    BY <1>0, <1>2 DEF StartJob, Reported, hostVars
  <2>3. report' = [by |-> setup, kind |-> "steps", complete |-> FALSE,
                   results |-> [results EXCEPT ![Plan[at]] = "running"]]
    BY <1>2 DEF StartJob
  <2>. QED BY <2>1, <2>2, <2>3, ReportOfThis
<1>3. CASE InvalidateFails
  <2>1. Reported'
    BY <1>3 DEF InvalidateFails, Reported
  <2>. QED BY <1>3, <2>1, ReportKept DEF InvalidateFails, diskVars, hostVars
<1>4. CASE StartAction \/ EndAction \/ EvidenceFails
  <2>1. Reported' /\ UNCHANGED <<report, html, setup, exit, request, host>> /\ host = "running"
    BY <1>0, <1>4 DEF StartAction, EndAction, EvidenceFails, Reported, hostVars, scriptVars
  <2>2. ReportTypeOK' /\ ReportIsOf' /\ ExitIsTrue'
    BY <2>1 DEF ReportInv, ReportTypeOK, ReportIsOf, ExitIsTrue, ExitMatchesReport, Late
  <2>3. CompleteInstalled'
    BY <2>1 DEF ReportInv, ReportIsOf, CompleteInstalled
  <2>. QED BY <2>1, <2>2, <2>3 DEF ReportInv
<1>5. CASE EndScript
  <2>1. Reported'
    BY <1>5 DEF EndScript, ReportInv, Reported
  <2>2. host = "running"
    BY <1>0, <1>5 DEF EndScript
  <2>. QED BY <1>5, <2>1, <2>2, ReportKept DEF EndScript, diskVars, hostVars
<1>. QED BY <1>1, <1>2, <1>3, <1>4, <1>5 DEF ScriptStep

\* A step of the host that leaves the report and the machine alone.
LEMMA HostQuiet ==
  ASSUME ReportInv, host # "idle", UNCHANGED <<report, setup, machine>>,
         UNCHANGED request \/ host # "publishing",
         exit' = exit \/ exit' = "error",
         host' \in {"resetting", "planning", "running"} \cup Late
           => host \in {"resetting", "planning", "running"} \cup Late,
         host' # "publishing", host = "publishing" => host' = "idle",
         Reported'
  PROVE  ReportInv'
<1>1. ReportTypeOK'
  BY DEF ReportInv, ReportTypeOK
<1>2. ReportIsOf'
  BY DEF ReportInv, ReportIsOf
<1>3. CompleteInstalled'
  BY DEF ReportInv, ReportIsOf, CompleteInstalled, Installed
<1>4. ExitIsTrue'
  BY DEF ReportInv, ExitIsTrue
<1>. QED BY <1>1, <1>2, <1>3, <1>4 DEF ReportInv

LEMMA BeginKeepsReport ==
  ASSUME JobsInv, ReportInv, Begin
  PROVE  ReportInv'
<1>1. ReportTypeOK' /\ report'.by # setup'
  BY DEF ReportInv, ReportTypeOK, Begin
<1>2. ReportIsOf' /\ CompleteInstalled' /\ ExitIsTrue'
  BY <1>1 DEF Begin, ReportIsOf, CompleteInstalled, ExitIsTrue, Late
<1>3. Reported'
  BY DEF ReportInv, Reported, Begin, scriptVars
<1>. QED BY <1>1, <1>2, <1>3 DEF ReportInv

\* All good, and the script has ended well: what was asked for is installed.
LEMMA GoodIsInstalled ==
  ASSUME JobsInv, ReportInv, host = "collecting", AllGood
  PROVE  \A j \in Job : Installed(j)
<1>. USE DEF JobsInv
<1>1. script = "ok" /\ ~flawed
  BY DEF AllGood, HostAndScript
<1>2. report.results = results
  BY <1>1 DEF ReportInv, Reported
<1>3. \A j \in Job : results[j] \in Good
  BY <1>2 DEF AllGood
<1>4. \A j \in Job : steps[j] = Fingerprint(j) /\ steps[j] # NoPrint
  BY <1>3, PrintIsSome DEF GoodIsCurrent, Fingerprint
<1>5. \A j \in Job : machine[j] = steps[j]
  BY <1>4 DEF Evidence
<1>6. ASSUME NEW j \in Job PROVE Installed(j)
  <2>1. [d \in Requires[j] |-> machine[d]] = [d \in Requires[j] |-> steps[d]]
    BY <1>5, PlanFacts
  <2>. QED BY <1>4, <1>5, <2>1 DEF Installed, Fingerprint
<1>. QED BY <1>6

LEMMA PublishKeepsReport ==
  ASSUME JobsInv, ReportInv, PublishReport
  PROVE  ReportInv'
<1>. DEFINE complete == AllGood /\ SettingsGood /\ request.source # "lost"
<1>0. /\ host = "collecting" /\ host' = "publishing"
      /\ report' = [report EXCEPT !.kind = "final", !.complete = complete]
      /\ UNCHANGED <<machine, results, script, flawed, setup, request, exit>>
  BY DEF PublishReport, diskVars, hostVars, scriptVars
<1>1. report \in [by : Nat, kind : Kind, complete : BOOLEAN, results : [Job -> Result]]
  BY DEF ReportInv, ReportTypeOK
<1>2. /\ report'.by = report.by /\ report'.kind = "final" /\ report'.results = report.results
      /\ report'.complete = complete
  BY <1>0, <1>1
<1>3. report' \in [by : Nat, kind : Kind, complete : BOOLEAN, results : [Job -> Result]]
  <2>1. complete \in BOOLEAN /\ "final" \in Kind
    BY DEF Kind
  <2>. HIDE DEF complete
  <2>. QED BY <1>0, <1>1, <2>1
<1>4. ReportTypeOK'
  BY <1>0, <1>2, <1>3 DEF ReportInv, ReportTypeOK
<1>5. ReportIsOf'
  BY <1>0, <1>2 DEF ReportInv, ReportIsOf, Late
<1>6. Reported'
  BY <1>0, <1>2 DEF ReportInv, Reported
<1>7. CompleteInstalled'
  <2>1. complete => \A j \in Job : Installed(j)
    BY <1>0, GoodIsInstalled
  <2>2. \A j : Installed(j)' = Installed(j)
    BY <1>0 DEF Installed
  <2>. QED BY <1>2, <2>1, <2>2 DEF CompleteInstalled
<1>8. ExitIsTrue'
  BY <1>0 DEF ReportInv, ExitIsTrue
<1>. QED BY <1>4, <1>5, <1>6, <1>7, <1>8 DEF ReportInv

LEMMA TellKeepsReport ==
  ASSUME JobsInv, ReportInv, PublishHTML
  PROVE  ReportInv'
<1>0. /\ host = "publishing" /\ host' = "idle"
      /\ html' = [by |-> setup, kind |-> "final"]
      /\ exit' = IF report.complete THEN "complete" ELSE "incomplete"
      /\ UNCHANGED <<report, setup, request, machine>> /\ script' = "off"
  BY DEF PublishHTML, diskVars, ScriptGone
<1>1. report.by = setup /\ report.kind = "final"
  BY <1>0 DEF ReportInv, ReportIsOf, Late
<1>2. ReportTypeOK' /\ CompleteInstalled'
  BY <1>0 DEF ReportInv, ReportTypeOK, CompleteInstalled, Installed
<1>3. ReportIsOf' /\ Reported'
  BY <1>0 DEF ReportIsOf, Reported, Late
<1>4. ExitIsTrue'
  BY <1>0, <1>1 DEF ExitIsTrue, ExitMatchesReport
<1>. QED BY <1>2, <1>3, <1>4 DEF ReportInv

LEMMA HostKeepsReport ==
  ASSUME JobsInv, ReportInv, HostStep
  PROVE  ReportInv'
<1>1. CASE ResetReport
  <2>1. Reported'
    BY <1>1 DEF JobsInv, HostAndScript, ResetReport, Reported, scriptVars, Early
  <2>2. Pending \in [Job -> Result]
    BY NothingKnown
  <2>. QED BY <1>1, <2>1, <2>2, ReportOfThis DEF ResetReport, hostVars
<1>2. CASE \/ CreateMarker \/ WriteMarker \/ RefuseRoot \/ Select \/ ResetHTML \/ PrepareFails
           \/ CreateSettings \/ WriteSettings
  <2>1. Reported'
    BY <1>2 DEF ReportInv, Reported, CreateMarker, WriteMarker, RefuseRoot, Select, ResetHTML,
                PrepareFails, CreateSettings, WriteSettings, scriptVars
  <2>. QED BY <1>2, <2>1, HostQuiet DEF CreateMarker, WriteMarker, RefuseRoot, Select, ResetHTML,
              PrepareFails, CreateSettings, WriteSettings, diskVars, hostVars, Late
<1>3. CASE RunScript \/ StopScript \/ PublishFails \/ SetupDies
  <2>1. script' \notin {"job", "ok"}
    BY <1>3 DEF RunScript, StopScript, PublishFails, SetupDies, ScriptGone
  <2>2. Reported'
    BY <2>1 DEF Reported
  <2>. QED BY <1>3, <2>2, HostQuiet DEF RunScript, StopScript, PublishFails, SetupDies, diskVars,
              hostVars, Late
<1>. QED BY <1>1, <1>2, <1>3, BeginKeepsReport, PublishKeepsReport, TellKeepsReport DEF HostStep

LEMMA OthersKeepReport ==
  ASSUME ReportInv, DiskChanges \/ UNCHANGED setupVars
  PROVE  ReportInv'
<1>1. Reported' /\ UNCHANGED <<report, html, setup, exit, machine, request, host>>
  BY DEF ReportInv, Reported, DiskChanges, setupVars, diskVars, hostVars, scriptVars
<1>. QED BY <1>1, ReportKept

LEMMA ReportInit == SetupInit => ReportInv
<1>. SUFFICES ASSUME SetupInit PROVE ReportInv
  OBVIOUS
<1>1. /\ report = [by |-> 0, kind |-> "none", complete |-> FALSE, results |-> Pending]
      /\ setup = 0 /\ host = "idle" /\ exit = "none" /\ script = "off"
  BY DEF SetupInit
<1>2. ReportTypeOK
  BY <1>1, NothingKnown DEF ReportTypeOK, Kind
<1>3. ReportIsOf /\ Reported /\ CompleteInstalled /\ ExitIsTrue
  BY <1>1 DEF ReportIsOf, Reported, CompleteInstalled, ExitIsTrue, Late
<1>. QED BY <1>2, <1>3 DEF ReportInv

-----------------------------------------------------------------------------
\* The jobs, what is saved of them and the report agree throughout every
\* setup (workstation.go and assets/workstation.ps1).
THEOREM SetupInvariant == SetupSpec => []SetupInv
<1>1. SetupInit => SetupInv
  BY JobsInit, ReportInit DEF SetupInv
<1>2. SetupInv /\ [SetupNext]_setupVars => SetupInv'
  BY JobsNext, HostKeepsReport, ScriptKeepsReport, OthersKeepReport DEF SetupInv, SetupNext
<1>. QED BY <1>1, <1>2, PTL DEF SetupSpec

\* What steps.json says of a job is what its last action left on the machine,
\* whatever stops a setup and wherever.
THEOREM SavedIsInstalled == SetupSpec => []EvidenceIsInstalled
<1>1. SetupInv => EvidenceIsInstalled
  BY DEF SetupInv, JobsInv, Evidence, EvidenceIsInstalled
<1>. QED BY <1>1, SetupInvariant, PTL

\* A report that says complete, and an exit code, say what the setup has done.
THEOREM ReportHolds == SetupSpec => []ReportIsTrue
<1>1. SetupInv => ReportIsTrue
  <2>. SUFFICES ASSUME SetupInv PROVE CompleteIsInstalled /\ ExitMatchesReport
    BY DEF ReportIsTrue
  <2>1. CompleteInstalled => CompleteIsInstalled
    BY DEF CompleteInstalled, CompleteIsInstalled, Installed
  <2>2. ExitIsTrue => ExitMatchesReport
    BY DEF ExitIsTrue, ExitMatchesReport
  <2>. QED BY <2>1, <2>2 DEF SetupInv, ReportInv
<1>. QED BY <1>1, SetupInvariant, PTL
=============================================================================
