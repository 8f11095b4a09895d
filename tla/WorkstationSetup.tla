-------------------------- MODULE WorkstationSetup --------------------------
(* `sandbox workstation setup`: the host command (SetupWorkstation), the     *)
(* elevated script it runs (workstation.ps1) and the actions of the jobs.    *)
(* A job's fingerprint is what it was asked for and the fingerprints of the  *)
(* jobs it requires; steps.json keeps the fingerprints of completed jobs, so *)
(* that the next setup retains them. One setup runs at a time: the mutex of  *)
(* the state root refuses another.                                           *)
EXTENDS Naturals, Sequences

CONSTANTS Plan,       \* the jobs, in the order workstation.ps1 adds them
          Requires,   \* the jobs each job needs
          Wanted,     \* what a profile can ask of the jobs
          None, Torn, \* nothing asked for; a file that cannot be read
          MaxSetups, MaxFaults

Job == {Plan[i] : i \in DOMAIN Plan}

ASSUME PlanAssumption ==
  /\ Plan \in Seq(Job) /\ Requires \in [Job -> SUBSET Job]
  /\ \A i \in DOMAIN Plan : Requires[Plan[i]] \subseteq {Plan[k] : k \in 1..(i - 1)}

ASSUME SetupBounds == MaxSetups \in Nat /\ MaxFaults \in Nat

VARIABLES
  machine,    \* what the last action of a job left: its fingerprint, or Torn
  saved,      \* state\steps.json, or Torn
  marker,     \* workstation-owner.json: "absent", "torn", "owned"
  settings,   \* the user's configuration file: "absent", "torn", "same", "different"
  selection,  \* selection.json: the profile last given, and whether with settings
  report,     \* report.json: by which setup, what it holds, what it says
  html,       \* report.html
  setup,      \* which setup this is
  host,       \* the step of the host command
  request,    \* the profile of this setup, whether it refreshes, its settings
  cancelled,  \* the user has cancelled
  exit,       \* the exit code of the last setup
  script,     \* the step of workstation.ps1
  at,         \* the job it is at
  steps,      \* $HerdrSandboxStepState.Steps
  results,    \* $nativeResults
  flawed,     \* $nativeFailures or $OptionalFailures is not empty
  mishaps

diskVars == <<machine, saved, marker, settings, selection>>
scriptVars == <<script, at, steps, results, flawed>>
hostVars == <<setup, request, cancelled, exit>>
setupVars == <<diskVars, report, html, host, hostVars, scriptVars, mishaps>>

\* A profile: what it asks of the jobs, and whether it has configuration files.
Profile == [wanted : Wanted, settings : BOOLEAN]
NoProfile == [wanted |-> [j \in Job |-> None], settings |-> FALSE]
\* Without --profile and a saved selection: DefaultWorkstationProfile.
Default == CHOOSE p \in Profile : ~p.settings

\* No fingerprint.
NoPrint == <<>>
NoSteps == [j \in Job |-> NoPrint]
Pending == [j \in Job |-> "pending"]
Good == {"succeeded", "retained"}

ScriptGone ==
  script' = "off" /\ at' = 1 /\ steps' = NoSteps /\ results' = Pending /\ flawed' = FALSE

\* Get-WorkstationJobInputs and Get-ProvisioningStepFingerprint.
Fingerprint(j) == <<request.profile.wanted[j], [d \in Requires[j] |-> steps[d]]>>

Fault == mishaps < MaxFaults /\ mishaps' = mishaps + 1

----------------------------------------------------------------------------
(* The host, up to the start of the script. *)

Begin ==
  /\ host = "idle" /\ setup < MaxSetups
  /\ setup' = setup + 1
  /\ host' = "entering"
  /\ exit' = "none" /\ cancelled' = FALSE
  /\ \E profile \in Profile \cup {NoProfile}, refresh \in BOOLEAN :
       request' = [profile |-> profile, refresh |-> refresh, source |-> "none"]
  /\ UNCHANGED <<diskVars, report, html, scriptVars, mishaps>>

\* ensureWorkstationRoot: the marker is created, then written.
CreateMarker ==
  /\ host = "entering" /\ marker = "absent"
  /\ marker' = "torn" /\ host' = "marking"
  /\ UNCHANGED <<machine, saved, settings, selection, report, html, hostVars, scriptVars, mishaps>>

WriteMarker ==
  /\ host = "marking"
  /\ marker' = "owned" /\ host' = "entering"
  /\ UNCHANGED <<machine, saved, settings, selection, report, html, hostVars, scriptVars, mishaps>>

\* A torn marker is an unknown owner.
RefuseRoot ==
  /\ host = "entering" /\ marker = "torn"
  /\ host' = "idle" /\ exit' = "error"
  /\ UNCHANGED <<diskVars, report, html, setup, request, cancelled, scriptVars, mishaps>>

\* resolveWorkstationSelection: a profile that is given is remembered, without
\* its configuration files. Else the remembered one is used again, and its
\* files if the profile they came from is still there and the same.
Select ==
  /\ host = "entering" /\ marker = "owned"
  /\ IF request.profile # NoProfile
     THEN /\ selection' = request.profile
          /\ request' = [request EXCEPT !.source = IF request.profile.settings THEN "given" ELSE "none"]
     ELSE LET kept == IF selection = NoProfile THEN Default ELSE selection
          IN /\ selection' = kept
             /\ \E source \in IF kept.settings THEN {"given", "lost"} ELSE {"none"} :
                  request' = [request EXCEPT !.profile = kept, !.source = source]
  /\ host' = "selected"
  /\ UNCHANGED <<machine, saved, marker, settings, report, html, setup, cancelled, exit,
                 scriptVars, mishaps>>

\* An old success must not stand in for this setup.
ResetReport ==
  /\ host = "selected"
  /\ report' = [by |-> setup, kind |-> "started", complete |-> FALSE, results |-> Pending]
  /\ host' = "resetting"
  /\ UNCHANGED <<diskVars, html, hostVars, scriptVars, mishaps>>

ResetHTML ==
  /\ host = "resetting"
  /\ html' = [by |-> setup, kind |-> "started"]
  /\ host' = "planning"
  /\ UNCHANGED <<diskVars, report, hostVars, scriptVars, mishaps>>

\* The profile, an input file, a report or the bounded plan is not usable.
PrepareFails ==
  /\ host \in {"entering", "selected", "resetting", "planning"}
  /\ marker # "torn"
  /\ host' = "idle" /\ exit' = "error"
  /\ UNCHANGED <<diskVars, report, html, setup, request, cancelled, scriptVars, mishaps>>

RunScript ==
  /\ host = "planning"
  /\ host' = "running" /\ script' = "loading"
  /\ at' = 1 /\ steps' = NoSteps /\ results' = Pending /\ flawed' = FALSE
  /\ UNCHANGED <<diskVars, report, html, hostVars, mishaps>>

----------------------------------------------------------------------------
(* workstation.ps1 *)

\* Save-WorkstationReport; a failure is remembered and the script goes on.
SaveReport(r, bad) ==
  \/ /\ report' = [by |-> setup, kind |-> "steps", complete |-> FALSE, results |-> r]
     /\ flawed' = bad
     /\ UNCHANGED mishaps
  \/ /\ Fault /\ flawed' = TRUE
     /\ UNCHANGED report

\* Initialize-ProvisioningSteps. Evidence that cannot be read is kept as it
\* is, reported, and nothing is saved beside it.
LoadSteps ==
  /\ script = "loading"
  /\ steps' = IF request.refresh \/ saved = Torn THEN NoSteps ELSE saved
  /\ SaveReport(results, saved = Torn)
  /\ script' = "job"
  /\ UNCHANGED <<diskVars, html, host, hostVars, at, results>>

\* Save-ProvisioningSteps, unless there is no path.
SaveSteps == saved' = IF saved = Torn THEN saved ELSE steps'

\* Variant: the invalidation is saved only when the job is done.
Invalidate_Unsaved(j) == steps' = [steps EXCEPT ![j] = NoPrint] /\ UNCHANGED saved

\* Set-ProvisioningStepRunning: what the job left before is forgotten first.
Invalidate(j) == steps' = [steps EXCEPT ![j] = NoPrint] /\ SaveSteps

\* Variant: a job is retained for what it was asked for alone.
Current_Wish(j) == steps[j] # NoPrint /\ steps[j][1] = Fingerprint(j)[1]

Current(j) == steps[j] = Fingerprint(j)

Blocked(j) == \E d \in Requires[j] : results[d] \notin Good

\* Invoke-ProvisioningIndependentStep, up to its action: the report says
\* that the job runs; a job is blocked, retained, or invalidated and run.
StartJob ==
  /\ script = "job" /\ at \in DOMAIN Plan
  /\ LET j == Plan[at]
     IN \/ /\ Blocked(j)
           /\ results' = [results EXCEPT ![j] = "blocked"]
           /\ flawed' = TRUE
           /\ script' = "told"
           /\ UNCHANGED <<saved, steps>>
        \/ /\ ~Blocked(j) /\ Current(j)
           /\ results' = [results EXCEPT ![j] = "retained"]
           /\ script' = "told"
           /\ UNCHANGED <<saved, steps, flawed>>
        \/ /\ ~Blocked(j) /\ ~Current(j)
           /\ results' = [results EXCEPT ![j] = "running"]
           /\ Invalidate(j)
           /\ script' = "acting"
           /\ UNCHANGED flawed
  /\ report' = [by |-> setup, kind |-> "steps", complete |-> FALSE,
                results |-> [results EXCEPT ![Plan[at]] = "running"]]
  /\ UNCHANGED <<machine, marker, settings, selection, html, host, hostVars, at, mishaps>>

\* The invalidation cannot be saved: the job fails and its action is not run.
InvalidateFails ==
  /\ script = "job" /\ at \in DOMAIN Plan
  /\ ~Blocked(Plan[at]) /\ ~Current(Plan[at])
  /\ Fault
  /\ steps' = [steps EXCEPT ![Plan[at]] = NoPrint]
  /\ results' = [results EXCEPT ![Plan[at]] = "failed"]
  /\ flawed' = TRUE
  /\ script' = "told"
  /\ UNCHANGED <<diskVars, report, html, host, hostVars, at>>

\* workstation-action.ps1 begins to change the machine.
StartAction ==
  /\ script = "acting" /\ machine[Plan[at]] # Torn
  /\ machine' = [machine EXCEPT ![Plan[at]] = Torn]
  /\ UNCHANGED <<saved, marker, settings, selection, report, html, host, hostVars, scriptVars, mishaps>>

\* The action ends well, or without an optional part (exit code 3), or fails
\* or exceeds its time.
EndAction ==
  /\ script = "acting" /\ machine[Plan[at]] = Torn
  /\ LET j == Plan[at]
     IN \/ /\ machine' = [machine EXCEPT ![j] = Fingerprint(j)]
           /\ steps' = [steps EXCEPT ![j] = Fingerprint(j)]
           /\ results' = [results EXCEPT ![j] = "succeeded"]
           /\ SaveSteps
           /\ UNCHANGED flawed
        \/ /\ results' \in {[results EXCEPT ![j] = "unavailable"], [results EXCEPT ![j] = "failed"]}
           /\ flawed' = TRUE
           /\ UNCHANGED <<machine, saved, steps>>
  /\ script' = "told"
  /\ UNCHANGED <<marker, settings, selection, report, html, host, hostVars, at, mishaps>>

\* The completed step cannot be saved.
EvidenceFails ==
  /\ script = "acting" /\ machine[Plan[at]] = Torn
  /\ Fault
  /\ machine' = [machine EXCEPT ![Plan[at]] = Fingerprint(Plan[at])]
  /\ steps' = [steps EXCEPT ![Plan[at]] = Fingerprint(Plan[at])]
  /\ results' = [results EXCEPT ![Plan[at]] = "failed"]
  /\ flawed' = TRUE
  /\ script' = "told"
  /\ UNCHANGED <<saved, marker, settings, selection, report, html, host, hostVars, at>>

EndJob ==
  /\ script = "told"
  /\ SaveReport(results, flawed)
  /\ at' = at + 1 /\ script' = "job"
  /\ UNCHANGED <<diskVars, html, host, hostVars, steps, results>>

EndScript ==
  /\ script = "job" /\ at \notin DOMAIN Plan
  /\ script' = IF flawed THEN "failed" ELSE "ok"
  /\ host' = "collecting"
  /\ UNCHANGED <<diskVars, report, html, hostVars, at, steps, results, flawed, mishaps>>

\* The user cancels, or the deadline passes: the job object ends the script
\* and its actions.
StopScript ==
  /\ host = "running"
  /\ cancelled' \in BOOLEAN
  /\ script' = "failed" /\ host' = "collecting"
  /\ UNCHANGED <<diskVars, report, html, setup, request, exit, at, steps, results, flawed, mishaps>>

----------------------------------------------------------------------------
(* The host, once the script has ended. *)

\* The steps the host takes over from report.json, and those it adds.
AllGood ==
  /\ report.kind = "steps"
  /\ \A j \in Job : report.results[j] \in Good
  /\ script = "ok"

\* importWorkstationFile: a new file is created, then written.
CreateSettings ==
  /\ host = "collecting" /\ ~cancelled /\ request.source = "given" /\ settings = "absent"
  /\ settings' = "torn" /\ host' = "importing"
  /\ UNCHANGED <<machine, saved, marker, selection, report, html, hostVars, scriptVars, mishaps>>

WriteSettings ==
  /\ host = "importing"
  /\ settings' = "same" /\ host' = "collecting"
  /\ UNCHANGED <<machine, saved, marker, selection, report, html, hostVars, scriptVars, mishaps>>

SettingsGood == cancelled \/ request.source = "none" \/ (request.source = "given" /\ settings = "same")

\* writeVoxCPM2JSONAtomically(report.json).
PublishReport ==
  /\ host = "collecting"
  /\ cancelled \/ request.source # "given" \/ settings # "absent"
  /\ report' = [report EXCEPT !.kind = "final",
                              !.complete = AllGood /\ SettingsGood /\ request.source # "lost"]
  /\ host' = "publishing"
  /\ UNCHANGED <<diskVars, html, hostVars, scriptVars, mishaps>>

PublishHTML ==
  /\ host = "publishing"
  /\ html' = [by |-> setup, kind |-> "final"]
  /\ exit' = IF report.complete THEN "complete" ELSE "incomplete"
  /\ host' = "idle" /\ ScriptGone
  /\ UNCHANGED <<diskVars, report, setup, request, cancelled, mishaps>>

PublishFails ==
  /\ host \in {"collecting", "publishing"}
  /\ Fault
  /\ exit' = "error"
  /\ host' = "idle" /\ ScriptGone
  /\ UNCHANGED <<diskVars, report, html, setup, request, cancelled>>

\* The command dies, and with its job object the script and its actions.
SetupDies ==
  /\ host # "idle"
  /\ Fault
  /\ host' = "idle" /\ ScriptGone
  /\ UNCHANGED <<diskVars, report, html, hostVars>>

\* Something else damages the evidence, or changes the user's file.
DiskChanges ==
  /\ host = "idle" /\ Fault
  /\ \/ saved' = Torn /\ UNCHANGED settings
     \/ settings' = "different" /\ UNCHANGED saved
  /\ UNCHANGED <<machine, marker, selection, report, html, host, hostVars, scriptVars>>

----------------------------------------------------------------------------

SetupInit ==
  /\ machine = NoSteps /\ saved = NoSteps
  /\ marker = "absent" /\ settings = "absent"
  /\ report = [by |-> 0, kind |-> "none", complete |-> FALSE, results |-> Pending]
  /\ html = [by |-> 0, kind |-> "none"]
  /\ setup = 0 /\ host = "idle" /\ cancelled = FALSE /\ exit = "none"
  /\ selection = NoProfile
  /\ request = [profile |-> NoProfile, refresh |-> FALSE, source |-> "none"]
  /\ script = "off" /\ at = 1 /\ steps = NoSteps /\ results = Pending /\ flawed = FALSE
  /\ mishaps = 0

HostStep ==
  \/ Begin \/ CreateMarker \/ WriteMarker \/ RefuseRoot \/ Select \/ ResetReport \/ ResetHTML
  \/ PrepareFails \/ RunScript \/ StopScript \/ CreateSettings \/ WriteSettings
  \/ PublishReport \/ PublishHTML \/ PublishFails \/ SetupDies

ScriptStep ==
  \/ LoadSteps \/ StartJob \/ InvalidateFails \/ StartAction \/ EndAction
  \/ EvidenceFails \/ EndJob \/ EndScript

SetupNext == HostStep \/ ScriptStep \/ DiskChanges

SetupSpec == SetupInit /\ [][SetupNext]_setupVars

----------------------------------------------------------------------------

\* steps.json is believed without looking at the machine. Whatever it says of
\* a job is what the last action of that job left, although a setup may die
\* before, during and after any action and any write.
EvidenceIsInstalled ==
  saved # Torn => \A j \in Job : saved[j] # NoPrint => machine[j] = saved[j]

\* A setup that claims to be complete has, for every job, what its profile asks
\* for, installed on top of the required jobs as they are now: nothing retained
\* from an earlier profile, nothing built on a replaced prerequisite.
CompleteIsInstalled ==
  host = "idle" /\ report.kind = "final" /\ report.complete /\ report.by = setup
  => \A j \in Job : machine[j] = <<request.profile.wanted[j], [d \in Requires[j] |-> machine[d]]>>

\* The installer opens the report for the exit codes 0 and 1: it is then the
\* final report of this very setup, and 0 means that it says complete.
ExitMatchesReport ==
  exit \in {"complete", "incomplete"} =>
    /\ report.kind = "final" /\ report.by = setup
    /\ html = [by |-> setup, kind |-> "final"]
    /\ report.complete <=> exit = "complete"

\* What a setup tells the user of its end, in the report and by its exit code,
\* is what it has done (workstation.go:418).
ReportIsTrue == CompleteIsInstalled /\ ExitMatchesReport
=============================================================================
