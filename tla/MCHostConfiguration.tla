------------------------- MODULE MCHostConfiguration -------------------------
(* Instances for TLC of what the host configures, prepares and removes: the    *)
(* workstation setup, the mapped folders, the uninstaller, the speech bundle,   *)
(* the user's SSH configuration, the synchronization of configuration, the      *)
(* Herdr runtime, the configuration repositories, and the plans of tools and    *)
(* packages. They share no state: `part` says which of them runs in a           *)
(* behaviour, the others stay in one of their initial states.                   *)
EXTENDS WorkstationSetup, ModelBundle, UserSSHConfig, ConfigurationSync, HostHerdr,
        HostConfigurationPull, ToolPlan, PackagePlan, InstallerCleanup

-----------------------------------------------------------------------------
(* The setup: a job that needs another one, whose wish can change. *)
SetupPlan == <<"winget", "package">>
SetupRequires == [j \in {"winget", "package"} |-> IF j = "package" THEN {"winget"} ELSE {}]
SetupWanted == {[j \in {"winget", "package"} |-> IF j = "winget" THEN v ELSE 1] : v \in {1, 2}}

-----------------------------------------------------------------------------
(* The bundle: releases whose models differ in their sizes. *)
BundleModels == <<"base", "acoustic">>
BundleSize == [r \in Public \cup Local |-> [m \in {"base", "acoustic"} |-> r]]

-----------------------------------------------------------------------------
(* The directories of a user "me", their keys, configuration and data, two     *)
(* projects below "w", a directory "k" for caches, the temporary directory,     *)
(* and "s" as a second letter of the drive.                                     *)
DirectoryNames == {"c", "s", "none", "me", "ssh", "cfg", "data", "identity", "runs", "run", "input",
                   "status", "w", "a", "b", "k", "x", "tmp", "hs", "cache", "prog"}
C == <<"c">>
Me == <<"c", "me">>
Keys == Append(Me, "ssh")
ConfigRoot == Append(Me, "cfg")
DataRoot == Append(Me, "data")
W == <<"c", "w">>
WA == <<"c", "w", "a">>
WB == <<"c", "w", "b">>
K == <<"c", "k">>
KX == <<"c", "k", "x">>
Temporary == <<"c", "tmp", "hs">>
CacheHome == Append(Temporary, "cache")
SA == <<"s", "w", "a">>
SB == <<"s", "w", "b">>
Undefined == <<"none">>

Directories == {C, Me, Keys, ConfigRoot, DataRoot, Append(DataRoot, "identity"),
                Append(DataRoot, "runs"), W, WA, WB, K, KX, <<"c", "tmp">>, Temporary, CacheHome}
SecondLetters == [l \in {"s"} |-> "c"]
Profiles == {Me}
SensitiveDirectories == {Keys}
ProtectedDirectories == {Keys, <<"c", "prog">>}
Unconfigured == [cache |-> Undefined, worktree |-> Undefined, models |-> Undefined, mounts |-> {},
                 workspaces |-> {}, discovery |-> Undefined, start |-> C]

MappedConfigurations ==
  {[Unconfigured EXCEPT !.mounts = {WB}, !.start = SA],
   [Unconfigured EXCEPT !.cache = SA, !.workspaces = {WA}],
   [Unconfigured EXCEPT !.discovery = W, !.start = WA],
   [Unconfigured EXCEPT !.discovery = W, !.workspaces = {SA}],
   [Unconfigured EXCEPT !.start = ConfigRoot],
   [Unconfigured EXCEPT !.worktree = WB, !.models = SB, !.workspaces = {WA}],
   [Unconfigured EXCEPT !.worktree = WB, !.models = KX, !.workspaces = {WA}],
   [Unconfigured EXCEPT !.models = W, !.cache = SA, !.workspaces = {K}]}
RemovedConfigurations ==
  {[Unconfigured EXCEPT !.mounts = {WB}, !.workspaces = {SA}],
   [Unconfigured EXCEPT !.cache = SA, !.workspaces = {WA}],
   [Unconfigured EXCEPT !.cache = K, !.discovery = W],
   [Unconfigured EXCEPT !.cache = KX, !.workspaces = {SA}, !.mounts = {WB}]}
AllConfigurations == MappedConfigurations \cup RemovedConfigurations

DirectoryMoves ==
  {[from |-> WA, to |-> Keys], [from |-> WB, to |-> Keys], [from |-> WB, to |-> K],
   [from |-> Keys, to |-> K], [from |-> W, to |-> Me], [from |-> K, to |-> W],
   [from |-> KX, to |-> W], [from |-> Temporary, to |-> W]}

ProjectDirectories == {WA, Me}

\* Those that change while folders are mapped, and while the uninstaller runs.
MovedInMappings == {WA, WB, Keys, W}
MovedInCleanup == {K, KX, Temporary}

-----------------------------------------------------------------------------
(* The guest's accounts before a synchronization: none, or "b". *)
EarlierAccounts(logins) == [l \in Logins |-> IF l \in logins THEN l ELSE NoAccount]

-----------------------------------------------------------------------------
VARIABLE part

planVars == <<toolVars, packageVars>>

-----------------------------------------------------------------------------
(* A part that does not run is in the first of these states. *)
Parts == {"setup", "mappings", "cleanup", "bundle", "ssh", "sync", "herdr", "pull", "tool", "package"}

HostInit ==
  /\ part \in Parts
  /\ SetupInit
  /\ config \in CASE part = "mappings" -> MappedConfigurations
                    [] part = "cleanup" -> RemovedConfigurations
                    [] OTHER -> {CHOOSE c \in RemovedConfigurations : TRUE}
  /\ CleanInit
  /\ selected \in IF part = "bundle" THEN Public \cup Local ELSE {CHOOSE r \in Public : TRUE}
  /\ BundleInit
  /\ IF part = "ssh" THEN TRUE ELSE file = Absent
  /\ SSHInit
  /\ IF part = "sync" THEN
          /\ guestStore \in {EarlierAccounts({}), EarlierAccounts({"b"})}
          /\ guestHerdr \in {Missing, [own |-> "x", shell |-> "pwsh"]}
     ELSE /\ store = [n \in Names |-> NoAccount]
          /\ active = CHOOSE n \in Names : TRUE
          /\ guestHerdr = Missing /\ guestStore = EarlierAccounts({})
  /\ SyncInit
  /\ HerdrInit
  /\ IF part = "pull" THEN TRUE
     ELSE /\ git = [d \in {Own} \cup Roots |-> NoRepository]
          /\ remotes = {}
          /\ pullConfig = [onUp |-> FALSE, enabled |-> {}]
  /\ PullInit
  /\ IF part = "tool" THEN TRUE ELSE tool = "rust" /\ requirements = <<>>
  /\ ToolInit
  /\ IF part = "package" THEN TRUE
     ELSE /\ edition = Terminal /\ remove = <<>> /\ add = <<>> /\ stacks = {}
  /\ PackageInit

HostNext ==
  /\ UNCHANGED part
  /\ \/ /\ part = "setup" /\ SetupNext
        /\ UNCHANGED <<mapVars, cleanVars, bundleVars, sshVars, syncVars, herdrVars, pullVars, planVars>>
     \/ /\ part # "setup" /\ UNCHANGED setupVars
        /\ \/ /\ part = "mappings" /\ MapNext /\ config' \in MappedConfigurations
              /\ DOMAIN junction' \subseteq MovedInMappings
              /\ UNCHANGED <<cleanVars, bundleVars, sshVars, syncVars, herdrVars, pullVars, planVars>>
           \/ /\ part = "cleanup" /\ CleanNext /\ DOMAIN junction' \subseteq MovedInCleanup
              /\ UNCHANGED <<bundleVars, sshVars, syncVars, herdrVars, pullVars, planVars>>
           \/ /\ part = "bundle" /\ BundleNext
              /\ UNCHANGED <<mapVars, cleanVars, sshVars, syncVars, herdrVars, pullVars, planVars>>
           \/ /\ part = "ssh" /\ SSHNext
              /\ UNCHANGED <<mapVars, cleanVars, bundleVars, syncVars, herdrVars, pullVars, planVars>>
           \/ /\ part = "sync" /\ SyncNext
              /\ UNCHANGED <<mapVars, cleanVars, bundleVars, sshVars, herdrVars, pullVars, planVars>>
           \/ /\ part = "herdr" /\ HerdrNext
              /\ UNCHANGED <<mapVars, cleanVars, bundleVars, sshVars, syncVars, pullVars, planVars>>
           \/ /\ part = "pull" /\ PullNext
              /\ UNCHANGED <<mapVars, cleanVars, bundleVars, sshVars, syncVars, herdrVars, planVars>>
           \/ /\ part = "tool" /\ ToolNext
              /\ UNCHANGED <<mapVars, cleanVars, bundleVars, sshVars, syncVars, herdrVars, pullVars, packageVars>>
           \/ /\ part = "package" /\ PackageNext
              /\ UNCHANGED <<mapVars, cleanVars, bundleVars, sshVars, syncVars, herdrVars, pullVars, toolVars>>

HostSpec ==
  HostInit /\ [][HostNext]_<<part, setupVars, mapVars, cleanVars, bundleVars, sshVars, syncVars,
                             herdrVars, pullVars, planVars>>

=============================================================================
