\* Two setups with one mishap; two changed directories and two cleanups; three
\* preparations of three releases; three edits around two commands; one
\* synchronization with two logins; two releases of Herdr and two `up`; one pull
\* of two repositories; two requirements; two removals and additions.
SPECIFICATION HostSpec
CONSTANTS
  Plan <- SetupPlan
  Requires <- SetupRequires
  Wanted <- SetupWanted
  None = None
  Torn = Torn
  MaxSetups = 2
  MaxFaults = 1
  Models <- BundleModels
  Size <- BundleSize
  NoRelease = NoRelease
  Public = {p1, p2}
  Local = {l1}
  MaxPreparations = 3
  MaxBundleFaults = 1
  DirectoryName <- DirectoryNames
  Directory <- Directories
  Alias <- SecondLetters
  ProfileRoot <- Profiles
  Sensitive <- SensitiveDirectories
  Data <- DataRoot
  GlobalRoot <- ConfigRoot
  DefaultCache <- CacheHome
  Projects <- ProjectDirectories
  Nowhere <- Undefined
  Configurations <- AllConfigurations
  Moves <- DirectoryMoves
  Protected <- ProtectedDirectories
  NoConfiguration <- Unconfigured
  MaxChanges = 2
  MaxCleanups = 2
  UserLine = {"u"}
  Absent = Absent
  MaxEdits = 3
  MaxCommands = 2
  Names = {"a", "b"}
  Accounts = {"a", "b"}
  InFile = {"a"}
  NoAccount = NoAccount
  Edits = {"x", "y"}
  MaxHostChanges = 2
  MaxGuestChanges = 1
  MaxSyncs = 1
  MaxSyncFaults = 1
  NoIdentity = NoIdentity
  MaxHerdr = 2
  MaxHerdrUps = 2
  MaxHerdrFaults = 1
  Repositories = {r1, r2}
  NoRepository = NoRepository
  RootCount = 2
  MaxPulls = 1
  MaxConfigEdits = 1
  Unnamed = Unnamed
  Invalid = Invalid
  Outside = Outside
  Series = {"3.12", "3.13"}
  Patches = {1, 2}
  MaxRequirements = 2
  Optional = "Optional"
  Owned = "Owned"
  Extra = "Extra"
  MaxListed = 2
INVARIANTS
  EvidenceIsInstalled
  ReportIsTrue
  FoldersAreSafe
  PreservedSurvives
  LeftoversAreRemoved
  CurrentIsWhole
  UsersFileKept
  ReadyIsTheHosts
  PullFollowsReload
  ResultIsAgreed
  PlanIsWanted
PROPERTIES
  GuestEditsKept
  AccountsAreTheTokens
\* Every part comes to an end.
CHECK_DEADLOCK FALSE
