--------------------------- MODULE FolderMappings ---------------------------
(* The host directories that `up` maps into the Sandbox: which ones the      *)
(* configuration selects (provisioning.go), what is checked when the run is  *)
(* prepared (session.go, config.go), how it is launched some time later, and *)
(* what is checked when a running Sandbox is resumed with the configuration  *)
(* as it is then (reprovision.go). A directory is a sequence of names, the   *)
(* first of which is a drive letter. Between any two steps a directory may   *)
(* become a junction to another one, and a junction may go; two drive        *)
(* letters may name one volume.                                              *)
EXTENDS Naturals, SequencesExt

CONSTANTS DirectoryName, \* names of directories, and letters of drives
          Directory,     \* the directories of the host
          Alias,         \* second letters of a drive, and the first letter of each
          ProfileRoot,   \* USERPROFILE, APPDATA, LOCALAPPDATA
          Sensitive,     \* directories of keys and credentials
          Data,          \* the data root; it holds identity and runs
          GlobalRoot,    \* the user's configuration
          DefaultCache,  \* the cache below the temporary directory
          Projects,      \* directories with a project provisioning script
          Nowhere,       \* no directory
          Configurations,
          Moves,         \* the directories that may become junctions, and to what
          MaxChanges

Path == Seq(DirectoryName)
Ancestors(n) == {SubSeq(n, 1, k) : k \in 1..Len(n)}

\* A directory that can only be where its name says, unless it is a junction.
Fixed(n) == \A m \in Moves : m.from \notin Ancestors(n)

ASSUME PathAssumption ==
  /\ {"identity", "runs", "run", "input", "status"} \subseteq DirectoryName
  /\ Directory \subseteq Path \ {<<>>}
  /\ ProfileRoot \cup Sensitive \cup {GlobalRoot} \subseteq Path
  /\ {Data, DefaultCache, Nowhere} \subseteq Path \ {<<>>}
  /\ \A l \in DOMAIN Alias : Alias[l] \in DirectoryName \ DOMAIN Alias
  /\ \A c \in Configurations : {c.cache, c.worktree} \subseteq Path \ {<<>>}
\* A junction leads to a directory that no other junction takes away.
ASSUME MoveAssumption ==
  \A m \in Moves : m.from \in Directory /\ m.to \in Directory /\ Fixed(Front(m.to))

VARIABLES
  present,  \* the directories that exist, also those behind a junction
  junction, \* the directories that are junctions, and what they point to
  config,   \* config.jsonc and the directory `up` is started in
  phase,    \* "idle", "resolved", "made", "validated", "written", "launched",
            \* "refused", "resolved_again", "resumed"
  plan,     \* the provisioning plan: what it selects
  folders,  \* the mapped folders, and what each was when Windows mapped it
  unproven, \* a directory changed after the last check and before the launch, and
            \* no later `up` has found the folders in order as they were mapped
  changes

mapVars == <<present, junction, config, phase, plan, folders, unproven, changes>>

Identity == Data \o <<"identity">>
Runs == Data \o <<"runs">>
RunInput == Runs \o <<"run", "input">>
RunStatus == Runs \o <<"run", "status">>

----------------------------------------------------------------------------
(* Names and physical identities. *)

\* A name with the first letter of its drive.
Direct(n) == [i \in 1..Len(n) |-> IF i = 1 /\ n[1] \in DOMAIN Alias THEN Alias[n[1]] ELSE n[i]]

\* Follows the outermost of the junctions j in a name.
Follow(j, n) ==
  LET via == Ancestors(n) \cap DOMAIN j
  IN IF via = {} THEN n
     ELSE LET m == CHOOSE m \in via : \A k \in via : Len(m) <= Len(k)
          IN j[m] \o SubSeq(n, Len(m) + 1, Len(n))

\* physicalMappedDirectory. Three links in a row are enough here.
Physical(n) == Follow(junction, Follow(junction, Follow(junction, Direct(n))))

Links(n) == Ancestors(n) \cap DOMAIN junction

\* A name that leads here can be opened.
Opens(at) == at \in present /\ Links(at) = {}

PathContains(a, b) == IsPrefix(a, b)
PathsOverlap(a, b) == PathContains(a, b) \/ PathContains(b, a)
MappedOverlap(a, b) == PathsOverlap(Physical(a), Physical(b))

\* rejectMappedPathReparsePoints
Plain(n) == Links(Direct(n)) = {}

\* A run's own directories are new: nobody makes junctions of them.
ASSUME RunAssumption ==
  \A n \in {RunInput, RunStatus}, m \in Moves :
    m.from \in Ancestors(Direct(n)) => PathContains(m.from, Direct(Runs))

\* canonicalMappedDirectory
Canonical(n) == Plain(n) /\ Direct(n) \in present

\* validatePhysicalMappingDoesNotContainProtectedRoot
SparesProfile(id) == \A p \in ProfileRoot : ~PathContains(id, Physical(p))

\* validatePhysicalMappingDoesNotExposeSensitiveRoot: neither the directory nor
\* a directory on the way to it.
SparesSensitive(id) ==
  \A s \in {s \in Sensitive : Physical(s) \in present} :
    /\ \A a \in Ancestors(s) \ {s} : ~PathContains(id, Physical(a))
    /\ ~PathsOverlap(id, Physical(s))

----------------------------------------------------------------------------
(* The plan of a configuration (resolveProvisioningConfigurationAt). *)

\* validateConfiguredMappedDirectory
Mappable(n) ==
  Canonical(n) /\ Len(n) > 1 /\ SparesProfile(Physical(n)) /\ SparesSensitive(Physical(n))

\* validateConfiguredCacheDirectory compares names; the cache need not exist yet.
CacheAccepted(n) ==
  n = Nowhere \/ ( /\ Len(n) > 1
                   /\ \A p \in ProfileRoot : ~PathContains(n, p)
                   /\ Physical(n) \in present => Canonical(n) )

\* discoverWorkspacePlans: the children of the root.
Children(n) == {m \in present : Len(m) = Len(n) + 1 /\ PathContains(Direct(n), m)}
DiscoveryAccepted(c) ==
  c.discovery # Nowhere =>
    /\ Canonical(c.discovery)
    /\ SparesProfile(Physical(c.discovery)) /\ SparesSensitive(Physical(c.discovery))
    /\ Children(c.discovery) \cap DOMAIN junction = {}
Discovered(c) ==
  IF c.discovery = Nowhere THEN {}
  ELSE {Append(c.discovery, Last(m)) : m \in Children(c.discovery)}

Same(a, b) == Physical(a) = Physical(b)
Without(new, old) == {n \in new : \A o \in old : ~Same(n, o)}

\* findProjectProvisioning: the nearest directory upwards with a script.
ActiveProject(c) ==
  LET found == {n \in Ancestors(c.start) : Physical(n) \in Projects}
  IN {n \in found : \A m \in found : Len(m) <= Len(n)}

Configured(c) == c.workspaces \cup Without(Discovered(c), c.workspaces)
Workspaces(c) == Configured(c) \cup Without(ActiveProject(c), Configured(c))

Pairwise(S, R(_, _)) == \A a, b \in S : a # b => R(a, b)
Apart(a, b) == ~MappedOverlap(a, b)
NamesDiffer(a, b) == Last(a) # Last(b)

Given(n) == {n} \ {Nowhere}

\* The cache is compared by name, and worktrees with models; every other pair by
\* identity.
PlanAccepted(c) ==
  /\ CacheAccepted(c.cache)
  /\ \A n \in Given(c.worktree) \cup Given(c.models) : Mappable(n) /\ Apart(n, GlobalRoot)
  /\ \A n \in c.mounts : Mappable(n)
  /\ \A n \in c.workspaces : Canonical(n)
  /\ DiscoveryAccepted(c)
  /\ \A n \in ActiveProject(c) : Plain(n)
  /\ Pairwise(Workspaces(c), NamesDiffer)
  /\ Pairwise(Workspaces(c) \cup c.mounts, Apart)
  /\ \A n \in Given(c.cache), m \in c.mounts \cup Workspaces(c) \cup Given(c.worktree) \cup Given(c.models) :
       ~PathsOverlap(n, m)
  /\ \A n \in Given(c.worktree) \cup Given(c.models), m \in c.mounts \cup Workspaces(c) : Apart(n, m)
  /\ \A n \in Given(c.worktree), m \in Given(c.models) : ~PathsOverlap(n, m)

\* resolveProvisioning
ConfigurationAccepted(c) == PlanAccepted(c) /\ Workspaces(c) # {}

Planned(c) ==
  [cache |-> IF c.cache = Nowhere THEN DefaultCache ELSE c.cache, worktree |-> c.worktree,
   models |-> c.models, mounts |-> c.mounts, workspaces |-> Workspaces(c)]

----------------------------------------------------------------------------
(* The folders of a plan. *)

Folder(kind, names) == {[kind |-> kind, name |-> n, at |-> Physical(n)] : n \in names}

FoldersOf(p) ==
  UNION { Folder("input", {RunInput}), Folder("status", {RunStatus}), Folder("cache", {p.cache}),
          Folder("worktree", Given(p.worktree)), Folder("models", Given(p.models)),
          Folder("mount", p.mounts), Folder("workspace", p.workspaces) }

\* What the program made for this run is not compared with what is private.
Offered == {"cache", "worktree", "models", "mount", "workspace"}

\* Variant: folders are compared by the names they are given.
MappingsAccepted_ByName(fs) ==
  /\ \A f, g \in fs : f # g => ~PathsOverlap(f.name, g.name)
  /\ Plain(Identity) /\ Plain(Runs)
  /\ \A f \in fs : f.kind \in Offered =>
       /\ ~PathsOverlap(f.at, Physical(Identity)) /\ ~PathsOverlap(f.at, Physical(Runs))
       /\ SparesProfile(f.at) /\ SparesSensitive(f.at)

\* validatePhysicalMappings
MappingsAccepted(fs) ==
  /\ \A f, g \in fs : f # g => ~PathsOverlap(f.at, g.at)
  /\ Plain(Identity) /\ Plain(Runs)
  /\ \A f \in fs : f.kind \in Offered =>
       /\ ~PathsOverlap(f.at, Physical(Identity)) /\ ~PathsOverlap(f.at, Physical(Runs))
       /\ SparesProfile(f.at) /\ SparesSensitive(f.at)

\* renderConfigWithMappedDirectories compares the names once more.
Rendered(fs) == \A f, g \in fs : f # g => ~PathsOverlap(f.name, g.name)

----------------------------------------------------------------------------

Resolve ==
  /\ phase = "idle"
  /\ IF ConfigurationAccepted(config)
     THEN plan' = Planned(config) /\ phase' = "resolved"
     ELSE plan' = plan /\ phase' = "refused"
  /\ UNCHANGED <<present, junction, config, folders, unproven, changes>>

\* prepareRun makes the directories of the data root, of the run and of what may be
\* missing, and looks at the names of all. It may stop after the first of them.
MakeDirectories ==
  /\ phase = "resolved"
  /\ LET made == UNION {Ancestors(n) : n \in {RunInput, RunStatus, Identity, plan.cache}
                                              \cup Given(plan.worktree)}
         there == present \cup {Direct(n) : n \in made}
     IN IF /\ \A n \in made : Plain(n)
           /\ ~PathsOverlap(plan.cache, Identity) /\ ~PathsOverlap(plan.cache, Runs)
           /\ \A n \in Given(plan.models) \cup plan.mounts \cup plan.workspaces : Canonical(n)
        THEN phase' = "made" /\ present' = there
        ELSE phase' = "refused" /\ present' \in {present, there}
  /\ UNCHANGED <<junction, config, plan, folders, unproven, changes>>

\* validatePhysicalMappings opens every directory of the plan, and the .wsb is
\* rendered from their names.
ValidateMappings ==
  /\ phase = "made"
  /\ LET fs == FoldersOf(plan)
     IN phase' = IF (\A f \in fs : Opens(f.at)) /\ MappingsAccepted(fs) /\ Rendered(fs)
                 THEN "validated" ELSE "refused"
  /\ UNCHANGED <<present, junction, config, plan, folders, unproven, changes>>

\* The snapshot is made, its scripts are inspected, and the .wsb is written.
\* Any of that may fail.
WriteConfiguration ==
  /\ phase = "validated" /\ phase' \in {"written", "refused"}
  /\ UNCHANGED <<present, junction, config, plan, folders, unproven, changes>>

\* After a second census Windows maps what the names in the .wsb lead to by now.
LaunchMapped ==
  /\ phase = "written"
  /\ \/ phase' = "launched" /\ folders' = FoldersOf(plan)
     \/ phase' = "refused" /\ UNCHANGED folders
  /\ UNCHANGED <<present, junction, config, plan, unproven, changes>>

\* `up` again: the configuration may have been edited since.
ResolveAgain ==
  /\ phase \in {"launched", "resumed"}
  /\ \E c \in Configurations :
       /\ config' = c
       /\ IF ConfigurationAccepted(c)
          THEN plan' = Planned(c) /\ phase' = "resolved_again"
          ELSE UNCHANGED plan /\ phase' = "launched"
  /\ UNCHANGED <<present, junction, folders, unproven, changes>>

NamesOf(fs) == {[kind |-> f.kind, name |-> f.name] : f \in fs}

\* retainedRunPlan: nothing is made, the .wsb must come out the same, and the
\* Sandbox keeps what was mapped when it was launched.
Resume ==
  /\ phase = "resolved_again"
  /\ LET fs == FoldersOf(plan)
     IN IF /\ \A n \in {f.name : f \in fs} \cup {Identity, Runs} : Canonical(n)
           /\ MappingsAccepted(fs) /\ Rendered(fs)
           /\ NamesOf(fs) = NamesOf(folders)
        THEN phase' = "resumed" /\ unproven' = (unproven /\ fs # folders)
        ELSE phase' = "launched" /\ UNCHANGED unproven
  /\ UNCHANGED <<present, junction, config, plan, folders, changes>>

\* A directory is replaced by a junction to another one, or the other way round.
DirectoriesChange ==
  /\ changes < MaxChanges /\ changes' = changes + 1
  /\ \E m \in Moves :
       /\ m.from \in present /\ Links(Front(m.from)) = {}
       /\ junction' = IF m.from \in DOMAIN junction
                      THEN Restrict(junction, DOMAIN junction \ {m.from})
                      ELSE [n \in DOMAIN junction \cup {m.from} |->
                              IF n = m.from THEN m.to ELSE junction[n]]
  /\ unproven' = (unproven \/ phase \in {"validated", "written"})
  /\ UNCHANGED <<present, config, phase, plan, folders>>

MapInit ==
  /\ present = Directory /\ junction = [n \in {} |-> n]
  /\ config \in Configurations
  /\ phase = "idle" /\ plan = [cache |-> Nowhere, worktree |-> Nowhere] /\ folders = {}
  /\ unproven = FALSE /\ changes = 0

MapNext ==
  \/ Resolve \/ MakeDirectories \/ ValidateMappings \/ WriteConfiguration \/ LaunchMapped
  \/ ResolveAgain \/ Resume \/ DirectoriesChange

MapSpec == MapInit /\ [][MapNext]_mapVars

----------------------------------------------------------------------------

\* Two folders, at most one of them read-only, are never the same host directory
\* nor one inside the other, by whatever names the configuration gives.
FoldersDisjoint(fs) ==
  \A f, g \in fs : f # g => ~PathsOverlap(f.at, g.at)

\* What a Sandbox can write to holds no key of the host: not its own SSH
\* identity, no directory of credentials, no user profile with all of that in
\* it; and no other run's files. A profile is in its place, and so is what is
\* above a directory of credentials, which itself may become a junction.
NothingPrivateMapped(fs) ==
  \A f \in fs :
    /\ ~PathsOverlap(f.at, Direct(Identity))
    /\ f.kind \in Offered =>
         /\ ~PathsOverlap(f.at, Direct(Runs))
         /\ \A p \in ProfileRoot : Fixed(Direct(p)) => ~PathContains(f.at, Direct(p))
         /\ \A s \in Sensitive : Direct(s) \in Directory /\ Fixed(Front(Direct(s))) =>
              ~PathContains(f.at, Direct(s))

\* What Windows mapped into a Sandbox is safe in both ways, although directories
\* change between the plan, the directories made for the run, the check of the
\* mappings and a later `up` (session.go:533, provisioning.go:747). A change
\* between that check and the launch (session.go:533 to 304) is not noticed, and
\* makes no promise, until an `up` that resumes the Sandbox finds the folders in
\* order as they were mapped (reprovision.go:348).
FoldersAreSafe == ~unproven => FoldersDisjoint(folders) /\ NothingPrivateMapped(folders)

MapTypeOK ==
  /\ present \subseteq Path
  /\ junction \in [DOMAIN junction -> Path] /\ DOMAIN junction \subseteq present
  /\ \A n \in DOMAIN junction : \E m \in Moves : m.from = n /\ m.to = junction[n]
  /\ {config.cache, config.worktree, plan.cache, plan.worktree} \subseteq Path \ {<<>>}

\* What has been checked stays as it was, unless a directory changes.
PlanIsChecked ==
  phase \in {"validated", "written"} /\ ~unproven =>
    FoldersDisjoint(FoldersOf(plan)) /\ NothingPrivateMapped(FoldersOf(plan))

\* The inductive invariant.
MapIInv == MapTypeOK /\ Directory \subseteq present /\ PlanIsChecked /\ FoldersAreSafe
=============================================================================
