-------------------------- MODULE InstallerCleanup --------------------------
(* What the uninstaller removes of the directories of FolderMappings          *)
(* (uninstall.go): the cache, the data root and, when asked to, the user's     *)
(* configuration. It compares them with what the configuration maps, opens    *)
(* the parent of each, and later removes through that handle. A file in use    *)
(* leaves a part of a tree, the command can be stopped, and it can run again.  *)
EXTENDS FolderMappings

CONSTANTS Protected,        \* the install directory, ~/.ssh, Windows, Program Files
          NoConfiguration,  \* what a missing config.jsonc means
          MaxCleanups

ASSUME RootAssumption ==
  /\ Len(Data) > 1 /\ Len(DefaultCache) > 1 /\ ~PathContains(GlobalRoot, Data)
  /\ {NoConfiguration.cache, NoConfiguration.worktree} \subseteq Path \ {<<>>}

VARIABLES
  cleaning,   \* "off", "planning", "removing", "removed", or the result:
              \* "cleaned", "refused"
  whole,      \* this cleanup deletes the configuration too
  cachePath,  \* the cache that the configuration named when it began
  preserved,  \* what the mapped directories were when they were compared
  compared,   \* the roots that existed when they were compared
  planned,    \* the removal plans
  checked,    \* the plan whose tree has just been looked at again, as a set
  gone,       \* what this cleanup removed, and for which root
  hindered,   \* something was in use or changed, or a tree held a junction
  cleanups

cleanVars ==
  <<cleaning, whole, cachePath, preserved, compared, planned, checked, gone, hindered, cleanups>>
allVars == <<mapVars, cleanVars>>

CacheOf(c) == IF c.cache = Nowhere THEN DefaultCache ELSE c.cache

\* installerPreservedDirectories: a project found upwards is not configured.
PreservedBy(c) ==
  Given(c.worktree) \cup Given(c.models) \cup Given(c.discovery) \cup c.workspaces \cup c.mounts

\* Variant: the cache that the configuration names is not looked up.
RemovalRoots_Default(c, all) ==
  {DefaultCache, Data} \cup (IF all THEN {GlobalRoot} ELSE {})

\* installerRemovalRoots: a root inside another one is covered by it.
RemovalRoots(c, all) ==
  LET roots == {CacheOf(c), Data} \cup (IF all THEN {GlobalRoot} ELSE {})
  IN {r \in roots : ~\E s \in roots \ {r} : PathContains(s, r)}

\* os.Lstat: what a junction points to need not exist.
Exists(n) == Len(n) = 1 \/ Append(Physical(Front(n)), Last(n)) \in present

\* Variant: the roots are compared with mapped directories by name.
Overlaps_ByName(a, b) == PathsOverlap(a, b)

\* installerPathsOverlap, by name and, when both exist, by identity
Overlaps(a, b) == PathsOverlap(a, b) \/ (Exists(a) /\ Exists(b) /\ MappedOverlap(a, b))

\* resolveInstallerCleanPaths, validateInstallerRemovalSafety. A directory that
\* is a junction, or below one, is an error.
RemovalSafe(c, all) ==
  /\ CacheAccepted(c.cache)
  /\ \A n \in Given(c.worktree) : Mappable(n)
  /\ \A n \in Protected \cup {Data, GlobalRoot} : ~PathsOverlap(CacheOf(c), n)
  /\ \A n \in PreservedBy(c), r \in RemovalRoots(c, all) :
       ~Overlaps(n, r) /\ (Exists(n) => Canonical(n)) /\ (Exists(r) => Canonical(r))

\* validateInstallerRemovalTree
PlainTree(n) == \A j \in DOMAIN junction : ~PathsOverlap(Direct(n), j)

RootPlan(n) == [name |-> n, at |-> Physical(n), exists |-> Exists(n)]

\* What os.Root.RemoveAll reaches: a junction, but nothing behind it.
Reached(p) ==
  {n \in present : PathContains(p.at, n) /\
     \A j \in DOMAIN junction : PathContains(p.at, j) /\ PathContains(j, n) => j = n}

----------------------------------------------------------------------------
BeginCleanup ==
  /\ phase = "idle" /\ cleaning \in {"off", "cleaned", "refused"} /\ cleanups < MaxCleanups
  /\ cleanups' = cleanups + 1 /\ whole' \in BOOLEAN /\ cachePath' = config.cache
  /\ preserved' = {Physical(n) : n \in {n \in PreservedBy(config) : Exists(n)}}
  /\ compared' = {r \in RemovalRoots(config, whole') : Exists(r)}
  /\ planned' = {} /\ checked' = {} /\ gone' = {} /\ hindered' = FALSE
  /\ cleaning' = IF RemovalSafe(config, whole') THEN "planning" ELSE "refused"
  /\ UNCHANGED mapVars

\* planInstallerDirectoryRemoval: what cannot be planned safely stays.
PlanRoots ==
  /\ cleaning = "planning" /\ cleaning' = "references"
  /\ LET roots == RemovalRoots(config, whole)
     IN /\ planned' = {RootPlan(n) : n \in {r \in roots : Exists(r) => PlainTree(r)}}
        /\ hindered' = (hindered \/ \E r \in roots : Exists(r) /\ ~PlainTree(r))
  /\ UNCHANGED <<mapVars, whole, cachePath, preserved, compared, checked, gone, cleanups>>

\* removeInstallerOwnedConfigurationReferences, applyInstallerSSHRemoval:
\* either may fail and ends the cleanup.
RemoveReferences ==
  /\ cleaning = "references" /\ cleaning' \in {"removing", "refused"}
  /\ UNCHANGED <<mapVars, whole, cachePath, preserved, compared, planned, checked, gone, hindered, cleanups>>

\* applyInstallerDirectoryRemoval: the tree is walked again,
ValidateRoot ==
  /\ cleaning = "removing" /\ checked = {}
  /\ \E p \in planned :
       LET good == IF p.exists THEN PlainTree(p.name) /\ Exists(p.name) /\ Physical(p.name) = p.at
                   ELSE ~Exists(p.name)
       IN IF good /\ p.exists
          THEN checked' = {p} /\ UNCHANGED <<planned, hindered>>
          ELSE planned' = planned \ {p} /\ hindered' = (hindered \/ ~good) /\ UNCHANGED checked
  /\ UNCHANGED <<mapVars, cleaning, whole, cachePath, preserved, compared, gone, cleanups>>

\* and removed, up to the files in use and what holds them. With a junction goes
\* what it hid.
RemoveRoot ==
  /\ cleaning = "removing"
  /\ \E p \in checked, used \in {{}} \cup {{n} : n \in present} :
       LET lost == {n \in Reached(p) : \A u \in used : ~PathContains(n, u)}
           left == {n \in present : \A l \in lost : ~PathContains(l, n)}
       IN /\ used \subseteq Reached(p)
          /\ present' = left /\ junction' = Restrict(junction, DOMAIN junction \cap left)
          /\ gone' = gone \cup {[root |-> p.name, at |-> n] : n \in lost}
          /\ config' = IF Direct(GlobalRoot) \in lost THEN NoConfiguration ELSE config
          /\ hindered' = (hindered \/ used # {})
          /\ planned' = planned \ {p} /\ checked' = {}
  /\ UNCHANGED <<phase, plan, folders, unproven, changes, cleaning, whole, cachePath, preserved, compared, cleanups>>

\* removeEmptyInstallerCacheParent
FinishCleanup ==
  /\ cleaning = "removing" /\ planned = {} /\ cleaning' = "cleaned"
  /\ LET parent == Front(DefaultCache)
         empty == /\ cachePath = Nowhere /\ Canonical(parent)
                  /\ \A n \in present : PathContains(Direct(parent), n) => n = Direct(parent)
     IN IF empty THEN /\ present' = present \ {Direct(parent)}
                      /\ gone' = gone \cup {[root |-> parent, at |-> Direct(parent)]}
        ELSE UNCHANGED <<present, gone>>
  /\ UNCHANGED <<junction, config, phase, plan, folders, unproven, changes, whole, cachePath, preserved,
                 compared, planned, checked, hindered, cleanups>>

\* The command has 15 seconds.
StopCleanup ==
  /\ cleaning \in {"planning", "references", "removing"} /\ cleaning' = "off"
  /\ UNCHANGED <<mapVars, whole, cachePath, preserved, compared, planned, checked, gone, hindered, cleanups>>

\* Meanwhile a directory becomes a junction, or one goes.
DirectoriesMove ==
  /\ DirectoriesChange /\ hindered' = TRUE
  /\ UNCHANGED <<cleaning, whole, cachePath, preserved, compared, planned, checked, gone, cleanups>>

NothingCleaned ==
  /\ cleaning = "off" /\ whole = FALSE /\ cachePath = Nowhere /\ preserved = {} /\ compared = {}
  /\ planned = {} /\ checked = {}
  /\ gone = {} /\ hindered = FALSE /\ cleanups = 0

CleanInit == MapInit /\ NothingCleaned

CleanNext ==
  \/ BeginCleanup \/ PlanRoots \/ RemoveReferences \/ ValidateRoot \/ RemoveRoot
  \/ FinishCleanup \/ StopCleanup \/ DirectoriesMove

CleanSpec == CleanInit /\ [][CleanNext]_allVars

----------------------------------------------------------------------------
\* No directory of the user that the configuration maps is removed, whole or in
\* part, by whatever name it is configured and whatever becomes a junction while
\* the roots are compared, planned, looked at again and removed. Two directories
\* can only be compared by what they are when both are there: a root that appears
\* later is left out, and the parent of the default cache, which goes when empty.
PreservedSurvives ==
  \A g \in gone, p \in preserved : g.root \in compared => ~PathContains(p, g.at)

\* A cleanup with nothing in its way removes what an earlier one had to leave,
\* as long as the configuration that names the cache is still there.
LeftoversAreRemoved ==
  cleaning = "cleaned" /\ ~hindered /\ (\A g \in gone : g.at # Direct(GlobalRoot)) =>
    \A r \in {CacheOf(config), Data} : ~Exists(r)

Running == cleaning \in {"planning", "references", "removing"}

\* What is compared is what the names say, for the roots and for what is kept.
ComparedApart ==
  Running \/ gone # {} =>
    /\ preserved \subseteq Path /\ compared \subseteq Path
    /\ \A q \in preserved, r \in compared : ~PathsOverlap(q, Direct(r))

\* A tree is planned, and then removed, where its name says.
PlansAreDirect ==
  /\ checked \subseteq planned /\ (cleaning \in {"planning", "references"} => checked = {})
  /\ \A p \in planned : p.name \in Path /\ (p.exists => p.at = Direct(p.name))
  /\ \A p \in checked : p.exists
  /\ \A g \in gone : g.root \in Path /\ g.at \in Path /\ PathContains(Direct(g.root), g.at)

\* The cache is a root of its own, and so is the data root.
RootsApart ==
  cleaning = "planning" => Len(CacheOf(config)) > 1 /\ \A n \in {Data, GlobalRoot} : ~PathsOverlap(CacheOf(config), n)

\* Undisturbed, a root is removed, or its plan is still to be carried out.
RootsPlanned ==
  cleaning \in {"references", "removing", "cleaned"} /\ ~hindered =>
    /\ \A p \in planned : p.exists => PlainTree(p.name)
    /\ (\A g \in gone : g.at # Direct(GlobalRoot)) =>
         \A r \in {CacheOf(config), Data} :
           Len(r) > 1 /\ (Exists(r) => \E p \in planned : p.name = r /\ p.exists)
    /\ cleaning = "cleaned" => planned = {}

\* The inductive invariant.
CleanIInv == MapTypeOK /\ ComparedApart /\ PlansAreDirect /\ RootsApart /\ RootsPlanned
=============================================================================
