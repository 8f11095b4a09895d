----------------------- MODULE HostConfigurationPull -----------------------
(* The pull of the host's configuration repositories that `up`, `down` and    *)
(* `pull` begin with: first the repository of Sandbox's own configuration,     *)
(* which can change what is to be pulled, then those the reloaded              *)
(* configuration selects, each fast-forwarded once.                            *)
EXTENDS Naturals

CONSTANTS
  Repositories,
  NoRepository,      \* a directory that is not a repository, or does not exist
  RootCount,         \* number of configuration directories beside Sandbox's own
  MaxPulls, MaxConfigEdits

ASSUME NoRepositoryAssumption == NoRepository \notin Repositories

Own == 0             \* Sandbox's own configuration directory
Roots == 1 .. RootCount
Configs == [onUp : BOOLEAN, enabled : SUBSET Roots]

VARIABLES
  git,               \* directory -> the repository its .git directory is, or "file"
  remotes,           \* repositories with a remote
  pullConfig, remoteConfig, \* Sandbox's configuration: on the host, in its remote
  pull,              \* the pull: its step, the directories it has to visit, the
                     \* .git directories it has seen, what it has fast-forwarded
  pulls, configEdits

pullVars == <<git, remotes, pullConfig, remoteConfig, pull, pulls, configEdits>>

NoPull == [pc |-> "off", always |-> FALSE, todo |-> {}, seen |-> {},
           pulled |-> [r \in Repositories |-> 0], loaded |-> [onUp |-> FALSE, enabled |-> {}]]

PullKeeps == UNCHANGED <<git, remotes, remoteConfig, pulls, configEdits>>

----------------------------------------------------------------------------
EditConfig(c) ==
  /\ configEdits < MaxConfigEdits /\ configEdits' = configEdits + 1
  /\ \/ pullConfig' = c /\ UNCHANGED remoteConfig
     \/ remoteConfig' = c /\ UNCHANGED pullConfig
  /\ UNCHANGED <<git, remotes, pull, pulls>>

\* `pull` always goes on; `up` (`down` alike) only when its switch is on.
BeginPull(always) ==
  /\ pull.pc \in {"off", "done"} /\ pulls < MaxPulls /\ pulls' = pulls + 1
  /\ pull' = IF always \/ pullConfig.onUp
             THEN [NoPull EXCEPT !.pc = "own", !.always = always, !.todo = {Own}]
             ELSE NoPull
  /\ UNCHANGED <<git, remotes, pullConfig, remoteConfig, configEdits>>

\* The directories are visited in the order of hostConfigurationGitRoots.
Visits(directory) == directory \in pull.todo /\ \A d \in pull.todo : directory <= d

\* The .git directories are compared by identity, not by path.
SkipRoot(directory) ==
  /\ Visits(directory) /\ git[directory] \in {NoRepository} \union pull.seen
  /\ pull' = [pull EXCEPT !.todo = @ \ {directory}]
  /\ PullKeeps /\ UNCHANGED pullConfig

\* Variant: directories are told apart by their paths.
MarkSeen_Never(repository) == pull.seen

MarkSeen(repository) == pull.seen \union {repository}

UpdateRepository(directory) ==
  /\ Visits(directory) /\ git[directory] \in Repositories \ pull.seen
  /\ LET repository == git[directory]
         pulled == IF repository \in remotes
                   THEN [pull.pulled EXCEPT ![repository] = @ + 1] ELSE pull.pulled
     IN /\ pull' = [pull EXCEPT !.todo = @ \ {directory}, !.seen = MarkSeen(repository),
                                !.pulled = pulled]
        /\ pullConfig' = IF repository \in remotes /\ repository = git[Own]
                         THEN remoteConfig ELSE pullConfig
  /\ PullKeeps

\* .git is a file or a link; or the branch has no upstream, has diverged, the
\* remote does not answer, the user has edited what the remote changes.
PullFails(directory) ==
  /\ Visits(directory) /\ git[directory] \notin {NoRepository} \union pull.seen
  /\ pull' = NoPull
  /\ PullKeeps /\ UNCHANGED pullConfig

Reload ==
  /\ pull.pc = "own" /\ pull.todo = {}
  /\ pull' = [pull EXCEPT !.loaded = pullConfig,
                          !.pc = IF pull.always \/ pullConfig.onUp THEN "selected" ELSE "done",
                          !.todo = IF pull.always \/ pullConfig.onUp THEN pullConfig.enabled ELSE {}]
  /\ PullKeeps /\ UNCHANGED pullConfig

FinishPull ==
  /\ pull.pc = "selected" /\ pull.todo = {}
  /\ pull' = [pull EXCEPT !.pc = "done"]
  /\ PullKeeps /\ UNCHANGED pullConfig

----------------------------------------------------------------------------
PullInit ==
  /\ git \in [{Own} \union Roots -> Repositories \union {NoRepository, "file"}]
  /\ remotes \in SUBSET Repositories
  /\ pullConfig \in Configs /\ remoteConfig = pullConfig
  /\ pull = NoPull /\ pulls = 0 /\ configEdits = 0

PullNext ==
  \/ \E c \in Configs : EditConfig(c)
  \/ \E always \in BOOLEAN : BeginPull(always)
  \/ \E d \in {Own} \union Roots : SkipRoot(d) \/ UpdateRepository(d) \/ PullFails(d)
  \/ Reload \/ FinishPull

PullSpec == PullInit /\ [][PullNext]_pullVars

----------------------------------------------------------------------------
\* A pull that ends well has fast-forwarded every repository with a remote that
\* the configuration selects as it was after its own pull, none twice although
\* directories can share one, and no other; where that configuration has turned
\* the switch off, only its own (pullSelectedHostConfiguration).
PullFollowsReload ==
  pull.pc = "done" =>
    \A r \in Repositories :
      pull.pulled[r] =
        IF r \in remotes /\ (\/ git[Own] = r
                             \/ /\ pull.always \/ pull.loaded.onUp
                                /\ \E d \in pull.loaded.enabled : git[d] = r)
        THEN 1 ELSE 0

PullTypeOK ==
  /\ pullConfig \in Configs /\ remoteConfig \in Configs
  /\ pull \in [pc : {"off", "own", "selected", "done"}, always : BOOLEAN,
              todo : SUBSET ({Own} \union Roots), seen : SUBSET Repositories,
              pulled : [Repositories -> Nat], loaded : Configs]

\* The directories that a pull has visited so far.
Visited ==
  IF pull.pc = "own" \/ ~(pull.always \/ pull.loaded.onUp) THEN {Own} \ pull.todo
  ELSE {Own} \union (pull.loaded.enabled \ pull.todo)

TodoIsSelected ==
  /\ pull.pc \in {"off", "done"} => pull.todo = {}
  /\ pull.pc = "own" => pull.todo \subseteq {Own}
  /\ pull.pc = "selected" => pull.todo \subseteq pull.loaded.enabled /\ (pull.always \/ pull.loaded.onUp)

\* What a pull has seen and fast-forwarded are the repositories it has visited.
SeenIsVisited ==
  pull.pc # "off" =>
    /\ pull.seen = {git[d] : d \in Visited} \intersect Repositories
    /\ \A r \in Repositories : pull.pulled[r] = IF r \in pull.seen \intersect remotes THEN 1 ELSE 0

\* The inductive invariant.
PullIInv == PullTypeOK /\ TodoIsSelected /\ SeenIsVisited
=============================================================================
