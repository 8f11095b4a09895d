-------------------------- MODULE ConfigurationSync --------------------------
(* One synchronization of the development configuration into the guest, and   *)
(* its retries: the guest's Herdr configuration is read, the accounts of the  *)
(* host's GitHub CLI are exported one by one, all is archived with the host's *)
(* own hosts.yml, applied in the guest, and the guest's report is compared    *)
(* with what was sent. Meanwhile the user logs in and out on the host, and    *)
(* edits and switches in the guest.                                           *)
EXTENDS FiniteSets, Naturals

CONSTANTS
  Names,        \* logins as the host's GitHub CLI recorded them
  Accounts,     \* the accounts tokens belong to; a recorded login can be outdated
  InFile,       \* the logins whose tokens are in hosts.yml, not in the keyring
  NoAccount,    \* not logged in
  Edits,        \* values of a setting the guest's user keeps in the configuration of Herdr
  MaxHostChanges, MaxGuestChanges, MaxSyncs, MaxSyncFaults

VARIABLES
  store, active,            \* the host's GitHub CLI: tokens by recorded login, the active login
  shell,                    \* the shell of the host's Herdr configuration
  guestHerdr,               \* the guest's Herdr configuration: "own" setting and "shell"
  guestStore, currentLogin, \* the guest's hosts.yml: tokens by login, the active login
  sync,                     \* the step of the synchronization
  credentials,              \* credential synchronization of the GitHub CLI is on
  herdrRead, listed, exported, \* what the host has read
  sent,                     \* the archive: the Herdr configuration, the accounts, hosts.yml
  imported,                 \* accounts of the archive logged in so far
  lateEdit,                 \* the guest's user has edited since the comparison
  hostChanges, guestChanges, syncs, syncFaults

githubVars == <<store, active, shell>>
guestVars == <<guestHerdr, guestStore, currentLogin, lateEdit>>
readVars == <<credentials, herdrRead, listed, exported, sent>>
bounds == <<hostChanges, guestChanges, syncs, syncFaults>>
syncVars == <<githubVars, guestVars, readVars, sync, imported, bounds>>

Shells == {"pwsh", "nu"}
Missing == [own |-> "none", shell |-> "none"]
Expired == "expired"    \* a token that GitHub no longer accepts
NoToken == "tokenless"  \* a login in hosts.yml whose token is in a keyring
Logins == Names \cup Accounts
ASSUME SyncAssumption == NoAccount \notin Accounts
HerdrConfigurations == [own : Edits, shell : Shells]
NoArchive == [herdr |-> Missing, expected |-> Missing, accounts |-> {}, hosts |-> {}]
LoggedIn == {n \in Names : store[n] # NoAccount}
Successful == {n \in Names : store[n] \in Accounts}

----------------------------------------------------------------------------
(* The user *)
HostChange(n) ==
  /\ hostChanges < MaxHostChanges /\ hostChanges' = hostChanges + 1
  /\ \/ \E a \in Accounts : store' = [store EXCEPT ![n] = a] /\ active' = n
     \/ n \in Successful /\ store' = [store EXCEPT ![n] = Expired] /\ UNCHANGED active
     \/ /\ n \in LoggedIn /\ store' = [store EXCEPT ![n] = NoAccount]
        /\ active' \in IF LoggedIn = {n} THEN {n}
                       ELSE IF active = n THEN LoggedIn \ {n} ELSE {active}
     \/ n \in LoggedIn /\ active' = n /\ UNCHANGED store
  /\ UNCHANGED <<shell, guestVars, readVars, sync, imported, guestChanges, syncs, syncFaults>>

ChangeShell ==
  /\ hostChanges < MaxHostChanges /\ hostChanges' = hostChanges + 1
  /\ \E s \in Shells \ {shell} : shell' = s
  /\ UNCHANGED <<store, active, guestVars, readVars, sync, imported, guestChanges, syncs, syncFaults>>

EditHerdr ==
  /\ guestChanges < MaxGuestChanges /\ guestChanges' = guestChanges + 1
  /\ \E o \in Edits, s \in Shells : guestHerdr' = [own |-> o, shell |-> s] /\ guestHerdr' # guestHerdr
  /\ lateEdit' = (lateEdit \/ sync = "replace")
  /\ UNCHANGED <<githubVars, guestStore, currentLogin, readVars, sync, imported, hostChanges, syncs, syncFaults>>

GuestLogins == {l \in Logins : guestStore[l] # NoAccount}
GuestAccounts ==
  /\ guestChanges < MaxGuestChanges /\ guestChanges' = guestChanges + 1
  /\ \E l \in GuestLogins :
       \/ currentLogin' = l /\ currentLogin # l /\ UNCHANGED guestStore
       \/ /\ guestStore' = [guestStore EXCEPT ![l] = NoAccount]
          /\ currentLogin' \in IF GuestLogins = {l} THEN {NoAccount}
                               ELSE IF currentLogin = l THEN GuestLogins \ {l} ELSE {currentLogin}
  /\ UNCHANGED <<githubVars, guestHerdr, lateEdit, readVars, sync, imported, hostChanges, syncs, syncFaults>>

----------------------------------------------------------------------------
(* The host *)
SyncEnds(outcome) == sync' = outcome /\ UNCHANGED bounds
SyncFault == syncFaults < MaxSyncFaults /\ syncFaults' = syncFaults + 1

\* readGuestHerdrConfiguration, or a request that fails
ReadGuestHerdr ==
  /\ sync \in {"idle", "done", "failed"} /\ syncs < MaxSyncs
  /\ credentials' \in BOOLEAN /\ herdrRead' = guestHerdr
  /\ sync' = IF credentials' THEN "list" ELSE "build"
  /\ listed' = {} /\ exported' = {} /\ sent' = NoArchive /\ imported' = {}
  /\ syncs' = syncs + 1
  /\ UNCHANGED <<githubVars, guestVars, hostChanges, guestChanges, syncFaults>>

\* gh auth status: the logins it reports with their active flags
ListAccounts ==
  /\ sync = "list"
  /\ listed' = {[name |-> n, active |-> n = active] : n \in Successful}
  /\ SyncEnds("export")
  /\ UNCHANGED <<githubVars, guestVars, credentials, herdrRead, exported, sent, imported>>

\* Variant: the recorded login is sent.
CanonicalAccount_Recorded(entry, owner) == [login |-> entry.name, owner |-> owner, active |-> entry.active]

\* withCanonicalGitHubCLIAccountLogin: the login is the one the token answers to
CanonicalAccount(entry, owner) == [login |-> owner, owner |-> owner, active |-> entry.active]

\* gh auth token and gh api /user, each login in turn
ExportAccount ==
  /\ sync = "export"
  /\ \E entry \in listed :
       /\ listed' = listed \ {entry}
       /\ LET owner == store[entry.name]
              account == CanonicalAccount(entry, owner)
          IN IF owner \notin Accounts \/ \E e \in exported : e.login = account.login
               THEN SyncEnds("failed") /\ UNCHANGED exported
               ELSE exported' = exported \cup {account} /\ SyncEnds("export")
  /\ UNCHANGED <<githubVars, guestVars, credentials, herdrRead, sent, imported>>

\* the accounts of the host must have exactly one active; decodeGitHubCLIAuthentication
OneActive(entries) == entries # {} => Cardinality({e \in entries : e.active}) = 1

FinishExport ==
  /\ sync = "export" /\ listed = {}
  /\ SyncEnds(IF OneActive(exported) THEN "build" ELSE "failed")
  /\ UNCHANGED <<githubVars, guestVars, readVars, imported>>

\* patchGuestHerdrConfig: only the shell of the guest's own configuration changes
Patched(configuration) == [configuration EXCEPT !.shell = shell]

\* The host's hosts.yml as it is now: the recorded logins, also those that were
\* not exported or that their tokens no longer answer to. It may be missing only
\* when nobody is logged in.
HostsFile ==
  [tokens |-> [l \in Logins |-> IF l \notin LoggedIn THEN NoAccount
                               ELSE IF l \in InFile THEN store[l] ELSE NoToken],
   active |-> IF LoggedIn = {} THEN NoAccount ELSE active]

BuildArchive ==
  /\ sync = "build"
  /\ \E hosts \in IF ~credentials THEN {{}} ELSE IF LoggedIn = {} THEN {{}, {HostsFile}} ELSE {{HostsFile}} :
       sent' = [herdr |-> Patched(herdrRead), expected |-> herdrRead, accounts |-> exported, hosts |-> hosts]
  /\ SyncEnds("transfer")
  /\ UNCHANGED <<githubVars, guestVars, credentials, herdrRead, listed, exported, imported>>

\* A stage that fails, or a connection that is lost, ends the synchronization
\* where it is; what was applied stays.
SyncFails ==
  /\ sync \in {"list", "export", "build", "transfer", "hosts", "import", "compare", "replace", "result"}
  /\ SyncFault /\ sync' = "failed"
  /\ UNCHANGED <<githubVars, guestVars, readVars, imported, hostChanges, guestChanges, syncs>>

Transfer ==
  /\ sync = "transfer" /\ SyncEnds(IF credentials THEN "hosts" ELSE "compare")
  /\ UNCHANGED <<githubVars, guestVars, readVars, imported>>

----------------------------------------------------------------------------
(* The guest: apply.ps1 *)
\* The host's hosts.yml takes the place of the guest's, with all its accounts.
CopyHosts ==
  /\ sync = "hosts" /\ SyncEnds("import")
  /\ IF sent.hosts = {} THEN UNCHANGED <<guestStore, currentLogin>>
     ELSE \E f \in sent.hosts : guestStore' = f.tokens /\ currentLogin' = f.active
  /\ UNCHANGED <<githubVars, guestHerdr, lateEdit, readVars, imported>>

\* gh auth login: the login is the one that GitHub names for the token. The
\* active account comes last, so that it stays the active one.
Import ==
  /\ sync = "import"
  /\ \E e \in sent.accounts \ imported :
       /\ e.active => imported = sent.accounts \ {e}
       /\ imported' = imported \cup {e}
       /\ guestStore' = [guestStore EXCEPT ![e.owner] = e.owner] /\ currentLogin' = e.owner
  /\ SyncEnds("import")
  /\ UNCHANGED <<githubVars, guestHerdr, lateEdit, readVars>>

\* gh auth status in the guest must name every account with its active flag and
\* a token that GitHub accepts, whoever it belongs to.
Present ==
  \A e \in sent.accounts : guestStore[e.login] \in Accounts /\ (e.active <=> currentLogin = e.login)
CheckAccounts ==
  /\ sync = "import" /\ imported = sent.accounts
  /\ SyncEnds(IF Present THEN "compare" ELSE "failed")
  /\ UNCHANGED <<githubVars, guestVars, readVars, imported>>

\* Variant: a file that was missing has no digest to compare with.
Expected_IfRead == sent.expected \in {guestHerdr, Missing}

\* the digest of the file, or 'missing'
Expected == guestHerdr = sent.expected

\* Set-AtomicConfigurationFile: the digest, then the replacement
CompareHerdr ==
  /\ sync = "compare" /\ lateEdit' = FALSE
  /\ SyncEnds(IF Expected THEN "replace" ELSE "failed")
  /\ UNCHANGED <<githubVars, guestHerdr, guestStore, currentLogin, readVars, imported>>

ReplaceHerdr ==
  /\ sync = "replace" /\ guestHerdr' = sent.herdr /\ SyncEnds("result")
  /\ UNCHANGED <<githubVars, guestStore, currentLogin, lateEdit, readVars, imported>>

\* The host compares the report with what it sent.
Verify ==
  /\ sync = "result"
  /\ SyncEnds(IF Cardinality(imported) = Cardinality(exported) THEN "done" ELSE "failed")
  /\ UNCHANGED <<githubVars, guestVars, readVars, imported>>

----------------------------------------------------------------------------
SyncInit ==
  /\ store \in [Names -> Accounts \cup {NoAccount, Expired}] /\ active \in Names
  /\ LoggedIn # {} => active \in LoggedIn
  /\ shell = "pwsh" /\ guestHerdr \in HerdrConfigurations \cup {Missing}
  /\ \E L \in SUBSET Accounts : guestStore = [l \in Logins |-> IF l \in L THEN l ELSE NoAccount]
  /\ IF GuestLogins = {} THEN currentLogin = NoAccount ELSE currentLogin \in GuestLogins
  /\ lateEdit = FALSE
  /\ sync = "idle" /\ credentials = FALSE /\ herdrRead = Missing
  /\ listed = {} /\ exported = {} /\ sent = NoArchive /\ imported = {}
  /\ hostChanges = 0 /\ guestChanges = 0 /\ syncs = 0 /\ syncFaults = 0

SyncNext ==
  \/ \E n \in Names : HostChange(n)
  \/ ChangeShell \/ EditHerdr \/ GuestAccounts
  \/ ReadGuestHerdr \/ ListAccounts \/ ExportAccount \/ FinishExport \/ BuildArchive
  \/ SyncFails \/ Transfer \/ CopyHosts \/ Import \/ CheckAccounts \/ CompareHerdr \/ ReplaceHerdr \/ Verify

SyncSpec == SyncInit /\ [][SyncNext]_syncVars

----------------------------------------------------------------------------
\* A setting that the guest's user changes is not lost: a synchronization
\* replaces the configuration of Herdr with the user's setting in it, unless
\* the user changes it in the moment between the comparison and the
\* replacement.
GuestEditsKept ==
  [][sync = "replace" /\ sync' = "result" /\ ~lateEdit
       => guestHerdr'.own = guestHerdr.own]_syncVars

\* When the guest's check has passed, every account that was sent is logged in
\* there with a token that answers to its own login, and exactly one of them, the
\* active one, is the guest's active account: however the user logs in, out and
\* switches on the host and in the guest since the accounts were listed, and
\* whatever recorded logins and other tokens the copied hosts.yml had brought.
AccountsAreTheTokens ==
  [][sync = "import" /\ sync' = "compare" =>
       /\ \A e \in sent.accounts : guestStore[e.login] = e.login
       /\ sent.accounts # {} =>
            \E e \in sent.accounts : e.active /\ currentLogin = e.login
                 /\ \A f \in sent.accounts : f.active => f = e]_syncVars

HerdrContents == [own : Edits \cup {"none"}, shell : Shells \cup {"none"}]

HerdrTypes ==
  /\ {guestHerdr, herdrRead, sent.herdr} \subseteq HerdrContents
  /\ shell \in Shells /\ lateEdit \in BOOLEAN

\* What is sent keeps the setting that was read, and from the comparison to the
\* replacement that is what the guest has.
ReplacementIsRead ==
  /\ HerdrTypes
  /\ sent.herdr.own = sent.expected.own
  /\ sync = "replace" /\ ~lateEdit => guestHerdr = sent.expected

ExportIsUnique ==
  /\ IsFiniteSet(exported)
  /\ \A e \in exported : e.login = e.owner /\ e.owner \in Accounts

\* The export, the archive and the guest's accounts at each step.
ArchiveIsExport ==
  /\ sync \in {"build", "transfer", "hosts", "import"} => OneActive(exported)
  /\ sync \in {"transfer", "hosts", "import"} => sent.accounts = exported
  /\ sync \in {"list", "export", "build", "transfer", "hosts"} => imported = {}
  /\ sync = "import" => imported \subseteq exported

\* From the copy to the check, an account that was imported has its own token,
\* or the guest's user has logged it out.
ImportedIsOwn ==
  /\ DOMAIN guestStore = Logins
  /\ \A f \in sent.hosts : DOMAIN f.tokens = Logins
  /\ sync = "import" => \A e \in imported : guestStore[e.login] \in {e.login, NoAccount}

\* The inductive invariant.
SyncIInv == ReplacementIsRead /\ ExportIsUnique /\ ArchiveIsExport /\ ImportedIsOwn
==============================================================================
