----------------------------- MODULE HostHerdr -----------------------------
(* The Herdr runtime that `up` brings from the host into the guest. The host's *)
(* command, its executable and its ConPTY files are updated by another program, *)
(* one after the other, at any time. `up` reads them one by one, lets Herdr    *)
(* provision the guest, verifies the guest's server, and reads them again      *)
(* before it reports ready.                                                    *)
EXTENDS Naturals, Sequences

CONSTANTS
  NoIdentity,
  MaxHerdr,        \* newest version the host is updated to
  MaxHerdrUps, MaxHerdrFaults

VARIABLES
  herdrHost,            \* versions of the host's files
  guest,           \* versions of the guest's files and of its server, 0 for none
  published,       \* the guest's machine environment names the executable
  readyHerdr,      \* the identity in the run's ready file, or NoIdentity
  integration,     \* the integration of a selected coding agent in the guest's Herdr
  up,              \* the command: its step, kind and what it read, first and again
  herdrUps, herdrFaults

herdrVars == <<herdrHost, guest, published, readyHerdr, integration, up, herdrUps, herdrFaults>>

HerdrParts == {"command", "exe", "conpty"}

\* What an inspection reads, in this order: `--version`, the client's status,
\* the runtime's files, the command's hash.
Reads == <<"command", "exe", "exe", "conpty", "command">>
ReadNext(seen) == Append(seen, herdrHost[Reads[Len(seen) + 1]])
Complete(seen) == Len(seen) = Len(Reads)
NewGuest == [exe |-> 0, conpty |-> 0, server |-> 0]
HerdrIdentity(seen) == [version |-> seen[1], runtime |-> seen[2]]

IdleUp == [pc |-> "off", kind |-> "new", seen |-> <<>>, again |-> <<>>]

----------------------------------------------------------------------------
(* The environment *)
UpdateHost(part) ==
  /\ herdrHost[part] < MaxHerdr
  /\ herdrHost' = [herdrHost EXCEPT ![part] = @ + 1]
  /\ UNCHANGED <<guest, published, readyHerdr, integration, up, herdrUps, herdrFaults>>

HerdrFault == herdrFaults < MaxHerdrFaults /\ herdrFaults' = herdrFaults + 1

ServerStops ==
  /\ HerdrFault /\ guest.server # 0 /\ guest' = [guest EXCEPT !.server = 0]
  /\ UNCHANGED <<herdrHost, published, readyHerdr, integration, up, herdrUps>>

\* up is killed, or a step of it fails or times out.
UpStops ==
  /\ HerdrFault /\ up.pc \notin {"off", "ready"}
  /\ up' = IdleUp
  /\ UNCHANGED <<herdrHost, guest, published, readyHerdr, integration, herdrUps>>

----------------------------------------------------------------------------
(* up *)
HerdrKeeps == UNCHANGED <<herdrHost, herdrUps, herdrFaults>>
UpGoes(pc) == up' = IF pc = "off" THEN IdleUp ELSE [up EXCEPT !.pc = pc]

BeginUp ==
  /\ up.pc \in {"off", "ready"} /\ herdrUps < MaxHerdrUps
  /\ herdrUps' = herdrUps + 1 /\ up' = [IdleUp EXCEPT !.pc = "resolve"]
  /\ UNCHANGED <<herdrHost, guest, published, readyHerdr, integration, herdrFaults>>

ResolveHerdr ==
  /\ up.pc = "resolve"
  /\ up' = [up EXCEPT !.seen = ReadNext(@),
                      !.pc = IF Complete(ReadNext(up.seen)) THEN "capability" ELSE "resolve"]
  /\ UNCHANGED <<guest, published, readyHerdr, integration>> /\ HerdrKeeps

VerifyCapability ==
  /\ up.pc = "capability" /\ UpGoes("lock")
  /\ UNCHANGED <<guest, published, readyHerdr, integration>> /\ HerdrKeeps

\* Under the lifecycle lock: a new guest, one that is resumed before it was ready,
\* or one that is ready, to be refreshed ("retained") or only repaired.
EnterUp(kind) ==
  /\ up.pc = "lock"
  /\ IF kind = "new"
     THEN guest' = NewGuest /\ readyHerdr' = NoIdentity /\ published' = FALSE
     ELSE (readyHerdr = NoIdentity <=> kind = "resumed") /\ UNCHANGED <<guest, readyHerdr, published>>
  /\ up' = [up EXCEPT !.kind = kind, !.pc = IF kind = "repair" THEN "repair" ELSE "provision"]
  /\ integration' = IF kind = "new" THEN "not_installed" ELSE integration
  /\ HerdrKeeps

GuestRuns(runtime) == published /\ guest.server = runtime /\ guest.exe = runtime

VerifyReadyGuest ==
  /\ up.pc = "repair"
  /\ UpGoes(IF GuestRuns(up.seen[2]) THEN "recheck" ELSE "off")
  /\ UNCHANGED <<guest, published, readyHerdr, integration>> /\ HerdrKeeps

\* Herdr's own deployment: the files one after the other, then the server.
ProvisionExecutable ==
  /\ up.pc = "provision" /\ UpGoes("deploy")
  /\ guest' = [guest EXCEPT !.exe = herdrHost.exe]
  /\ UNCHANGED <<published, readyHerdr, integration>> /\ HerdrKeeps

ProvisionRest ==
  /\ up.pc = "deploy"
  /\ guest' = [guest EXCEPT !.conpty = herdrHost.conpty, !.server = guest.exe]
  /\ UpGoes(IF guest.exe = up.seen[2] THEN "publish" ELSE "off")
  /\ UNCHANGED <<published, readyHerdr, integration>> /\ HerdrKeeps

Publish ==
  /\ up.pc = "publish" /\ published' = TRUE /\ UpGoes("verify")
  /\ UNCHANGED <<guest, readyHerdr, integration>> /\ HerdrKeeps

VerifyGuest ==
  /\ up.pc = "verify"
  /\ UpGoes(IF GuestRuns(up.seen[2]) THEN "statuses" ELSE "off")
  /\ UNCHANGED <<guest, published, readyHerdr, integration>> /\ HerdrKeeps

ReadIntegrations ==
  /\ up.pc = "statuses"
  /\ UpGoes(IF integration = "not_installed" THEN "install" ELSE "record")
  /\ UNCHANGED <<guest, published, readyHerdr, integration>> /\ HerdrKeeps

\* The agent's command may be unavailable in the guest.
InstallIntegration ==
  /\ up.pc = "install"
  /\ \/ integration' \in {"current", "needs_repair"} /\ UpGoes("reread")
     \/ UpGoes("record") /\ UNCHANGED integration
  /\ UNCHANGED <<guest, published, readyHerdr>> /\ HerdrKeeps

VerifyIntegration ==
  /\ up.pc = "reread" /\ UpGoes(IF integration = "current" THEN "record" ELSE "off")
  /\ UNCHANGED <<guest, published, readyHerdr, integration>> /\ HerdrKeeps

\* A retained guest keeps the verified identity even when a later step fails.
RecordRetained ==
  /\ up.pc = "record" /\ UpGoes("recheck")
  /\ readyHerdr' = IF up.kind = "retained" THEN HerdrIdentity(up.seen) ELSE readyHerdr
  /\ UNCHANGED <<guest, published, integration>> /\ HerdrKeeps

\* Variant: only the versions and the command are compared.
SameIdentity_Versions(seen, again) == \A i \in {1, 2, 5} : seen[i] = again[i]

SameIdentity(seen, again) == seen = again

VerifyUnchanged ==
  /\ up.pc = "recheck"
  /\ LET again == ReadNext(up.again)
         pc == IF ~Complete(again) THEN "recheck"
               ELSE IF SameIdentity(up.seen, again) THEN "ready" ELSE "off"
     IN /\ up' = IF pc = "off" THEN IdleUp
                  ELSE [up EXCEPT !.again = again, !.pc = pc]
        /\ readyHerdr' = IF pc = "ready" /\ up.kind \in {"new", "resumed"}
                         THEN HerdrIdentity(up.seen) ELSE readyHerdr
  /\ UNCHANGED <<guest, published, integration>> /\ HerdrKeeps

----------------------------------------------------------------------------
HerdrInit ==
  /\ herdrHost = [p \in HerdrParts |-> 1]
  /\ guest = NewGuest /\ published = FALSE
  /\ readyHerdr = NoIdentity /\ integration = "not_installed"
  /\ up = IdleUp
  /\ herdrUps = 0 /\ herdrFaults = 0

UpNext ==
  \/ BeginUp \/ ResolveHerdr \/ VerifyCapability \/ VerifyReadyGuest
  \/ \E kind \in {"new", "resumed", "retained", "repair"} : EnterUp(kind)
  \/ ProvisionExecutable \/ ProvisionRest \/ Publish \/ VerifyGuest \/ ReadIntegrations
  \/ InstallIntegration \/ VerifyIntegration \/ RecordRetained \/ VerifyUnchanged

HerdrNext ==
  \/ UpNext \/ UpStops \/ ServerStops
  \/ \E p \in HerdrParts : UpdateHost(p)

HerdrSpec == HerdrInit /\ [][HerdrNext]_herdrVars

----------------------------------------------------------------------------
\* An up that deployed a runtime and reports ready has put into the guest the
\* very files it read at its start, all of one inspection of the host, even when
\* the host was updated between any two of its steps (SameIdentity, reprovision.go:324).
ReadyIsTheHosts ==
  up.pc = "ready" /\ up.kind # "repair" =>
    guest.exe = up.seen[3] /\ guest.conpty = up.seen[4]

HerdrTypeOK ==
  /\ herdrHost \in [HerdrParts -> Nat]
  /\ guest \in [exe : Nat, conpty : Nat, server : Nat] /\ published \in BOOLEAN
  /\ integration \in {"not_installed", "current", "needs_repair"}
  /\ up \in [pc : {"off", "resolve", "capability", "lock", "repair", "provision", "deploy", "publish",
                   "verify", "statuses", "install", "reread", "record", "recheck", "ready"},
             kind : {"new", "resumed", "retained", "repair"}, seen : Seq(Nat), again : Seq(Nat)]

\* The two inspections: how far each has come. What one has read the host had,
\* and the host's versions only grow.
Inspections ==
  /\ Len(up.seen) <= 5 /\ \A i \in 1..Len(up.seen) : up.seen[i] <= herdrHost[Reads[i]]
  /\ Len(up.seen) >= 3 => up.seen[2] <= up.seen[3]
  /\ up.pc = "resolve" => Len(up.seen) < 5
  /\ up.pc \notin {"off", "resolve"} => Len(up.seen) = 5
  /\ up.pc \notin {"recheck", "ready"} => up.again = <<>>
  /\ up.pc = "recheck" => Len(up.again) < 5
  /\ up.pc = "ready" => up.again = up.seen
  /\ up.pc = "repair" => up.kind = "repair"

DeployedAt ==
  {"publish", "verify", "statuses", "install", "reread", "record", "recheck", "ready"}

\* The guest's files lie between the first and the second inspection.
Deployed ==
  up.kind # "repair" =>
    /\ up.pc = "deploy" => up.seen[3] <= guest.exe
    /\ up.pc \in DeployedAt =>
         /\ guest.exe = up.seen[2] /\ guest.exe = up.seen[3]
         /\ up.seen[4] <= guest.conpty /\ guest.conpty <= herdrHost.conpty
         /\ Len(up.again) >= 4 => guest.conpty <= up.again[4]

\* The inductive invariant.
HerdrIInv == HerdrTypeOK /\ Inspections /\ Deployed
=============================================================================
