---------------------- MODULE HostConfigurationProofs ----------------------
(***************************************************************************)
(* What the host configures, one component after the other, for all values *)
(* of their constants: the speech bundle, the Herdr runtime, the           *)
(* synchronization of configuration, the pull of the configuration         *)
(* repositories, the plans of packages and tools, the user's SSH           *)
(* configuration, the directories mapped into the Sandbox, and what the    *)
(* uninstaller removes of them. Only the last two share state; each        *)
(* component has an inductive invariant, stated in its module.             *)
(***************************************************************************)
EXTENDS ModelBundle, HostHerdr, ConfigurationSync, HostConfigurationPull, PackagePlan,
        ToolPlan, UserSSHConfig, InstallerCleanup, FiniteSetTheorems, SequenceTheorems, TLAPS

-----------------------------------------------------------------------------
(* The speech bundle. *)

LEMMA BundleInitInv == BundleInit => BundleIInv
BY BundleAssumption DEF BundleInit, BundleIInv, BundleTypeOK, CurrentIsWhole, PreparingIsWhole, Release

\* Once every model of the manifest is admitted, their sizes are the release's.
LEMMA AdmittedSizes ==
  ASSUME NEW r \in Release, \A i \in DOMAIN Models : model[Models[i]] = r
  PROVE  SizesMatch(r)
BY BundleAssumption DEF SizesMatch, Model, ToSet

LEMMA BundleNextInv == BundleIInv /\ [BundleNext]_bundleVars => BundleIInv'
<1> SUFFICES ASSUME BundleIInv, [BundleNext]_bundleVars PROVE BundleIInv' OBVIOUS
<1> USE DEF BundleIInv, BundleTypeOK, CurrentIsWhole, PreparingIsWhole, storeVars
<1>1. CASE Reselect BY <1>1 DEF Reselect, SizesMatch
<1>2. CASE BeginPreparation BY <1>2 DEF BeginPreparation, Release
<1>3. CASE FetchArchive BY <1>3 DEF FetchArchive, Proceeds
<1>4. CASE CreateCopy BY <1>4 DEF CreateCopy, Proceeds
<1>5. CASE WriteCopy BY <1>5 DEF WriteCopy, Proceeds
<1>6. CASE ReuseCopy BY <1>6 DEF ReuseCopy, Inspected, Proceeds, PreparationFails
<1>7. CASE RecallCompletion
  <2>1. UNCHANGED <<archive, model, completion, current, target, next>> /\ preparing = "recalling"
    BY <1>7 DEF RecallCompletion
  <2>2. \/ preparing' = "publishing" /\ SizesMatch(target) /\ outcome' = "none"
        \/ preparing' = "admitting" /\ outcome' = "none"
        \/ preparing' = "off" /\ outcome' = "failed"
    BY <1>7 DEF RecallCompletion, Proceeds, PreparationFails
  <2>3. SizesMatch(target) => SizesMatch(target)' BY <2>1 DEF SizesMatch
  <2>4. BundleTypeOK' BY <1>7, <2>1 DEF RecallCompletion
  <2>5. CurrentIsWhole' BY <2>1, <2>2
  <2>6. \A i \in DOMAIN Models : ~(i < next)
    BY <2>1, ManifestAssumption
  <2>7. PreparingIsWhole' BY <2>1, <2>2, <2>3, <2>6
  <2> QED BY <2>4, <2>5, <2>7
<1>8. CASE AdmitModel
  <2>1. model' = [model EXCEPT ![Models[next]] = target] /\ next' = next + 1 /\ preparing' = "admitting"
    BY <1>8 DEF AdmitModel
  <2>2. model' \in [Model -> Release \cup {NoRelease}]
    <3>1. target \in Release BY <1>8 DEF AdmitModel
    <3> QED BY <2>1, <3>1
  <2>3. next' \in Nat \ {0} BY <2>1
  <2>4. ASSUME NEW i \in DOMAIN Models, i < next' PROVE model'[Models[i]] = target
    <3>1. i \in Nat BY <2>4, ManifestAssumption
    <3>2. i = next \/ i < next BY <2>1, <2>4, <3>1
    <3>3. Models[i] \in Model BY <2>4 DEF Model, ToSet
    <3> QED BY <1>8, <2>1, <3>2, <3>3 DEF AdmitModel
  <2> QED BY <1>8, <2>1, <2>2, <2>3, <2>4 DEF AdmitModel
<1>9. CASE RecordCompletion
  <2>1. \A i \in DOMAIN Models : i < next BY <1>9, ManifestAssumption DEF RecordCompletion
  <2>2. SizesMatch(target) BY <1>9, <2>1, AdmittedSizes DEF RecordCompletion
  <2> QED BY <1>9, <2>2 DEF RecordCompletion, Proceeds, SizesMatch
<1>10. CASE PublishCurrent BY <1>10 DEF PublishCurrent, SizesMatch
<1>11. CASE PreparationEnds BY <1>11 DEF PreparationEnds, PreparationFails
<1>12. CASE UNCHANGED bundleVars BY <1>12 DEF bundleVars, SizesMatch
<1> QED BY <1>1, <1>2, <1>3, <1>4, <1>5, <1>6, <1>7, <1>8, <1>9, <1>10, <1>11, <1>12 DEF BundleNext

\* Every step of a preparation knows whether the archive of its release is
\* whole and which of its models are admitted (prepareHyperFramesVoxCPM2 and
\* what it calls, voxcpm2.go).
THEOREM BundleInvariant == BundleSpec => []BundleIInv
BY BundleInitInv, BundleNextInv, PTL DEF BundleSpec

\* current.json never names an archive that is absent or torn, and after a
\* preparation that succeeds the shared models have the sizes of its release, in
\* whatever order releases are selected and wherever preparations die.
THEOREM CurrentBundleIsWhole == BundleSpec => []CurrentIsWhole
BY BundleInvariant, PTL DEF BundleIInv

-----------------------------------------------------------------------------
(* The Herdr runtime. *)

LEMMA ReadsParts == \A i \in 1..5 : Reads[i] \in HerdrParts
BY DEF Reads, HerdrParts

\* One more read of an inspection: what was read stays, what is new is what the
\* host has.
LEMMA ReadNextProperties ==
  ASSUME HerdrTypeOK, NEW seen \in Seq(Nat), Len(seen) < 5
  PROVE  /\ ReadNext(seen) \in Seq(Nat) /\ Len(ReadNext(seen)) = Len(seen) + 1
         /\ \A i \in 1..Len(seen) : ReadNext(seen)[i] = seen[i]
         /\ ReadNext(seen)[Len(seen) + 1] = herdrHost[Reads[Len(seen) + 1]]
<1>1. Len(seen) + 1 \in 1..5 OBVIOUS
<1>2. Reads[Len(seen) + 1] \in HerdrParts BY <1>1 DEF Reads, HerdrParts
<1>3. herdrHost[Reads[Len(seen) + 1]] \in Nat BY <1>2 DEF HerdrTypeOK
<1> QED BY <1>3 DEF ReadNext

\* What is read are versions.
LEMMA ReadsTypes ==
  ASSUME HerdrTypeOK
  PROVE  /\ up.seen \in Seq(Nat) /\ Len(up.seen) \in Nat /\ \A i \in 1..Len(up.seen) : up.seen[i] \in Nat
         /\ up.again \in Seq(Nat) /\ Len(up.again) \in Nat /\ \A i \in 1..Len(up.again) : up.again[i] \in Nat
         /\ \A p \in HerdrParts : herdrHost[p] \in Nat
         /\ guest.exe \in Nat /\ guest.conpty \in Nat
<1>1. up.seen \in Seq(Nat) /\ up.again \in Seq(Nat) /\ guest.exe \in Nat /\ guest.conpty \in Nat
  BY DEF HerdrTypeOK
<1>2. \A p \in HerdrParts : herdrHost[p] \in Nat BY DEF HerdrTypeOK
<1> HIDE DEF HerdrTypeOK
<1> QED BY <1>1, <1>2, ElementOfSeq, LenProperties, Zenon

LEMMA HerdrInitInv == HerdrInit => HerdrIInv
<1> SUFFICES ASSUME HerdrInit PROVE HerdrIInv OBVIOUS
<1>1. HerdrTypeOK
  <2>1. <<>> \in Seq(Nat) OBVIOUS
  <2>2. up \in [pc : {"off"}, kind : {"new"}, seen : Seq(Nat), again : Seq(Nat)]
    BY <2>1 DEF HerdrInit, IdleUp
  <2>3. guest \in [exe : Nat, conpty : Nat, server : Nat] BY DEF HerdrInit, NewGuest
  <2>4. herdrHost \in [HerdrParts -> Nat] BY DEF HerdrInit
  <2> QED BY <2>2, <2>3, <2>4 DEF HerdrTypeOK, HerdrInit
<1>2. up.pc = "off" /\ up.seen = <<>> /\ up.again = <<>> BY DEF HerdrInit, IdleUp
<1> QED BY <1>1, <1>2 DEF HerdrIInv, Inspections, Deployed, DeployedAt

\* The host's files are updated: what was read of them is older.
LEMMA UpdateHostInv ==
  ASSUME HerdrIInv, NEW p \in HerdrParts, UpdateHost(p)
  PROVE  HerdrIInv'
<1> USE DEF HerdrIInv, UpdateHost
<1>1. HerdrTypeOK' BY DEF HerdrTypeOK
<1>2. \A q \in HerdrParts : herdrHost[q] \in Nat /\ herdrHost'[q] \in Nat /\ herdrHost[q] <= herdrHost'[q]
  BY DEF HerdrTypeOK
<1>3. \A i \in 1..5 : Reads[i] \in HerdrParts BY ReadsParts
<1>4. Inspections'
  <2>1. \A i \in 1..Len(up.seen) : i \in 1..5 /\ up.seen[i] \in Nat
    <3>1. /\ Len(up.seen) \in Nat /\ Len(up.seen) <= 5
          /\ \A i \in 1..Len(up.seen) : up.seen[i] \in Nat
      BY ReadsTypes DEF Inspections
    <3> HIDE DEF HerdrIInv, UpdateHost
    <3> QED BY <3>1
  <2>2. \A i \in 1..Len(up.seen) : up.seen[i] <= herdrHost'[Reads[i]]
    BY <1>2, <1>3, <2>1 DEF Inspections
  <2> QED BY <2>2 DEF Inspections
<1>5. Deployed'
  <2>1. "conpty" \in HerdrParts BY DEF HerdrParts
  <2> QED BY <1>2, <2>1 DEF Deployed, HerdrTypeOK
<1> QED BY <1>1, <1>4, <1>5

\* An inspection that has read one more file: what it has read, the host has had.
LEMMA OneMoreRead ==
  ASSUME NEW old \in Seq(Nat), NEW new \in Seq(Nat), Len(old) < 5, Len(new) = Len(old) + 1,
         \A i \in 1..Len(old) : new[i] = old[i],
         new[Len(old) + 1] = herdrHost[Reads[Len(old) + 1]],
         \A p \in HerdrParts : herdrHost[p] \in Nat,
         \A i \in 1..Len(old) : old[i] <= herdrHost[Reads[i]],
         Len(old) >= 3 => old[2] <= old[3]
  PROVE  /\ \A i \in 1..Len(new) : new[i] <= herdrHost[Reads[i]]
         /\ Len(new) >= 3 => new[2] <= new[3]
<1>1. Len(old) \in Nat BY LenProperties
<1>2. \A i \in 1..Len(new) : new[i] <= herdrHost[Reads[i]]
  <2> SUFFICES ASSUME NEW i \in 1..Len(new) PROVE new[i] <= herdrHost[Reads[i]] OBVIOUS
  <2>1. i \in 1..5 BY <1>1
  <2>2. Reads[i] \in HerdrParts BY <2>1, ReadsParts
  <2>3. herdrHost[Reads[i]] \in Nat BY <2>2
  <2>4. CASE i \in 1..Len(old) BY <2>4
  <2>5. CASE i = Len(old) + 1 BY <2>3, <2>5
  <2> QED BY <1>1, <2>4, <2>5
<1>3. ASSUME Len(new) >= 3 PROVE new[2] <= new[3]
  <2>1. CASE Len(old) >= 3
    <3>1. 2 \in 1..Len(old) /\ 3 \in 1..Len(old) BY <1>1, <2>1
    <3> QED BY <2>1, <3>1
  <2>2. CASE Len(old) = 2
    <3>1. new[2] <= herdrHost[Reads[2]] BY <1>2, <2>2
    <3>2. new[3] = herdrHost[Reads[3]] BY <2>2
    <3>3. Reads[2] = "exe" /\ Reads[3] = "exe" BY DEF Reads
    <3>4. herdrHost["exe"] \in Nat BY DEF HerdrParts
    <3> QED BY <3>1, <3>2, <3>3, <3>4
  <2>3. Len(old) = 2 \/ Len(old) >= 3
    <3>1. Len(old) + 1 >= 3 BY <1>3
    <3>2. \A n \in Nat : n + 1 >= 3 => n = 2 \/ n >= 3 OBVIOUS
    <3> QED BY <1>1, <3>1, <3>2, Zenon
  <2> QED BY <2>1, <2>2, <2>3
<1> QED BY <1>2, <1>3

\* The first inspection.
LEMMA ResolveInv ==
  ASSUME HerdrIInv, ResolveHerdr
  PROVE  HerdrIInv'
<1> DEFINE old == up.seen
           new == ReadNext(old)
<1>1. /\ HerdrTypeOK /\ Inspections /\ Deployed /\ up.pc = "resolve"
      /\ UNCHANGED <<herdrHost, guest, published, integration>>
  BY DEF HerdrIInv, ResolveHerdr, HerdrKeeps
<1>2. old \in Seq(Nat) /\ Len(old) \in Nat /\ Len(old) < 5 /\ up.again = <<>>
  BY <1>1, ReadsTypes DEF Inspections
<1>3. /\ new \in Seq(Nat) /\ Len(new) = Len(old) + 1
      /\ \A i \in 1..Len(old) : new[i] = old[i]
      /\ new[Len(old) + 1] = herdrHost[Reads[Len(old) + 1]]
  BY <1>1, <1>2, ReadNextProperties
<1>4. up' = [up EXCEPT !.seen = new, !.pc = IF Len(new) = 5 THEN "capability" ELSE "resolve"]
  BY <1>1 DEF ResolveHerdr, HerdrTypeOK, Complete, Reads
<1> HIDE DEF new
<1>5. /\ up'.seen = new /\ up'.again = <<>> /\ up'.kind = up.kind
      /\ up'.pc = IF Len(new) = 5 THEN "capability" ELSE "resolve"
  BY <1>1, <1>2, <1>4 DEF HerdrTypeOK
<1>6. HerdrTypeOK' BY <1>1, <1>3, <1>4 DEF HerdrTypeOK
<1>7. Inspections'
  <2>1. /\ \A i \in 1..Len(new) : new[i] <= herdrHost[Reads[i]]
        /\ Len(new) >= 3 => new[2] <= new[3]
    <3>1. /\ \A p \in HerdrParts : herdrHost[p] \in Nat
          /\ \A i \in 1..Len(old) : old[i] <= herdrHost[Reads[i]]
          /\ Len(old) >= 3 => old[2] <= old[3]
      BY <1>1, ReadsTypes DEF Inspections
    <3> HIDE DEF old
    <3> QED BY <1>2, <1>3, <3>1, OneMoreRead
  <2>2. /\ up'.pc \in {"resolve", "capability"} /\ Len(new) <= 5
        /\ up'.pc = "resolve" => Len(new) < 5
        /\ up'.pc = "capability" => Len(new) = 5
    BY <1>2, <1>3, <1>5
  <2> QED BY <1>1, <1>5, <2>1, <2>2 DEF Inspections
<1>8. Deployed' BY <1>5 DEF Deployed, DeployedAt
<1> QED BY <1>6, <1>7, <1>8 DEF HerdrIInv

\* What a complete inspection says of the host.
LEMMA SeenProperties ==
  ASSUME HerdrTypeOK, Inspections, Len(up.seen) = 5
  PROVE  /\ \A i \in 1..5 : up.seen[i] \in Nat
         /\ herdrHost.exe \in Nat /\ herdrHost.conpty \in Nat
         /\ up.seen[2] <= up.seen[3]
         /\ up.seen[3] <= herdrHost.exe /\ up.seen[4] <= herdrHost.conpty
<1>1. \A i \in 1..5 : up.seen[i] \in Nat BY ReadsTypes
<1>2. herdrHost.exe \in Nat /\ herdrHost.conpty \in Nat BY DEF HerdrTypeOK, HerdrParts
<1>3. \A i \in 1..5 : up.seen[i] <= herdrHost[Reads[i]] BY DEF Inspections
<1>4. Reads[3] = "exe" /\ Reads[4] = "conpty" BY DEF Reads
<1>5. up.seen[3] <= herdrHost[Reads[3]] /\ up.seen[4] <= herdrHost[Reads[4]] BY <1>3
<1> QED BY <1>1, <1>2, <1>4, <1>5 DEF Inspections

\* An up that ends, or begins.
LEMMA StopInv ==
  ASSUME HerdrTypeOK', up'.pc \in {"off", "resolve"}, up'.seen = <<>>, up'.again = <<>>
  PROVE  HerdrIInv'
<1>1. Inspections' BY DEF Inspections
<1>2. Deployed' BY DEF Deployed, DeployedAt
<1> QED BY <1>1, <1>2 DEF HerdrIInv

\* An up that goes on with what it has read, and leaves the guest's files.
LEMMA GoInv ==
  ASSUME HerdrIInv, HerdrTypeOK',
         herdrHost' = herdrHost, guest'.exe = guest.exe, guest'.conpty = guest.conpty,
         up.pc \notin {"off", "resolve", "recheck", "ready"},
         up'.pc \notin {"off", "resolve", "deploy", "ready"},
         up'.seen = up.seen, up'.again = up.again,
         up'.pc = "repair" => up'.kind = "repair",
         up'.pc \in DeployedAt => /\ up'.kind = up.kind
                                  /\ up.pc \in DeployedAt \/ up.kind = "repair"
  PROVE  HerdrIInv'
<1>1. Len(up.seen) = 5 /\ up.again = <<>> BY DEF HerdrIInv, Inspections
<1>2. Inspections' BY <1>1 DEF HerdrIInv, Inspections
<1>3. Deployed'
  <2>1. up'.pc # "deploy" /\ Len(up'.again) = 0 BY <1>1
  <2> QED BY <2>1 DEF HerdrIInv, Deployed
<1> QED BY <1>2, <1>3 DEF HerdrIInv

\* The deployment, between the two inspections.
LEMMA DeployInv ==
  ASSUME HerdrIInv, ProvisionExecutable \/ ProvisionRest
  PROVE  HerdrIInv'
<1> USE DEF HerdrKeeps, UpGoes
<1>1. /\ Len(up.seen) = 5 /\ up.again = <<>> /\ HerdrTypeOK /\ Inspections /\ Deployed
      /\ up.pc \in {"provision", "deploy"}
  BY DEF HerdrIInv, Inspections, ProvisionExecutable, ProvisionRest
<1>2. /\ \A i \in 1..5 : up.seen[i] \in Nat
      /\ herdrHost.exe \in Nat /\ herdrHost.conpty \in Nat
      /\ up.seen[2] <= up.seen[3]
      /\ up.seen[3] <= herdrHost.exe /\ up.seen[4] <= herdrHost.conpty
  BY <1>1, SeenProperties
<1>3. CASE ProvisionExecutable
  <2>1. /\ up' = [up EXCEPT !.pc = "deploy"] /\ guest' = [guest EXCEPT !.exe = herdrHost.exe]
        /\ UNCHANGED <<herdrHost, published, integration>>
    BY <1>3 DEF ProvisionExecutable
  <2>2. /\ HerdrTypeOK' /\ guest'.exe = herdrHost.exe
        /\ up'.pc = "deploy" /\ up'.kind = up.kind /\ up'.seen = up.seen /\ up'.again = up.again
    BY <1>1, <1>2, <2>1 DEF HerdrTypeOK
  <2>3. Inspections' BY <1>1, <2>1, <2>2 DEF Inspections
  <2>4. Deployed' BY <1>2, <2>2 DEF Deployed, DeployedAt
  <2> QED BY <2>2, <2>3, <2>4 DEF HerdrIInv
<1>4. CASE ProvisionRest /\ guest.exe = up.seen[2]
  <2>1. /\ up' = [up EXCEPT !.pc = "publish"]
        /\ guest' = [guest EXCEPT !.conpty = herdrHost.conpty, !.server = guest.exe]
        /\ UNCHANGED <<herdrHost, published, integration>> /\ up.pc = "deploy"
    BY <1>4 DEF ProvisionRest
  <2>2. /\ HerdrTypeOK' /\ guest'.exe = guest.exe /\ guest'.conpty = herdrHost.conpty
        /\ up'.pc = "publish" /\ up'.kind = up.kind /\ up'.seen = up.seen /\ up'.again = up.again
    BY <1>1, <1>2, <2>1 DEF HerdrTypeOK
  <2>3. Inspections' BY <1>1, <2>1, <2>2 DEF Inspections
  <2>4. up.kind # "repair" => up.seen[3] <= guest.exe BY <1>1, <2>1 DEF Deployed
  <2>5. up.kind # "repair" => guest.exe = up.seen[3] BY <1>2, <1>4, <2>4
  <2>6. Deployed' BY <1>1, <1>2, <1>4, <2>1, <2>2, <2>5 DEF Deployed, DeployedAt
  <2> QED BY <2>2, <2>3, <2>6 DEF HerdrIInv
<1>5. CASE ProvisionRest /\ guest.exe # up.seen[2]
  <2>1. /\ up' = IdleUp
        /\ guest' = [guest EXCEPT !.conpty = herdrHost.conpty, !.server = guest.exe]
        /\ UNCHANGED <<herdrHost, published, integration>>
    BY <1>5 DEF ProvisionRest
  <2>2. HerdrTypeOK' BY <1>1, <1>2, <2>1 DEF HerdrTypeOK, IdleUp
  <2> QED BY <2>1, <2>2, StopInv DEF IdleUp
<1> QED BY <1>3, <1>4, <1>5

\* The second inspection.
LEMMA RecheckInv ==
  ASSUME HerdrIInv, VerifyUnchanged
  PROVE  HerdrIInv'
<1> DEFINE old == up.again
           new == ReadNext(old)
<1>1. /\ HerdrTypeOK /\ Inspections /\ Deployed /\ up.pc = "recheck"
      /\ UNCHANGED <<herdrHost, guest, published, integration>>
  BY DEF HerdrIInv, VerifyUnchanged, HerdrKeeps
<1>2. old \in Seq(Nat) /\ Len(old) \in Nat /\ Len(old) < 5 /\ Len(up.seen) = 5
  BY <1>1, ReadsTypes DEF Inspections
<1>3. /\ new \in Seq(Nat) /\ Len(new) = Len(old) + 1
      /\ \A i \in 1..Len(old) : new[i] = old[i]
      /\ new[Len(old) + 1] = herdrHost[Reads[Len(old) + 1]]
  BY <1>1, <1>2, ReadNextProperties
<1>4. \/ up' = IdleUp
      \/ up' = [up EXCEPT !.again = new, !.pc = "recheck"] /\ Len(new) # 5
      \/ up' = [up EXCEPT !.again = new, !.pc = "ready"] /\ Len(new) = 5 /\ new = up.seen
  BY DEF VerifyUnchanged, Complete, Reads, SameIdentity
<1> HIDE DEF new
<1>5. CASE up' = IdleUp
  <2>1. up'.pc = "off" /\ up'.seen = <<>> /\ up'.again = <<>> BY <1>5 DEF IdleUp
  <2>2. HerdrTypeOK' BY <1>1, <1>5 DEF HerdrTypeOK, IdleUp
  <2> QED BY <2>1, <2>2, StopInv
<1>6. ASSUME NEW pc \in {"recheck", "ready"}, up' = [up EXCEPT !.again = new, !.pc = pc],
             pc = "recheck" => Len(new) # 5, pc = "ready" => new = up.seen
      PROVE  HerdrIInv'
  <2>1. up'.again = new /\ up'.seen = up.seen /\ up'.kind = up.kind /\ up'.pc = pc
    BY <1>1, <1>6 DEF HerdrTypeOK
  <2>2. HerdrTypeOK' BY <1>1, <1>3, <1>6 DEF HerdrTypeOK
  <2>3. Len(new) <= 5 /\ (pc = "recheck" => Len(new) < 5) BY <1>2, <1>3, <1>6
  <2>4. Inspections' BY <1>1, <1>2, <1>6, <2>1, <2>3 DEF Inspections
  <2>5. ASSUME up.kind # "repair", Len(new) >= 4 PROVE guest.conpty <= new[4]
    <3>1. guest.conpty <= herdrHost.conpty BY <1>1, <2>5 DEF Deployed, DeployedAt
    <3>2. CASE Len(old) = 3
      <4>1. new[4] = herdrHost[Reads[4]] BY <1>3, <3>2
      <4>2. Reads[4] = "conpty" BY DEF Reads
      <4> HIDE DEF old
      <4> QED BY <3>1, <4>1, <4>2
    <3>3. CASE Len(old) >= 4
      <4>1. 4 \in 1..Len(old) BY <1>2, <3>3
      <4>2. guest.conpty <= old[4] BY <1>1, <2>5, <3>3 DEF Deployed, DeployedAt
      <4>3. new[4] = old[4] BY <1>3, <4>1
      <4> QED BY <4>2, <4>3
    <3>4. Len(old) = 3 \/ Len(old) >= 4
      <4>1. Len(old) + 1 >= 4 BY <1>3, <2>5
      <4>2. \A n \in Nat : n + 1 >= 4 => n = 3 \/ n >= 4 OBVIOUS
      <4> HIDE DEF old
      <4> QED BY <1>2, <4>1, <4>2, Zenon
    <3> QED BY <3>2, <3>3, <3>4
  <2>6. Deployed' BY <1>1, <2>1, <2>5 DEF Deployed, DeployedAt
  <2> QED BY <2>2, <2>4, <2>6 DEF HerdrIInv
<1> QED BY <1>4, <1>5, <1>6

\* UpGoes, to its end or to another step.
LEMMA UpGoesProperties ==
  ASSUME HerdrTypeOK, NEW pc \in {"lock", "recheck", "publish", "verify", "statuses", "install",
                                 "reread", "record", "off"},
         UpGoes(pc)
  PROVE  /\ pc = "off" => up' = IdleUp
         /\ pc # "off" => /\ up'.pc = pc /\ up'.kind = up.kind
                         /\ up'.seen = up.seen /\ up'.again = up.again
         /\ up' \in [pc : {"off", "resolve", "capability", "lock", "repair", "provision", "deploy",
                          "publish", "verify", "statuses", "install", "reread", "record", "recheck",
                          "ready"},
                     kind : {"new", "resumed", "retained", "repair"}, seen : Seq(Nat), again : Seq(Nat)]
<1>1. CASE pc = "off" BY <1>1 DEF UpGoes, IdleUp
<1>2. CASE pc # "off" BY <1>2 DEF UpGoes, HerdrTypeOK
<1> QED BY <1>1, <1>2

\* The steps that go on or end, after the capability check and after the deployment.
LEMMA StepsInv ==
  ASSUME HerdrIInv,
         \/ VerifyCapability \/ VerifyReadyGuest \/ Publish \/ VerifyGuest \/ ReadIntegrations
         \/ InstallIntegration \/ VerifyIntegration \/ RecordRetained
  PROVE  HerdrIInv'
<1>1. HerdrTypeOK /\ Inspections BY DEF HerdrIInv
<1>2. PICK pc \in {"lock", "recheck", "publish", "verify", "statuses", "install", "reread", "record",
                  "off"} :
        /\ UpGoes(pc)
        /\ UNCHANGED <<herdrHost, guest>>
        /\ published' \in BOOLEAN /\ integration' \in {"not_installed", "current", "needs_repair"}
        /\ \/ up.pc = "capability" /\ pc = "lock"
           \/ up.pc = "repair" /\ pc \in {"recheck", "off"}
           \/ up.pc \in DeployedAt \ {"recheck", "ready"} /\ pc # "lock"
  <2> USE <1>1 DEF HerdrTypeOK, HerdrKeeps, DeployedAt
  <2>1. CASE VerifyCapability BY <2>1 DEF VerifyCapability
  <2>2. CASE VerifyReadyGuest BY <2>2 DEF VerifyReadyGuest
  <2>3. CASE Publish BY <2>3 DEF Publish
  <2>4. CASE VerifyGuest BY <2>4 DEF VerifyGuest
  <2>5. CASE ReadIntegrations BY <2>5 DEF ReadIntegrations
  <2>6. CASE InstallIntegration BY <2>6 DEF InstallIntegration
  <2>7. CASE VerifyIntegration BY <2>7 DEF VerifyIntegration
  <2>8. CASE RecordRetained BY <2>8 DEF RecordRetained
  <2> QED BY <2>1, <2>2, <2>3, <2>4, <2>5, <2>6, <2>7, <2>8
<1>3. HerdrTypeOK' BY <1>1, <1>2, UpGoesProperties DEF HerdrTypeOK
<1>4. CASE pc = "off"
  <2>1. up' = IdleUp BY <1>1, <1>2, <1>4, UpGoesProperties
  <2> QED BY <1>3, <2>1, StopInv DEF IdleUp
<1>5. CASE pc # "off"
  <2>1. up'.pc = pc /\ up'.kind = up.kind /\ up'.seen = up.seen /\ up'.again = up.again
    BY <1>1, <1>2, <1>5, UpGoesProperties
  <2>2. up.pc = "repair" => up.kind = "repair" BY <1>1 DEF Inspections
  <2>3. /\ up.pc \notin {"off", "resolve", "recheck", "ready"}
        /\ up'.pc \notin {"off", "resolve", "deploy", "ready", "repair"}
        /\ up'.pc \in DeployedAt => up.pc \in DeployedAt \/ up.kind = "repair"
    BY <1>2, <1>5, <2>1, <2>2 DEF DeployedAt
  <2> QED BY <1>2, <1>3, <2>1, <2>3, GoInv
<1> QED BY <1>4, <1>5

\* An up begins, enters its phase under the lock or is stopped; the server stops.
LEMMA OtherUpInv ==
  ASSUME HerdrIInv,
         \/ BeginUp \/ UpStops \/ ServerStops
         \/ \E kind \in {"new", "resumed", "retained", "repair"} : EnterUp(kind)
  PROVE  HerdrIInv'
<1>1. HerdrTypeOK /\ Inspections /\ Deployed BY DEF HerdrIInv
<1>2. CASE BeginUp \/ UpStops
  <2>1. up' \in {IdleUp, [IdleUp EXCEPT !.pc = "resolve"]} /\ UNCHANGED <<herdrHost, guest, published, integration>>
    BY <1>2 DEF BeginUp, UpStops
  <2>2. up' \in [pc : {"off", "resolve"}, kind : {"new"}, seen : {<<>>}, again : {<<>>}]
    BY <2>1 DEF IdleUp
  <2>3. <<>> \in Seq(Nat) OBVIOUS
  <2>4. HerdrTypeOK' BY <1>1, <2>1, <2>2, <2>3 DEF HerdrTypeOK
  <2> QED BY <2>2, <2>4, StopInv
<1>3. CASE ServerStops
  <2>1. /\ HerdrTypeOK' /\ guest'.exe = guest.exe /\ guest'.conpty = guest.conpty
        /\ UNCHANGED <<herdrHost, up>>
    BY <1>1, <1>3 DEF ServerStops, HerdrTypeOK
  <2>2. Inspections' /\ Deployed' BY <1>1, <2>1 DEF Inspections, Deployed
  <2> QED BY <2>1, <2>2 DEF HerdrIInv
<1>4. ASSUME NEW kind \in {"new", "resumed", "retained", "repair"}, EnterUp(kind) PROVE HerdrIInv'
  <2>1. PICK pc \in {"repair", "provision"} :
          /\ up.pc = "lock" /\ up' = [up EXCEPT !.kind = kind, !.pc = pc]
          /\ pc = "repair" => kind = "repair"
          /\ guest' \in {NewGuest, guest} /\ herdrHost' = herdrHost
          /\ published' \in BOOLEAN /\ integration' \in {"not_installed", integration}
    BY <1>1, <1>4 DEF EnterUp, HerdrKeeps, HerdrTypeOK
  <2>2. HerdrTypeOK'
    <3>1. guest' \in [exe : Nat, conpty : Nat, server : Nat] BY <1>1, <2>1 DEF HerdrTypeOK, NewGuest
    <3>2. up' = [up EXCEPT !.kind = kind, !.pc = pc] /\ up'.seen = up.seen /\ up'.again = up.again
      BY <1>1, <2>1 DEF HerdrTypeOK
    <3>3. integration' \in {"not_installed", "current", "needs_repair"} BY <1>1, <2>1 DEF HerdrTypeOK
    <3> QED BY <1>1, <2>1, <3>1, <3>2, <3>3 DEF HerdrTypeOK
  <2>3. up'.pc = pc /\ up'.kind = kind /\ up'.seen = up.seen /\ up'.again = up.again
    BY <1>1, <2>1 DEF HerdrTypeOK
  <2>4. Inspections' BY <1>1, <2>1, <2>3 DEF Inspections
  <2>5. Deployed' BY <2>3 DEF Deployed, DeployedAt
  <2> QED BY <2>2, <2>4, <2>5 DEF HerdrIInv
<1> QED BY <1>2, <1>3, <1>4

LEMMA HerdrNextInv == HerdrIInv /\ [HerdrNext]_herdrVars => HerdrIInv'
<1> SUFFICES ASSUME HerdrIInv, [HerdrNext]_herdrVars PROVE HerdrIInv' OBVIOUS
<1>1. CASE UNCHANGED herdrVars
  BY <1>1 DEF herdrVars, HerdrIInv, HerdrTypeOK, Inspections, Deployed
<1>2. CASE HerdrNext
  BY <1>2, UpdateHostInv, ResolveInv, DeployInv, RecheckInv, StepsInv, OtherUpInv DEF HerdrNext, UpNext
<1> QED BY <1>1, <1>2

\* What an up has read and what it has deployed, at each of its steps, while the
\* host is updated (reprovision.go, host_herdr.go).
THEOREM HerdrInvariant == HerdrSpec => []HerdrIInv
BY HerdrInitInv, HerdrNextInv, PTL DEF HerdrSpec

\* An up that is ready has put the files of one inspection into the guest. The
\* versions only grow, so that a file which two inspections read alike was the
\* same when it was deployed between them.
THEOREM ReadyGuestIsTheHosts == HerdrSpec => []ReadyIsTheHosts
<1>1. HerdrIInv => ReadyIsTheHosts
  <2> SUFFICES ASSUME HerdrIInv, up.pc = "ready", up.kind # "repair"
               PROVE  guest.exe = up.seen[3] /\ guest.conpty = up.seen[4]
    BY DEF ReadyIsTheHosts
  <2>1. up.again = up.seen /\ Len(up.seen) = 5 /\ up.seen \in Seq(Nat)
    BY DEF HerdrIInv, HerdrTypeOK, Inspections
  <2>2. guest.conpty \in Nat /\ up.seen[4] \in Nat BY <2>1, ReadsTypes DEF HerdrIInv
  <2>3. /\ guest.exe = up.seen[3] /\ up.seen[4] <= guest.conpty /\ guest.conpty <= up.again[4]
    BY <2>1 DEF HerdrIInv, Deployed, DeployedAt
  <2> QED BY <2>1, <2>2, <2>3
<1> QED BY <1>1, HerdrInvariant, PTL

-----------------------------------------------------------------------------
(* The synchronization of configuration. *)

LEMMA OneActiveOfNone == OneActive({})
BY DEF OneActive

LEMMA SyncInitInv == SyncInit => SyncIInv
<1> SUFFICES ASSUME SyncInit PROVE SyncIInv OBVIOUS
<1>1. ReplacementIsRead
  <2>1. Missing \in HerdrContents /\ HerdrConfigurations \subseteq HerdrContents
    BY DEF Missing, HerdrContents, HerdrConfigurations
  <2>2. {guestHerdr, herdrRead, sent.herdr} \subseteq HerdrContents
    BY <2>1 DEF SyncInit, NoArchive
  <2> QED BY <2>2 DEF SyncInit, ReplacementIsRead, HerdrTypes, NoArchive, Shells
<1>2. ExportIsUnique BY FS_EmptySet DEF SyncInit, ExportIsUnique
<1>3. ArchiveIsExport BY DEF SyncInit, ArchiveIsExport
<1>4. ImportedIsOwn BY DEF SyncInit, ImportedIsOwn, NoArchive
<1> QED BY <1>1, <1>2, <1>3, <1>4 DEF SyncIInv

\* The configuration of Herdr.
LEMMA ReplacementNext == ReplacementIsRead /\ [SyncNext]_syncVars => ReplacementIsRead'
<1> SUFFICES ASSUME ReplacementIsRead, [SyncNext]_syncVars PROVE ReplacementIsRead' OBVIOUS
<1> USE DEF ReplacementIsRead, HerdrTypes, githubVars, guestVars, readVars, bounds, SyncEnds
<1>1. ASSUME NEW n \in Names, HostChange(n) PROVE ReplacementIsRead' BY <1>1 DEF HostChange
<1>2. CASE ChangeShell BY <1>2 DEF ChangeShell
<1>3. CASE EditHerdr
  <2>1. guestHerdr' \in HerdrContents BY <1>3 DEF EditHerdr, HerdrContents
  <2> QED BY <1>3, <2>1 DEF EditHerdr
<1>4. CASE GuestAccounts BY <1>4 DEF GuestAccounts
<1>5. CASE ReadGuestHerdr BY <1>5 DEF ReadGuestHerdr, NoArchive, Missing, HerdrContents
<1>6. CASE ListAccounts BY <1>6 DEF ListAccounts
<1>7. CASE ExportAccount BY <1>7 DEF ExportAccount
<1>8. CASE FinishExport BY <1>8 DEF FinishExport
<1>9. CASE BuildArchive
  <2>1. Patched(herdrRead).own = herdrRead.own /\ Patched(herdrRead) \in HerdrContents
    BY DEF Patched, HerdrContents
  <2> QED BY <1>9, <2>1 DEF BuildArchive
<1>10. CASE SyncFails BY <1>10 DEF SyncFails, SyncFault
<1>11. CASE Transfer BY <1>11 DEF Transfer
<1>12. CASE CopyHosts \/ Import BY <1>12 DEF CopyHosts, Import
<1>13. CASE CheckAccounts BY <1>13 DEF CheckAccounts
<1>14. CASE CompareHerdr BY <1>14 DEF CompareHerdr, Expected
<1>15. CASE ReplaceHerdr BY <1>15 DEF ReplaceHerdr
<1>16. CASE Verify BY <1>16 DEF Verify
<1>17. CASE UNCHANGED syncVars BY <1>17 DEF syncVars
<1> QED BY <1>1, <1>2, <1>3, <1>4, <1>5, <1>6, <1>7, <1>8, <1>9, <1>10, <1>11, <1>12, <1>13, <1>14,
           <1>15, <1>16, <1>17 DEF SyncNext

\* The accounts.
LEMMA AccountsNext ==
  ExportIsUnique /\ ArchiveIsExport /\ [SyncNext]_syncVars => ExportIsUnique' /\ ArchiveIsExport'
<1> SUFFICES ASSUME ExportIsUnique, ArchiveIsExport, [SyncNext]_syncVars
             PROVE  ExportIsUnique' /\ ArchiveIsExport'
  OBVIOUS
<1>1. ASSUME UNCHANGED <<credentials, exported, sent, imported>>,
             \/ UNCHANGED sync
             \/ sync' = "failed"
             \/ sync = "list" /\ sync' = "export"
             \/ sync = "export" /\ sync' = "build" /\ OneActive(exported)
             \/ sync = "transfer" /\ sync' \in {"hosts", "compare"}
             \/ sync = "hosts" /\ sync' = "import"
             \/ sync = "import" /\ sync' = "compare"
             \/ sync = "compare" /\ sync' = "replace"
             \/ sync = "replace" /\ sync' = "result"
             \/ sync = "result" /\ sync' = "done"
      PROVE  ExportIsUnique' /\ ArchiveIsExport'
  <2>1. ExportIsUnique' BY <1>1 DEF ExportIsUnique
  <2>2. ArchiveIsExport' BY <1>1 DEF ArchiveIsExport, OneActive
  <2> QED BY <2>1, <2>2
<1>2. CASE ReadGuestHerdr
  <2>1. /\ exported' = {} /\ imported' = {} /\ credentials' \in BOOLEAN
        /\ sync' = IF credentials' THEN "list" ELSE "build"
    BY <1>2 DEF ReadGuestHerdr
  <2>2. ExportIsUnique' BY <2>1, FS_EmptySet DEF ExportIsUnique
  <2>3. ArchiveIsExport' BY <2>1 DEF ArchiveIsExport, OneActive
  <2> QED BY <2>2, <2>3
<1>3. CASE ExportAccount /\ sync' = "export"
  <2>1. PICK entry \in listed : \E account \in {CanonicalAccount(entry, store[entry.name])} :
          /\ account.login = account.owner /\ account.owner \in Accounts
          /\ exported' = exported \cup {account}
    BY <1>3 DEF ExportAccount, SyncEnds, CanonicalAccount
  <2>2. PICK account :
          /\ account.login = account.owner /\ account.owner \in Accounts
          /\ exported' = exported \cup {account}
    BY <2>1
  <2>3. IsFiniteSet(exported') BY <2>2, FS_AddElement DEF ExportIsUnique
  <2>4. ExportIsUnique' BY <2>2, <2>3 DEF ExportIsUnique
  <2>5. sync = "export" /\ UNCHANGED <<credentials, imported, sent>> BY <1>3 DEF ExportAccount
  <2>6. ArchiveIsExport' BY <1>3, <2>5 DEF ArchiveIsExport
  <2> QED BY <2>4, <2>6
<1>4. CASE BuildArchive
  <2>1. /\ UNCHANGED <<credentials, exported, imported>> /\ sync = "build" /\ sync' = "transfer"
        /\ sent'.accounts = exported
    BY <1>4 DEF BuildArchive, SyncEnds
  <2>2. ExportIsUnique' BY <2>1 DEF ExportIsUnique
  <2>3. ArchiveIsExport' BY <2>1 DEF ArchiveIsExport, OneActive
  <2> QED BY <2>2, <2>3
<1>5. CASE Import
  <2>1. PICK e \in sent.accounts : imported' = imported \cup {e} BY <1>5 DEF Import
  <2>2. /\ UNCHANGED <<credentials, exported, sent>> /\ sync = "import" /\ sync' = "import"
    BY <1>5 DEF Import, SyncEnds, readVars
  <2>3. ExportIsUnique' BY <2>2 DEF ExportIsUnique
  <2>4. ArchiveIsExport' BY <2>1, <2>2 DEF ArchiveIsExport, OneActive
  <2> QED BY <2>3, <2>4
<1> USE DEF SyncEnds, SyncFault, readVars, githubVars, guestVars, bounds
<1>6. ASSUME NEW n \in Names, HostChange(n) PROVE ExportIsUnique' /\ ArchiveIsExport'
  BY <1>1, <1>6 DEF HostChange
<1>7. CASE ChangeShell \/ EditHerdr \/ GuestAccounts
  BY <1>1, <1>7 DEF ChangeShell, EditHerdr, GuestAccounts
<1>8. CASE ListAccounts BY <1>1, <1>8 DEF ListAccounts
<1>9. CASE ExportAccount /\ sync' # "export" BY <1>1, <1>9 DEF ExportAccount
<1>10. CASE FinishExport BY <1>1, <1>10 DEF FinishExport
<1>11. CASE SyncFails BY <1>1, <1>11 DEF SyncFails
<1>12. CASE Transfer \/ CopyHosts BY <1>1, <1>12 DEF Transfer, CopyHosts
<1>13. CASE CheckAccounts BY <1>1, <1>13 DEF CheckAccounts
<1>14. CASE CompareHerdr BY <1>1, <1>14 DEF CompareHerdr
<1>15. CASE ReplaceHerdr BY <1>1, <1>15 DEF ReplaceHerdr
<1>16. CASE Verify BY <1>1, <1>16 DEF Verify
<1>17. CASE UNCHANGED syncVars BY <1>1, <1>17 DEF syncVars
<1> QED BY <1>2, <1>3, <1>4, <1>5, <1>6, <1>7, <1>8, <1>9, <1>10, <1>11, <1>12, <1>13, <1>14,
           <1>15, <1>16, <1>17 DEF SyncNext

\* The guest's accounts.
LEMMA ImportedNext ==
  SyncIInv /\ [SyncNext]_syncVars => ImportedIsOwn'
<1> SUFFICES ASSUME SyncIInv, [SyncNext]_syncVars PROVE ImportedIsOwn' OBVIOUS
<1> USE DEF SyncIInv, ImportedIsOwn, SyncEnds, SyncFault, readVars, githubVars, guestVars, bounds
<1>1. ASSUME UNCHANGED <<guestStore, sent, imported>>, sync' # "import" \/ sync' = sync
      PROVE  ImportedIsOwn'
  BY <1>1
<1>2. ASSUME NEW n \in Names, HostChange(n) PROVE ImportedIsOwn' BY <1>1, <1>2 DEF HostChange
<1>3. CASE ChangeShell \/ EditHerdr BY <1>1, <1>3 DEF ChangeShell, EditHerdr
<1>4. CASE GuestAccounts
  <2>1. UNCHANGED <<sent, imported, sync>> BY <1>4 DEF GuestAccounts
  <2>2. /\ DOMAIN guestStore' = Logins
        /\ \A l \in Logins : guestStore'[l] \in {guestStore[l], NoAccount}
    BY <1>4 DEF GuestAccounts
  <2>3. sync = "import" => \A e \in imported : e.login \in Logins
    BY DEF ArchiveIsExport, ExportIsUnique, Logins
  <2> QED BY <2>1, <2>2, <2>3
<1>5. CASE ReadGuestHerdr BY <1>5 DEF ReadGuestHerdr, NoArchive
<1>6. CASE ListAccounts \/ FinishExport BY <1>1, <1>6 DEF ListAccounts, FinishExport
<1>7. CASE ExportAccount BY <1>1, <1>7 DEF ExportAccount
<1>8. CASE BuildArchive
  <2>1. sent'.hosts \subseteq {HostsFile} /\ sync' = "transfer" /\ UNCHANGED guestStore
    BY <1>8 DEF BuildArchive
  <2>2. DOMAIN HostsFile.tokens = Logins BY DEF HostsFile
  <2> QED BY <2>1, <2>2
<1>9. CASE SyncFails \/ Transfer BY <1>1, <1>9 DEF SyncFails, Transfer
<1>10. CASE CopyHosts
  <2>1. imported = {} /\ UNCHANGED <<imported, sent>> BY <1>10 DEF CopyHosts, ArchiveIsExport
  <2>2. DOMAIN guestStore' = Logins BY <1>10 DEF CopyHosts
  <2> QED BY <2>1, <2>2
<1>11. CASE Import
  <2>1. PICK e \in exported : /\ imported' = imported \cup {e}
                              /\ guestStore' = [guestStore EXCEPT ![e.owner] = e.owner]
    BY <1>11 DEF Import, ArchiveIsExport
  <2>2. \A f \in exported : f.login = f.owner /\ f.owner \in Logins BY DEF ExportIsUnique, Logins
  <2>3. UNCHANGED sent /\ sync = "import" BY <1>11 DEF Import
  <2>4. ASSUME NEW f \in imported' PROVE guestStore'[f.login] \in {f.login, NoAccount}
    <3>1. f \in exported /\ (f = e \/ guestStore[f.login] \in {f.login, NoAccount})
      BY <2>1, <2>3, <2>4 DEF ArchiveIsExport
    <3> QED BY <2>1, <2>2, <3>1
  <2> QED BY <2>1, <2>3, <2>4
<1>12. CASE CheckAccounts \/ CompareHerdr BY <1>1, <1>12 DEF CheckAccounts, CompareHerdr
<1>13. CASE ReplaceHerdr \/ Verify BY <1>1, <1>13 DEF ReplaceHerdr, Verify
<1>14. CASE UNCHANGED syncVars BY <1>1, <1>14 DEF syncVars
<1> QED BY <1>2, <1>3, <1>4, <1>5, <1>6, <1>7, <1>8, <1>9, <1>10, <1>11, <1>12, <1>13, <1>14 DEF SyncNext

\* What a synchronization has read, exported, sent and applied, at each of its
\* steps (configuration_sync.go, configuration-sync.ps1).
THEOREM SyncInvariant == SyncSpec => []SyncIInv
<1>1. SyncIInv /\ [SyncNext]_syncVars => SyncIInv'
  BY ReplacementNext, AccountsNext, ImportedNext DEF SyncIInv
<1> QED BY <1>1, SyncInitInv, PTL DEF SyncSpec

LEMMA TheOneActive ==
  ASSUME ExportIsUnique, OneActive(exported), exported # {}
  PROVE  \E e \in exported : e.active /\ \A f \in exported : f.active => f = e
<1> DEFINE A == {e \in exported : e.active}
<1>1. Cardinality(A) = 1 BY DEF OneActive
<1>2. IsFiniteSet(A) BY FS_Subset DEF ExportIsUnique
<1>3. PICK e : A = {e} BY <1>1, <1>2, FS_Singleton
<1> QED BY <1>3

\* When the guest's check has passed, every account that was sent has a token of
\* its own there, and the host's active one is the guest's active one, whatever
\* the copied hosts.yml brought and however the user logs in, out and switches.
THEOREM ExportedAccountsAreTheTokens == SyncSpec => AccountsAreTheTokens
<1>1. ASSUME SyncIInv, [SyncNext]_syncVars, sync = "import", sync' = "compare"
      PROVE  /\ \A e \in sent.accounts : guestStore[e.login] = e.login
             /\ sent.accounts # {} =>
                  \E e \in sent.accounts : e.active /\ currentLogin = e.login
                       /\ \A f \in sent.accounts : f.active => f = e
  <2>1. imported = sent.accounts /\ Present
    BY <1>1 DEF SyncNext, syncVars, HostChange, ChangeShell, EditHerdr, GuestAccounts, ReadGuestHerdr,
             ListAccounts, ExportAccount, FinishExport, BuildArchive, SyncFails, Transfer, CopyHosts, Import,
             CheckAccounts, CompareHerdr, ReplaceHerdr, Verify, SyncEnds
  <2>2. sent.accounts = exported /\ OneActive(exported) BY <1>1 DEF SyncIInv, ArchiveIsExport
  <2>3. \A e \in sent.accounts : guestStore[e.login] = e.login
    BY <1>1, <2>1, SyncAssumption DEF SyncIInv, ImportedIsOwn, Present
  <2>4. ASSUME sent.accounts # {}
        PROVE  \E e \in sent.accounts : e.active /\ currentLogin = e.login
                    /\ \A f \in sent.accounts : f.active => f = e
    <3>1. PICK e \in exported : e.active /\ \A f \in exported : f.active => f = e
      BY <1>1, <2>2, <2>4, TheOneActive DEF SyncIInv
    <3> QED BY <2>1, <2>2, <3>1 DEF Present
  <2> QED BY <2>3, <2>4
<1>2. SyncIInv /\ [SyncNext]_syncVars =>
        [sync = "import" /\ sync' = "compare" =>
           /\ \A e \in sent.accounts : guestStore[e.login] = e.login
           /\ sent.accounts # {} =>
                \E e \in sent.accounts : e.active /\ currentLogin = e.login
                     /\ \A f \in sent.accounts : f.active => f = e]_syncVars
  BY <1>1
<1> QED BY <1>2, SyncInvariant, PTL DEF SyncSpec, AccountsAreTheTokens

\* The replacement of Herdr's configuration keeps the setting of the guest's
\* user, as far as the user has not edited since the comparison.
THEOREM ReplacementKeepsEdits == SyncSpec => GuestEditsKept
<1>1. ASSUME SyncIInv, [SyncNext]_syncVars, sync = "replace", sync' = "result", ~lateEdit
      PROVE  guestHerdr'.own = guestHerdr.own
  <2>1. guestHerdr = sent.expected /\ sent.herdr.own = sent.expected.own
    BY <1>1 DEF SyncIInv, ReplacementIsRead
  <2>2. guestHerdr' = sent.herdr
    BY <1>1 DEF SyncNext, syncVars, HostChange, ChangeShell, EditHerdr, GuestAccounts, ReadGuestHerdr,
             ListAccounts, ExportAccount, FinishExport, BuildArchive, SyncFails, Transfer, CopyHosts, Import,
             CheckAccounts, CompareHerdr, ReplaceHerdr, Verify
  <2> QED BY <2>1, <2>2
<1>2. SyncIInv /\ [SyncNext]_syncVars =>
        [sync = "replace" /\ sync' = "result" /\ ~lateEdit => guestHerdr'.own = guestHerdr.own]_syncVars
  BY <1>1
<1> QED BY <1>2, SyncInvariant, PTL DEF SyncSpec, GuestEditsKept

-----------------------------------------------------------------------------
(* The pull of the configuration repositories. *)

LEMMA PullInitInv == PullInit => PullIInv
BY DEF PullInit, PullIInv, PullTypeOK, TodoIsSelected, SeenIsVisited, NoPull, Configs, Roots

\* A directory has been visited.
LEMMA VisitInv ==
  ASSUME PullIInv, NEW d \in pull.todo,
         PullTypeOK', git' = git, remotes' = remotes,
         pull'.pc = pull.pc, pull'.always = pull.always, pull'.loaded = pull.loaded,
         pull'.todo = pull.todo \ {d},
         pull'.seen = pull.seen \union ({git[d]} \intersect Repositories),
         \A r \in Repositories :
           pull'.pulled[r] = IF r = git[d] /\ r \in remotes /\ r \notin pull.seen
                             THEN pull.pulled[r] + 1 ELSE pull.pulled[r]
  PROVE  PullIInv'
<1>1. TodoIsSelected' BY DEF PullIInv, TodoIsSelected
<1>2. Visited' = Visited \union {d}
  <2>1. CASE pull.pc = "own" BY <2>1 DEF Visited, PullIInv, TodoIsSelected
  <2>2. CASE pull.pc = "selected" BY <2>2 DEF Visited, PullIInv, TodoIsSelected
  <2> QED BY <2>1, <2>2 DEF PullIInv, TodoIsSelected, PullTypeOK
<1>3. SeenIsVisited'
  <2>1. pull.pc # "off" BY DEF PullIInv, TodoIsSelected
  <2>2. /\ pull.seen = {git[e] : e \in Visited} \intersect Repositories
        /\ \A r \in Repositories : pull.pulled[r] = IF r \in pull.seen \intersect remotes THEN 1 ELSE 0
    BY <2>1 DEF PullIInv, SeenIsVisited
  <2>3. pull'.seen = {git[e] : e \in Visited'} \intersect Repositories BY <1>2, <2>2
  <2>4. \A r \in Repositories : pull'.pulled[r] = IF r \in pull'.seen \intersect remotes THEN 1 ELSE 0
    BY <2>2
  <2> QED BY <2>3, <2>4 DEF SeenIsVisited
<1> QED BY <1>1, <1>3 DEF PullIInv

LEMMA NoPullInv ==
  ASSUME PullTypeOK, pull' = NoPull, UNCHANGED <<git, remotes, pullConfig, remoteConfig>>
  PROVE  PullIInv'
<1>1. PullTypeOK' BY DEF PullTypeOK, NoPull, Configs
<1>2. pull'.pc = "off" /\ pull'.todo = {} BY DEF NoPull
<1> QED BY <1>1, <1>2 DEF PullIInv, TodoIsSelected, SeenIsVisited

LEMMA PullNextInv == PullIInv /\ [PullNext]_pullVars => PullIInv'
<1> SUFFICES ASSUME PullIInv, [PullNext]_pullVars PROVE PullIInv' OBVIOUS
<1>1. PullTypeOK /\ TodoIsSelected /\ SeenIsVisited BY DEF PullIInv
<1> USE DEF PullKeeps
<1>2. ASSUME NEW c \in Configs, EditConfig(c) PROVE PullIInv'
  <2>1. PullTypeOK' BY <1>1, <1>2 DEF EditConfig, PullTypeOK
  <2>2. TodoIsSelected' /\ SeenIsVisited'
    BY <1>1, <1>2 DEF EditConfig, TodoIsSelected, SeenIsVisited, Visited
  <2> QED BY <2>1, <2>2 DEF PullIInv
<1>3. ASSUME NEW always \in BOOLEAN, BeginPull(always) PROVE PullIInv'
  <2>1. UNCHANGED <<git, remotes, pullConfig, remoteConfig>> BY <1>3 DEF BeginPull
  <2>2. CASE pull' = NoPull BY <1>1, <2>1, <2>2, NoPullInv
  <2>3. CASE pull' = [NoPull EXCEPT !.pc = "own", !.always = always, !.todo = {Own}]
    <3>1. /\ pull'.pc = "own" /\ pull'.todo = {Own} /\ pull'.seen = {}
          /\ pull'.pulled = [r \in Repositories |-> 0]
      BY <2>3 DEF NoPull
    <3>2. PullTypeOK' BY <1>1, <2>1, <2>3 DEF PullTypeOK, NoPull, Configs
    <3>3. TodoIsSelected' BY <3>1 DEF TodoIsSelected
    <3>4. SeenIsVisited' BY <3>1 DEF SeenIsVisited, Visited
    <3> QED BY <3>2, <3>3, <3>4 DEF PullIInv
  <2> QED BY <1>3, <2>2, <2>3 DEF BeginPull
<1>4. ASSUME NEW d \in {Own} \union Roots, SkipRoot(d) PROVE PullIInv'
  <2>1. /\ d \in pull.todo /\ pull' = [pull EXCEPT !.todo = pull.todo \ {d}]
        /\ UNCHANGED <<git, remotes, pullConfig, remoteConfig>>
        /\ {git[d]} \intersect Repositories \subseteq pull.seen
    BY <1>4, NoRepositoryAssumption DEF SkipRoot, Visits
  <2>2. /\ pull'.pc = pull.pc /\ pull'.always = pull.always /\ pull'.loaded = pull.loaded
        /\ pull'.todo = pull.todo \ {d} /\ pull'.seen = pull.seen /\ pull'.pulled = pull.pulled
    BY <1>1, <2>1 DEF PullTypeOK
  <2>3. PullTypeOK' BY <1>1, <2>1 DEF PullTypeOK
  <2>4. \A r \in Repositories : r = git[d] => r \in pull.seen BY <2>1
  <2> QED BY <2>1, <2>2, <2>3, <2>4, VisitInv
<1>5. ASSUME NEW d \in {Own} \union Roots, UpdateRepository(d) PROVE PullIInv'
  <2> DEFINE pulled == IF git[d] \in remotes
                       THEN [pull.pulled EXCEPT ![git[d]] = pull.pulled[git[d]] + 1] ELSE pull.pulled
             seen == pull.seen \union {git[d]}
  <2>1. /\ d \in pull.todo /\ git[d] \in Repositories \ pull.seen
        /\ pull' = [pull EXCEPT !.todo = pull.todo \ {d}, !.seen = seen, !.pulled = pulled]
        /\ UNCHANGED <<git, remotes, remoteConfig>>
        /\ pullConfig' \in {remoteConfig, pullConfig}
    BY <1>5 DEF UpdateRepository, Visits, MarkSeen
  <2>2. /\ pulled \in [Repositories -> Nat]
        /\ \A r \in Repositories :
             pulled[r] = IF r = git[d] /\ r \in remotes THEN pull.pulled[r] + 1 ELSE pull.pulled[r]
    BY <1>1, <2>1 DEF PullTypeOK
  <2> HIDE DEF pulled
  <2>3. /\ pull'.pc = pull.pc /\ pull'.always = pull.always /\ pull'.loaded = pull.loaded
        /\ pull'.todo = pull.todo \ {d} /\ pull'.seen = seen /\ pull'.pulled = pulled
    BY <1>1, <2>1 DEF PullTypeOK
  <2>4. PullTypeOK' BY <1>1, <2>1, <2>2 DEF PullTypeOK
  <2> QED BY <2>1, <2>2, <2>3, <2>4, VisitInv
<1>6. ASSUME NEW d \in {Own} \union Roots, PullFails(d) PROVE PullIInv'
  <2> QED BY <1>1, <1>6, NoPullInv DEF PullFails
<1>7. CASE Reload
  <2> DEFINE goes == pull.always \/ pullConfig.onUp
             pc == IF goes THEN "selected" ELSE "done"
             todo == IF goes THEN pullConfig.enabled ELSE {}
  <2>1. /\ pull.pc = "own" /\ pull.todo = {}
        /\ pull' = [pull EXCEPT !.loaded = pullConfig, !.pc = pc, !.todo = todo]
        /\ UNCHANGED <<git, remotes, pullConfig, remoteConfig>>
    BY <1>7 DEF Reload
  <2>2. /\ pull'.loaded = pullConfig /\ pull'.pc = pc /\ pull'.todo = todo
        /\ pull'.always = pull.always /\ pull'.seen = pull.seen /\ pull'.pulled = pull.pulled
    BY <1>1, <2>1 DEF PullTypeOK
  <2>3. pc \in {"selected", "done"} /\ todo \in SUBSET Roots BY <1>1 DEF PullTypeOK, Configs
  <2>4. PullTypeOK'
    <3> HIDE DEF pc, todo
    <3> QED BY <1>1, <2>1, <2>3 DEF PullTypeOK
  <2>5. TodoIsSelected' BY <2>2 DEF TodoIsSelected
  <2>6. Visited = {Own} /\ Visited' = {Own} BY <2>1, <2>2 DEF Visited
  <2>7. SeenIsVisited' BY <1>1, <2>1, <2>2, <2>6 DEF SeenIsVisited
  <2> QED BY <2>4, <2>5, <2>7 DEF PullIInv
<1>8. CASE FinishPull
  <2>1. /\ pull.pc = "selected" /\ pull.todo = {} /\ pull' = [pull EXCEPT !.pc = "done"]
        /\ UNCHANGED <<git, remotes, pullConfig, remoteConfig>>
    BY <1>8 DEF FinishPull
  <2>2. /\ pull'.pc = "done" /\ pull'.loaded = pull.loaded /\ pull'.todo = pull.todo
        /\ pull'.always = pull.always /\ pull'.seen = pull.seen /\ pull'.pulled = pull.pulled
    BY <1>1, <2>1 DEF PullTypeOK
  <2>3. PullTypeOK' BY <1>1, <2>1 DEF PullTypeOK
  <2>4. TodoIsSelected' BY <2>1, <2>2 DEF TodoIsSelected
  <2>5. Visited' = Visited BY <2>1, <2>2 DEF Visited
  <2>6. SeenIsVisited' BY <1>1, <2>1, <2>2, <2>5 DEF SeenIsVisited
  <2> QED BY <2>3, <2>4, <2>6 DEF PullIInv
<1>9. CASE UNCHANGED pullVars
  BY <1>1, <1>9 DEF pullVars, PullIInv, PullTypeOK, TodoIsSelected, SeenIsVisited, Visited
<1> QED BY <1>2, <1>3, <1>4, <1>5, <1>6, <1>7, <1>8, <1>9 DEF PullNext

\* What a pull has visited, seen and fast-forwarded at each of its steps
\* (host_configuration_pull.go).
THEOREM PullInvariant == PullSpec => []PullIInv
BY PullInitInv, PullNextInv, PTL DEF PullSpec

\* A pull that ends well has fast-forwarded what the reloaded configuration
\* selects, each repository once, however many directories share it.
THEOREM PulledIsSelected == PullSpec => []PullFollowsReload
<1>1. ASSUME PullIInv, pull.pc = "done", NEW r \in Repositories
      PROVE  pull.pulled[r] =
               IF r \in remotes /\ (\/ git[Own] = r
                                    \/ /\ pull.always \/ pull.loaded.onUp
                                       /\ \E d \in pull.loaded.enabled : git[d] = r)
               THEN 1 ELSE 0
  <2>1. /\ pull.seen = {git[d] : d \in Visited} \intersect Repositories
        /\ pull.pulled[r] = IF r \in pull.seen \intersect remotes THEN 1 ELSE 0
    BY <1>1 DEF PullIInv, SeenIsVisited
  <2>2. Visited = IF pull.always \/ pull.loaded.onUp THEN {Own} \union pull.loaded.enabled ELSE {Own}
    BY <1>1 DEF PullIInv, TodoIsSelected, Visited
  <2> QED BY <2>1, <2>2
<1>2. PullIInv => PullFollowsReload BY <1>1 DEF PullFollowsReload
<1> QED BY <1>2, PullInvariant, PTL

-----------------------------------------------------------------------------
(* The plan of the packages. *)

\* A bounded list is a list.
LEMMA BoundedIsSeq ==
  ASSUME NEW S, NEW T, S \subseteq T, NEW list \in SeqOf(S, MaxListed)
  PROVE  list \in Seq(T)
<1>1. PICK m \in 0..MaxListed : list \in [1..m -> S] BY DEF SeqOf
<1>2. m \in Nat BY <1>1, PackageAssumption
<1>3. list \in [1..m -> T] BY <1>1
<1> QED BY <1>2, <1>3, SeqDef

\* A list that is accepted to its end, and what it holds.
LEMMA AcceptedList ==
  ASSUME NEW list \in Seq(Packages), NEW allowed
  PROVE  /\ Accepted(list, Len(list), allowed) <=> IsInjective(list) /\ Range(list) \subseteq allowed
         /\ FirstOf(list, Len(list)) = Range(list)
<1>1. DOMAIN list = 1..Len(list) BY LenProperties
<1> QED BY <1>1 DEF Accepted, FirstOf, IsInjective, Range

\* One more entry.
LEMMA AcceptedNext ==
  ASSUME NEW list \in Seq(Packages), NEW allowed, NEW n \in Nat \ {0}, n <= Len(list)
  PROVE  /\ list[n] \in Packages
         /\ FirstOf(list, n) = FirstOf(list, n - 1) \union {list[n]}
         /\ Accepted(list, n, allowed)
              <=> /\ Accepted(list, n - 1, allowed)
                  /\ list[n] \in allowed \ FirstOf(list, n - 1)
         /\ Accepted(list, Len(list), allowed) => Accepted(list, n, allowed)
<1>1. Len(list) \in Nat BY LenProperties
<1>2. 1..n = (1..(n - 1)) \union {n} /\ n \notin 1..(n - 1) BY <1>1
<1>3. 1..n \subseteq 1..Len(list) BY <1>1
<1>4. list[n] \in Packages BY <1>1, ElementOfSeq
<1>5. FirstOf(list, n) = FirstOf(list, n - 1) \union {list[n]} BY <1>2 DEF FirstOf
<1>6. Accepted(list, n, allowed)
        <=> Accepted(list, n - 1, allowed) /\ list[n] \in allowed \ FirstOf(list, n - 1)
  BY <1>2 DEF Accepted, FirstOf
<1>7. Accepted(list, Len(list), allowed) => Accepted(list, n, allowed) BY <1>3 DEF Accepted
<1> QED BY <1>4, <1>5, <1>6, <1>7

LEMMA AcceptableLists ==
  ASSUME PackageTypeOK
  PROVE  Acceptable <=> /\ Accepted(remove, Len(remove), Removable)
                        /\ Accepted(add, Len(add), Addable)
                        /\ Git \in Range(remove) => stacks \cap NeedsGit = {}
BY AcceptedList DEF PackageTypeOK, Acceptable

LEMMA PackageInitInv == PackageInit => PackageIInv
<1> SUFFICES ASSUME PackageInit PROVE PackageIInv OBVIOUS
<1>1. remove \in Seq(Packages) BY BoundedIsSeq DEF PackageInit
<1>2. add \in Seq(Packages)
  <2>1. {Git, Owned, Extra} \subseteq Packages BY DEF Packages, Base
  <2> QED BY <2>1, BoundedIsSeq DEF PackageInit
<1>3. /\ packagePlan.pc = "remove" /\ packagePlan.next = 1 /\ packagePlan.additions = {}
      /\ packagePlan.defaults = {Core, Git, Optional, XAML, edition}
      /\ edition \in {Terminal, Preview}
  BY DEF PackageInit
<1>4. PackageTypeOK BY <1>1, <1>2 DEF PackageInit, PackageTypeOK, Packages, Base
<1>5. Len(remove) \in Nat BY <1>1, LenProperties
<1>6. FirstOf(remove, 0) = {} /\ Accepted(remove, 0, Removable) BY DEF FirstOf, Accepted
<1>7. ListsApplied BY <1>3, <1>5, <1>6 DEF ListsApplied, DefaultsWithout
<1> QED BY <1>3, <1>4, <1>7 DEF PackageIInv

\* The packages are told apart.
LEMMA DistinctPackages ==
  /\ Core # Git /\ Core # XAML /\ Core # Terminal /\ Core # Preview /\ Core # Optional
  /\ Git # XAML /\ Git # Terminal /\ Git # Preview /\ Git # Optional
  /\ XAML # Terminal /\ XAML # Preview /\ XAML # Optional
  /\ Terminal # Preview /\ Terminal # Optional /\ Preview # Optional
  /\ Extra \notin Base \union {Owned}
BY PackageAssumption DEF Core, Git, XAML, Terminal, Preview

\* A removal is refused exactly when it is none of the removable packages, or a
\* second one.
LEMMA RemovalIsAccepted ==
  ASSUME edition \in {Terminal, Preview}, NEW removed, removed \subseteq Removable, NEW p
  PROVE  /\ p \in DefaultsWithout(removed) /\ p \notin {Core, XAML} <=> p \in Removable \ removed
         /\ p \in Removable => DefaultsWithout(removed) \ Removal(p) = DefaultsWithout(removed \union {p})
BY DistinctPackages DEF DefaultsWithout, Removable, Removal

\* What is left of the defaults and what is added make a valid plan.
LEMMA AcceptedIsValid ==
  ASSUME edition \in {Terminal, Preview}, NEW removed, removed \subseteq Removable,
         NEW additions, additions \subseteq Addable
  PROVE  /\ PlanIsValid(DefaultsWithout(removed) \union additions)
         /\ Git \in DefaultsWithout(removed) <=> Git \notin removed
         /\ DefaultsWithout(removed) \union additions =
              {Core} \union ({Git, Optional} \ removed) \union additions
                     \union (IF edition \in removed THEN {} ELSE {edition, XAML})
<1>1. Extra \notin {Core, Git, XAML, Terminal, Preview, Optional} BY DistinctPackages DEF Base
<1>2. Git \in DefaultsWithout(removed) <=> Git \notin removed
  BY DistinctPackages DEF DefaultsWithout
<1>3. DefaultsWithout(removed) =
        {Core} \union ({Git, Optional} \ removed)
               \union (IF edition \in removed THEN {} ELSE {edition, XAML})
  BY DistinctPackages DEF DefaultsWithout, Removable
<1>4. PlanIsValid(DefaultsWithout(removed) \union additions)
  BY <1>1, <1>3, DistinctPackages DEF PlanIsValid, Addable
<1> QED BY <1>2, <1>3, <1>4

LEMMA PackageNextInv == PackageIInv /\ [PackageNext]_packageVars => PackageIInv'
<1> SUFFICES ASSUME PackageIInv, [PackageNext]_packageVars PROVE PackageIInv' OBVIOUS
<1> DEFINE n == packagePlan.next
<1>1. PackageTypeOK /\ ListsApplied /\ (packagePlan.pc = "error" => ~Acceptable) BY DEF PackageIInv
<1>2. /\ n \in Nat \ {0} /\ edition \in {Terminal, Preview}
      /\ remove \in Seq(Packages) /\ add \in Seq(Packages)
      /\ Len(remove) \in Nat /\ Len(add) \in Nat
  BY <1>1, LenProperties DEF PackageTypeOK
<1>3. ASSUME PlanFails, PlanKeeps, ~Acceptable PROVE PackageIInv'
  <2>1. packagePlan'.pc = "error" BY <1>1, <1>3 DEF PlanFails, PackageTypeOK
  <2>2. PackageTypeOK' BY <1>1, <1>3 DEF PlanFails, PlanKeeps, PackageTypeOK, Packages, Base
  <2>3. ListsApplied' BY <2>1 DEF ListsApplied
  <2>4. ~Acceptable' BY <1>3 DEF PlanKeeps, Acceptable, Removable, Addable
  <2> QED BY <2>2, <2>3, <2>4 DEF PackageIInv
<1>4. CASE RemovePackage
  <2> DEFINE p == remove[n]
             removed == FirstOf(remove, n - 1)
  <2>1. /\ packagePlan.pc = "remove" /\ n <= Len(remove) /\ PlanKeeps
        /\ Accepted(remove, n - 1, Removable) /\ packagePlan.defaults = DefaultsWithout(removed)
        /\ packagePlan.additions = {}
    BY <1>1, <1>4 DEF RemovePackage, ListsApplied
  <2>2. /\ p \in Packages /\ FirstOf(remove, n) = removed \union {p}
        /\ Accepted(remove, n, Removable) <=> p \in Removable \ removed
        /\ Accepted(remove, Len(remove), Removable) => Accepted(remove, n, Removable)
    BY <1>2, <2>1, AcceptedNext
  <2>3. removed \subseteq Removable BY <2>1 DEF Accepted, FirstOf
  <2>4. /\ p \in packagePlan.defaults /\ p \notin {Core, XAML} <=> p \in Removable \ removed
        /\ p \in Removable => packagePlan.defaults \ Removal(p) = DefaultsWithout(removed \union {p})
    <3>1. edition \in {Terminal, Preview} /\ removed \subseteq Removable BY <1>2, <2>3
    <3>2. packagePlan.defaults = DefaultsWithout(removed) BY <2>1
    <3> HIDE DEF p, removed
    <3>3. /\ p \in DefaultsWithout(removed) /\ p \notin {Core, XAML} <=> p \in Removable \ removed
          /\ p \in Removable => DefaultsWithout(removed) \ Removal(p) = DefaultsWithout(removed \union {p})
      BY <3>1, RemovalIsAccepted, Zenon
    <3> QED BY <3>2, <3>3, Zenon
  <2> HIDE DEF p, removed
  <2>5. CASE p \in Removable \ removed
    <3>1. packagePlan' = [packagePlan EXCEPT !.next = n + 1, !.defaults = DefaultsWithout(FirstOf(remove, n))]
      BY <1>4, <2>2, <2>4, <2>5 DEF RemovePackage, p
    <3>2. DefaultsWithout(FirstOf(remove, n)) \subseteq Packages
      BY <1>1, <2>2, <2>4, <2>5 DEF PackageTypeOK
    <3>3. PackageTypeOK'
      <4>1. n + 1 \in Nat \ {0} BY <1>2
      <4> HIDE DEF n
      <4> QED BY <1>1, <2>1, <3>1, <3>2, <4>1 DEF PackageTypeOK, PlanKeeps
    <3>4. /\ packagePlan'.pc = "remove" /\ packagePlan'.next - 1 = n /\ packagePlan'.additions = {}
          /\ packagePlan'.defaults = DefaultsWithout(FirstOf(remove, n))
      BY <1>1, <1>2, <2>1, <3>1 DEF PackageTypeOK
    <3>5. /\ remove' = remove /\ edition' = edition BY <2>1 DEF PlanKeeps
    <3>6. ListsApplied' BY <2>1, <2>2, <2>5, <3>4, <3>5 DEF ListsApplied, DefaultsWithout, Removable
    <3> QED BY <3>3, <3>4, <3>6 DEF PackageIInv
  <2>6. CASE p \notin Removable \ removed
    <3>1. ~Acceptable BY <1>1, <2>2, <2>6, AcceptableLists
    <3>2. PlanFails BY <1>4, <2>4, <2>6 DEF RemovePackage, p
    <3> QED BY <1>3, <2>1, <3>1, <3>2
  <2> QED BY <2>5, <2>6
<1>5. CASE BeginAdditions
  <2>1. /\ packagePlan.pc = "remove" /\ n > Len(remove) /\ PlanKeeps
        /\ packagePlan' = [packagePlan EXCEPT !.pc = "add", !.next = 1]
        /\ n - 1 <= Len(remove) /\ Accepted(remove, n - 1, Removable)
        /\ packagePlan.defaults = DefaultsWithout(FirstOf(remove, n - 1)) /\ packagePlan.additions = {}
    BY <1>1, <1>5 DEF BeginAdditions, ListsApplied
  <2>2. n - 1 = Len(remove) BY <1>2, <2>1
  <2>3. PackageTypeOK'
    <3>1. 1 \in Nat \ {0} OBVIOUS
    <3> QED BY <1>1, <2>1, <3>1 DEF PackageTypeOK, PlanKeeps
  <2>4. /\ packagePlan'.pc = "add" /\ packagePlan'.next - 1 = 0 /\ packagePlan'.additions = {}
        /\ packagePlan'.defaults = DefaultsWithout(Range(remove))
    BY <1>1, <1>2, <2>1, <2>2, AcceptedList DEF PackageTypeOK
  <2>5. FirstOf(add, 0) = {} /\ Accepted(add, 0, Addable) BY DEF FirstOf, Accepted
  <2>6. Accepted(remove, Len(remove), Removable) BY <2>1, <2>2
  <2>7. UNCHANGED <<remove, add, edition>> /\ 0 <= Len(add) BY <1>2, <2>1 DEF PlanKeeps
  <2>8. ListsApplied'
    BY <2>4, <2>5, <2>6, <2>7 DEF ListsApplied, DefaultsWithout, Removable, Addable
  <2> QED BY <2>3, <2>4, <2>8 DEF PackageIInv
<1>6. CASE AddPackage
  <2> DEFINE p == add[n]
             additions == FirstOf(add, n - 1)
  <2>1. /\ packagePlan.pc = "add" /\ n <= Len(add) /\ PlanKeeps
        /\ Accepted(add, n - 1, Addable) /\ packagePlan.additions = additions
        /\ Accepted(remove, Len(remove), Removable)
        /\ packagePlan.defaults = DefaultsWithout(Range(remove))
    BY <1>1, <1>6 DEF AddPackage, ListsApplied
  <2>2. /\ p \in Packages /\ FirstOf(add, n) = additions \union {p}
        /\ Accepted(add, n, Addable) <=> p \in Addable \ additions
        /\ Accepted(add, Len(add), Addable) => Accepted(add, n, Addable)
    BY <1>2, <2>1, AcceptedNext
  <2>3. p \in Base \union {Owned} \union additions <=> p \notin Addable \ additions
    BY <2>2, DistinctPackages DEF Packages, Addable
  <2> HIDE DEF p, additions
  <2>4. CASE p \in Addable \ additions
    <3>1. packagePlan' = [packagePlan EXCEPT !.next = n + 1, !.additions = FirstOf(add, n)]
      BY <1>6, <2>1, <2>2, <2>3, <2>4 DEF AddPackage, p
    <3>2. FirstOf(add, n) \subseteq Packages BY <1>1, <2>1, <2>2 DEF PackageTypeOK
    <3>3. PackageTypeOK'
      <4>1. n + 1 \in Nat \ {0} BY <1>2
      <4> HIDE DEF n
      <4> QED BY <1>1, <2>1, <3>1, <3>2, <4>1 DEF PackageTypeOK, PlanKeeps
    <3>4. /\ packagePlan'.pc = "add" /\ packagePlan'.next - 1 = n
          /\ packagePlan'.additions = FirstOf(add, n) /\ packagePlan'.defaults = packagePlan.defaults
      BY <1>1, <1>2, <2>1, <3>1 DEF PackageTypeOK
    <3>5. UNCHANGED <<remove, add, edition>> BY <2>1 DEF PlanKeeps
    <3>6. ListsApplied'
      BY <2>1, <2>2, <2>4, <3>4, <3>5 DEF ListsApplied, DefaultsWithout, Removable
    <3> QED BY <3>3, <3>4, <3>6 DEF PackageIInv
  <2>5. CASE p \notin Addable \ additions
    <3>1. ~Acceptable BY <1>1, <2>2, <2>5, AcceptableLists
    <3>2. PlanFails BY <1>6, <2>1, <2>3, <2>5 DEF AddPackage, p
    <3> QED BY <1>3, <2>1, <3>1, <3>2
  <2> QED BY <2>4, <2>5
<1>7. CASE ValidatePlan
  <2>1. /\ packagePlan.pc = "add" /\ n > Len(add) /\ PlanKeeps
        /\ n - 1 <= Len(add) /\ Accepted(add, n - 1, Addable)
        /\ packagePlan.additions = FirstOf(add, n - 1)
        /\ Accepted(remove, Len(remove), Removable)
        /\ packagePlan.defaults = DefaultsWithout(Range(remove))
    BY <1>1, <1>7 DEF ValidatePlan, ListsApplied
  <2>2. n - 1 = Len(add) BY <1>2, <2>1
  <2>3. /\ Range(remove) \subseteq Removable /\ Range(add) \subseteq Addable
        /\ packagePlan.additions = Range(add) /\ Accepted(add, Len(add), Addable)
    BY <1>2, <2>1, <2>2, AcceptedList
  <2>4. PlanIsValid(packagePlan.defaults \union packagePlan.additions)
    BY <1>2, <2>1, <2>3, AcceptedIsValid
  <2>5. packagePlan' = [packagePlan EXCEPT !.pc = "stacks"] BY <1>7, <2>4 DEF ValidatePlan
  <2>6. PackageTypeOK' BY <1>1, <2>1, <2>5 DEF PackageTypeOK, PlanKeeps
  <2>7. /\ packagePlan'.pc = "stacks" /\ packagePlan'.additions = packagePlan.additions
        /\ packagePlan'.defaults = packagePlan.defaults
    BY <1>1, <2>5 DEF PackageTypeOK
  <2>8. UNCHANGED <<remove, add, edition>> BY <2>1 DEF PlanKeeps
  <2>9. ListsApplied' BY <2>1, <2>3, <2>7, <2>8 DEF ListsApplied, DefaultsWithout, Removable
  <2> QED BY <2>6, <2>7, <2>9 DEF PackageIInv
<1>8. CASE RequireGit
  <2>1. /\ packagePlan.pc = "stacks" /\ PlanKeeps
        /\ Accepted(remove, Len(remove), Removable) /\ Accepted(add, Len(add), Addable)
        /\ packagePlan.defaults = DefaultsWithout(Range(remove)) /\ packagePlan.additions = Range(add)
    BY <1>1, <1>8 DEF RequireGit, ListsApplied
  <2>2. Git \in packagePlan.defaults <=> Git \notin Range(remove)
    <3>1. Range(remove) \subseteq Removable /\ Range(add) \subseteq Addable BY <1>2, <2>1, AcceptedList
    <3>2. Git \in DefaultsWithout(Range(remove)) <=> Git \notin Range(remove)
      BY <1>2, <3>1, AcceptedIsValid, Zenon
    <3> QED BY <2>1, <3>2, Zenon
  <2>3. CASE stacks \cap NeedsGit = {} \/ Git \in packagePlan.defaults
    <3>1. packagePlan' = [packagePlan EXCEPT !.pc = "done"] BY <1>8, <2>3 DEF RequireGit
    <3>2. PackageTypeOK' BY <1>1, <2>1, <3>1 DEF PackageTypeOK, PlanKeeps
    <3>3. /\ packagePlan'.pc = "done" /\ packagePlan'.additions = packagePlan.additions
          /\ packagePlan'.defaults = packagePlan.defaults
      BY <1>1, <3>1 DEF PackageTypeOK
    <3>4. UNCHANGED <<remove, add, edition, stacks>> BY <2>1 DEF PlanKeeps
    <3>5. ListsApplied' BY <2>1, <2>2, <2>3, <3>3, <3>4 DEF ListsApplied, DefaultsWithout, Removable
    <3> QED BY <3>2, <3>3, <3>5 DEF PackageIInv
  <2>4. CASE ~(stacks \cap NeedsGit = {} \/ Git \in packagePlan.defaults)
    <3>1. ~Acceptable BY <2>2, <2>4 DEF Acceptable
    <3>2. PlanFails BY <1>8, <2>4 DEF RequireGit, PlanFails
    <3> QED BY <1>3, <2>1, <3>1, <3>2
  <2> QED BY <2>3, <2>4
<1>9. CASE UNCHANGED packageVars
  <2>1. PackageTypeOK' BY <1>1, <1>9 DEF packageVars, PackageTypeOK
  <2>2. ListsApplied' BY <1>1, <1>9 DEF packageVars, ListsApplied, DefaultsWithout, Removable
  <2>3. Acceptable' = Acceptable BY <1>9 DEF packageVars, Acceptable, Removable
  <2> QED BY <1>1, <1>9, <2>1, <2>2, <2>3 DEF packageVars, PackageIInv
<1> QED BY <1>4, <1>5, <1>6, <1>7, <1>8, <1>9 DEF PackageNext

\* How far the lists of a configuration are applied, at each step of the plan,
\* and that a refused one is not acceptable (winget_packages.go, project_plan.go).
THEOREM PackageInvariant == PackageSpec => []PackageIInv
BY PackageInitInv, PackageNextInv, PTL DEF PackageSpec

\* A configuration is accepted exactly when it may be, with the packages it asks
\* for: for lists of any length.
THEOREM PackagePlanIsWanted == PackageSpec => []PlanIsWanted
<1>1. ASSUME PackageIInv, packagePlan.pc = "done"
      PROVE  /\ Acceptable
             /\ packagePlan.defaults \union packagePlan.additions =
                  {Core} \union ({Git, Optional} \ Range(remove)) \union Range(add)
                         \union (IF edition \in Range(remove) THEN {} ELSE {edition, XAML})
  <2>1. /\ PackageTypeOK /\ Accepted(remove, Len(remove), Removable) /\ Accepted(add, Len(add), Addable)
        /\ Git \in Range(remove) => stacks \cap NeedsGit = {}
        /\ packagePlan.defaults = DefaultsWithout(Range(remove)) /\ packagePlan.additions = Range(add)
    BY <1>1 DEF PackageIInv, ListsApplied
  <2>2. Acceptable BY <2>1, AcceptableLists
  <2>3. Range(remove) \subseteq Removable /\ Range(add) \subseteq Addable /\ edition \in {Terminal, Preview}
    BY <2>1, <2>2 DEF Acceptable, PackageTypeOK
  <2>4. DefaultsWithout(Range(remove)) \union Range(add) =
          {Core} \union ({Git, Optional} \ Range(remove)) \union Range(add)
                 \union (IF edition \in Range(remove) THEN {} ELSE {edition, XAML})
    BY <2>3, AcceptedIsValid, Zenon
  <2> QED BY <2>1, <2>2, <2>4, Zenon
<1>2. PackageIInv => PlanIsWanted BY <1>1 DEF PlanIsWanted, PackageIInv
<1> QED BY <1>2, PackageInvariant, PTL

-----------------------------------------------------------------------------
(* The plan of the tools. *)

\* What can be asked of the tool.
LEMMA AskedTypes ==
  ASSUME ToolTypeOK, NEW i \in DOMAIN requirements
  PROVE  /\ requirements[i].by \in {"user", "project", "lock"}
         /\ requirements[i].version \in Versions \union {Unnamed}
         /\ requirements[i].series \in Series \union {Unnamed}
         /\ requirements[i].file \in Files
         /\ requirements[i].by = "lock" =>
              tool = "playwright" /\ requirements[i].version = Unnamed /\ requirements[i].series = Unnamed
         /\ requirements[i].by = "project" => tool = "rust"
         /\ requirements[i].by = "user" => requirements[i].file = Unnamed
         /\ tool # "python" => requirements[i].series = Unnamed
         /\ requirements[i] = [by |-> requirements[i].by, version |-> requirements[i].version,
                               series |-> requirements[i].series, file |-> requirements[i].file]
<1>1. requirements[i] \in Asked(tool) BY ElementOfSeq, LenProperties DEF ToolTypeOK
<1>2. tool \in {"python", "rust", "playwright"} BY DEF ToolTypeOK
<1>3. CASE tool = "python"
  BY <1>1, <1>3 DEF Asked, Requirement, Files
<1>4. CASE tool = "rust"
  BY <1>1, <1>4 DEF Asked, Requirement, Files
<1>5. CASE tool = "playwright"
  BY <1>1, <1>5 DEF Asked, Requirement, Files
<1> QED BY <1>2, <1>3, <1>4, <1>5

LEMMA VersionTypes ==
  /\ Unnamed \notin Versions /\ Invalid \notin Versions /\ Outside \notin Versions
  /\ \A v \in Versions : SeriesOf(v) \in Series /\ SeriesOf(v) # Unnamed
  /\ \A x \in Series : \E v \in Versions : SeriesOf(v) = x
  /\ Versions # {}
<1>1. Unnamed \notin Versions /\ Invalid \notin Versions /\ Outside \notin Versions
  BY ToolAssumption DEF Versions
<1>2. \A v \in Versions : SeriesOf(v) \in Series /\ SeriesOf(v) # Unnamed
  BY ToolAssumption DEF Versions, SeriesOf
<1>3. PICK p : p \in Patches BY ToolAssumption
<1>4. \A x \in Series : <<x, p>> \in Versions /\ SeriesOf(<<x, p>>) = x BY <1>3 DEF Versions, SeriesOf
<1>5. PICK x : x \in Series BY ToolAssumption
<1> QED BY <1>1, <1>2, <1>4, <1>5

\* The fields of what is merged.
LEMMA OwnedFields ==
  ASSUME ToolTypeOK, NEW i \in DOMAIN requirements
  PROVE  /\ WithLock(i).by = requirements[i].by /\ WithLock(i).series = requirements[i].series
         /\ WithLock(i).version = IF requirements[i].by = "lock" THEN requirements[i].file
                                  ELSE requirements[i].version
         /\ FromFile(i).by = "file" /\ FromFile(i).series = Unnamed
         /\ FromFile(i).version = IF i \in Deferred /\ requirements[i].by = "project"
                                  THEN requirements[i].file ELSE Unnamed
<1>1. requirements[i] = [by |-> requirements[i].by, version |-> requirements[i].version,
                         series |-> requirements[i].series, file |-> requirements[i].file]
  BY AskedTypes
<1>2. CASE requirements[i].by = "lock" BY <1>1, <1>2 DEF WithLock, FromFile, Requirement
<1>3. CASE requirements[i].by # "lock" BY <1>3 DEF WithLock, FromFile, Requirement
<1> QED BY <1>2, <1>3

\* All that is merged: by the requirements and by the files.
LEMMA AllMerged ==
  ASSUME ToolTypeOK
  PROVE  /\ AllOwned \in Seq(Range(AllOwned)) /\ Len(AllOwned) \in Nat
         /\ {r \in Range(AllOwned) : r.by # "file"} = {WithLock(i) : i \in DOMAIN requirements}
         /\ {r \in Range(AllOwned) : r.by = "file"} = {FromFile(i) : i \in DOMAIN requirements}
<1> DEFINE D == DOMAIN requirements
           n == Len(requirements)
           S == {WithLock(i) : i \in D} \union {FromFile(i) : i \in D}
           first == [i \in D |-> WithLock(i)]
           second == [i \in D |-> FromFile(i)]
<1>1. n \in Nat /\ D = 1..n BY LenProperties DEF ToolTypeOK
<1>2. first \in Seq(S) /\ second \in Seq(S)
  <2>1. first \in [1..n -> S] /\ second \in [1..n -> S] BY <1>1
  <2> HIDE DEF first, second, S, n
  <2> QED BY <1>1, <2>1, SeqDef
<1>3. Len(first) = n /\ Len(second) = n
  <2>1. DOMAIN first = 1..n /\ DOMAIN second = 1..n BY <1>1
  <2> HIDE DEF first, second, S, n
  <2> QED BY <1>1, <1>2, <2>1, LenProperties
<1>4. /\ AllOwned \in Seq(S) /\ Len(AllOwned) = n + n
      /\ \A i \in 1..(n + n) : AllOwned[i] = IF i <= n THEN first[i] ELSE second[i - n]
  <2>1. AllOwned = first \o second BY DEF AllOwned
  <2> HIDE DEF first, second, S, n
  <2>2. /\ first \o second \in Seq(S) /\ Len(first \o second) = Len(first) + Len(second)
        /\ \A i \in 1..(Len(first) + Len(second)) :
             (first \o second)[i] = IF i <= Len(first) THEN first[i] ELSE second[i - Len(first)]
    BY <1>2, ConcatProperties, Zenon
  <2> QED BY <1>3, <2>1, <2>2, Zenon
<1>5. Range(AllOwned) = S
  <2>1. Range(AllOwned) = {AllOwned[i] : i \in 1..(n + n)} BY <1>4, LenProperties DEF Range
  <2>2. ASSUME NEW i \in D PROVE first[i] \in Range(AllOwned) /\ second[i] \in Range(AllOwned)
    <3>1. i \in 1..(n + n) /\ i <= n /\ n + i \in 1..(n + n) /\ ~(n + i <= n) /\ (n + i) - n = i
      BY <1>1
    <3>2. AllOwned[i] = first[i] /\ AllOwned[n + i] = second[i]
      <4> HIDE DEF first, second, S, n
      <4> QED BY <1>4, <3>1
    <3> QED BY <2>1, <3>1, <3>2
  <2>3. ASSUME NEW i \in 1..(n + n) PROVE AllOwned[i] \in S
    <3> HIDE DEF S, n
    <3> QED BY <1>1, <1>4, ElementOfSeq
  <2> QED BY <2>1, <2>2, <2>3
<1>6. AllOwned \in Seq(Range(AllOwned)) /\ Len(AllOwned) \in Nat BY <1>1, <1>4, <1>5
<1>7. \A i \in D : WithLock(i).by # "file" /\ FromFile(i).by = "file" BY OwnedFields, AskedTypes
<1>8. {r \in Range(AllOwned) : r.by # "file"} = {WithLock(i) : i \in D} BY <1>5, <1>7
<1>9. {r \in Range(AllOwned) : r.by = "file"} = {FromFile(i) : i \in D} BY <1>5, <1>7
<1> QED BY <1>6, <1>8, <1>9

\* One more requirement named.
LEMMA NamedNext ==
  ASSUME NEW rs, NEW r
  PROVE  Add(Named(rs), r) = Named(rs \union {r})
BY DEF Add, Named

LEMMA NamedNothing == Named({}) = NoValues
BY DEF Named, NoValues

LEMMA ToolInitInv == ToolInit => ToolIInv
<1> SUFFICES ASSUME ToolInit PROVE ToolIInv OBVIOUS
<1>1. requirements \in Seq(Asked(tool))
  <2>1. PICK m \in 0..MaxRequirements : requirements \in [1..m -> Asked(tool)] BY DEF ToolInit, SeqOf
  <2>2. m \in Nat BY <2>1, ToolAssumption
  <2> QED BY <2>1, <2>2, SeqDef
<1>2. ToolTypeOK BY <1>1 DEF ToolInit, ToolTypeOK, NoMerge
<1>3. RequirementsMerged /\ ResultIsAgreed BY DEF ToolInit, RequirementsMerged, ResultIsAgreed, NoMerge
<1> QED BY <1>2, <1>3 DEF ToolIInv

\* What the requirements name together, and what the files add.
LEMMA ExplicitValues ==
  ASSUME ToolTypeOK, NEW x
  PROVE  LET explicit == Named({WithLock(i) : i \in DOMAIN requirements})
             project == Named({FromFile(i) : i \in DOMAIN requirements})
         IN /\ x \in explicit.versions
                 <=> x # Unnamed /\ \E i \in DOMAIN requirements :
                       x = IF requirements[i].by = "lock" THEN requirements[i].file
                           ELSE requirements[i].version
            /\ x \in explicit.series
                 <=> x # Unnamed /\ \E i \in DOMAIN requirements :
                       \/ x = requirements[i].series
                       \/ /\ tool = "python" /\ requirements[i].version # Unnamed
                          /\ x = SeriesOf(requirements[i].version)
            /\ x \in project.versions
                 <=> x # Unnamed /\ \E i \in Deferred :
                       requirements[i].by = "project" /\ x = requirements[i].file
            /\ x \notin project.series
<1> DEFINE D == DOMAIN requirements
           explicit == Named({WithLock(i) : i \in D})
           project == Named({FromFile(i) : i \in D})
<1>1. x \in explicit.versions
        <=> x # Unnamed /\ \E i \in D : x = IF requirements[i].by = "lock" THEN requirements[i].file
                                            ELSE requirements[i].version
  <2>1. x \in explicit.versions <=> x # Unnamed /\ \E i \in D : x = WithLock(i).version BY DEF Named
  <2> QED BY <2>1, OwnedFields
<1>2. x \in explicit.series
        <=> x # Unnamed /\ \E i \in D :
              \/ x = requirements[i].series
              \/ /\ tool = "python" /\ requirements[i].version # Unnamed
                 /\ x = SeriesOf(requirements[i].version)
  <2>1. x \in explicit.series <=> \E i \in D : x \in SeriesNamed(WithLock(i)) BY DEF Named
  <2>2. ASSUME NEW i \in D
        PROVE  x \in SeriesNamed(WithLock(i))
                 <=> /\ x # Unnamed
                     /\ \/ x = requirements[i].series
                        \/ /\ tool = "python" /\ requirements[i].version # Unnamed
                           /\ x = SeriesOf(requirements[i].version)
    BY OwnedFields, AskedTypes DEF SeriesNamed
  <2> QED BY <2>1, <2>2
<1>3. x \in project.versions
        <=> x # Unnamed /\ \E i \in Deferred : requirements[i].by = "project" /\ x = requirements[i].file
  <2>1. x \in project.versions <=> x # Unnamed /\ \E i \in D : x = FromFile(i).version BY DEF Named
  <2>2. Deferred \subseteq D BY DEF Deferred
  <2> QED BY <2>1, <2>2, OwnedFields
<1>4. x \notin project.series
  <2>1. x \in project.series <=> \E i \in D : x \in SeriesNamed(FromFile(i)) BY DEF Named
  <2>2. ASSUME NEW i \in D PROVE SeriesNamed(FromFile(i)) = {}
    <3>1. tool = "python" => FromFile(i).version = Unnamed BY OwnedFields, AskedTypes
    <3> QED BY <3>1, OwnedFields DEF SeriesNamed
  <2> QED BY <2>1, <2>2
<1> QED BY <1>1, <1>2, <1>3, <1>4

\* What can be read: no directory outside, and what must be read.
LEMMA ReadableFiles ==
  ASSUME ToolTypeOK
  PROVE  Readable <=> /\ \A i \in DOMAIN requirements : requirements[i].file # Outside
                      /\ \A i \in Deferred : ~Unreadable(i)
<1> DEFINE D == DOMAIN requirements
           E == \E i \in D : Explicit(requirements[i])
<1>1. ASSUME Readable PROVE \A i \in D : requirements[i].file # Outside BY <1>1 DEF Readable, Stated
<1>2. ASSUME Readable, NEW i \in Deferred PROVE ~Unreadable(i)
  <2>1. i \in D /\ (requirements[i].by = "lock" \/ (requirements[i].by = "project" /\ ~E))
    BY DEF Deferred
  <2>2. CASE requirements[i].by = "lock"
    <3>1. Requirement("lock", requirements[i].file, Unnamed, Unnamed) \in Locks
      BY <2>1, <2>2 DEF Locks, Stated
    <3>2. Locks \subseteq Binding BY DEF Binding
    <3> QED BY <1>2, <2>2, <3>1, <3>2 DEF Readable, Unreadable, Requirement
  <2>3. CASE requirements[i].by = "project" /\ ~E /\ requirements[i].file # Unnamed
    <3>1. Requirement("file", requirements[i].file, Unnamed, Unnamed) \in Toolchains
      BY <2>1, <2>3 DEF Toolchains, Stated
    <3>2. Toolchains \subseteq Binding BY <2>3 DEF Binding, Stated
    <3> QED BY <1>2, <2>3, <3>1, <3>2 DEF Readable, Unreadable, Requirement
  <2>4. CASE requirements[i].by = "project" /\ requirements[i].file = Unnamed
    BY <2>4, ToolAssumption DEF Unreadable
  <2> QED BY <2>1, <2>2, <2>3, <2>4
<1>3. ASSUME \A i \in D : requirements[i].file # Outside, \A i \in Deferred : ~Unreadable(i)
      PROVE  Readable
  <2>1. \A r \in Stated : r.file # Outside BY <1>3 DEF Stated
  <2>2. \A r \in Locks : r.version \notin {Invalid, Unnamed}
    <3> SUFFICES ASSUME NEW i \in D, requirements[i].by = "lock"
                 PROVE  requirements[i].file \notin {Invalid, Unnamed}
      BY DEF Locks, Stated, Requirement
    <3>1. i \in Deferred BY DEF Deferred
    <3> QED BY <1>3, <3>1 DEF Unreadable
  <2>3. \A r \in Stated : r.by \in {"lock", "file"} => r.version # Invalid
    BY AskedTypes, ToolAssumption DEF Stated
  <2>4. ASSUME ~E PROVE \A r \in Toolchains : r.version # Invalid
    <3> SUFFICES ASSUME NEW i \in D, requirements[i].by = "project"
                 PROVE  requirements[i].file # Invalid
      BY DEF Toolchains, Stated, Requirement
    <3>1. i \in Deferred BY <2>4 DEF Deferred
    <3> QED BY <1>3, <3>1 DEF Unreadable
  <2>5. E <=> \E r \in Stated : Explicit(r) BY DEF Stated
  <2>6. \A r \in Binding : r.by \in {"lock", "file"} => r.version # Invalid
    BY <2>2, <2>3, <2>4, <2>5 DEF Binding
  <2> QED BY <2>1, <2>2, <2>6 DEF Readable
<1> QED BY <1>1, <1>2, <1>3

\* What binds a version: the requirements, the locks and, when no version is
\* named, the toolchain files.
LEMMA BindingMeets ==
  ASSUME ToolTypeOK, NEW v
  PROVE  (\A r \in Binding : Meets(v, r))
           <=> /\ \A i \in DOMAIN requirements : Meets(v, requirements[i])
               /\ \A i \in DOMAIN requirements :
                    requirements[i].by = "lock" => requirements[i].file \in {Unnamed, v}
               /\ (~\E i \in DOMAIN requirements : Explicit(requirements[i])) =>
                    \A i \in DOMAIN requirements :
                      requirements[i].by = "project" => requirements[i].file \in {Unnamed, v}
<1> DEFINE D == DOMAIN requirements
<1>1. (\A r \in Stated : Meets(v, r)) <=> \A i \in D : Meets(v, requirements[i]) BY DEF Stated
<1>2. (\A r \in Locks : Meets(v, r))
        <=> \A i \in D : requirements[i].by = "lock" => requirements[i].file \in {Unnamed, v}
  <2>1. (\A r \in Locks : Meets(v, r))
          <=> \A i \in D : requirements[i].by = "lock"
                => Meets(v, Requirement("lock", requirements[i].file, Unnamed, Unnamed))
    BY DEF Locks, Stated
  <2> QED BY <2>1 DEF Meets, Requirement
<1>3. (\A r \in Toolchains : Meets(v, r))
        <=> \A i \in D : requirements[i].by = "project" => requirements[i].file \in {Unnamed, v}
  <2>1. (\A r \in Toolchains : Meets(v, r))
          <=> \A i \in D : requirements[i].by = "project" /\ requirements[i].file # Unnamed
                => Meets(v, Requirement("file", requirements[i].file, Unnamed, Unnamed))
    BY DEF Toolchains, Stated
  <2> QED BY <2>1 DEF Meets, Requirement
<1>4. (\E r \in Stated : Explicit(r)) <=> \E i \in D : Explicit(requirements[i]) BY DEF Stated
<1> QED BY <1>1, <1>2, <1>3, <1>4 DEF Binding

\* The values that decide the tool, and what they say of every version.
ResolvedValues ==
  LET explicit == Named({WithLock(i) : i \in DOMAIN requirements})
  IN IF explicit = NoValues THEN Named({FromFile(i) : i \in DOMAIN requirements}) ELSE explicit

LEMMA ValuesBind ==
  ASSUME ToolTypeOK, Readable
  PROVE  /\ ResolvedValues.versions \subseteq Versions /\ ResolvedValues.series \subseteq Series
         /\ \A w \in ResolvedValues.versions :
              ResolvedValues.series = {} \/ SeriesOf(w) \in ResolvedValues.series
         /\ \A v \in Versions :
              v \in Agreed <=> /\ ResolvedValues.versions \subseteq {v}
                               /\ ResolvedValues.series \subseteq {SeriesOf(v)}
<1> DEFINE D == DOMAIN requirements
           E == \E i \in D : Explicit(requirements[i])
           explicit == Named({WithLock(i) : i \in D})
           project == Named({FromFile(i) : i \in D})
           req(i) == requirements[i]
<1>1. /\ \A x : x \in explicit.versions
                  <=> x # Unnamed /\ \E i \in D : x = IF req(i).by = "lock" THEN req(i).file
                                                      ELSE req(i).version
      /\ \A x : x \in explicit.series
                  <=> x # Unnamed /\ \E i \in D :
                        \/ x = req(i).series
                        \/ tool = "python" /\ req(i).version # Unnamed /\ x = SeriesOf(req(i).version)
      /\ \A x : x \in project.versions
                  <=> x # Unnamed /\ \E i \in Deferred : req(i).by = "project" /\ x = req(i).file
      /\ \A x : x \notin project.series
  BY ExplicitValues
<1> HIDE DEF explicit, project
<1>2. /\ \A i \in D : req(i).file # Outside
      /\ \A i \in Deferred : ~Unreadable(i)
  BY ReadableFiles
<1>3. \A i \in D : req(i).by = "lock" => req(i).file \in Versions
  <2> SUFFICES ASSUME NEW i \in D, req(i).by = "lock" PROVE req(i).file \in Versions OBVIOUS
  <2>1. i \in Deferred BY DEF Deferred
  <2>2. req(i).file \notin {Invalid, Unnamed, Outside} BY <1>2, <2>1 DEF Unreadable
  <2> QED BY <2>2, AskedTypes DEF Files
<1>4. \A i \in Deferred : req(i).by = "project" => req(i).file \in Versions \union {Unnamed}
  <2> SUFFICES ASSUME NEW i \in Deferred, req(i).by = "project"
               PROVE  req(i).file \in Versions \union {Unnamed}
    OBVIOUS
  <2>1. i \in D BY DEF Deferred
  <2>2. req(i).file \notin {Invalid, Outside} BY <1>2, <2>1 DEF Unreadable
  <2> QED BY <2>1, <2>2, AskedTypes DEF Files
<1>5. explicit = NoValues <=> explicit.versions = {} /\ explicit.series = {}
  BY DEF explicit, Named, NoValues
<1>6. explicit = NoValues <=> ~E /\ \A i \in D : req(i).by # "lock"
  <2>1. ASSUME NEW i \in D, req(i).by = "lock" PROVE explicit.versions # {}
    BY <1>1, <1>3, <2>1, VersionTypes
  <2>2. ASSUME NEW i \in D, Explicit(req(i)) PROVE explicit.versions # {} \/ explicit.series # {}
    BY <1>1, <2>2 DEF Explicit
  <2>3. ASSUME ~E, \A i \in D : req(i).by # "lock"
        PROVE  explicit.versions = {} /\ explicit.series = {}
    BY <1>1, <2>3 DEF Explicit
  <2> QED BY <1>5, <2>1, <2>2, <2>3
<1>7. \A v \in Versions :
        v \in Agreed <=> /\ \A i \in D : Meets(v, req(i))
                         /\ \A i \in D : req(i).by = "lock" => req(i).file = v
                         /\ ~E => \A i \in D : req(i).by = "project" => req(i).file \in {Unnamed, v}
  BY <1>3, BindingMeets, VersionTypes DEF Agreed
<1>8. CASE explicit # NoValues
  <2>1. ResolvedValues = explicit BY <1>8 DEF ResolvedValues, explicit
  <2>2. explicit.versions \subseteq Versions BY <1>1, <1>3, AskedTypes
  <2>3. explicit.series \subseteq Series BY <1>1, AskedTypes, VersionTypes
  <2>4. ASSUME NEW w \in explicit.versions PROVE explicit.series = {} \/ SeriesOf(w) \in explicit.series
    <3>1. CASE tool = "python" BY <1>1, <2>2, <2>4, <3>1, AskedTypes, VersionTypes
    <3>2. CASE tool # "python" BY <1>1, <3>2, AskedTypes
    <3> QED BY <3>1, <3>2
  <2>5. ASSUME NEW v \in Versions
        PROVE  v \in Agreed <=> explicit.versions \subseteq {v} /\ explicit.series \subseteq {SeriesOf(v)}
    <3>1. ASSUME v \in Agreed, NEW w \in explicit.versions PROVE w = v
      BY <1>1, <1>7, <3>1 DEF Meets
    <3>2. ASSUME v \in Agreed, NEW x \in explicit.series PROVE x = SeriesOf(v)
      BY <1>1, <1>7, <3>2 DEF Meets
    <3>3. ASSUME explicit.versions \subseteq {v}, explicit.series \subseteq {SeriesOf(v)} PROVE v \in Agreed
      <4>1. ASSUME NEW i \in D PROVE Meets(v, req(i))
        BY <1>1, <3>3, AskedTypes DEF Meets
      <4>2. ASSUME NEW i \in D, req(i).by = "lock" PROVE req(i).file = v
        BY <1>1, <1>3, <3>3, <4>2, VersionTypes
      <4>3. ASSUME ~E, NEW i \in D PROVE req(i).by # "project"
        BY <1>6, <1>8, <4>3, AskedTypes
      <4> QED BY <1>7, <4>1, <4>2, <4>3
    <3> QED BY <3>1, <3>2, <3>3
  <2> QED BY <2>1, <2>2, <2>3, <2>4, <2>5
<1>9. CASE explicit = NoValues
  <2>1. ResolvedValues = project BY <1>9 DEF ResolvedValues, explicit, project
  <2>2. ~E /\ \A i \in D : req(i).by # "lock" BY <1>6, <1>9
  <2>3. project.series = {} /\ project.versions \subseteq Versions BY <1>1, <1>4
  <2>4. \A i \in D : req(i).by = "project" => i \in Deferred BY <2>2 DEF Deferred
  <2>5. Deferred \subseteq D BY DEF Deferred
  <2>6. ASSUME NEW v \in Versions PROVE v \in Agreed <=> project.versions \subseteq {v}
    <3>1. \A i \in D : Meets(v, req(i)) BY <2>2 DEF Meets, Explicit
    <3>2. v \in Agreed <=> \A i \in D : req(i).by = "project" => req(i).file \in {Unnamed, v}
      BY <1>7, <2>2, <3>1
    <3> QED BY <1>1, <2>4, <2>5, <3>2
  <2> QED BY <2>1, <2>3, <2>6
<1> QED BY <1>8, <1>9

LEMMA ToolFails ==
  ASSUME ToolTypeOK, MergeFails, UNCHANGED <<tool, requirements>>, Agreed = {}
  PROVE  ToolIInv'
<1>1. merge'.pc = "error" /\ ToolTypeOK' BY DEF MergeFails, NoMerge, ToolTypeOK
<1>2. Agreed' = Agreed
  BY DEF Agreed, Readable, Binding, Stated, Locks, Toolchains
<1>3. RequirementsMerged' BY <1>1 DEF RequirementsMerged
<1> QED BY <1>1, <1>2, <1>3 DEF ToolIInv, ResultIsAgreed

LEMMA MergeOneInv ==
  ASSUME ToolIInv, MergeOne
  PROVE  ToolIInv'
<1> DEFINE n == merge.next
           r == merge.owned[n]
<1>1. /\ ToolTypeOK /\ merge.pc = "merge" /\ n <= Len(merge.owned)
      /\ \A i \in DOMAIN requirements : requirements[i].file # Outside
      /\ \A i \in Deferred : ~Unreadable(i)
      /\ merge.owned = AllOwned /\ n \in 1..(Len(merge.owned) + 1)
      /\ merge.explicit = Named(MergedRequirements) /\ merge.project = Named(MergedFiles)
      /\ UNCHANGED <<tool, requirements>>
  BY DEF ToolIInv, RequirementsMerged, MergeOne
<1>2. /\ merge'.pc = "merge" /\ merge'.owned = merge.owned /\ merge'.next = n + 1
      /\ merge'.explicit = IF r.by = "file" THEN merge.explicit ELSE Add(merge.explicit, r)
      /\ merge'.project = IF r.by = "file" THEN Add(merge.project, r) ELSE merge.project
      /\ DOMAIN merge' = DOMAIN merge
  BY <1>1 DEF MergeOne, ToolTypeOK
<1>3. Len(merge.owned) \in Nat BY <1>1, AllMerged
<1>4. ToolTypeOK' BY <1>1, <1>2 DEF ToolTypeOK
<1>5. Merged' = Merged \union {r}
  <2>1. 1..((n + 1) - 1) = (1..(n - 1)) \union {n} BY <1>1, <1>3
  <2> QED BY <1>2, <2>1 DEF Merged
<1> HIDE DEF r
<1>6. merge'.explicit = Named(MergedRequirements')
  <2>1. CASE r.by = "file"
    <3>1. MergedRequirements' = MergedRequirements BY <1>5, <2>1 DEF MergedRequirements
    <3> QED BY <1>1, <1>2, <2>1, <3>1
  <2>2. CASE r.by # "file"
    <3>1. MergedRequirements' = MergedRequirements \union {r} BY <1>5, <2>2 DEF MergedRequirements
    <3> QED BY <1>1, <1>2, <2>2, <3>1, NamedNext
  <2> QED BY <2>1, <2>2
<1>7. merge'.project = Named(MergedFiles')
  <2>1. CASE r.by = "file"
    <3>1. MergedFiles' = MergedFiles \union {r} BY <1>5, <2>1 DEF MergedFiles
    <3> QED BY <1>1, <1>2, <2>1, <3>1, NamedNext
  <2>2. CASE r.by # "file"
    <3>1. MergedFiles' = MergedFiles BY <1>5, <2>2 DEF MergedFiles
    <3> QED BY <1>1, <1>2, <2>2, <3>1
  <2> QED BY <2>1, <2>2
<1>8. RequirementsMerged'
  <2>1. n + 1 \in 1..(Len(merge.owned) + 1) BY <1>1, <1>3
  <2>2. /\ \A i \in DOMAIN requirements' : requirements'[i].file # Outside
        /\ \A i \in Deferred' : ~Unreadable(i)'
        /\ AllOwned' = AllOwned
    BY <1>1 DEF Deferred, Unreadable, AllOwned, WithLock, FromFile
  <2>3. Named(MergedRequirements)' = Named(MergedRequirements') /\ Named(MergedFiles)' = Named(MergedFiles')
    BY <1>1 DEF Named, SeriesNamed
  <2> QED BY <1>1, <1>2, <1>6, <1>7, <2>1, <2>2, <2>3 DEF RequirementsMerged
<1>9. ResultIsAgreed' BY <1>2 DEF ResultIsAgreed
<1> QED BY <1>4, <1>8, <1>9 DEF ToolIInv

\* The values are finitely many, for the requirements are.
LEMMA ImageIsFinite ==
  ASSUME NEW f, IsFiniteSet(DOMAIN f)
  PROVE  IsFiniteSet({f[i] : i \in DOMAIN f})
<1> DEFINE D == DOMAIN f
           T == {f[i] : i \in D}
           g == [i \in D |-> f[i]]
<1>1. g \in [D -> T] /\ \A t \in T : \E i \in D : g[i] = t OBVIOUS
<1> HIDE DEF g, T, D
<1>2. g \in Surjection(D, T) BY <1>1 DEF Surjection
<1>3. IsFiniteSet(D) BY DEF D
<1>4. IsFiniteSet(T) BY <1>2, <1>3, FS_Surjection
<1> QED BY <1>4 DEF T, D

LEMMA ValuesFinite ==
  ASSUME ToolTypeOK
  PROVE  IsFiniteSet(ResolvedValues.versions) /\ IsFiniteSet(ResolvedValues.series)
<1> DEFINE D == DOMAIN requirements
           version == [i \in D |-> requirements[i].version]
           files == [i \in D |-> requirements[i].file]
           series == [i \in D |-> requirements[i].series]
           seriesOf == [i \in D |-> SeriesOf(requirements[i].version)]
           V == {version[i] : i \in D} \union {files[i] : i \in D}
           S == {series[i] : i \in D} \union {seriesOf[i] : i \in D}
<1>1. D = 1..Len(requirements) /\ Len(requirements) \in Nat BY LenProperties DEF ToolTypeOK
<1>2. IsFiniteSet(D) BY <1>1, FS_Interval
<1>3. DOMAIN version = D /\ DOMAIN files = D /\ DOMAIN series = D /\ DOMAIN seriesOf = D OBVIOUS
<1>4. ResolvedValues.versions \subseteq V
  <2>1. ASSUME NEW x, x \in Named({WithLock(i) : i \in D}).versions PROVE x \in V
    <3>1. PICK i \in D : x = IF requirements[i].by = "lock" THEN requirements[i].file
                             ELSE requirements[i].version
      BY <2>1, ExplicitValues
    <3>2. x = files[i] \/ x = version[i] BY <3>1
    <3> HIDE DEF D, version, files
    <3> QED BY <3>2
  <2>2. ASSUME NEW x, x \in Named({FromFile(i) : i \in D}).versions PROVE x \in V
    <3>1. PICK i \in Deferred : x = requirements[i].file BY <2>2, ExplicitValues
    <3>2. i \in D BY DEF Deferred
    <3>3. x = files[i] BY <3>1, <3>2
    <3> HIDE DEF D, version, files
    <3> QED BY <3>2, <3>3
  <2> HIDE DEF V
  <2> QED BY <2>1, <2>2 DEF ResolvedValues
<1>5. ResolvedValues.series \subseteq S
  <2>1. ASSUME NEW x, x \in Named({WithLock(i) : i \in D}).series PROVE x \in S
    <3>1. PICK i \in D : x = requirements[i].series \/ x = SeriesOf(requirements[i].version)
      BY <2>1, ExplicitValues
    <3>2. x = series[i] \/ x = seriesOf[i] BY <3>1
    <3> HIDE DEF D, series, seriesOf
    <3> QED BY <3>2
  <2>2. ASSUME NEW x PROVE x \notin Named({FromFile(i) : i \in D}).series BY ExplicitValues
  <2> HIDE DEF S
  <2> QED BY <2>1, <2>2 DEF ResolvedValues
<1>6. IsFiniteSet(V) /\ IsFiniteSet(S)
  <2> HIDE DEF version, files, series, seriesOf, D
  <2>1. /\ IsFiniteSet({version[i] : i \in D}) /\ IsFiniteSet({files[i] : i \in D})
        /\ IsFiniteSet({series[i] : i \in D}) /\ IsFiniteSet({seriesOf[i] : i \in D})
    BY <1>2, <1>3, ImageIsFinite
  <2> QED BY <2>1, FS_Union
<1> QED BY <1>4, <1>5, <1>6, FS_Subset

\* At most one value: what Only returns.
LEMMA OnlyValue ==
  ASSUME NEW values, IsFiniteSet(values)
  PROVE  /\ Cardinality(values) > 1 => \A x : ~(values \subseteq {x})
         /\ ~(Cardinality(values) > 1) =>
              \/ values = {} /\ Only(values) = Unnamed
              \/ \E x : values = {x} /\ Only(values) = x
<1>1. Cardinality(values) \in Nat BY FS_CardinalityType
<1>2. ASSUME NEW x, values \subseteq {x} PROVE ~(Cardinality(values) > 1)
  <2>1. Cardinality(values) <= Cardinality({x}) BY <1>2, FS_Subset, FS_Singleton
  <2>2. Cardinality({x}) = 1 BY FS_Singleton
  <2> QED BY <1>1, <2>1, <2>2
<1>3. ASSUME ~(Cardinality(values) > 1)
      PROVE  \/ values = {} /\ Only(values) = Unnamed
             \/ \E x : values = {x} /\ Only(values) = x
  <2>1. Cardinality(values) = 0 \/ Cardinality(values) = 1 BY <1>1, <1>3
  <2>2. CASE Cardinality(values) = 0 BY <2>2, FS_EmptySet DEF Only
  <2>3. CASE Cardinality(values) = 1
    <3>1. PICK x : values = {x} BY <2>3, FS_Singleton
    <3>2. Only({x}) = x BY DEF Only
    <3> QED BY <3>1, <3>2
  <2> QED BY <2>1, <2>2, <2>3
<1> QED BY <1>2, <1>3

LEMMA ResolveToolInv ==
  ASSUME ToolIInv, ResolveTool
  PROVE  ToolIInv'
<1> DEFINE values == ResolvedValues
           V == values.versions
           S == values.series
<1>1. /\ ToolTypeOK /\ merge.pc = "merge" /\ merge.next > Len(merge.owned)
      /\ \A i \in DOMAIN requirements : requirements[i].file # Outside
      /\ \A i \in Deferred : ~Unreadable(i)
      /\ merge.owned = AllOwned /\ merge.next \in 1..(Len(merge.owned) + 1)
      /\ merge.explicit = Named(MergedRequirements) /\ merge.project = Named(MergedFiles)
      /\ UNCHANGED <<tool, requirements>>
  BY DEF ToolIInv, RequirementsMerged, ResolveTool
<1>2. Readable BY <1>1, ReadableFiles
<1>3. values = IF merge.explicit = NoValues THEN merge.project ELSE merge.explicit
  <2>1. Len(AllOwned) \in Nat /\ AllOwned \in Seq(Range(AllOwned)) BY <1>1, AllMerged
  <2>2. merge.next - 1 = Len(AllOwned) BY <1>1, <2>1
  <2>3. Merged = Range(AllOwned)
    <3>1. DOMAIN AllOwned = 1..Len(AllOwned) BY <2>1, LenProperties
    <3> QED BY <1>1, <2>2, <3>1 DEF Merged, Range
  <2>4. /\ MergedRequirements = {WithLock(i) : i \in DOMAIN requirements}
        /\ MergedFiles = {FromFile(i) : i \in DOMAIN requirements}
    BY <1>1, <2>3, AllMerged DEF MergedRequirements, MergedFiles
  <2> QED BY <1>1, <2>4 DEF ResolvedValues
<1>4. /\ V \subseteq Versions /\ S \subseteq Series
      /\ \A w \in V : S = {} \/ SeriesOf(w) \in S
      /\ \A v \in Versions : v \in Agreed <=> V \subseteq {v} /\ S \subseteq {SeriesOf(v)}
  BY <1>1, <1>2, ValuesBind
<1>5. /\ Cardinality(V) > 1 => \A x : ~(V \subseteq {x})
      /\ ~(Cardinality(V) > 1) =>
           \/ V = {} /\ Only(V) = Unnamed
           \/ \E x : V = {x} /\ Only(V) = x
      /\ Cardinality(S) > 1 => \A x : ~(S \subseteq {x})
      /\ ~(Cardinality(S) > 1) =>
           \/ S = {} /\ Only(S) = Unnamed
           \/ \E x : S = {x} /\ Only(S) = x
  BY <1>1, ValuesFinite, OnlyValue
<1> HIDE DEF values
<1>6. CASE Cardinality(V) > 1 \/ Cardinality(S) > 1
  <2>1. Agreed \subseteq Versions BY DEF Agreed
  <2>2. Agreed = {} BY <1>4, <1>5, <1>6, <2>1
  <2>3. MergeFails BY <1>3, <1>6 DEF ResolveTool
  <2> QED BY <1>1, <2>2, <2>3, ToolFails
<1>7. CASE ~(Cardinality(V) > 1) /\ ~(Cardinality(S) > 1)
  <2>1. PICK source : merge' = [NoMerge EXCEPT !.pc = "done",
                                 !.result = Requirement(source, Only(V), Only(S), Unnamed)]
    BY <1>3, <1>7 DEF ResolveTool
  <2>2. /\ merge'.pc = "done" /\ merge'.result.version = Only(V) /\ merge'.result.series = Only(S)
        /\ ToolTypeOK'
    BY <1>1, <2>1 DEF NoMerge, Requirement, ToolTypeOK
  <2>3. Agreed = {v \in Versions : Meets(v, merge'.result)}
    <3>1. Agreed \subseteq Versions BY DEF Agreed
    <3>2. ASSUME NEW v \in Versions PROVE v \in Agreed <=> Meets(v, merge'.result)
      <4>1. V \subseteq {v} <=> Only(V) \in {Unnamed, v} BY <1>4, <1>5, <1>7, VersionTypes
      <4>2. S \subseteq {SeriesOf(v)} <=> Only(S) \in {Unnamed, SeriesOf(v)}
        BY <1>4, <1>5, <1>7, ToolAssumption
      <4> QED BY <1>4, <2>2, <4>1, <4>2 DEF Meets
    <3> QED BY <3>1, <3>2
  <2>4. Agreed # {}
    <3>1. CASE V = {}
      <4>1. CASE S = {} BY <1>4, <3>1, <4>1, VersionTypes
      <4>2. CASE S # {}
        <5>1. PICK x : S = {x} BY <1>5, <1>7, <4>2
        <5>2. PICK v \in Versions : SeriesOf(v) = x BY <1>4, <5>1, VersionTypes
        <5> QED BY <1>4, <3>1, <5>1, <5>2
      <4> QED BY <4>1, <4>2
    <3>2. CASE V # {}
      <4>1. PICK w : V = {w} BY <1>5, <1>7, <3>2
      <4>2. w \in Versions /\ (S = {} \/ SeriesOf(w) \in S) BY <1>4, <4>1
      <4>3. S \subseteq {SeriesOf(w)} BY <1>5, <1>7, <4>2
      <4> QED BY <1>4, <4>1, <4>2, <4>3
    <3> QED BY <3>1, <3>2
  <2>5. Agreed' = Agreed BY <1>1 DEF Agreed, Readable, Binding, Stated, Locks, Toolchains
  <2>6. ResultIsAgreed' BY <2>2, <2>3, <2>4, <2>5 DEF ResultIsAgreed
  <2>7. RequirementsMerged' BY <2>2 DEF RequirementsMerged
  <2> QED BY <2>2, <2>6, <2>7 DEF ToolIInv
<1> QED BY <1>6, <1>7

LEMMA ToolNextInv == ToolIInv /\ [ToolNext]_toolVars => ToolIInv'
<1> SUFFICES ASSUME ToolIInv, [ToolNext]_toolVars PROVE ToolIInv' OBVIOUS
<1>1. ToolTypeOK /\ RequirementsMerged /\ ResultIsAgreed BY DEF ToolIInv
<1>2. CASE Collect
  <2>1. CASE \E i \in DOMAIN requirements : requirements[i].file = Outside
    <3>1. ~Readable BY <1>1, <2>1, ReadableFiles
    <3>2. Agreed = {} BY <3>1 DEF Agreed
    <3> QED BY <1>1, <1>2, <2>1, <3>2, ToolFails DEF Collect
  <2>2. CASE \A i \in DOMAIN requirements : requirements[i].file # Outside
    <3>1. /\ merge' = [merge EXCEPT !.pc = "read", !.owned = requirements] /\ merge.pc = "collect"
          /\ UNCHANGED <<tool, requirements>>
      BY <1>2, <2>2 DEF Collect
    <3>2. /\ merge'.pc = "read" /\ merge'.next = merge.next /\ merge'.explicit = merge.explicit
          /\ merge'.project = merge.project /\ DOMAIN merge' = DOMAIN merge
      BY <1>1, <3>1 DEF ToolTypeOK
    <3>3. ToolTypeOK' BY <1>1, <3>1, <3>2 DEF ToolTypeOK
    <3>4. RequirementsMerged' BY <1>1, <2>2, <3>1, <3>2 DEF RequirementsMerged
    <3>5. ResultIsAgreed' BY <3>2 DEF ResultIsAgreed
    <3> QED BY <3>3, <3>4, <3>5 DEF ToolIInv
  <2> QED BY <2>1, <2>2
<1>3. CASE ReadFiles
  <2>1. CASE \E i \in Deferred : Unreadable(i)
    <3>1. ~Readable BY <1>1, <2>1, ReadableFiles
    <3>2. Agreed = {} BY <3>1 DEF Agreed
    <3> QED BY <1>1, <1>3, <2>1, <3>2, ToolFails DEF ReadFiles
  <2>2. CASE \A i \in Deferred : ~Unreadable(i)
    <3>1. /\ merge' = [merge EXCEPT !.pc = "merge", !.owned = AllOwned] /\ merge.pc = "read"
          /\ UNCHANGED <<tool, requirements>>
      BY <1>3, <2>2 DEF ReadFiles
    <3>2. /\ merge'.pc = "merge" /\ merge'.owned = AllOwned /\ merge'.next = 1
          /\ merge'.explicit = NoValues /\ merge'.project = NoValues /\ DOMAIN merge' = DOMAIN merge
      BY <1>1, <3>1 DEF ToolTypeOK, RequirementsMerged
    <3>3. ToolTypeOK' BY <1>1, <3>1, <3>2 DEF ToolTypeOK
    <3>4. Merged' = {}
      <4>1. 1..(1 - 1) = {} OBVIOUS
      <4> QED BY <3>2, <4>1 DEF Merged
    <3>5. MergedRequirements' = {} /\ MergedFiles' = {} BY <3>4 DEF MergedRequirements, MergedFiles
    <3>6. /\ \A i \in DOMAIN requirements' : requirements'[i].file # Outside
          /\ \A i \in Deferred' : ~Unreadable(i)'
          /\ AllOwned' = AllOwned
      BY <1>1, <2>2, <3>1 DEF Deferred, Unreadable, AllOwned, WithLock, FromFile, RequirementsMerged
    <3>7. Named(MergedRequirements)' = NoValues /\ Named(MergedFiles)' = NoValues
      BY <3>5 DEF Named, NoValues
    <3>8. 1 \in 1..(Len(AllOwned) + 1)
      <4>1. Len(AllOwned) \in Nat BY <1>1, AllMerged
      <4> QED BY <4>1
    <3>9. RequirementsMerged' BY <3>1, <3>2, <3>6, <3>7, <3>8 DEF RequirementsMerged
    <3>10. ResultIsAgreed' BY <3>2 DEF ResultIsAgreed
    <3> QED BY <3>3, <3>9, <3>10 DEF ToolIInv
  <2> QED BY <2>1, <2>2
<1>4. CASE UNCHANGED toolVars
  <2>1. UNCHANGED <<tool, requirements, merge>> BY <1>4 DEF toolVars
  <2>2. ToolTypeOK' BY <1>1, <2>1 DEF ToolTypeOK
  <2>3. Agreed' = Agreed BY <2>1 DEF Agreed, Readable, Binding, Stated, Locks, Toolchains
  <2>4. ResultIsAgreed' BY <1>1, <2>1, <2>3 DEF ResultIsAgreed
  <2>5. RequirementsMerged'
    <3>1. Merged' = Merged BY <2>1 DEF Merged
    <3>2. MergedRequirements' = MergedRequirements /\ MergedFiles' = MergedFiles
      BY <3>1 DEF MergedRequirements, MergedFiles
    <3>3. Named(MergedRequirements)' = Named(MergedRequirements') /\ Named(MergedFiles)' = Named(MergedFiles')
      BY <2>1 DEF Named, SeriesNamed
    <3>4. /\ (\A i \in Deferred' : ~Unreadable(i)') <=> (\A i \in Deferred : ~Unreadable(i))
          /\ AllOwned' = AllOwned
      BY <2>1 DEF Deferred, Unreadable, AllOwned, WithLock, FromFile
    <3>5. Named(MergedRequirements)' = Named(MergedRequirements) /\ Named(MergedFiles)' = Named(MergedFiles)
      <4>1. Named(MergedRequirements') = Named(MergedRequirements) /\ Named(MergedFiles') = Named(MergedFiles)
        BY <3>2
      <4> QED BY <3>3, <4>1
    <3> QED BY <1>1, <2>1, <3>4, <3>5 DEF RequirementsMerged
  <2> QED BY <2>2, <2>4, <2>5 DEF ToolIInv
<1> QED BY <1>2, <1>3, <1>4, MergeOneInv, ResolveToolInv DEF ToolNext

\* How far the requirements of a tool are read and merged at each step, for any
\* number of them (mergeProjectToolVersions, project_plan.go).
THEOREM ToolInvariant == ToolSpec => []ToolIInv
BY ToolInitInv, ToolNextInv, PTL DEF ToolSpec

\* The merge refuses exactly when no version meets all that binds, and otherwise
\* admits the versions that do and no other, whatever is asked and in which order.
THEOREM MergedToolIsAgreed == ToolSpec => []ResultIsAgreed
BY ToolInvariant, PTL DEF ToolIInv

-----------------------------------------------------------------------------
(* The user's SSH configuration. *)

LEMMA LinesOfFile ==
  /\ \A f \in Seq(Line) \cup {Absent} : Lines(f) \in Seq(Line)
  /\ \A s \in Seq(Line) : Lines(s) = s
BY LineAssumption, EmptySeq DEF Lines

\* The lines M of t, with all its markers and all that is between, are those of s
\* at the places e, in their order.
LinesFrom(t, s, M, e) ==
  /\ M \subseteq DOMAIN t /\ e \in [M -> DOMAIN s]
  /\ \A i \in DOMAIN t : t[i] \in {BlockStart, BlockEnd} => i \in M
  /\ \A i, j \in M : i..j \subseteq M /\ (i < j => e[i] < e[j])
  /\ \A i \in M : t[i] = s[e[i]]

LEMMA FramedBy ==
  ASSUME NEW s \in Seq(Line), NEW t \in Seq(Line), Framed(s), NEW M, NEW e, LinesFrom(t, s, M, e)
  PROVE  Framed(t)
<1> USE DEF LinesFrom
<1> DOMAIN s = 1..Len(s) /\ DOMAIN t = 1..Len(t) /\ Len(s) \in Nat /\ Len(t) \in Nat
  BY LenProperties
<1> SUFFICES ASSUME NEW i \in DOMAIN t, NEW j \in DOMAIN t
             PROVE  /\ t[i] = t[j] /\ t[i] \in {BlockStart, BlockEnd} => i = j
                    /\ t[i] = BlockStart /\ t[j] = BlockEnd
                         => i < j /\ \A k \in i..j : t[k] \notin UserLine
  BY DEF Framed
<1> i \in Int /\ j \in Int OBVIOUS
<1>1. ASSUME t[i] = t[j], t[i] \in {BlockStart, BlockEnd} PROVE i = j
  <2>1. i \in M /\ j \in M BY <1>1
  <2>2. e[i] = e[j] BY <1>1, <2>1 DEF Framed
  <2>3. e[i] \in Int /\ e[j] \in Int BY <2>1
  <2> QED BY <2>1, <2>2, <2>3
<1>2. ASSUME t[i] = BlockStart, t[j] = BlockEnd
      PROVE  i < j /\ \A k \in i..j : t[k] \notin UserLine
  <2>1. i \in M /\ j \in M BY <1>2
  <2>2. e[i] < e[j] /\ \A k \in e[i]..e[j] : s[k] \notin UserLine BY <1>2, <2>1 DEF Framed
  <2>3. e[i] \in Int /\ e[j] \in Int BY <2>1
  <2>4. i < j
    <3>1. i # j BY <2>2, <2>3
    <3>2. ~(j < i) BY <2>1, <2>2, <2>3
    <3> QED BY <3>1, <3>2
  <2>5. ASSUME NEW k \in i..j PROVE t[k] \notin UserLine
    <3>1. k \in M BY <2>1
    <3>2. e[k] \in Int BY <3>1
    <3>3. e[i] <= e[k] /\ e[k] <= e[j]
      <4>1. k = i \/ i < k OBVIOUS
      <4>2. k = j \/ k < j OBVIOUS
      <4> QED BY <2>1, <2>3, <3>1, <3>2, <4>1, <4>2
    <3> QED BY <2>2, <3>1, <3>2, <3>3, <2>3
  <2> QED BY <2>4, <2>5
<1> QED BY <1>1, <1>2

\* The file without its first line, when this one is blank.
LEMMA TrimmedProperties ==
  ASSUME NEW s \in Seq(Line), Framed(s)
  PROVE  /\ Trimmed(s) \in Seq(Line) /\ Framed(Trimmed(s))
         /\ ToSet(s) \ {Blank} \subseteq ToSet(Trimmed(s)) /\ ToSet(Trimmed(s)) \subseteq ToSet(s)
<1> DOMAIN s = 1..Len(s) /\ Len(s) \in Nat BY LenProperties
<1>1. CASE s # <<>> /\ Head(s) = Blank
  <2> DEFINE t == Tail(s)
  <2>1. /\ t \in Seq(Line) /\ Len(t) = Len(s) - 1 /\ Trimmed(s) = t /\ s[1] = Blank /\ Len(s) > 0
        /\ \A i \in 1..Len(t) : t[i] = s[i + 1]
    BY <1>1, HeadTailProperties, EmptySeq DEF Trimmed
  <2>2. DOMAIN t = 1..Len(t) /\ Len(t) \in Nat BY <2>1, LenProperties
  <2> HIDE DEF t
  <2>3. Framed(t)
    <3> DEFINE M == DOMAIN t
               e == [i \in M |-> i + 1]
    <3>1. e \in [M -> DOMAIN s] BY <2>1, <2>2
    <3>2. \A i, j \in M : i..j \subseteq M /\ (i < j => e[i] < e[j]) BY <2>2
    <3>3. \A i \in M : t[i] = s[e[i]] BY <2>1, <2>2
    <3>4. LinesFrom(t, s, M, e) BY <3>1, <3>2, <3>3 DEF LinesFrom
    <3> QED BY <2>1, <3>4, FramedBy
  <2>4. ASSUME NEW l \in ToSet(s) \ {Blank} PROVE l \in ToSet(t)
    <3>1. PICK i \in 1..Len(s) : s[i] = l /\ i # 1 BY <2>1, <2>4 DEF ToSet
    <3>2. i - 1 \in DOMAIN t /\ t[i - 1] = l
      <4>1. i - 1 \in 1..Len(t) /\ (i - 1) + 1 = i BY <2>1, <3>1
      <4> QED BY <2>1, <2>2, <3>1, <4>1
    <3> QED BY <3>2 DEF ToSet
  <2>5. ASSUME NEW l \in ToSet(t) PROVE l \in ToSet(s)
    <3>1. PICK i \in 1..Len(t) : t[i] = l BY <2>2, <2>5 DEF ToSet
    <3>2. i + 1 \in DOMAIN s /\ s[i + 1] = l BY <2>1, <2>2, <3>1
    <3> QED BY <3>2 DEF ToSet
  <2> QED BY <2>1, <2>3, <2>4, <2>5
<1>2. CASE ~(s # <<>> /\ Head(s) = Blank) BY <1>2 DEF Trimmed
<1> QED BY <1>1, <1>2

LEMMA UnmarkedSet == \A s : Unmarked(s) <=> ToSet(s) \cap {BlockStart, BlockEnd} = {}
BY DEF Unmarked, At, ToSet

\* The block before a file without one.
LEMMA PrefixedProperties ==
  ASSUME NEW rest \in Seq(Line), Unmarked(rest)
  PROVE  LET p == Prefixed(rest)
         IN /\ p \in Seq(Line) /\ Framed(p) /\ OneBlock(p) /\ IsPrefix(Block, p)
            /\ ToSet(rest) \subseteq ToSet(p)
            /\ Position(p, BlockStart) = 1 /\ Position(p, BlockEnd) = 3
            /\ Trimmed(SubSeq(p, 4, Len(p))) = rest
<1> DEFINE p == Prefixed(rest)
           blank == <<Blank>>
<1> LineAssumption BY LineAssumption
<1>1. Block \in Seq(Line) /\ Len(Block) = 3 /\ blank \in Seq(Line) /\ Len(blank) = 1 /\ blank[1] = Blank
  BY DEF Block, Line
<1>2. /\ Block[1] = BlockStart /\ Block[2] = Include /\ Block[3] = BlockEnd
      /\ BlockStart # BlockEnd /\ Include \notin {BlockStart, BlockEnd} /\ Blank \notin {BlockStart, BlockEnd}
      /\ {BlockStart, Include, BlockEnd, Blank} \cap UserLine = {}
  BY LineAssumption DEF Block, BlockStart, Include, BlockEnd, Blank
<1>3. Len(rest) \in Nat /\ DOMAIN rest = 1..Len(rest) BY LenProperties
<1>4. \A i \in 1..Len(rest) : rest[i] \in Line \ {BlockStart, BlockEnd}
  BY <1>3, ElementOfSeq DEF Unmarked, At
<1>5. /\ p \in Seq(Line) /\ p[1] = BlockStart /\ p[2] = Include /\ p[3] = BlockEnd /\ Len(p) >= 3
      /\ Len(p) \in Nat
      /\ \A i \in 4..Len(p) : p[i] \in Line \ {BlockStart, BlockEnd}
      /\ ToSet(rest) \subseteq ToSet(p)
      /\ Trimmed(SubSeq(p, 4, Len(p))) = rest
  <2>1. CASE rest = <<>>
    <3>1. p = Block BY <2>1 DEF Prefixed
    <3>2. SubSeq(p, 4, Len(p)) = <<>>
      <4>1. SubSeq(p, 4, 3) = <<>> BY SubSeqEmpty
      <4> QED BY <1>1, <3>1, <4>1
    <3>3. Trimmed(<<>>) = <<>> BY DEF Trimmed
    <3>4. ToSet(rest) = {} BY <2>1 DEF ToSet
    <3> HIDE DEF p, blank
    <3>5. Len(p) = 3 /\ p \in Seq(Line) BY <1>1, <3>1
    <3>6. \A i \in 4..Len(p) : FALSE BY <3>5
    <3>7. p[1] = BlockStart /\ p[2] = Include /\ p[3] = BlockEnd BY <1>2, <3>1
    <3>8. Trimmed(SubSeq(p, 4, Len(p))) = rest BY <2>1, <3>2, <3>3, Zenon
    <3>9. ToSet(rest) \subseteq ToSet(p) BY <3>4
    <3>10. Len(p) \in Nat /\ Len(p) >= 3 BY <3>5
    <3> QED BY <3>5, <3>6, <3>7, <3>8, <3>9, <3>10
  <2>2. CASE rest # <<>>
    <3> DEFINE tail == blank \o rest
    <3>1. /\ tail \in Seq(Line) /\ Len(tail) = Len(rest) + 1 /\ tail[1] = Blank
          /\ \A i \in 1..Len(rest) : tail[i + 1] = rest[i]
      <4>1. /\ tail \in Seq(Line) /\ Len(tail) = 1 + Len(rest)
            /\ \A i \in 1..(1 + Len(rest)) : tail[i] = IF i <= 1 THEN blank[i] ELSE rest[i - 1]
        BY <1>1, ConcatProperties
      <4> HIDE DEF tail, blank
      <4>2. ASSUME NEW i \in 1..Len(rest) PROVE tail[i + 1] = rest[i]
        <5>1. i + 1 \in 1..(1 + Len(rest)) /\ ~(i + 1 <= 1) /\ i + 1 - 1 = i BY <1>3
        <5>2. tail[i + 1] = rest[i + 1 - 1] BY <4>1, <5>1
        <5> QED BY <5>1, <5>2
      <4>3. 1 \in 1..(1 + Len(rest)) /\ 1 + Len(rest) = Len(rest) + 1 BY <1>3
      <4>4. tail[1] = Blank BY <1>1, <4>1, <4>3
      <4> QED BY <4>1, <4>2, <4>3, <4>4
    <3>2. p = Block \o tail BY <1>1, <2>2, ConcatAssociative DEF Prefixed
    <3> HIDE DEF tail, blank, p
    <3>3. /\ p \in Seq(Line) /\ Len(p) = 3 + Len(tail)
          /\ \A i \in 1..(3 + Len(tail)) : p[i] = IF i <= 3 THEN Block[i] ELSE tail[i - 3]
      <4>1. /\ Block \o tail \in Seq(Line) /\ Len(Block \o tail) = Len(Block) + Len(tail)
            /\ \A i \in 1..(Len(Block) + Len(tail)) :
                 (Block \o tail)[i] = IF i <= Len(Block) THEN Block[i] ELSE tail[i - Len(Block)]
        BY <1>1, <3>1, ConcatProperties, Zenon
      <4> QED BY <1>1, <3>2, <4>1
    <3>4. p[1] = BlockStart /\ p[2] = Include /\ p[3] = BlockEnd /\ Len(p) >= 4 /\ Len(p) \in Nat
      BY <1>2, <1>3, <3>1, <3>3
    <3>5. p[4] = Blank /\ \A i \in 1..Len(rest) : p[i + 4] = rest[i] /\ i + 4 \in 1..Len(p)
      BY <1>3, <3>1, <3>3
    <3>6. ASSUME NEW i \in 4..Len(p) PROVE p[i] \in Line \ {BlockStart, BlockEnd}
      <4>1. CASE i = 4 BY <1>1, <1>2, <3>5, <4>1 DEF Line
      <4>2. CASE i # 4
        <5>1. i - 4 \in 1..Len(rest) /\ (i - 4) + 4 = i BY <1>3, <3>1, <3>3, <4>2
        <5>2. p[i] = rest[i - 4] BY <3>5, <5>1
        <5> QED BY <1>4, <5>1, <5>2
      <4> QED BY <4>1, <4>2
    <3>7. ASSUME NEW l \in ToSet(rest) PROVE l \in ToSet(p)
      <4>1. PICK i \in 1..Len(rest) : rest[i] = l BY <1>3, <3>7 DEF ToSet
      <4>2. DOMAIN p = 1..Len(p) BY <3>3, LenProperties
      <4> QED BY <3>5, <4>1, <4>2 DEF ToSet
    <3>8. Trimmed(SubSeq(p, 4, Len(p))) = rest
      <4> DEFINE q == SubSeq(p, 4, Len(p))
      <4>1. \A i \in 4..Len(p) : p[i] \in Line BY <3>6
      <4>2. /\ q \in Seq(Line) /\ Len(q) = Len(p) - 4 + 1
            /\ \A i \in 1..(Len(p) - 4 + 1) : q[i] = p[4 + i - 1]
        BY <3>4, <4>1, SubSeqProperties
      <4> HIDE DEF q
      <4>3. Len(q) = Len(tail) /\ Len(q) > 0 BY <1>3, <3>1, <3>3, <4>2
      <4>4. q[1] = Blank BY <1>3, <3>1, <3>3, <3>5, <4>2
      <4>5. q # <<>> /\ Head(q) = Blank BY <4>2, <4>3, <4>4, EmptySeq
      <4>6. /\ Tail(q) \in Seq(Line) /\ Len(Tail(q)) = Len(rest)
            /\ \A i \in 1..Len(rest) : Tail(q)[i] = q[i + 1]
        BY <1>3, <3>1, <4>2, <4>3, <4>5, HeadTailProperties
      <4>7. \A i \in 1..Len(rest) : Tail(q)[i] = rest[i]
        <5> SUFFICES ASSUME NEW i \in 1..Len(rest) PROVE Tail(q)[i] = rest[i] OBVIOUS
        <5>1. q[i + 1] = p[4 + (i + 1) - 1]
          <6>1. i + 1 \in 1..(Len(p) - 4 + 1) BY <1>3, <3>1, <3>3
          <6> QED BY <4>2, <6>1
        <5>2. 4 + (i + 1) - 1 = i + 4 BY <1>3
        <5> QED BY <3>5, <4>6, <5>1, <5>2
      <4>8. Tail(q) = rest BY <4>6, <4>7, SeqEqual
      <4> QED BY <4>5, <4>8 DEF Trimmed, q
    <3> QED BY <3>3, <3>4, <3>6, <3>7, <3>8
  <2> QED BY <2>1, <2>2
<1> HIDE DEF p, blank
<1>6. DOMAIN p = 1..Len(p) BY <1>5, LenProperties
<1>7. At(p, BlockStart) = {1} /\ At(p, BlockEnd) = {3}
  <2>1. \A i \in DOMAIN p : i = 1 \/ i = 2 \/ i = 3 \/ i \in 4..Len(p) BY <1>5, <1>6
  <2>2. 1 \in DOMAIN p /\ 3 \in DOMAIN p BY <1>5, <1>6
  <2> QED BY <1>2, <1>5, <2>1, <2>2 DEF At
<1>8. OneBlock(p) BY <1>5, <1>6, <1>7 DEF OneBlock
<1>9. Position(p, BlockStart) = 1 /\ Position(p, BlockEnd) = 3 BY <1>7 DEF Position
<1>10. Framed(p)
  <2>1. \A i \in DOMAIN p : (p[i] = BlockStart <=> i = 1) /\ (p[i] = BlockEnd <=> i = 3)
    BY <1>7 DEF At
  <2>2. \A k \in 1..3 : p[k] \notin UserLine
    <3>1. \A k \in 1..3 : k = 1 \/ k = 2 \/ k = 3 OBVIOUS
    <3> QED BY <1>2, <1>5, <3>1
  <2> QED BY <2>1, <2>2 DEF Framed
<1>11. IsPrefix(Block, p)
  <2>1. \A i \in 1..3 : p[i] \in Line BY <1>5, <1>6, LenProperties
  <2>2. /\ SubSeq(p, 1, 3) \in Seq(Line) /\ Len(SubSeq(p, 1, 3)) = 3
        /\ \A i \in 1..3 : SubSeq(p, 1, 3)[i] = p[1 + i - 1]
    BY <2>1, SubSeqProperties
  <2>3. \A i \in 1..3 : SubSeq(p, 1, 3)[i] = Block[i]
    <3>1. \A i \in 1..3 : 1 + i - 1 = i /\ (i = 1 \/ i = 2 \/ i = 3) OBVIOUS
    <3> QED BY <1>2, <1>5, <2>2, <3>1
  <2>4. SubSeq(p, 1, 3) = Block BY <1>1, <2>2, <2>3, SeqEqual
  <2>5. SubSeq(Block, 1, 3) = Block BY <1>1, SubSeqFull
  <2> QED BY <1>1, <1>5, <2>4, <2>5 DEF IsPrefix
<1> QED BY <1>5, <1>8, <1>9, <1>10, <1>11 DEF p

\* A file without its lines from i to j.
Cut(s, i, j) == SubSeq(s, 1, i - 1) \o SubSeq(s, j + 1, Len(s))

LEMMA CutProperties ==
  ASSUME NEW s \in Seq(Line), Framed(s), NEW i \in 1..Len(s), NEW j \in i..Len(s)
  PROVE  /\ Cut(s, i, j) \in Seq(Line) /\ Framed(Cut(s, i, j))
         /\ \A l : l \in ToSet(Cut(s, i, j)) <=> \E k \in DOMAIN s : k \notin i..j /\ s[k] = l
<1> DEFINE a == SubSeq(s, 1, i - 1)
           b == SubSeq(s, j + 1, Len(s))
           t == a \o b
<1>1. Len(s) \in Nat /\ DOMAIN s = 1..Len(s) /\ \A k \in 1..Len(s) : s[k] \in Line
  BY LenProperties, ElementOfSeq
<1>2. i \in Int /\ j \in Int /\ 1 <= i /\ i <= j /\ j <= Len(s) BY <1>1
<1>3. /\ a \in Seq(Line) /\ Len(a) = i - 1
      /\ \A k \in 1..(i - 1) : a[k] = s[k]
  <2>1. \A k \in 1..(i - 1) : s[k] \in Line BY <1>1, <1>2
  <2>2. /\ a \in Seq(Line) /\ Len(a) = IF 1 <= i - 1 THEN i - 1 - 1 + 1 ELSE 0
        /\ \A k \in 1..(i - 1 - 1 + 1) : a[k] = s[1 + k - 1]
    BY <1>2, <2>1, SubSeqProperties
  <2> HIDE DEF a
  <2> QED BY <1>2, <2>2
<1>4. /\ b \in Seq(Line) /\ Len(b) = Len(s) - j
      /\ \A k \in 1..(Len(s) - j) : b[k] = s[k + j]
  <2>1. \A k \in (j + 1)..Len(s) : s[k] \in Line BY <1>1, <1>2
  <2>2. /\ b \in Seq(Line) /\ Len(b) = IF j + 1 <= Len(s) THEN Len(s) - (j + 1) + 1 ELSE 0
        /\ \A k \in 1..(Len(s) - (j + 1) + 1) : b[k] = s[(j + 1) + k - 1]
    BY <1>1, <1>2, <2>1, SubSeqProperties
  <2>3. Len(s) - (j + 1) + 1 = Len(s) - j /\ (j + 1 <= Len(s) \/ Len(s) - j = 0)
    <3>1. \A n, m \in Int : m <= n => n - (m + 1) + 1 = n - m /\ (m + 1 <= n \/ n - m = 0) OBVIOUS
    <3>2. Len(s) \in Int BY <1>1
    <3> QED BY <1>2, <3>1, <3>2
  <2>4. \A k \in 1..(Len(s) - j) : (j + 1) + k - 1 = k + j BY <1>1, <1>2
  <2> HIDE DEF b
  <2>5. Len(b) = Len(s) - j BY <2>2, <2>3
  <2>6. \A k \in 1..(Len(s) - j) : b[k] = s[k + j] BY <2>2, <2>3, <2>4
  <2> QED BY <2>2, <2>5, <2>6
<1>5. /\ t \in Seq(Line) /\ Len(t) = Len(a) + Len(b)
      /\ \A k \in 1..(Len(a) + Len(b)) : t[k] = IF k <= Len(a) THEN a[k] ELSE b[k - Len(a)]
  <2> HIDE DEF a, b
  <2> QED BY <1>3, <1>4, ConcatProperties, Zenon
<1> HIDE DEF a, b, t
<1> DEFINE e == [k \in DOMAIN t |-> IF k < i THEN k ELSE k + (j - i + 1)]
<1>6. Len(t) = Len(s) - (j - i + 1) /\ Len(t) \in Nat /\ DOMAIN t = 1..Len(t)
  BY <1>1, <1>2, <1>3, <1>4, <1>5, LenProperties
<1>7. ASSUME NEW k \in DOMAIN t
      PROVE  e[k] \in DOMAIN s /\ e[k] \notin i..j /\ t[k] = s[e[k]]
  <2>1. CASE k < i
    <3>1. k \in 1..(i - 1) /\ k \in 1..(Len(a) + Len(b)) /\ k <= Len(a)
      BY <1>1, <1>2, <1>3, <1>4, <1>6, <2>1
    <3>2. t[k] = s[k] BY <1>3, <1>5, <3>1
    <3> QED BY <1>1, <1>2, <2>1, <3>1, <3>2
  <2>2. CASE ~(k < i)
    <3>1. k - Len(a) \in 1..(Len(s) - j) /\ k \in 1..(Len(a) + Len(b)) /\ ~(k <= Len(a))
      BY <1>1, <1>2, <1>3, <1>4, <1>6, <2>2
    <3>2. t[k] = s[k - Len(a) + j] BY <1>4, <1>5, <3>1
    <3>3. k - Len(a) + j = e[k] /\ e[k] \in 1..Len(s) /\ e[k] > j
      BY <1>1, <1>2, <1>3, <1>6, <2>2
    <3> QED BY <1>1, <1>2, <3>2, <3>3
  <2> QED BY <2>1, <2>2
<1>8. Framed(t)
  <2>1. e \in [DOMAIN t -> DOMAIN s] BY <1>7
  <2>2. \A k, m \in DOMAIN t : k..m \subseteq DOMAIN t /\ (k < m => e[k] < e[m]) BY <1>2, <1>6
  <2>3. \A k \in DOMAIN t : t[k] = s[e[k]] BY <1>7
  <2> HIDE DEF e
  <2>4. LinesFrom(t, s, DOMAIN t, e) BY <2>1, <2>2, <2>3 DEF LinesFrom
  <2> QED BY <1>5, <2>4, FramedBy
<1>9. ASSUME NEW k \in DOMAIN s, k \notin i..j PROVE s[k] \in ToSet(t)
  <2> DEFINE m == IF k < i THEN k ELSE k - (j - i + 1)
  <2>1. m \in DOMAIN t /\ e[m] = k BY <1>1, <1>2, <1>6, <1>9
  <2>2. t[m] = s[k] BY <1>7, <2>1
  <2> QED BY <2>1, <2>2 DEF ToSet
<1>10. ASSUME NEW l \in ToSet(t) PROVE \E k \in DOMAIN s : k \notin i..j /\ s[k] = l
  <2>1. PICK k \in DOMAIN t : t[k] = l BY <1>10 DEF ToSet
  <2> QED BY <1>7, <2>1
<1>11. t = Cut(s, i, j) BY DEF t, a, b, Cut
<1> QED BY <1>5, <1>8, <1>9, <1>10, <1>11

\* What surrounds the block has no marker, and every line of the user.
LEMMA RestProperties ==
  ASSUME NEW s \in Seq(Line), Framed(s), OneBlock(s)
  PROVE  /\ Rest(s) \in Seq(Line) /\ Framed(Rest(s)) /\ Unmarked(Rest(s))
         /\ ToSet(s) \cap UserLine \subseteq ToSet(Rest(s))
<1>1. PICK i, j \in DOMAIN s : i < j /\ At(s, BlockStart) = {i} /\ At(s, BlockEnd) = {j} BY DEF OneBlock
<1>2. Position(s, BlockStart) = i /\ Position(s, BlockEnd) = j BY <1>1 DEF Position
<1>3. Len(s) \in Nat /\ DOMAIN s = 1..Len(s) /\ i \in 1..Len(s) /\ j \in i..Len(s) BY <1>1, LenProperties
<1>4. Rest(s) = Cut(s, i, j) BY <1>2 DEF Rest, Cut
<1>5. /\ Rest(s) \in Seq(Line) /\ Framed(Rest(s))
      /\ \A l : l \in ToSet(Rest(s)) <=> \E k \in DOMAIN s : k \notin i..j /\ s[k] = l
  <2>1. i \in 1..Len(s) /\ j \in i..Len(s) BY <1>3
  <2>2. /\ Cut(s, i, j) \in Seq(Line) /\ Framed(Cut(s, i, j))
        /\ \A l : l \in ToSet(Cut(s, i, j)) <=> \E k \in DOMAIN s : k \notin i..j /\ s[k] = l
    BY <2>1, CutProperties
  <2> QED BY <1>4, <2>2
<1>6. Unmarked(Rest(s))
  <2>1. \A k \in DOMAIN s : s[k] \in {BlockStart, BlockEnd} => k \in i..j BY <1>1, <1>3 DEF At
  <2> QED BY <1>5, <2>1, UnmarkedSet
<1>7. ASSUME NEW l \in ToSet(s) \cap UserLine PROVE l \in ToSet(Rest(s))
  <2>1. PICK k \in DOMAIN s : s[k] = l BY <1>7 DEF ToSet
  <2>2. s[i] = BlockStart /\ s[j] = BlockEnd BY <1>1 DEF At
  <2>3. k \notin i..j BY <1>7, <2>1, <2>2 DEF Framed
  <2> QED BY <1>5, <2>1, <2>3
<1> QED BY <1>5, <1>6, <1>7

\* A file with the block moved to the front keeps the user's lines.
LEMMA UpdatedProperties ==
  ASSUME NEW s \in Seq(Line), Framed(s), BlockMovable(s)
  PROVE  /\ Updated(s) \in Seq(Line) /\ Framed(Updated(s))
         /\ ToSet(s) \cap UserLine \subseteq ToSet(Updated(s))
<1>1. CASE Unmarked(s) BY <1>1, PrefixedProperties DEF Updated
<1>2. CASE ~Unmarked(s)
  <2> DEFINE r == Rest(s)
  <2>1. OneBlock(s) BY <1>2 DEF BlockMovable
  <2>2. /\ r \in Seq(Line) /\ Framed(r) /\ Unmarked(r) /\ ToSet(s) \cap UserLine \subseteq ToSet(r)
    BY <2>1, RestProperties
  <2> HIDE DEF r
  <2>3. /\ Trimmed(r) \in Seq(Line) /\ ToSet(r) \ {Blank} \subseteq ToSet(Trimmed(r))
        /\ ToSet(Trimmed(r)) \subseteq ToSet(r)
    BY <2>2, TrimmedProperties
  <2>4. Unmarked(Trimmed(r)) BY <2>2, <2>3, UnmarkedSet
  <2>5. /\ Prefixed(Trimmed(r)) \in Seq(Line) /\ Framed(Prefixed(Trimmed(r)))
        /\ ToSet(Trimmed(r)) \subseteq ToSet(Prefixed(Trimmed(r)))
    BY <2>3, <2>4, PrefixedProperties
  <2>6. Updated(s) = Prefixed(Trimmed(r)) BY <1>2 DEF Updated, r
  <2>7. Blank \notin UserLine BY LineAssumption
  <2> QED BY <2>2, <2>3, <2>5, <2>6, <2>7
<1> QED BY <1>1, <1>2

\* And so does a file without the block that is at its front.
LEMMA RemovedProperties ==
  ASSUME NEW s \in Seq(Line), Framed(s), BlockRemovable(s)
  PROVE  /\ Removed(s) \in Seq(Line) /\ Framed(Removed(s))
         /\ ToSet(s) \cap UserLine \subseteq ToSet(Removed(s))
<1>1. CASE Unmarked(s) BY <1>1 DEF Removed
<1>2. CASE ~Unmarked(s)
  <2> DEFINE r == SubSeq(s, 4, Len(s))
  <2>1. Len(Block) = 3 /\ IsPrefix(Block, s) BY <1>2 DEF BlockRemovable, Block
  <2>2. Len(s) \in Nat /\ Len(s) >= 3 /\ DOMAIN s = 1..Len(s) /\ \A k \in 1..Len(s) : s[k] \in Line
    BY <2>1, LenProperties, ElementOfSeq DEF IsPrefix
  <2>3. \A k \in 1..3 : s[k] \notin UserLine
    <3>1. SubSeq(s, 1, 3) = SubSeq(Block, 1, 3) BY <2>1 DEF IsPrefix
    <3>2. \A k \in 1..3 : SubSeq(s, 1, 3)[k] = s[1 + k - 1] BY <2>2, SubSeqProperties
    <3>3. \A k \in 1..3 : Block[k] \in {BlockStart, Include, BlockEnd}
      <4>1. \A k \in 1..3 : k = 1 \/ k = 2 \/ k = 3 OBVIOUS
      <4> QED BY <4>1 DEF Block
    <3>4. \A k \in 1..3 : SubSeq(Block, 1, 3)[k] = Block[1 + k - 1]
      <4>1. \A k \in 1..3 : Block[k] \in Line BY <3>3 DEF Line
      <4> QED BY <4>1, SubSeqProperties
    <3>5. \A k \in 1..3 : 1 + k - 1 = k OBVIOUS
    <3> QED BY <3>1, <3>2, <3>3, <3>4, <3>5, LineAssumption
  <2>4. /\ r \in Seq(Line) /\ Len(r) = Len(s) - 3
        /\ \A k \in 1..(Len(s) - 3) : r[k] = s[k + 3]
    <3>1. \A k \in 4..Len(s) : s[k] \in Line BY <2>2
    <3>2. /\ r \in Seq(Line) /\ Len(r) = IF 4 <= Len(s) THEN Len(s) - 4 + 1 ELSE 0
          /\ \A k \in 1..(Len(s) - 4 + 1) : r[k] = s[4 + k - 1]
      BY <2>2, <3>1, SubSeqProperties
    <3>3. Len(s) - 4 + 1 = Len(s) - 3 /\ (4 <= Len(s) \/ Len(s) - 3 = 0) BY <2>2
    <3>4. \A k \in 1..(Len(s) - 3) : 4 + k - 1 = k + 3 BY <2>2
    <3> HIDE DEF r
    <3>5. Len(r) = Len(s) - 3 BY <3>2, <3>3
    <3>6. \A k \in 1..(Len(s) - 3) : r[k] = s[k + 3] BY <3>2, <3>3, <3>4
    <3> QED BY <3>2, <3>5, <3>6
  <2> HIDE DEF r
  <2>5. DOMAIN r = 1..Len(r) BY <2>4, LenProperties
  <2>6. Framed(r)
    <3> DEFINE e == [k \in DOMAIN r |-> k + 3]
    <3>1. e \in [DOMAIN r -> DOMAIN s] BY <2>2, <2>4, <2>5
    <3>2. \A k, m \in DOMAIN r : k..m \subseteq DOMAIN r /\ (k < m => e[k] < e[m]) BY <2>2, <2>4, <2>5
    <3>3. \A k \in DOMAIN r : r[k] = s[e[k]] BY <2>4, <2>5
    <3> HIDE DEF e
    <3>4. LinesFrom(r, s, DOMAIN r, e) BY <3>1, <3>2, <3>3 DEF LinesFrom
    <3> QED BY <2>4, <3>4, FramedBy
  <2>7. ASSUME NEW l \in ToSet(s) \cap UserLine PROVE l \in ToSet(r) \ {Blank}
    <3>1. PICK k \in DOMAIN s : s[k] = l BY <2>7 DEF ToSet
    <3>2. k \notin 1..3 BY <2>3, <2>7, <3>1
    <3>3. k - 3 \in DOMAIN r /\ k - 3 + 3 = k BY <2>2, <2>4, <2>5, <3>2
    <3>4. r[k - 3] = l BY <2>4, <2>5, <3>1, <3>3
    <3> QED BY <2>7, <3>3, <3>4, LineAssumption DEF ToSet
  <2>8. Removed(s) = Trimmed(r) BY <1>2, <2>1 DEF Removed, r
  <2> QED BY <2>4, <2>6, <2>7, <2>8, TrimmedProperties
<1> QED BY <1>1, <1>2

\* Adding the block twice is adding it once, and removing it restores the file.
LEMMA Reversible ==
  ASSUME NEW s \in Seq(Line), Unmarked(s)
  PROVE  /\ BlockRemovable(Updated(s)) /\ Removed(Updated(s)) = s
         /\ BlockMovable(Updated(s)) /\ Updated(Updated(s)) = Updated(s)
<1> DEFINE p == Prefixed(s)
<1>1. Updated(s) = p BY DEF Updated
<1>2. /\ p \in Seq(Line) /\ Framed(p) /\ OneBlock(p) /\ IsPrefix(Block, p)
      /\ Position(p, BlockStart) = 1 /\ Position(p, BlockEnd) = 3
      /\ Trimmed(SubSeq(p, 4, Len(p))) = s
  BY PrefixedProperties
<1> HIDE DEF p
<1>3. ~Unmarked(p) BY <1>2 DEF OneBlock, Unmarked
<1>4. Removed(p) = s
  <2>1. Len(Block) + 1 = 4 BY DEF Block
  <2> QED BY <1>2, <1>3, <2>1 DEF Removed
<1>5. Updated(p) = p
  <2>1. SubSeq(p, 1, 1 - 1) = <<>> BY SubSeqEmpty
  <2>2. Len(p) \in Nat /\ DOMAIN p = 1..Len(p) BY <1>2, LenProperties
  <2>3. \A k \in 4..Len(p) : p[k] \in Line BY <1>2, <2>2, LenProperties
  <2>4. SubSeq(p, 4, Len(p)) \in Seq(Line) BY <2>2, <2>3, SubSeqProperties
  <2>5. Rest(p) = SubSeq(p, 4, Len(p)) BY <1>2, <2>1, <2>4, ConcatEmptySeq DEF Rest
  <2>6. Updated(p) = Prefixed(s) BY <1>2, <1>3, <2>5 DEF Updated
  <2> QED BY <2>6 DEF p
<1> QED BY <1>1, <1>2, <1>4, <1>5 DEF BlockRemovable, BlockMovable

LEMMA UnmarkedIsFramed ==
  ASSUME NEW s, Unmarked(s)
  PROVE  Framed(s)
BY DEF Unmarked, At, Framed

LEMMA OneLine ==
  ASSUME NEW l \in UserLine \cup {Blank}
  PROVE  <<l>> \in Seq(Line) /\ Unmarked(<<l>>)
<1>1. l \in Line /\ l \notin {BlockStart, BlockEnd}
  BY LineAssumption DEF Line, BlockStart, BlockEnd, Blank
<1>2. DOMAIN <<l>> = {1} /\ <<l>>[1] = l OBVIOUS
<1> QED BY <1>1, <1>2 DEF Unmarked, At

LEMMA NoLine == <<>> \in Seq(Line) /\ Unmarked(<<>>) /\ Lines(Absent) = <<>>
BY EmptySeq DEF Unmarked, At, Lines

\* Whatever the user does to the file, it stays framed.
LEMMA EditedProperties ==
  ASSUME SSHTypeOK, Framed(Lines(file)), Edit
  PROVE  file' \in Seq(Line) \cup {Absent} /\ Framed(Lines(file'))
<1> DEFINE s == Lines(file)
<1>1. s \in Seq(Line) /\ Framed(s) BY LinesOfFile DEF SSHTypeOK
<1> HIDE DEF s
<1>2. Len(s) \in Nat /\ DOMAIN s = 1..Len(s) BY <1>1, LenProperties
<1>3. \/ \E l \in UserLine : file' = <<l>> \o s
      \/ \E l \in UserLine : file' = Append(s, l)
      \/ \E i \in 1..Len(s) : file' = RemoveAt(s, i)
      \/ file' = Absent
  BY DEF Edit, s
<1>4. ASSUME NEW l \in UserLine PROVE l \in Line /\ l \notin {BlockStart, BlockEnd}
  BY LineAssumption DEF Line
<1>5. ASSUME NEW l \in UserLine
      PROVE  <<l>> \o s \in Seq(Line) /\ Framed(<<l>> \o s)
  <2> DEFINE one == <<l>>
             t == one \o s
             M == 2..(Len(s) + 1)
             e == [i \in M |-> i - 1]
  <2>1. one \in Seq(Line) /\ Len(one) = 1 /\ one[1] = l BY <1>4
  <2> HIDE DEF one
  <2>2. /\ t \in Seq(Line) /\ Len(t) = Len(one) + Len(s)
        /\ \A i \in 1..(Len(one) + Len(s)) : t[i] = IF i <= Len(one) THEN one[i] ELSE s[i - Len(one)]
    BY <1>1, <2>1, ConcatProperties, Zenon
  <2> HIDE DEF t
  <2>3. DOMAIN t = 1..(Len(s) + 1) /\ t[1] = l /\ \A i \in M : t[i] = s[i - 1]
    <3>1. DOMAIN t = 1..Len(t) BY <2>2, LenProperties
    <3>2. Len(t) = Len(s) + 1 /\ 1 \in 1..(Len(one) + Len(s)) BY <1>2, <2>1, <2>2
    <3>3. ASSUME NEW i \in M PROVE t[i] = s[i - 1]
      <4>1. i \in 1..(Len(one) + Len(s)) /\ ~(i <= Len(one)) BY <1>2, <2>1
      <4> QED BY <2>1, <2>2, <4>1
    <3> QED BY <2>1, <2>2, <3>1, <3>2, <3>3
  <2>4. e \in [M -> DOMAIN s] BY <1>2
  <2>5. \A i, j \in M : i..j \subseteq M /\ (i < j => e[i] < e[j]) BY <1>2
  <2>6. M \subseteq DOMAIN t BY <1>2, <2>3
  <2>7. \A i \in DOMAIN t : i \in M \/ i = 1 BY <1>2, <2>3
  <2>8. \A i \in M : t[i] = s[e[i]] BY <2>3
  <2> HIDE DEF e, M
  <2>9. LinesFrom(t, s, M, e) BY <1>4, <2>3, <2>4, <2>5, <2>6, <2>7, <2>8 DEF LinesFrom
  <2> QED BY <1>1, <2>2, <2>9, FramedBy DEF t, one
<1>6. ASSUME NEW l \in UserLine
      PROVE  Append(s, l) \in Seq(Line) /\ Framed(Append(s, l))
  <2> DEFINE t == Append(s, l)
             M == 1..Len(s)
             e == [i \in M |-> i]
  <2>1. /\ t \in Seq(Line) /\ Len(t) = Len(s) + 1 /\ t[Len(s) + 1] = l
        /\ \A i \in 1..Len(s) : t[i] = s[i]
    BY <1>1, <1>4, AppendProperties
  <2>2. DOMAIN t = 1..(Len(s) + 1) BY <2>1, LenProperties
  <2> HIDE DEF t
  <2>3. e \in [M -> DOMAIN s] BY <1>2
  <2>4. \A i, j \in M : i..j \subseteq M /\ (i < j => e[i] < e[j]) BY <1>2
  <2>5. M \subseteq DOMAIN t BY <1>2, <2>2
  <2>6. \A i \in DOMAIN t : i \in M \/ i = Len(s) + 1 BY <1>2, <2>2
  <2>7. \A i \in M : t[i] = s[e[i]] BY <2>1
  <2> HIDE DEF e, M
  <2>8. LinesFrom(t, s, M, e) BY <1>4, <2>1, <2>3, <2>4, <2>5, <2>6, <2>7 DEF LinesFrom
  <2> QED BY <1>1, <2>1, <2>8, FramedBy DEF t
<1>7. ASSUME NEW i \in 1..Len(s)
      PROVE  RemoveAt(s, i) \in Seq(Line) /\ Framed(RemoveAt(s, i))
  <2>1. i \in i..Len(s) BY <1>2
  <2>2. Cut(s, i, i) \in Seq(Line) /\ Framed(Cut(s, i, i)) BY <1>1, <2>1, CutProperties
  <2>3. RemoveAt(s, i) = Cut(s, i, i) BY DEF RemoveAt, Cut
  <2> QED BY <2>2, <2>3
<1>8. \A f \in Seq(Line) : Lines(f) = f BY LinesOfFile
<1>9. Framed(Lines(Absent)) BY NoLine, UnmarkedIsFramed
<1> QED BY <1>3, <1>5, <1>6, <1>7, <1>8, <1>9

LEMMA SSHInitInv == SSHInit => SSHIInv
<1> SUFFICES ASSUME SSHInit PROVE SSHIInv OBVIOUS
<1> USE DEF SSHInit
<1>1. file \in Seq(Line) \cup {Absent} /\ Framed(Lines(file))
  <2>1. CASE file = Absent BY <2>1, NoLine, UnmarkedIsFramed
  <2>2. CASE file = <<>>
    <3>1. Lines(file) = <<>> BY <2>2, NoLine, LinesOfFile
    <3> QED BY <2>2, <3>1, NoLine, UnmarkedIsFramed
  <2>3. CASE \E l \in UserLine \cup {Blank} : file = <<l>>
    <3>1. PICK l \in UserLine \cup {Blank} : file = <<l>> BY <2>3
    <3>2. file \in Seq(Line) /\ Unmarked(file) BY <3>1, OneLine
    <3>3. Lines(file) = file BY <3>2, LinesOfFile
    <3> QED BY <3>2, <3>3, UnmarkedIsFramed
  <2> QED BY <2>1, <2>2, <2>3
<1>2. Framed(Lines(snapshot)) BY NoLine, UnmarkedIsFramed
<1> QED BY <1>1, <1>2 DEF SSHIInv, SSHTypeOK, SnapshotIsRead, UserLinesKept

\* What a rename takes away of the file, when the new one keeps what was read.
LEMMA RenameKeeps ==
  ASSUME SSHTypeOK, SnapshotIsRead, UserLinesKept, step = "rename",
         NEW new \in Seq(Line), Rename(new), Users(snapshot) \subseteq ToSet(new)
  PROVE  UserLinesKept'
<1>1. Users(new) = ToSet(new) \cap UserLine BY LinesOfFile DEF Users
<1>2. Users(file) \subseteq Users(snapshot) \cup late BY DEF SnapshotIsRead
<1>3. Users(file) \subseteq UserLine BY DEF Users
<1> QED BY <1>1, <1>2, <1>3 DEF Rename, UserLinesKept

\* A step that leaves the file, and reads it or not.
LEMMA FileStays ==
  ASSUME SSHIInv, file' = file, lost' = lost, snapshot' \in {file, snapshot},
         SSHTypeOK', SnapshotIsRead'
  PROVE  SSHIInv'
<1>1. Framed(Lines(file')) /\ Framed(Lines(snapshot')) BY DEF SSHIInv
<1>2. Framed(Lines(file))' /\ Framed(Lines(snapshot))' BY <1>1 DEF Lines, Framed
<1> QED BY <1>2 DEF SSHIInv, UserLinesKept

LEMMA SSHNextInv == SSHIInv /\ [SSHNext]_sshVars => SSHIInv'
<1> SUFFICES ASSUME SSHIInv, [SSHNext]_sshVars PROVE SSHIInv' OBVIOUS
<1>1. /\ SSHTypeOK /\ SnapshotIsRead /\ UserLinesKept /\ Framed(Lines(file)) /\ Framed(Lines(snapshot))
      /\ Lines(file) \in Seq(Line) /\ Lines(snapshot) \in Seq(Line)
  BY LinesOfFile DEF SSHIInv, SSHTypeOK
<1> USE DEF SSHTypeOK, SnapshotIsRead, CommandGoes, CommandEnds
<1>2. CASE BeginInstall BY <1>1, <1>2, FileStays DEF BeginInstall
<1>3. CASE ReadForInstall
  <2>1. snapshot' = file /\ file' = file /\ lost' = lost /\ SSHTypeOK' BY <1>1, <1>3 DEF ReadForInstall
  <2>2. SnapshotIsRead' BY <1>1, <1>3 DEF ReadForInstall, BlockMovable, Unmarked, OneBlock, At, Lines
  <2> QED BY <2>1, <2>2, FileStays
<1>4. CASE CompareForInstall
  <2>1. snapshot' = snapshot /\ file' = file /\ lost' = lost /\ SSHTypeOK' BY <1>1, <1>4 DEF CompareForInstall
  <2>2. SnapshotIsRead'
    BY <1>1, <1>4 DEF CompareForInstall, NotChanged, Users, BlockMovable, Unmarked, OneBlock, At, Lines
  <2> QED BY <2>1, <2>2, FileStays
<1>5. CASE RenameForInstall
  <2> DEFINE new == Updated(Lines(snapshot))
  <2>1. /\ Rename(new) /\ command = "install" /\ step = "rename" /\ step' = "off" /\ command' = "off"
        /\ UNCHANGED snapshot
    BY <1>5 DEF RenameForInstall
  <2>2. new \in Seq(Line) /\ Framed(new) /\ Users(snapshot) \subseteq ToSet(new)
    BY <1>1, <2>1, UpdatedProperties DEF Users
  <2> HIDE DEF new
  <2>3. file' = new BY <2>1 DEF Rename
  <2>4. UserLinesKept' BY <1>1, <2>1, <2>2, RenameKeeps
  <2>5. Framed(Lines(file')) BY <2>2, <2>3, LinesOfFile
  <2>6. Framed(Lines(file))' /\ Framed(Lines(snapshot))' BY <1>1, <2>1, <2>5 DEF Lines, Framed
  <2> QED BY <1>1, <2>1, <2>2, <2>3, <2>4, <2>6 DEF SSHIInv
<1>6. CASE PlanRemoval
  <2>1. snapshot' = file /\ file' = file /\ lost' = lost /\ SSHTypeOK' BY <1>1, <1>6 DEF PlanRemoval
  <2>2. SnapshotIsRead' BY <1>1, <1>6 DEF PlanRemoval, BlockRemovable, Unmarked, OneBlock, At, Lines
  <2> QED BY <2>1, <2>2, FileStays
<1>7. CASE CompareForRemoval
  <2>1. snapshot' = snapshot /\ file' = file /\ lost' = lost /\ SSHTypeOK' BY <1>1, <1>7 DEF CompareForRemoval
  <2>2. SnapshotIsRead'
    BY <1>1, <1>7 DEF CompareForRemoval, NotChanged, Users, BlockRemovable, Unmarked, OneBlock, At, Lines
  <2> QED BY <2>1, <2>2, FileStays
<1>8. CASE RenameForRemoval
  <2> DEFINE new == Removed(Lines(snapshot))
  <2>1. /\ Rename(new) /\ command = "remove" /\ step = "rename" /\ step' = "verify" /\ command' = command
        /\ UNCHANGED snapshot
    BY <1>8 DEF RenameForRemoval
  <2>2. new \in Seq(Line) /\ Framed(new) /\ Users(snapshot) \subseteq ToSet(new)
    BY <1>1, <2>1, RemovedProperties DEF Users
  <2> HIDE DEF new
  <2>3. file' = new BY <2>1 DEF Rename
  <2>4. UserLinesKept' BY <1>1, <2>1, <2>2, RenameKeeps
  <2>5. Framed(Lines(file')) BY <2>2, <2>3, LinesOfFile
  <2>6. Framed(Lines(file))' /\ Framed(Lines(snapshot))' BY <1>1, <2>1, <2>5 DEF Lines, Framed
  <2> QED BY <1>1, <2>1, <2>2, <2>3, <2>4, <2>6 DEF SSHIInv
<1>9. CASE VerifyRemoval
  <2>1. snapshot' = snapshot /\ file' = file /\ lost' = lost /\ SSHTypeOK' BY <1>1, <1>9 DEF VerifyRemoval
  <2>2. SnapshotIsRead' BY <1>1, <1>9 DEF VerifyRemoval
  <2> QED BY <2>1, <2>2, FileStays
<1>10. CASE RemoveManaged
  <2>1. snapshot' = snapshot /\ file' = file /\ lost' = lost /\ SSHTypeOK' BY <1>1, <1>10 DEF RemoveManaged
  <2>2. SnapshotIsRead'
    BY <1>1, <1>10 DEF RemoveManaged, Users, BlockMovable, BlockRemovable, Unmarked, OneBlock, At, Lines
  <2> QED BY <2>1, <2>2, FileStays
<1>11. CASE StopCommand
  <2>1. snapshot' = snapshot /\ file' = file /\ lost' = lost /\ SSHTypeOK' BY <1>1, <1>11 DEF StopCommand
  <2>2. SnapshotIsRead' BY <1>1, <1>11 DEF StopCommand
  <2> QED BY <2>1, <2>2, FileStays
<1>12. CASE Edit
  <2>1. file' \in Seq(Line) \cup {Absent} /\ Framed(Lines(file')) BY <1>1, <1>12, EditedProperties
  <2>2. /\ UNCHANGED <<command, step, snapshot, lost>> /\ late' = late \cup Users(file')
    BY <1>12 DEF Edit
  <2>3. Framed(Lines(file))' /\ Framed(Lines(snapshot))' BY <1>1, <2>1, <2>2 DEF Lines, Framed
  <2>4. SnapshotIsRead'
    BY <1>1, <2>2 DEF Users, BlockMovable, BlockRemovable, Unmarked, OneBlock, At, Lines
  <2> QED BY <1>1, <2>1, <2>2, <2>3, <2>4 DEF SSHIInv, UserLinesKept
<1>13. CASE UNCHANGED sshVars
  <2>1. UNCHANGED <<file, snapshot, command, step, lost, late>> BY <1>13 DEF sshVars
  <2>2. SSHTypeOK' BY <1>1, <2>1
  <2>3. SnapshotIsRead'
    BY <1>1, <2>1 DEF Users, BlockMovable, BlockRemovable, Unmarked, OneBlock, At, Lines
  <2> QED BY <2>1, <2>2, <2>3, FileStays
<1> QED BY <1>2, <1>3, <1>4, <1>5, <1>6, <1>7, <1>8, <1>9, <1>10, <1>11, <1>12, <1>13 DEF SSHNext

\* The file is framed, and what a command read is what it renames over, but for
\* what the user wrote since, for any lines and any number of edits and commands.
THEOREM SSHInvariant == SSHSpec => []SSHIInv
BY SSHInitInv, SSHNextInv, PTL DEF SSHSpec

\* No line of the user is lost, and the block can be removed without a trace
\* (connection.go, uninstall.go).
THEOREM UsersFileIsKept == SSHSpec => []UsersFileKept
<1>1. SSHIInv => UsersFileKept
  <2> SUFFICES ASSUME SSHIInv PROVE UsersFileKept OBVIOUS
  <2>1. Lines(file) \in Seq(Line) /\ Framed(Lines(file)) BY LinesOfFile DEF SSHIInv, SSHTypeOK
  <2>2. \A i, j \in At(Lines(file), BlockStart) : i = j BY <2>1 DEF At, Framed
  <2>3. BlockIsReversible BY <2>1, <2>2, Reversible DEF BlockIsReversible
  <2> QED BY <2>3 DEF UsersFileKept, SSHIInv
<1> QED BY <1>1, SSHInvariant, PTL

-----------------------------------------------------------------------------
(* The directories mapped into the Sandbox. *)

\* A prefix, element by element.
LEMMA PrefixElements ==
  ASSUME NEW a \in Path, NEW b \in Path
  PROVE  PathContains(a, b) <=> Len(a) <= Len(b) /\ \A i \in 1..Len(a) : a[i] = b[i]
<1>1. Len(a) \in Nat /\ Len(b) \in Nat BY DEF Path
<1>2. CASE Len(a) <= Len(b)
  <2>1. SubSeq(a, 1, Len(a)) = [i \in 1..Len(a) |-> a[i]] BY <1>1 DEF Path
  <2>2. SubSeq(b, 1, Len(a)) = [i \in 1..Len(a) |-> b[i]] BY <1>1, <1>2 DEF Path
  <2> QED BY <1>2, <2>1, <2>2 DEF PathContains, IsPrefix
<1> QED BY <1>1, <1>2 DEF PathContains, IsPrefix

LEMMA PrefixTransitive ==
  ASSUME NEW a \in Path, NEW b \in Path, NEW c \in Path, PathContains(a, b), PathContains(b, c)
  PROVE  PathContains(a, c)
<1>1. Len(a) \in Nat /\ Len(b) \in Nat /\ Len(c) \in Nat BY DEF Path
<1>2. Len(a) <= Len(b) /\ \A i \in 1..Len(a) : a[i] = b[i] BY PrefixElements
<1>3. Len(b) <= Len(c) /\ \A i \in 1..Len(b) : b[i] = c[i] BY PrefixElements
<1> QED BY <1>1, <1>2, <1>3, PrefixElements

LEMMA PrefixesOverlap ==
  ASSUME NEW a \in Path, NEW b \in Path, NEW c \in Path, PathContains(a, c), PathContains(b, c)
  PROVE  PathsOverlap(a, b)
<1>1. Len(a) \in Nat /\ Len(b) \in Nat /\ Len(c) \in Nat BY DEF Path
<1>2. Len(a) <= Len(c) /\ \A i \in 1..Len(a) : a[i] = c[i] BY PrefixElements
<1>3. Len(b) <= Len(c) /\ \A i \in 1..Len(b) : b[i] = c[i] BY PrefixElements
<1>4. CASE Len(a) <= Len(b) BY <1>1, <1>2, <1>3, <1>4, PrefixElements DEF PathsOverlap
<1>5. CASE Len(b) <= Len(a) BY <1>1, <1>2, <1>3, <1>5, PrefixElements DEF PathsOverlap
<1> QED BY <1>1, <1>4, <1>5

LEMMA PrefixReflexive == \A n \in Path : PathContains(n, n)
BY PrefixElements DEF Path

LEMMA DirectIsPath ==
  ASSUME NEW n \in Path
  PROVE  Direct(n) \in Path /\ Len(Direct(n)) = Len(n)
<1>1. Len(n) \in Nat /\ \A i \in 1..Len(n) : n[i] \in DirectoryName BY DEF Path
<1>2. Direct(n) \in [1..Len(n) -> DirectoryName] BY <1>1, PathAssumption DEF Direct
<1> QED BY <1>1, <1>2 DEF Path

LEMMA FrontOf ==
  ASSUME NEW n \in Path, n # <<>>
  PROVE  /\ Front(n) \in Path /\ Len(Front(n)) = Len(n) - 1
         /\ \A i \in 1..Len(n) - 1 : Front(n)[i] = n[i]
         /\ n = Append(Front(n), Last(n))
<1>1. Len(n) \in Nat /\ Len(n) > 0 BY DEF Path
<1>2. Front(n) = [i \in 1..Len(n) - 1 |-> n[i]] BY <1>1 DEF Front, Path
<1>3. Front(n) \in Path /\ Len(Front(n)) = Len(n) - 1 BY <1>1, <1>2 DEF Path
<1> QED BY <1>1, <1>2, <1>3 DEF Path, Last

LEMMA AncestorsOf ==
  ASSUME NEW n \in Path, n # <<>>
  PROVE  Ancestors(n) = Ancestors(Front(n)) \cup {n}
<1>1. Len(n) \in Nat /\ Len(n) > 0 BY DEF Path
<1>2. Front(n) = [i \in 1..Len(n) - 1 |-> n[i]] BY <1>1 DEF Front, Path
<1>3. Len(Front(n)) = Len(n) - 1 BY FrontOf
<1>4. SubSeq(n, 1, Len(n)) = n BY <1>1 DEF Path
<1>5. \A k \in 1..Len(n) - 1 : SubSeq(n, 1, k) = [i \in 1..k |-> n[i]] BY <1>1 DEF Path
<1>6. \A k \in 1..Len(n) - 1 : SubSeq(Front(n), 1, k) = [i \in 1..k |-> Front(n)[i]] BY <1>1, <1>3, FrontOf DEF Path
<1>7. \A k \in 1..Len(n) - 1 : SubSeq(Front(n), 1, k) = SubSeq(n, 1, k) BY <1>1, <1>2, <1>5, <1>6
<1> QED BY <1>1, <1>3, <1>4, <1>7 DEF Ancestors

LEMMA DirectFront ==
  ASSUME NEW n \in Path, n # <<>>
  PROVE  Direct(Front(n)) = Front(Direct(n)) /\ Last(Direct(n)) = Direct(n)[Len(n)]
<1>1. Len(n) \in Nat /\ Len(n) > 0 BY DEF Path
<1>2. Direct(n) # <<>> /\ Direct(n) \in Path /\ Len(Direct(n)) = Len(n) BY <1>1, DirectIsPath
<1>3. Front(Direct(n)) = [i \in 1..Len(n) - 1 |-> Direct(n)[i]] BY <1>1, <1>2 DEF Front, Path
<1>4. \A i \in 1..Len(n) - 1 : Front(n)[i] = n[i] BY FrontOf
<1>5. Len(Front(n)) = Len(n) - 1 BY FrontOf
<1>6. Direct(Front(n)) = [i \in 1..Len(n) - 1 |-> Direct(n)[i]] BY <1>1, <1>4, <1>5 DEF Direct
<1> QED BY <1>2, <1>3, <1>6 DEF Last

LEMMA PlainIsPhysical == \A n : Plain(n) => Physical(n) = Direct(n)
BY DEF Plain, Physical, Follow, Links

LEMMA AncestorIsPrefix ==
  ASSUME NEW n \in Path, NEW a \in Ancestors(n)
  PROVE  a \in Path /\ a # <<>> /\ PathContains(a, n)
<1>1. Len(n) \in Nat BY DEF Path
<1>2. PICK k \in 1..Len(n) : a = SubSeq(n, 1, k) BY DEF Ancestors
<1>3. a = [i \in 1..k |-> n[i]] BY <1>1, <1>2 DEF Path
<1>4. a \in Path /\ Len(a) = k BY <1>1, <1>3 DEF Path
<1> QED BY <1>1, <1>3, <1>4, PrefixElements

LEMMA PrefixIsAncestor ==
  ASSUME NEW n \in Path, NEW a \in Path, a # <<>>, PathContains(a, n)
  PROVE  a \in Ancestors(n)
<1>1. Len(n) \in Nat /\ Len(a) \in Nat /\ Len(a) > 0 BY DEF Path
<1>2. Len(a) <= Len(n) /\ SubSeq(n, 1, Len(a)) = SubSeq(a, 1, Len(a)) BY DEF PathContains, IsPrefix
<1>3. SubSeq(a, 1, Len(a)) = a BY <1>1 DEF Path
<1>4. Len(a) \in 1..Len(n) /\ a = SubSeq(n, 1, Len(a)) BY <1>1, <1>2, <1>3
<1> QED BY <1>4 DEF Ancestors

LEMMA FixedIsPlain == MapTypeOK => \A n : Fixed(n) => Links(n) = {}
BY DEF MapTypeOK, Fixed, Links

LEMMA AppendPath ==
  ASSUME NEW n \in Path, NEW s \in Path, s # <<>>
  PROVE  /\ n \o s \in Path \ {<<>>} /\ Len(n \o s) = Len(n) + Len(s)
         /\ \A i \in 1..Len(n) : (n \o s)[i] = n[i]
         /\ \A i \in 1..Len(s) : (n \o s)[Len(n) + i] = s[i]
BY DEF Path

LEMMA ShortSequences ==
  ASSUME NEW S PROVE \A x, y \in S : <<x>> \in Seq(S) /\ <<x, y>> \in Seq(S)
OBVIOUS

LEMMA RunDirectories ==
  /\ Runs \in Path \ {<<>>} /\ Identity \in Path \ {<<>>}
  /\ \A n \in {RunInput, RunStatus} :
       /\ n \in Path \ {<<>>} /\ PathContains(Direct(Runs), Direct(n))
       /\ ~PathsOverlap(Direct(n), Direct(Identity))
<1>1. Data \in Path /\ Len(Data) \in Nat \ {0} BY PathAssumption DEF Path
<1> DEFINE tails == {<<"run", "input">>, <<"run", "status">>}
<1>2. <<"runs">> \in Path /\ <<"identity">> \in Path /\ tails \subseteq Path
  BY PathAssumption, ShortSequences DEF Path
<1>3. \A t \in tails : t # <<>> /\ Len(t) = 2 OBVIOUS
<1>4. /\ Runs \in Path \ {<<>>} /\ Len(Runs) = Len(Data) + 1 /\ Runs[Len(Data) + 1] = "runs"
  BY <1>1, <1>2, AppendPath DEF Runs
<1>5. /\ Identity \in Path \ {<<>>} /\ Len(Identity) = Len(Data) + 1 /\ Identity[Len(Data) + 1] = "identity"
  BY <1>1, <1>2, AppendPath DEF Identity
<1>6. SUFFICES ASSUME NEW t \in tails
               PROVE  /\ Runs \o t \in Path \ {<<>>} /\ PathContains(Direct(Runs), Direct(Runs \o t))
                      /\ ~PathsOverlap(Direct(Runs \o t), Direct(Identity))
  BY <1>4, <1>5 DEF RunInput, RunStatus
<1> DEFINE n == Runs \o t
<1>7. /\ n \in Path \ {<<>>} /\ Len(n) = Len(Data) + 3
      /\ \A i \in 1..Len(Runs) : n[i] = Runs[i]
  <2>1. t \in Path /\ t # <<>> /\ Len(t) = 2 BY <1>2, <1>3
  <2>2. n \in Path \ {<<>>} /\ Len(n) = Len(Runs) + Len(t) /\ \A i \in 1..Len(Runs) : n[i] = Runs[i]
    BY <1>4, <2>1, AppendPath
  <2> QED BY <1>1, <1>4, <2>1, <2>2
<1> HIDE DEF n
<1>8. /\ Direct(n) \in Path /\ Direct(Runs) \in Path /\ Direct(Identity) \in Path
      /\ Len(Direct(n)) = Len(Data) + 3 /\ Len(Direct(Runs)) = Len(Data) + 1
      /\ Len(Direct(Identity)) = Len(Data) + 1
  BY <1>4, <1>5, <1>7, DirectIsPath
<1>9. Direct(n)[Len(Data) + 1] = "runs" /\ Direct(Identity)[Len(Data) + 1] = "identity"
  BY <1>1, <1>4, <1>5, <1>7 DEF Direct
<1>10. \A i \in 1..Len(Runs) : Direct(Runs)[i] = Direct(n)[i] BY <1>1, <1>4, <1>7 DEF Direct
<1>11. PathContains(Direct(Runs), Direct(n)) BY <1>1, <1>4, <1>8, <1>10, PrefixElements
<1>12. ~PathContains(Direct(Identity), Direct(n)) BY <1>1, <1>8, <1>9, PrefixElements
<1>13. ~PathContains(Direct(n), Direct(Identity)) BY <1>1, <1>8, <1>9, PrefixElements
<1> QED BY <1>7, <1>11, <1>12, <1>13 DEF n, PathsOverlap

\* What a name stands for, when nothing above it can move.
Settled(n) == n \in Directory /\ Fixed(Front(n))

LEMMA FollowSettled ==
  ASSUME MapTypeOK, NEW n, Settled(n)
  PROVE  Settled(Follow(junction, n))
<1>1. n \in Path /\ n # <<>> BY PathAssumption DEF Settled
<1>2. Links(n) \subseteq {n}
  BY <1>1, AncestorsOf, FixedIsPlain DEF Settled, Links
<1>3. CASE Links(n) = {} BY <1>3 DEF Follow, Links
<1>4. CASE Links(n) = {n}
  <2> DEFINE m == CHOOSE m \in Links(n) : \A k \in Links(n) : Len(m) <= Len(k)
  <2>1. Len(n) \in Nat BY <1>1 DEF Path
  <2>2. n \in Links(n) /\ \A k \in Links(n) : Len(n) <= Len(k) BY <1>4, <2>1
  <2>3. m \in Links(n) BY <2>2
  <2>4. m = n BY <2>3, <1>4
  <2>5. Follow(junction, n) = junction[n] \o SubSeq(n, Len(n) + 1, Len(n)) BY <2>4, <1>4 DEF Follow, Links
  <2>6. SubSeq(n, Len(n) + 1, Len(n)) = <<>> BY <1>1, <2>1 DEF Path
  <2>7. junction[n] \in Path /\ \E v \in Moves : v.to = junction[n]
    BY <1>4 DEF Links, MapTypeOK
  <2>8. Follow(junction, n) = junction[n] BY <2>5, <2>6, <2>7 DEF Path
  <2> QED BY <2>7, <2>8, MoveAssumption DEF Settled
<1> QED BY <1>2, <1>3, <1>4

\* A directory of credentials that may be a junction shows nobody what is above it.
LEMMA SensitiveSpared ==
  ASSUME MapTypeOK, Directory \subseteq present, NEW at \in Path, Links(at) = {}, SparesSensitive(at),
         NEW s \in Sensitive, Settled(Direct(s))
  PROVE  ~PathContains(at, Direct(s))
<1>1. s \in Path /\ Direct(s) \in Path /\ Len(Direct(s)) = Len(s) /\ Direct(s) # <<>> /\ Len(s) \in Nat
  BY PathAssumption, DirectIsPath DEF Settled, Path
<1>2. s # <<>> BY <1>1 DEF Path
<1>3. Settled(Physical(s)) BY FollowSettled DEF Physical
<1>4. Physical(s) \in present /\ Physical(s) \in Path BY <1>3, PathAssumption DEF Settled
<1>5. /\ \A a \in Ancestors(s) \ {s} : ~PathContains(at, Physical(a))
      /\ ~PathsOverlap(at, Physical(s))
  BY <1>4 DEF SparesSensitive
<1>6. SUFFICES ASSUME PathContains(at, Direct(s)) PROVE FALSE OBVIOUS
<1>7. Len(at) \in Nat /\ Len(at) <= Len(s) /\ \A i \in 1..Len(at) : at[i] = Direct(s)[i]
  BY <1>1, <1>6, PrefixElements DEF Path
<1>8. CASE Len(at) = Len(s)
  <2>1. at = Direct(s) BY <1>1, <1>7, <1>8 DEF Path
  <2>2. Physical(s) = Direct(s) BY <2>1, PlainIsPhysical DEF Plain
  <2> QED BY <1>5, <1>6, <2>2 DEF PathsOverlap
<1>9. CASE at = <<>> BY <1>4, <1>5, <1>9, PrefixElements DEF PathsOverlap
<1>10. CASE at # <<>> /\ Len(at) < Len(s)
  <2>1. /\ Front(s) \in Path /\ Len(Front(s)) = Len(s) - 1 /\ Front(s) # <<>>
    BY <1>1, <1>2, <1>7, <1>10, FrontOf DEF Path
  <2>2. Front(s) \in Ancestors(Front(s)) BY <2>1, AncestorsOf
  <2>3. Front(s) \in Ancestors(s) \ {s} BY <1>1, <1>2, <2>1, <2>2, AncestorsOf
  <2>4. Direct(Front(s)) = Front(Direct(s)) BY <1>1, <1>2, DirectFront
  <2>5. Physical(Front(s)) = Front(Direct(s)) BY <2>4, FixedIsPlain, PlainIsPhysical DEF Plain, Settled
  <2>6. /\ Front(Direct(s)) \in Path /\ Len(Front(Direct(s))) = Len(s) - 1
        /\ \A i \in 1..Len(s) - 1 : Front(Direct(s))[i] = Direct(s)[i]
    BY <1>1, FrontOf
  <2>7. PathContains(at, Front(Direct(s))) BY <1>1, <1>7, <1>10, <2>6, PrefixElements
  <2> QED BY <1>5, <2>3, <2>5, <2>7
<1> QED BY <1>1, <1>7, <1>8, <1>9, <1>10

\* Nothing is mapped yet, and no plan is being launched.
LEMMA MapInitInv == MapInit => MapIInv
<1> SUFFICES ASSUME MapInit PROVE MapIInv OBVIOUS
<1>1. folders = {} /\ DOMAIN junction = {} BY DEF MapInit
<1>2. junction \in [DOMAIN junction -> Path] BY DEF MapInit
<1>3. FoldersAreSafe BY <1>1 DEF FoldersAreSafe, FoldersDisjoint, NothingPrivateMapped
<1>4. PlanIsChecked BY DEF MapInit, PlanIsChecked
<1> QED BY <1>1, <1>2, <1>3, <1>4, PathAssumption DEF MapInit, MapIInv, MapTypeOK

LEMMA ChangeKeepsTypes == MapTypeOK /\ DirectoriesChange => MapTypeOK'
<1> SUFFICES ASSUME MapTypeOK, DirectoriesChange PROVE MapTypeOK' OBVIOUS
<1> USE DEF MapTypeOK
<1>1. PICK m \in Moves :
        /\ m.from \in present
        /\ junction' = IF m.from \in DOMAIN junction
                       THEN Restrict(junction, DOMAIN junction \ {m.from})
                       ELSE [n \in DOMAIN junction \cup {m.from} |->
                               IF n = m.from THEN m.to ELSE junction[n]]
  BY DEF DirectoriesChange
<1>2. m.from \in Path /\ m.to \in Path BY PathAssumption, MoveAssumption
<1>3. UNCHANGED <<present, config, plan>> BY DEF DirectoriesChange
<1>4. CASE m.from \in DOMAIN junction BY <1>1, <1>3, <1>4 DEF Restrict
<1>5. CASE m.from \notin DOMAIN junction BY <1>1, <1>2, <1>3, <1>5
<1> QED BY <1>4, <1>5

\* A run's own directories are where the data root says.
LEMMA RunIsPlain ==
  ASSUME MapTypeOK, Plain(Runs), NEW n \in {RunInput, RunStatus}
  PROVE  Plain(n)
<1>1. SUFFICES ASSUME NEW j \in Links(Direct(n)) PROVE FALSE BY DEF Plain
<1>2. j \in Ancestors(Direct(n)) /\ j \in DOMAIN junction BY <1>1 DEF Links
<1>3. PICK m \in Moves : m.from = j BY <1>2 DEF MapTypeOK
<1>4. PathContains(j, Direct(Runs)) BY <1>2, <1>3, RunAssumption
<1>5. n \in Path /\ Direct(n) \in Path /\ Runs \in Path /\ Direct(Runs) \in Path
  BY RunDirectories, DirectIsPath
<1>6. j \in Path /\ j # <<>> BY <1>2, <1>5, AncestorIsPrefix
<1>7. j \in Ancestors(Direct(Runs)) BY <1>4, <1>5, <1>6, PrefixIsAncestor
<1> QED BY <1>2, <1>7 DEF Plain, Links

\* What validatePhysicalMappings has accepted, when every name can be opened.
LEMMA MappedFoldersAreSafe ==
  ASSUME MapTypeOK, Directory \subseteq present, NEW p, MappingsAccepted(FoldersOf(p)),
         \A f \in FoldersOf(p) : Opens(f.at)
  PROVE  FoldersDisjoint(FoldersOf(p)) /\ NothingPrivateMapped(FoldersOf(p))
<1> DEFINE fs == FoldersOf(p)
<1>1. /\ \A f, g \in fs : f # g => ~PathsOverlap(f.at, g.at)
      /\ Plain(Identity) /\ Plain(Runs)
      /\ \A f \in fs : f.kind \in Offered =>
           /\ ~PathsOverlap(f.at, Physical(Identity)) /\ ~PathsOverlap(f.at, Physical(Runs))
           /\ SparesProfile(f.at) /\ SparesSensitive(f.at)
  BY DEF MappingsAccepted
<1>2. FoldersDisjoint(fs) BY <1>1 DEF FoldersDisjoint
<1>3. Physical(Identity) = Direct(Identity) /\ Physical(Runs) = Direct(Runs)
  BY <1>1, PlainIsPhysical
<1>4. \A f \in fs : Links(f.at) = {} /\ f.at \in Path BY DEF Opens, MapTypeOK
<1>5. ASSUME NEW f \in fs, f.kind \notin Offered
      PROVE  \E n \in {RunInput, RunStatus} : f.at = Direct(n)
  <2>1. f.name \in {RunInput, RunStatus} /\ f.at = Physical(f.name)
    BY <1>5 DEF FoldersOf, Folder, Offered
  <2> QED BY <1>1, <2>1, RunIsPlain, PlainIsPhysical
<1>6. ASSUME NEW f \in fs
      PROVE  /\ ~PathsOverlap(f.at, Direct(Identity))
             /\ f.kind \in Offered =>
                  /\ ~PathsOverlap(f.at, Direct(Runs))
                  /\ \A r \in ProfileRoot : Fixed(Direct(r)) => ~PathContains(f.at, Direct(r))
                  /\ \A s \in Sensitive : Direct(s) \in Directory /\ Fixed(Front(Direct(s))) =>
                       ~PathContains(f.at, Direct(s))
  <2>1. CASE f.kind \notin Offered BY <1>5, <2>1, RunDirectories
  <2>2. CASE f.kind \in Offered
    <3>1. ~PathsOverlap(f.at, Direct(Identity)) /\ ~PathsOverlap(f.at, Direct(Runs))
      BY <1>1, <1>3, <2>2
    <3>2. ASSUME NEW r \in ProfileRoot, Fixed(Direct(r)) PROVE ~PathContains(f.at, Direct(r))
      <4>1. Physical(r) = Direct(r) BY <3>2, FixedIsPlain, PlainIsPhysical DEF Plain
      <4> QED BY <1>1, <2>2, <4>1 DEF SparesProfile
    <3>3. ASSUME NEW s \in Sensitive, Direct(s) \in Directory, Fixed(Front(Direct(s)))
          PROVE  ~PathContains(f.at, Direct(s))
      BY <1>1, <1>4, <2>2, <3>3, SensitiveSpared DEF Settled
    <3> QED BY <2>2, <3>1, <3>2, <3>3
  <2> QED BY <2>1, <2>2
<1>7. NothingPrivateMapped(fs) BY <1>6 DEF NothingPrivateMapped
<1> QED BY <1>2, <1>7

\* Where folders are does not depend on what changes later.
LEMMA SafetyIsOfFolders ==
  ASSUME NEW fs, FoldersDisjoint(fs), NothingPrivateMapped(fs), folders' = fs
  PROVE  FoldersAreSafe'
BY DEF FoldersAreSafe, FoldersDisjoint, NothingPrivateMapped, PathsOverlap, PathContains, Direct, Identity, Runs,
       Fixed, Offered, Ancestors

LEMMA SafeFoldersStay ==
  ASSUME FoldersAreSafe, folders' = folders, unproven => unproven'
  PROVE  FoldersAreSafe'
<1>1. CASE unproven BY <1>1 DEF FoldersAreSafe
<1>2. CASE ~unproven BY <1>2, SafetyIsOfFolders DEF FoldersAreSafe
<1> QED BY <1>1, <1>2

LEMMA FoldersStay == UNCHANGED <<junction, plan>> => FoldersOf(plan)' = FoldersOf(plan)
<1> SUFFICES ASSUME UNCHANGED <<junction, plan>> PROVE FoldersOf(plan)' = FoldersOf(plan) OBVIOUS
<1>1. \A n : Physical(n)' = Physical(n) BY DEF Physical
<1>2. \A kind, names : Folder(kind, names)' = Folder(kind, names) BY <1>1 DEF Folder
<1> QED BY <1>2 DEF FoldersOf, RunInput, RunStatus, Runs, Given

LEMMA SafetyStays ==
  ASSUME UNCHANGED <<junction, plan>>, FoldersDisjoint(FoldersOf(plan)), NothingPrivateMapped(FoldersOf(plan))
  PROVE  FoldersDisjoint(FoldersOf(plan))' /\ NothingPrivateMapped(FoldersOf(plan))'
<1>1. FoldersOf(plan)' = FoldersOf(plan) BY FoldersStay
<1>2. FoldersDisjoint(FoldersOf(plan))' BY <1>1 DEF FoldersDisjoint, PathsOverlap, PathContains
<1>3. NothingPrivateMapped(FoldersOf(plan))'
  BY <1>1 DEF NothingPrivateMapped, PathsOverlap, PathContains, Direct, Identity, Runs, Fixed, Offered, Ancestors
<1> QED BY <1>2, <1>3

LEMMA PlanStaysChecked ==
  ASSUME PlanIsChecked, UNCHANGED <<junction, plan, unproven>>,
         phase' \in {"validated", "written"} => phase \in {"validated", "written"}
  PROVE  PlanIsChecked'
BY SafetyStays DEF PlanIsChecked

LEMMA PlannedPaths ==
  ASSUME NEW c, {c.cache, c.worktree} \subseteq Path \ {<<>>}
  PROVE  {Planned(c).cache, Planned(c).worktree} \subseteq Path \ {<<>>}
BY PathAssumption DEF Planned

LEMMA MakeDirectoriesInv == MapIInv /\ MakeDirectories => MapIInv'
<1> SUFFICES ASSUME MapIInv, MakeDirectories PROVE MapIInv' OBVIOUS
<1> DEFINE names == {RunInput, RunStatus, Identity, plan.cache} \cup Given(plan.worktree)
           made == UNION {Ancestors(n) : n \in names}
<1>1. /\ present' \in {present, present \cup {Direct(n) : n \in made}}
      /\ phase' \in {"made", "refused"}
      /\ UNCHANGED <<junction, config, plan, folders, unproven, changes>>
  BY DEF MakeDirectories
<1>2. MapTypeOK /\ Directory \subseteq present BY DEF MapIInv
<1>3. \A n \in names : n \in Path \ {<<>>}
  BY <1>2, RunDirectories DEF MapTypeOK, Given
<1>4. \A n \in made : Direct(n) \in Path BY <1>3, AncestorIsPrefix, DirectIsPath
<1>5. present \subseteq present' /\ present' \subseteq Path BY <1>1, <1>2, <1>4 DEF MapTypeOK
<1>6. MapTypeOK' BY <1>1, <1>2, <1>5 DEF MapTypeOK
<1>7. PlanIsChecked' BY <1>1 DEF PlanIsChecked
<1>8. FoldersAreSafe' BY <1>1, SafeFoldersStay DEF MapIInv
<1> QED BY <1>2, <1>5, <1>6, <1>7, <1>8 DEF MapIInv

LEMMA ValidateMappingsInv == MapIInv /\ ValidateMappings => MapIInv'
<1> SUFFICES ASSUME MapIInv, ValidateMappings PROVE MapIInv' OBVIOUS
<1>1. UNCHANGED <<present, junction, config, plan, folders, unproven, changes>> BY DEF ValidateMappings
<1>2. MapTypeOK /\ Directory \subseteq present BY DEF MapIInv
<1>3. FoldersAreSafe' BY <1>1, SafeFoldersStay DEF MapIInv
<1>4. MapTypeOK' BY <1>1, <1>2 DEF MapTypeOK
<1>5. CASE phase' = "refused" BY <1>1, <1>2, <1>3, <1>4, <1>5 DEF MapIInv, PlanIsChecked
<1>6. CASE phase' = "validated"
  <2>1. MappingsAccepted(FoldersOf(plan)) /\ \A f \in FoldersOf(plan) : Opens(f.at)
    BY <1>6 DEF ValidateMappings
  <2>2. FoldersDisjoint(FoldersOf(plan)) /\ NothingPrivateMapped(FoldersOf(plan))
    BY <1>2, <2>1, MappedFoldersAreSafe
  <2>3. PlanIsChecked' BY <1>1, <2>2, SafetyStays DEF PlanIsChecked
  <2> QED BY <1>1, <1>2, <1>3, <1>4, <2>3 DEF MapIInv
<1> QED BY <1>5, <1>6 DEF ValidateMappings

LEMMA LaunchMappedInv == MapIInv /\ LaunchMapped => MapIInv'
<1> SUFFICES ASSUME MapIInv, LaunchMapped PROVE MapIInv' OBVIOUS
<1>1. /\ UNCHANGED <<present, junction, config, plan, unproven, changes>>
      /\ phase = "written" /\ phase' \in {"launched", "refused"}
      /\ folders' = FoldersOf(plan) \/ UNCHANGED folders
  BY DEF LaunchMapped
<1>2. FoldersAreSafe'
  <2>1. CASE unproven BY <1>1, <2>1 DEF FoldersAreSafe
  <2>2. CASE ~unproven /\ folders' = FoldersOf(plan)
    <3>1. FoldersDisjoint(FoldersOf(plan)) /\ NothingPrivateMapped(FoldersOf(plan))
      BY <1>1, <2>2 DEF MapIInv, PlanIsChecked
    <3> QED BY <2>2, <3>1, SafetyIsOfFolders
  <2>3. CASE UNCHANGED folders BY <1>1, <2>3, SafeFoldersStay DEF MapIInv
  <2> QED BY <1>1, <2>1, <2>2, <2>3
<1>3. PlanIsChecked' BY <1>1 DEF PlanIsChecked
<1> QED BY <1>1, <1>2, <1>3 DEF MapIInv, MapTypeOK

\* An `up` that finds every name in place, and each folder where it was mapped,
\* has checked what is mapped.
LEMMA ResumeInv == MapIInv /\ Resume => MapIInv'
<1> SUFFICES ASSUME MapIInv, Resume PROVE MapIInv' OBVIOUS
<1>1. /\ UNCHANGED <<present, junction, config, plan, folders, changes>>
      /\ phase' \in {"launched", "resumed"}
  BY DEF Resume
<1>2. MapTypeOK /\ Directory \subseteq present BY DEF MapIInv
<1>3. FoldersAreSafe'
  <2>1. CASE unproven' \/ ~unproven BY <1>1, <2>1, SafetyIsOfFolders DEF FoldersAreSafe, MapIInv
  <2>2. CASE unproven /\ ~unproven'
    <3>1. /\ FoldersOf(plan) = folders /\ MappingsAccepted(FoldersOf(plan))
          /\ \A f \in FoldersOf(plan) : Canonical(f.name)
      BY <2>2 DEF Resume
    <3>2. \A f \in FoldersOf(plan) : Opens(f.at)
      BY <3>1, PlainIsPhysical DEF FoldersOf, Folder, Canonical, Plain, Opens
    <3> QED BY <1>1, <1>2, <3>1, <3>2, MappedFoldersAreSafe, SafetyIsOfFolders
  <2> QED BY <2>1, <2>2
<1>4. PlanIsChecked' BY <1>1 DEF PlanIsChecked
<1> QED BY <1>1, <1>2, <1>3, <1>4 DEF MapIInv, MapTypeOK

LEMMA MapNextInv == MapIInv /\ [MapNext]_mapVars => MapIInv'
<1> SUFFICES ASSUME MapIInv, [MapNext]_mapVars PROVE MapIInv' OBVIOUS
<1>1. CASE Resolve
  <2>1. {plan'.cache, plan'.worktree} \subseteq Path \ {<<>>}
    BY <1>1, PlannedPaths DEF Resolve, MapIInv, MapTypeOK
  <2>2. UNCHANGED <<present, junction, config, folders, unproven, changes>> /\ phase' \in {"resolved", "refused"}
    BY <1>1 DEF Resolve
  <2>3. PlanIsChecked' /\ FoldersAreSafe' BY <2>2, SafeFoldersStay DEF MapIInv, PlanIsChecked
  <2> QED BY <2>1, <2>2, <2>3 DEF MapIInv, MapTypeOK
<1>2. CASE MakeDirectories BY <1>2, MakeDirectoriesInv
<1>3. CASE ValidateMappings BY <1>3, ValidateMappingsInv
<1>4. CASE WriteConfiguration
  <2>1. /\ UNCHANGED <<present, junction, config, plan, folders, unproven, changes>>
        /\ phase = "validated" /\ phase' \in {"written", "refused"}
    BY <1>4 DEF WriteConfiguration
  <2>2. PlanIsChecked' /\ FoldersAreSafe' BY <2>1, PlanStaysChecked, SafeFoldersStay DEF MapIInv
  <2> QED BY <2>1, <2>2 DEF MapIInv, MapTypeOK
<1>5. CASE LaunchMapped BY <1>5, LaunchMappedInv
<1>6. CASE ResolveAgain
  <2>1. {config'.cache, config'.worktree} \subseteq Path \ {<<>>} BY <1>6, PathAssumption DEF ResolveAgain
  <2>2. {plan'.cache, plan'.worktree} \subseteq Path \ {<<>>}
    BY <1>6, PathAssumption, PlannedPaths DEF ResolveAgain, MapIInv, MapTypeOK
  <2>3. UNCHANGED <<present, junction, folders, unproven, changes>> /\ phase' \in {"resolved_again", "launched"}
    BY <1>6 DEF ResolveAgain
  <2>4. PlanIsChecked' /\ FoldersAreSafe' BY <2>3, SafeFoldersStay DEF MapIInv, PlanIsChecked
  <2> QED BY <2>1, <2>2, <2>3, <2>4 DEF MapIInv, MapTypeOK
<1>7. CASE Resume BY <1>7, ResumeInv
<1>8. CASE DirectoriesChange
  <2>1. /\ UNCHANGED <<present, phase, plan, folders>>
        /\ unproven' = (unproven \/ phase \in {"validated", "written"})
    BY <1>8 DEF DirectoriesChange
  <2>2. PlanIsChecked' BY <2>1 DEF PlanIsChecked
  <2>3. FoldersAreSafe' BY <2>1, SafeFoldersStay DEF MapIInv
  <2> QED BY <1>8, <2>1, <2>2, <2>3, ChangeKeepsTypes DEF MapIInv
<1>9. CASE UNCHANGED mapVars
  <2>1. UNCHANGED <<present, junction, config, phase, plan, folders, unproven>> BY <1>9 DEF mapVars
  <2>2. PlanIsChecked' /\ FoldersAreSafe' BY <2>1, PlanStaysChecked, SafeFoldersStay DEF MapIInv
  <2> QED BY <2>1, <2>2 DEF MapIInv, MapTypeOK
<1> QED BY <1>1, <1>2, <1>3, <1>4, <1>5, <1>6, <1>7, <1>8, <1>9 DEF MapNext

\* Every directory that exists has its name, every junction is one that the
\* assumptions allow, and what has been checked is safe until a directory
\* changes, whatever is configured, edited and moved between the plan, the
\* check, the launch and a resumption (provisioning.go, session.go,
\* reprovision.go).
THEOREM MapInvariant == MapSpec => []MapIInv
<1>1. MapSpec => MapInit /\ [][MapNext]_mapVars BY DEF MapSpec
<1> QED BY <1>1, MapInitInv, MapNextInv, PTL

\* No two folders that Windows mapped overlap, and none shows the Sandbox a key,
\* a user profile or another run, for any directories, second drive letters,
\* configurations and junctions, unless one changed after the check and before
\* the launch; and then too, once an `up` that resumes the Sandbox has found the
\* folders in order as they were mapped (validatePhysicalMappings).
THEOREM MappedFoldersStaySafe == MapSpec => []FoldersAreSafe
<1>1. MapIInv => FoldersAreSafe BY DEF MapIInv
<1> QED BY <1>1, MapInvariant, PTL

-----------------------------------------------------------------------------
(* What the uninstaller removes. *)

LEMMA PlainTreeIsPlain ==
  ASSUME NEW r \in Path, PlainTree(r)
  PROVE  Plain(r)
<1>1. Direct(r) \in Path BY DirectIsPath
<1>2. \A j \in Ancestors(Direct(r)) : PathContains(j, Direct(r)) BY <1>1, AncestorIsPrefix
<1> QED BY <1>2 DEF PlainTree, Plain, Links, PathsOverlap

\* The entry of a name of more than a drive, with no link in it, is where it says.
LEMMA EntryDirectly ==
  ASSUME NEW r \in Path, Len(r) > 1, Plain(r)
  PROVE  Append(Physical(Front(r)), Last(r)) = Direct(r)
<1>1. Len(r) \in Nat /\ r # <<>> BY DEF Path
<1>2. Direct(r) \in Path /\ Len(Direct(r)) = Len(r) /\ Direct(r) # <<>> BY <1>1, DirectIsPath DEF Path
<1>3. /\ Direct(Front(r)) = Front(Direct(r)) /\ Last(Direct(r)) = Direct(r)[Len(r)]
  BY <1>1, DirectFront
<1>4. Links(Front(Direct(r))) = {} BY <1>2, AncestorsOf DEF Plain, Links
<1>5. Physical(Front(r)) = Front(Direct(r)) BY <1>3, <1>4, PlainIsPhysical DEF Plain
<1>6. Direct(r)[Len(r)] = r[Len(r)] BY <1>1 DEF Direct
<1>7. Last(Direct(r)) = Last(r) BY <1>3, <1>6 DEF Last
<1>8. Direct(r) = Append(Front(Direct(r)), Last(Direct(r))) BY <1>2, FrontOf
<1> QED BY <1>5, <1>7, <1>8

LEMMA FewerExist ==
  ASSUME junction' = junction, present' \subseteq present
  PROVE  \A n : (Exists(n))' => Exists(n)
BY DEF Exists, Physical

LEMMA EntryKept ==
  ASSUME junction' = junction, NEW r \in Path, Len(r) > 1, Plain(r)
  PROVE  (Exists(r))' => Direct(r) \in present'
<1>0. Len(r) \in Nat BY DEF Path
<1>1. Len(r) # 1
  <2>1. \A k \in Nat : k > 1 => k # 1 OBVIOUS
  <2> QED BY <1>0, <2>1
<1>2. (Exists(r))' => Append(Physical(Front(r)), Last(r)) \in present' BY <1>1 DEF Exists, Physical
<1> QED BY <1>2, EntryDirectly

LEMMA TreesKept == junction' = junction => \A n : (PlainTree(n))' = PlainTree(n)
BY DEF PlainTree

LEMMA RootsArePaths ==
  ASSUME MapTypeOK, NEW all
  PROVE  CacheOf(config) \in Path \ {<<>>} /\ RemovalRoots(config, all) \subseteq Path
BY PathAssumption DEF MapTypeOK, CacheOf, RemovalRoots

LEMMA SafeToRemove ==
  ASSUME MapTypeOK, NEW all, RemovalSafe(config, all),
         NEW q \in {Physical(n) : n \in {n \in PreservedBy(config) : Exists(n)}},
         NEW r \in {r \in RemovalRoots(config, all) : Exists(r)}
  PROVE  q \in Path /\ r \in Path /\ ~PathsOverlap(q, Direct(r))
<1>1. PICK n \in PreservedBy(config) : Exists(n) /\ q = Physical(n) OBVIOUS
<1>2. ~Overlaps(n, r) /\ Canonical(n) /\ Canonical(r) BY <1>1 DEF RemovalSafe
<1>3. Physical(n) = Direct(n) /\ Physical(r) = Direct(r) BY <1>2, PlainIsPhysical DEF Canonical
<1>4. Direct(n) \in Path BY <1>2 DEF Canonical, MapTypeOK
<1> QED BY <1>1, <1>2, <1>3, <1>4, RootsArePaths DEF Overlaps, MappedOverlap

LEMMA CleanInitInv == CleanInit => CleanIInv
<1> SUFFICES ASSUME CleanInit PROVE CleanIInv OBVIOUS
<1>1. MapTypeOK BY MapInitInv DEF CleanInit, MapIInv
<1> QED BY <1>1 DEF CleanInit, NothingCleaned, CleanIInv, ComparedApart, PlansAreDirect, RootsApart,
                    RootsPlanned, Running

LEMMA BeginCleanupInv == CleanIInv /\ BeginCleanup => CleanIInv'
<1> SUFFICES ASSUME CleanIInv, BeginCleanup PROVE CleanIInv' OBVIOUS
<1>1. /\ UNCHANGED <<present, junction, config, plan>>
      /\ preserved' = {Physical(n) : n \in {n \in PreservedBy(config) : Exists(n)}}
      /\ compared' = {r \in RemovalRoots(config, whole') : Exists(r)}
      /\ planned' = {} /\ checked' = {} /\ gone' = {} /\ hindered' = FALSE
      /\ cleaning' = IF RemovalSafe(config, whole') THEN "planning" ELSE "refused"
  BY DEF BeginCleanup, mapVars
<1>2. MapTypeOK /\ MapTypeOK' BY <1>1 DEF CleanIInv, MapTypeOK
<1>3. PlansAreDirect' BY <1>1 DEF PlansAreDirect
<1>4. RootsPlanned' BY <1>1 DEF RootsPlanned
<1>5. CASE RemovalSafe(config, whole')
  <2>1. \A q \in preserved', r \in compared' : q \in Path /\ r \in Path /\ ~PathsOverlap(q, Direct(r))
    BY <1>1, <1>2, <1>5, SafeToRemove
  <2>2. compared' \subseteq Path BY <1>1, <1>2, RootsArePaths
  <2>3. preserved' \subseteq Path
    <3>1. SUFFICES ASSUME NEW n \in PreservedBy(config), Exists(n) PROVE Physical(n) \in Path BY <1>1
    <3>2. CacheOf(config) \in RemovalRoots(config, whole')
      <4>1. \A m \in {Data, GlobalRoot} : ~PathContains(m, CacheOf(config))
        BY <1>5 DEF RemovalSafe, PathsOverlap
      <4> QED BY <4>1 DEF RemovalRoots
    <3>3. Canonical(n) BY <1>5, <3>1, <3>2 DEF RemovalSafe
    <3> QED BY <1>2, <3>3, PlainIsPhysical DEF Canonical, MapTypeOK
  <2>4. ComparedApart' BY <2>1, <2>2, <2>3 DEF ComparedApart, PathsOverlap, PathContains, Direct
  <2>5. Len(CacheOf(config)) > 1 BY <1>5, RootAssumption DEF RemovalSafe, CacheAccepted, CacheOf
  <2>6. RootsApart' BY <1>1, <1>5, <2>5 DEF RootsApart, RemovalSafe, CacheOf, PathsOverlap, PathContains
  <2> QED BY <1>2, <1>3, <1>4, <2>4, <2>6 DEF CleanIInv
<1>6. CASE ~RemovalSafe(config, whole')
  <2>1. ComparedApart' /\ RootsApart' BY <1>1, <1>6 DEF ComparedApart, RootsApart, Running
  <2> QED BY <1>2, <1>3, <1>4, <2>1 DEF CleanIInv
<1> QED BY <1>5, <1>6

LEMMA ApartKept ==
  ASSUME ComparedApart, UNCHANGED <<preserved, compared>>, Running \/ gone # {}
  PROVE  ComparedApart'
BY DEF ComparedApart, PathsOverlap, PathContains, Direct

LEMMA PlanRootsInv == CleanIInv /\ PlanRoots => CleanIInv'
<1> SUFFICES ASSUME CleanIInv, PlanRoots PROVE CleanIInv' OBVIOUS
<1> DEFINE roots == RemovalRoots(config, whole)
<1>1. /\ cleaning = "planning" /\ cleaning' = "references"
      /\ planned' = {RootPlan(n) : n \in {r \in roots : Exists(r) => PlainTree(r)}}
      /\ hindered' = (hindered \/ \E r \in roots : Exists(r) /\ ~PlainTree(r))
      /\ UNCHANGED <<present, junction, config, plan, preserved, compared, checked, gone, whole>>
  BY DEF PlanRoots, mapVars
<1>2. MapTypeOK /\ MapTypeOK' BY <1>1 DEF CleanIInv, MapTypeOK
<1>3. ComparedApart' BY <1>1, ApartKept DEF CleanIInv, Running
<1>4. \A p \in planned' : /\ p.name \in roots /\ p.name \in Path /\ p.at = Physical(p.name)
                          /\ p.exists = Exists(p.name) /\ (p.exists => PlainTree(p.name))
  BY <1>1, <1>2, RootsArePaths DEF RootPlan
<1>5. \A p \in planned' : p.exists => p.at = Direct(p.name)
  BY <1>4, PlainTreeIsPlain, PlainIsPhysical
<1>6. PlansAreDirect' BY <1>1, <1>4, <1>5 DEF CleanIInv, PlansAreDirect
<1>7. RootsApart' BY <1>1 DEF RootsApart
<1>8. RootsPlanned'
  <2>1. SUFFICES ASSUME ~hindered' PROVE RootsPlanned' BY DEF RootsPlanned
  <2>2. \A n : (Exists(n))' => Exists(n) BY <1>1, FewerExist
  <2>3. \A p \in planned' : p.exists => (PlainTree(p.name))' BY <1>1, <1>4, TreesKept
  <2>4. CacheOf(config) \in roots /\ Data \in roots /\ Len(CacheOf(config)) > 1
    BY <1>1, RootAssumption DEF CleanIInv, RootsApart, RemovalRoots, PathsOverlap
  <2>5. \A r \in roots : Exists(r) => \E p \in planned' : p.name = r /\ p.exists
    <3>1. SUFFICES ASSUME NEW r \in roots, Exists(r) PROVE \E p \in planned' : p.name = r /\ p.exists OBVIOUS
    <3>2. PlainTree(r) BY <1>1, <2>1, <3>1
    <3>3. RootPlan(r) \in planned' BY <1>1, <3>1, <3>2
    <3>4. RootPlan(r).name = r /\ RootPlan(r).exists = Exists(r) BY DEF RootPlan
    <3> QED BY <3>1, <3>3, <3>4
  <2>6. \A r \in {CacheOf(config), Data} :
          Len(r) > 1 /\ ((Exists(r))' => \E p \in planned' : p.name = r /\ p.exists)
    BY <2>2, <2>4, <2>5, RootAssumption
  <2>7. CacheOf(config)' = CacheOf(config) BY <1>1 DEF CacheOf
  <2> QED BY <1>1, <2>3, <2>6, <2>7 DEF RootsPlanned
<1> QED BY <1>2, <1>3, <1>6, <1>7, <1>8 DEF CleanIInv

\* A step that takes from the plans only roots that were not there.
LEMMA RootsKept ==
  ASSUME RootsPlanned, UNCHANGED <<present, junction, config, gone>>,
         {cleaning, cleaning'} \subseteq {"references", "removing"}, ~hindered' => ~hindered,
         planned' \subseteq planned, ~hindered' => \A p \in planned : p.exists => p \in planned'
  PROVE  RootsPlanned'
<1>1. SUFFICES ASSUME ~hindered' PROVE RootsPlanned' BY DEF RootsPlanned
<1>2. \A n : (Exists(n))' => Exists(n) BY FewerExist
<1>3. \A p \in planned' : p.exists => (PlainTree(p.name))' BY <1>1, TreesKept DEF RootsPlanned
<1>4. CacheOf(config)' = CacheOf(config) /\ Direct(GlobalRoot)' = Direct(GlobalRoot) BY DEF CacheOf, Direct
<1>5. (\A g \in gone' : g.at # Direct(GlobalRoot)) =>
        \A r \in {CacheOf(config), Data} :
          Len(r) > 1 /\ ((Exists(r))' => \E p \in planned' : p.name = r /\ p.exists)
  BY <1>1, <1>2 DEF RootsPlanned
<1> QED BY <1>1, <1>3, <1>4, <1>5 DEF RootsPlanned

LEMMA RemoveReferencesInv == CleanIInv /\ RemoveReferences => CleanIInv'
<1> SUFFICES ASSUME CleanIInv, RemoveReferences PROVE CleanIInv' OBVIOUS
<1>1. /\ cleaning = "references" /\ cleaning' \in {"removing", "refused"}
      /\ UNCHANGED <<present, junction, config, plan, preserved, compared, planned, checked, gone, hindered>>
  BY DEF RemoveReferences, mapVars
<1>2. MapTypeOK' BY <1>1 DEF CleanIInv, MapTypeOK
<1>3. ComparedApart' BY <1>1, ApartKept DEF CleanIInv, Running
<1>4. PlansAreDirect' BY <1>1 DEF CleanIInv, PlansAreDirect, PathContains, Direct
<1>5. RootsApart' BY <1>1 DEF RootsApart
<1>6. CASE cleaning' = "removing"
  <2>1. RootsPlanned' BY <1>1, <1>6, RootsKept DEF CleanIInv
  <2> QED BY <1>2, <1>3, <1>4, <1>5, <2>1 DEF CleanIInv
<1>7. CASE cleaning' = "refused"
  <2>1. RootsPlanned' BY <1>7 DEF RootsPlanned
  <2> QED BY <1>2, <1>3, <1>4, <1>5, <2>1 DEF CleanIInv
<1> QED BY <1>1, <1>6, <1>7

LEMMA ValidateRootInv == CleanIInv /\ ValidateRoot => CleanIInv'
<1> SUFFICES ASSUME CleanIInv, ValidateRoot PROVE CleanIInv' OBVIOUS
<1>1. PICK p \in planned :
        \/ p.exists /\ checked' = {p} /\ UNCHANGED <<planned, hindered>>
        \/ planned' = planned \ {p} /\ (~hindered' => ~hindered /\ ~p.exists) /\ UNCHANGED checked
  BY DEF ValidateRoot
<1>2. /\ cleaning = "removing" /\ checked = {} /\ cleaning' = "removing"
      /\ UNCHANGED <<present, junction, config, plan, preserved, compared, gone>>
  BY DEF ValidateRoot, mapVars
<1>3. MapTypeOK' BY <1>2 DEF CleanIInv, MapTypeOK
<1>4. ComparedApart' BY <1>2, ApartKept DEF CleanIInv, Running
<1>5. PlansAreDirect' BY <1>1, <1>2 DEF CleanIInv, PlansAreDirect, PathContains, Direct
<1>6. RootsApart' BY <1>2 DEF RootsApart
<1>7. RootsPlanned'
  <2>1. planned' \subseteq planned /\ (~hindered' => ~hindered) BY <1>1
  <2>2. ~hindered' => \A q \in planned : q.exists => q \in planned' BY <1>1
  <2> QED BY <1>2, <2>1, <2>2, RootsKept DEF CleanIInv
<1> QED BY <1>3, <1>4, <1>5, <1>6, <1>7 DEF CleanIInv

LEMMA RemoveRootInv == CleanIInv /\ RemoveRoot => CleanIInv'
<1> SUFFICES ASSUME CleanIInv, RemoveRoot PROVE CleanIInv' OBVIOUS
<1>1. PICK p \in checked, used \in {{}} \cup {{n} : n \in present} :
        LET taken == {n \in Reached(p) : \A u \in used : ~PathContains(n, u)}
            left == {n \in present : \A l \in taken : ~PathContains(l, n)}
        IN /\ present' = left /\ junction' = Restrict(junction, DOMAIN junction \cap left)
           /\ gone' = gone \cup {[root |-> p.name, at |-> n] : n \in taken}
           /\ config' = IF Direct(GlobalRoot) \in taken THEN NoConfiguration ELSE config
           /\ hindered' = (hindered \/ used # {})
           /\ planned' = planned \ {p} /\ checked' = {}
  BY DEF RemoveRoot
<1> DEFINE taken == {n \in Reached(p) : \A u \in used : ~PathContains(n, u)}
           left == {n \in present : \A l \in taken : ~PathContains(l, n)}
<1>2. /\ present' = left /\ junction' = Restrict(junction, DOMAIN junction \cap left)
      /\ gone' = gone \cup {[root |-> p.name, at |-> n] : n \in taken}
      /\ config' = IF Direct(GlobalRoot) \in taken THEN NoConfiguration ELSE config
      /\ hindered' = (hindered \/ used # {})
      /\ planned' = planned \ {p} /\ checked' = {}
  BY <1>1
<1>3. cleaning = "removing" /\ UNCHANGED <<plan, cleaning, preserved, compared>> BY DEF RemoveRoot
<1>4. left \subseteq present /\ \A n \in taken : n \in present /\ PathContains(p.at, n) BY DEF Reached
<1> HIDE DEF left
<1>5. MapTypeOK'
  <2>1. {config'.cache, config'.worktree} \subseteq Path \ {<<>>}
    BY <1>2, RootAssumption DEF CleanIInv, MapTypeOK
  <2>2. junction' \in [DOMAIN junction \cap left -> Path] /\ \A n \in DOMAIN junction' : junction'[n] = junction[n]
    BY <1>2 DEF CleanIInv, MapTypeOK, Restrict
  <2>3. DOMAIN junction' = DOMAIN junction \cap left BY <2>2
  <2>4. present' \subseteq Path /\ DOMAIN junction' \subseteq present' BY <1>2, <1>4, <2>3 DEF CleanIInv, MapTypeOK
  <2>5. \A n \in DOMAIN junction' : \E m \in Moves : m.from = n /\ m.to = junction'[n]
    BY <2>2, <2>3 DEF CleanIInv, MapTypeOK
  <2>6. plan' = plan /\ {plan.cache, plan.worktree} \subseteq Path \ {<<>>}
    BY <1>3 DEF CleanIInv, MapTypeOK
  <2> QED BY <2>1, <2>2, <2>3, <2>4, <2>5, <2>6 DEF MapTypeOK
<1>6. p \in planned /\ p.exists /\ p.name \in Path /\ p.at = Direct(p.name) BY DEF CleanIInv, PlansAreDirect
<1>7. ComparedApart' BY <1>3, ApartKept DEF CleanIInv, Running
<1>8. PlansAreDirect'
  <2>1. \A g \in gone' : g.root \in Path /\ g.at \in Path /\ PathContains(Direct(g.root), g.at)
    <3>1. \A n \in taken : n \in Path BY <1>4 DEF CleanIInv, MapTypeOK
    <3> QED BY <1>2, <1>4, <1>6, <3>1 DEF CleanIInv, PlansAreDirect
  <2> QED BY <1>2, <1>3, <2>1 DEF CleanIInv, PlansAreDirect, PathContains, Direct
<1>9. RootsApart' BY <1>3 DEF RootsApart
<1>10. ASSUME ~hindered', \A g \in gone' : g.at # Direct(GlobalRoot), NEW r \in {CacheOf(config), Data}
       PROVE  Len(r) > 1
  BY <1>2, <1>3, <1>10 DEF CleanIInv, RootsPlanned
<1>11. RootsPlanned'
  <2>1. SUFFICES ASSUME ~hindered' PROVE RootsPlanned' BY DEF RootsPlanned
  <2>2. ~hindered /\ used = {} BY <1>2, <2>1
  <2>3. PlainTree(p.name) BY <1>3, <1>6, <2>2 DEF CleanIInv, RootsPlanned
  <2>4. \A j \in DOMAIN junction : ~PathContains(p.at, j) BY <1>6, <2>3 DEF PlainTree, PathsOverlap
  <2>5. taken = {n \in present : PathContains(p.at, n)} BY <2>2, <2>4 DEF Reached
  <2>6. DOMAIN junction \subseteq left
    <3>1. p.at \in Path BY <1>6, DirectIsPath
    <3>2. ASSUME NEW j \in DOMAIN junction, NEW l \in taken PROVE ~PathContains(l, j)
      <4>1. l \in Path /\ j \in Path BY <1>4 DEF CleanIInv, MapTypeOK
      <4> QED BY <1>4, <2>4, <3>1, <4>1, PrefixTransitive
    <3> QED BY <3>2 DEF left, CleanIInv, MapTypeOK
  <2>7. junction' = junction BY <1>2, <2>6 DEF Restrict, CleanIInv, MapTypeOK
  <2>8. \A q \in planned' : q.exists => (PlainTree(q.name))'
    BY <1>2, <1>3, <2>2, <2>7, TreesKept DEF CleanIInv, RootsPlanned
  <2>9. ASSUME \A g \in gone' : g.at # Direct(GlobalRoot), NEW r \in {CacheOf(config), Data}, (Exists(r))'
        PROVE  \E q \in planned' : q.name = r /\ q.exists
    <3>1. Exists(r) BY <1>2, <1>4, <2>7, <2>9, FewerExist
    <3>2. PICK q \in planned : q.name = r /\ q.exists
      BY <1>2, <1>3, <2>2, <2>9, <3>1 DEF CleanIInv, RootsPlanned
    <3>3. CASE q # p BY <1>2, <3>2, <3>3
    <3>4. CASE q = p
      <4>1. r \in Path /\ Len(r) > 1 /\ Plain(r) /\ Direct(r) = p.at
        BY <1>6, <1>10, <2>1, <2>3, <2>9, <3>2, <3>4, PlainTreeIsPlain
      <4>2. Direct(r) \in left BY <1>2, <2>7, <2>9, <4>1, EntryKept
      <4>3. Direct(r) \in taken BY <1>4, <2>5, <4>1, <4>2, DirectIsPath, PrefixReflexive
      <4> QED BY <4>2, <4>3, <4>1, DirectIsPath, PrefixReflexive DEF left
    <3> QED BY <3>3, <3>4
  <2>10. (\A g \in gone' : g.at # Direct(GlobalRoot)) => config' = config
    <3>1. Direct(GlobalRoot) \in taken => [root |-> p.name, at |-> Direct(GlobalRoot)] \in gone' BY <1>2
    <3> QED BY <1>2, <3>1
  <2>11. Direct(GlobalRoot)' = Direct(GlobalRoot) BY DEF Direct
  <2>12. config' = config => CacheOf(config)' = CacheOf(config) BY DEF CacheOf
  <2>13. (\A g \in gone' : g.at # Direct(GlobalRoot)) =>
           \A r \in {CacheOf(config)', Data} :
             Len(r) > 1 /\ ((Exists(r))' => \E q \in planned' : q.name = r /\ q.exists)
    BY <1>10, <2>1, <2>9, <2>10, <2>12
  <2> QED BY <1>3, <2>8, <2>11, <2>13 DEF RootsPlanned
<1> QED BY <1>5, <1>7, <1>8, <1>9, <1>11 DEF CleanIInv

LEMMA FinishCleanupInv == CleanIInv /\ FinishCleanup => CleanIInv'
<1> SUFFICES ASSUME CleanIInv, FinishCleanup PROVE CleanIInv' OBVIOUS
<1> DEFINE parent == Front(DefaultCache)
<1>1. \/ /\ Canonical(parent) /\ present' = present \ {Direct(parent)}
         /\ gone' = gone \cup {[root |-> parent, at |-> Direct(parent)]}
      \/ UNCHANGED <<present, gone>>
  BY DEF FinishCleanup
<1>2. /\ cleaning = "removing" /\ planned = {} /\ cleaning' = "cleaned"
      /\ UNCHANGED <<junction, config, plan, preserved, compared, planned, checked, hindered>>
  BY DEF FinishCleanup
<1>3. parent \in Path \ {<<>>}
  <2>1. DefaultCache \in Path /\ DefaultCache # <<>> /\ Len(DefaultCache) > 1 BY PathAssumption, RootAssumption
  <2>2. parent \in Path /\ Len(parent) = Len(DefaultCache) - 1 BY <2>1, FrontOf
  <2> QED BY <2>1, <2>2 DEF Path
<1>4. Direct(parent) \in Path \ {<<>>} BY <1>3, DirectIsPath DEF Path
<1>5. Canonical(parent) => Direct(parent) \notin DOMAIN junction
  BY <1>4, AncestorsOf DEF Canonical, Plain, Links
<1>6. present' \subseteq present /\ gone \subseteq gone' BY <1>1
<1>7. DOMAIN junction \subseteq present' BY <1>1, <1>5 DEF CleanIInv, MapTypeOK
<1>8. MapTypeOK' BY <1>2, <1>6, <1>7 DEF CleanIInv, MapTypeOK
<1>9. ComparedApart' BY <1>2, ApartKept DEF CleanIInv, Running
<1>10. PlansAreDirect'
  <2>1. \A g \in gone' : g.root \in Path /\ g.at \in Path /\ PathContains(Direct(g.root), g.at)
    BY <1>1, <1>3, <1>4, PrefixReflexive DEF CleanIInv, PlansAreDirect
  <2> QED BY <1>2, <2>1 DEF CleanIInv, PlansAreDirect, PathContains, Direct
<1>11. RootsApart' BY <1>2 DEF RootsApart
<1>12. RootsPlanned'
  <2>1. \A n : (Exists(n))' => Exists(n) BY <1>2, <1>6, FewerExist
  <2>2. CacheOf(config)' = CacheOf(config) /\ Direct(GlobalRoot)' = Direct(GlobalRoot) BY <1>2 DEF CacheOf, Direct
  <2>3. ~hindered /\ (\A g \in gone' : g.at # Direct(GlobalRoot)) =>
          \A r \in {CacheOf(config), Data} : Len(r) > 1 /\ ~(Exists(r))'
    BY <1>2, <1>6, <2>1 DEF CleanIInv, RootsPlanned
  <2> QED BY <1>2, <2>2, <2>3 DEF RootsPlanned
<1> QED BY <1>8, <1>9, <1>10, <1>11, <1>12 DEF CleanIInv

LEMMA CleanNextInv == CleanIInv /\ [CleanNext]_allVars => CleanIInv'
<1> SUFFICES ASSUME CleanIInv, [CleanNext]_allVars PROVE CleanIInv' OBVIOUS
<1>1. CASE BeginCleanup BY <1>1, BeginCleanupInv
<1>2. CASE PlanRoots BY <1>2, PlanRootsInv
<1>3. CASE RemoveReferences BY <1>3, RemoveReferencesInv
<1>4. CASE ValidateRoot BY <1>4, ValidateRootInv
<1>5. CASE RemoveRoot BY <1>5, RemoveRootInv
<1>6. CASE FinishCleanup BY <1>6, FinishCleanupInv
<1>7. CASE StopCleanup
  <2>1. /\ Running /\ cleaning' = "off"
        /\ UNCHANGED <<present, junction, config, plan, preserved, compared, planned, checked, gone>>
    BY <1>7 DEF StopCleanup, Running, mapVars
  <2>2. MapTypeOK' BY <2>1 DEF CleanIInv, MapTypeOK
  <2>3. ComparedApart' BY <2>1, ApartKept DEF CleanIInv
  <2>4. PlansAreDirect' BY <2>1 DEF CleanIInv, PlansAreDirect, PathContains, Direct
  <2>5. RootsApart' /\ RootsPlanned' BY <2>1 DEF RootsApart, RootsPlanned
  <2> QED BY <2>2, <2>3, <2>4, <2>5 DEF CleanIInv
<1>8. CASE DirectoriesMove
  <2>1. /\ DirectoriesChange /\ hindered' = TRUE
        /\ UNCHANGED <<config, cleaning, preserved, compared, planned, checked, gone>>
    BY <1>8 DEF DirectoriesMove, DirectoriesChange
  <2>2. MapTypeOK' BY <2>1, ChangeKeepsTypes DEF CleanIInv
  <2>3. ComparedApart' BY <2>1 DEF CleanIInv, ComparedApart, Running, PathsOverlap, PathContains, Direct
  <2>4. PlansAreDirect' BY <2>1 DEF CleanIInv, PlansAreDirect, PathContains, Direct
  <2>5. RootsApart' BY <2>1 DEF CleanIInv, RootsApart, CacheOf, PathsOverlap, PathContains
  <2>6. RootsPlanned' BY <2>1 DEF RootsPlanned
  <2> QED BY <2>2, <2>3, <2>4, <2>5, <2>6 DEF CleanIInv
<1>9. CASE UNCHANGED allVars
  <2>1. UNCHANGED <<present, junction, config, plan, cleaning, preserved, compared, planned, checked, gone, hindered>>
    BY <1>9 DEF allVars, mapVars, cleanVars
  <2>2. MapTypeOK' BY <2>1 DEF CleanIInv, MapTypeOK
  <2>3. ComparedApart' BY <2>1 DEF CleanIInv, ComparedApart, Running, PathsOverlap, PathContains, Direct
  <2>4. PlansAreDirect' BY <2>1 DEF CleanIInv, PlansAreDirect, PathContains, Direct
  <2>5. RootsApart' BY <2>1 DEF CleanIInv, RootsApart, CacheOf, PathsOverlap, PathContains
  <2>6. RootsPlanned' BY <2>1 DEF CleanIInv, RootsPlanned, Exists, Physical, PlainTree, CacheOf, Direct
  <2> QED BY <2>2, <2>3, <2>4, <2>5, <2>6 DEF CleanIInv
<1> QED BY <1>1, <1>2, <1>3, <1>4, <1>5, <1>6, <1>7, <1>8, <1>9 DEF CleanNext

\* The roots that were compared stay apart from what is preserved, every plan is
\* where its name says, and an undisturbed root is removed or still planned, for
\* any directories, junctions and cleanups (uninstall.go).
THEOREM CleanInvariant == CleanSpec => []CleanIInv
<1>1. CleanSpec => CleanInit /\ [][CleanNext]_allVars BY DEF CleanSpec
<1> QED BY <1>1, CleanInitInv, CleanNextInv, PTL

\* Nothing that a cleanup removes for a root it compared is in a mapped directory
\* of the user, whatever becomes a junction meanwhile
\* (validateInstallerRemovalSafety, applyInstallerDirectoryRemoval).
THEOREM PreservedDirectoriesSurvive == CleanSpec => []PreservedSurvives
<1>1. CleanIInv => PreservedSurvives
  <2> SUFFICES ASSUME CleanIInv, NEW g \in gone, NEW q \in preserved, g.root \in compared, PathContains(q, g.at)
               PROVE  FALSE
    BY DEF PreservedSurvives
  <2>1. g.root \in Path /\ g.at \in Path /\ PathContains(Direct(g.root), g.at) BY DEF CleanIInv, PlansAreDirect
  <2>2. q \in Path /\ ~PathsOverlap(q, Direct(g.root)) BY DEF CleanIInv, ComparedApart
  <2> QED BY <2>1, <2>2, DirectIsPath, PrefixesOverlap
<1> QED BY <1>1, CleanInvariant, PTL

\* A cleanup that nothing hinders leaves neither the cache nor the data root,
\* whatever an earlier one had to leave.
THEOREM LeftoversGo == CleanSpec => []LeftoversAreRemoved
<1>1. CleanIInv => LeftoversAreRemoved BY DEF CleanIInv, RootsPlanned, LeftoversAreRemoved
<1> QED BY <1>1, CleanInvariant, PTL

=============================================================================
