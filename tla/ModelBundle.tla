---------------------------- MODULE ModelBundle ----------------------------
(* The speech bundle that `up` and `workstation setup` keep in the shared     *)
(* models directory (voxcpm2.go): an archive per release, the model files,    *)
(* which every release keeps under the same names, a completion record and    *)
(* the descriptor of the current release. Downloads go to a partial file and  *)
(* are checked and renamed: a partial file is removed by the next download    *)
(* and is left out. The configuration selects the latest public release or a  *)
(* local bundle, and may change between two preparations.                     *)
EXTENDS Naturals, SequencesExt

CONSTANTS Public, Local,  \* the releases: latest ones over time, local bundles
          Models,         \* the model files of a manifest, in its order
          Size,           \* Size[r][m]: the size of model m of release r
          NoRelease,
          MaxPreparations, MaxBundleFaults

Release == Public \cup Local
Model == ToSet(Models)
ASSUME BundleAssumption == NoRelease \notin Release
ASSUME ManifestAssumption == Models \in Seq(Model)

VARIABLES
  selected,    \* the release the configuration and upstream select
  archive,     \* the archive below releases/<tag>: "absent", "torn", "whole"
  model,       \* whose version of a model file there is, or NoRelease
  completion,  \* the release whose models the completion record lists, or NoRelease
  current,     \* the release current.json describes, or NoRelease
  preparing,   \* the step of a preparation, or "off"
  target,      \* the release it prepares
  next,        \* the model it is at
  outcome,     \* of the last preparation: "none", "ready", "failed"
  preparations, bundleFaults

storeVars == <<archive, model, completion, current>>
bundleVars == <<selected, storeVars, preparing, target, next, outcome, preparations, bundleFaults>>

PreparationFails == preparing' = "off" /\ outcome' = "failed"
Proceeds(step) == preparing' = step /\ UNCHANGED outcome

\* ttsBundle is set or cleared, or upstream publishes another release.
Reselect ==
  /\ preparing = "off"
  /\ \E r \in Release \ {selected} : selected' = r
  /\ UNCHANGED <<storeVars, preparing, target, next, outcome, preparations, bundleFaults>>

\* prepareHyperFramesVoxCPM2
BeginPreparation ==
  /\ preparing = "off" /\ preparations < MaxPreparations
  /\ preparations' = preparations + 1
  /\ target' = selected /\ next' = 1 /\ outcome' = "none"
  /\ preparing' = IF selected \in Local THEN "caching" ELSE "fetching"
  /\ UNCHANGED <<selected, storeVars, bundleFaults>>

\* prepareVoxCPM2CoreRelease: a cached archive is hashed, another one is
\* downloaded over it.
FetchArchive ==
  /\ preparing = "fetching"
  /\ archive' = [archive EXCEPT ![target] = "whole"]
  /\ Proceeds("recalling")
  /\ UNCHANGED <<selected, model, completion, current, target, next, preparations, bundleFaults>>

\* prepareLocalTTSBundle copies the bundle into a new file, in place.
CreateCopy ==
  /\ preparing = "caching" /\ archive[target] = "absent"
  /\ archive' = [archive EXCEPT ![target] = "torn"]
  /\ Proceeds("copying")
  /\ UNCHANGED <<selected, model, completion, current, target, next, preparations, bundleFaults>>

WriteCopy ==
  /\ preparing = "copying"
  /\ archive' = [archive EXCEPT ![target] = "whole"]
  /\ Proceeds("recalling")
  /\ UNCHANGED <<selected, model, completion, current, target, next, preparations, bundleFaults>>

\* Variant: a copy that is there is taken for the bundle.
Inspected_Exists(r) == archive[r] # "absent"

\* inspectVoxCPM2CoreArchive
Inspected(r) == archive[r] = "whole"

\* A copy that is there must be the same.
ReuseCopy ==
  /\ preparing = "caching" /\ archive[target] # "absent"
  /\ IF Inspected(target) THEN Proceeds("recalling") ELSE PreparationFails
  /\ UNCHANGED <<selected, storeVars, target, next, preparations, bundleFaults>>

SizesMatch(r) == \A m \in Model : model[m] # NoRelease /\ Size[model[m]][m] = Size[r][m]

\* prepareVoxCPM2Models: a completion record of the same models vouches for the
\* files, of which only the sizes are looked at (validateCompletedVoxCPM2Models).
RecallCompletion ==
  /\ preparing = "recalling"
  /\ IF completion = target
     THEN IF SizesMatch(target) THEN Proceeds("publishing") ELSE PreparationFails
     ELSE Proceeds("admitting")
  /\ UNCHANGED <<selected, storeVars, target, next, preparations, bundleFaults>>

\* voxcpm2FileMatches, downloadVoxCPM2File: hashed, else downloaded, checked
\* and renamed over the old file.
AdmitModel ==
  /\ preparing = "admitting" /\ next \in DOMAIN Models
  /\ model' = [model EXCEPT ![Models[next]] = target]
  /\ next' = next + 1
  /\ UNCHANGED <<selected, archive, completion, current, preparing, target, outcome,
                 preparations, bundleFaults>>

RecordCompletion ==
  /\ preparing = "admitting" /\ next \notin DOMAIN Models
  /\ completion' = target
  /\ Proceeds("publishing")
  /\ UNCHANGED <<selected, archive, model, current, target, next, preparations, bundleFaults>>

PublishCurrent ==
  /\ preparing = "publishing"
  /\ current' = target
  /\ preparing' = "off" /\ outcome' = "ready"
  /\ UNCHANGED <<selected, archive, model, completion, target, next, preparations, bundleFaults>>

\* A download, a check or a write fails, or the command dies.
PreparationEnds ==
  /\ preparing # "off" /\ bundleFaults < MaxBundleFaults
  /\ bundleFaults' = bundleFaults + 1
  /\ PreparationFails
  /\ UNCHANGED <<selected, storeVars, target, next, preparations>>

BundleInit ==
  /\ selected \in Release
  /\ archive = [r \in Release |-> "absent"] /\ model = [m \in Model |-> NoRelease]
  /\ completion = NoRelease /\ current = NoRelease
  /\ preparing = "off" /\ target = NoRelease /\ next = 1 /\ outcome = "none"
  /\ preparations = 0 /\ bundleFaults = 0

BundleNext ==
  \/ Reselect \/ BeginPreparation \/ FetchArchive \/ CreateCopy \/ WriteCopy \/ ReuseCopy
  \/ RecallCompletion \/ AdmitModel \/ RecordCompletion \/ PublishCurrent \/ PreparationEnds

BundleSpec == BundleInit /\ [][BundleNext]_bundleVars

----------------------------------------------------------------------------

BundleTypeOK ==
  /\ selected \in Release /\ target \in Release \cup {NoRelease}
  /\ archive \in [Release -> {"absent", "torn", "whole"}]
  /\ model \in [Model -> Release \cup {NoRelease}]
  /\ completion \in Release \cup {NoRelease} /\ current \in Release \cup {NoRelease}
  /\ next \in Nat \ {0}

\* The descriptor the guest reads names an archive that was verified whole,
\* whatever preparations of other releases died since; and after a preparation
\* that succeeds it names the release that was prepared, whose models, shared
\* with all other releases, are there with its sizes.
CurrentIsWhole ==
  /\ current # NoRelease => archive[current] = "whole"
  /\ outcome = "ready" => current = target /\ SizesMatch(current)

\* What a preparation knows of the archive and the models of its release at each
\* of its steps.
PreparingIsWhole ==
  /\ preparing # "off" => target \in Release /\ outcome = "none"
  /\ preparing \in {"recalling", "admitting", "publishing"} => archive[target] = "whole"
  /\ preparing = "copying" => archive[target] = "torn"
  /\ preparing \in {"fetching", "caching", "copying", "recalling"} => next = 1
  /\ preparing = "admitting" => \A i \in DOMAIN Models : i < next => model[Models[i]] = target
  /\ preparing = "publishing" => SizesMatch(target)

\* The inductive invariant.
BundleIInv == BundleTypeOK /\ CurrentIsWhole /\ PreparingIsWhole
=============================================================================
