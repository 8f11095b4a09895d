---------------------------- MODULE PackagePlan ----------------------------
(* The WinGet packages of Base: the defaults with the configuration's removals *)
(* taken out one by one and its additions put in, then checked against what    *)
(* the selected stacks need.                                                   *)
EXTENDS Naturals, Sequences, SequencesExt

CONSTANTS
  Optional,        \* a default package that no stack needs
  Owned, Extra,    \* a package of a project stack; one nobody knows
  MaxListed        \* longest list of removals or additions

Core == "Core"  Git == "Git"  Terminal == "Terminal"  Preview == "Preview"  XAML == "XAML"
Base == {Core, Git, Optional, XAML, Terminal, Preview}
Packages == Base \union {Owned, Extra}

ASSUME PackageAssumption ==
  /\ Optional \notin {Core, Git, XAML, Terminal, Preview}
  /\ Owned # Extra /\ {Owned, Extra} \cap Base = {}
  /\ MaxListed \in Nat

NeedsGit == {"git-sh", "hyperframes"}

VARIABLES
  edition,         \* the package of the host's Windows Terminal edition
  remove, add,     \* the configuration's lists
  stacks,          \* stacks of the profiles that concern packages
  packagePlan      \* the plan: its step, the entry it applies next, its packages

packageVars == <<edition, remove, add, stacks, packagePlan>>

PlanFails == packagePlan' = [packagePlan EXCEPT !.pc = "error"]
PlanKeeps == UNCHANGED <<edition, remove, add, stacks>>
\* Variant: the framework of the terminal stays.
Removal_Only(package) == {package}

Removal(package) == {package} \union IF package = edition THEN {XAML} ELSE {}

----------------------------------------------------------------------------
RemovePackage ==
  /\ packagePlan.pc = "remove" /\ packagePlan.next <= Len(remove)
  /\ LET p == remove[packagePlan.next]
     IN IF p \notin packagePlan.defaults \/ p \in {Core, XAML} THEN PlanFails
        ELSE packagePlan' = [packagePlan EXCEPT !.next = @ + 1, !.defaults = @ \ Removal(p)]
  /\ PlanKeeps

BeginAdditions ==
  /\ packagePlan.pc = "remove" /\ packagePlan.next > Len(remove)
  /\ packagePlan' = [packagePlan EXCEPT !.pc = "add", !.next = 1]
  /\ PlanKeeps

AddPackage ==
  /\ packagePlan.pc = "add" /\ packagePlan.next <= Len(add)
  /\ LET p == add[packagePlan.next]
     IN IF p \in Base \union {Owned} \union packagePlan.additions THEN PlanFails
        ELSE packagePlan' = [packagePlan EXCEPT !.next = @ + 1, !.additions = @ \union {p}]
  /\ PlanKeeps

\* The plan is checked as a whole, and again where it is read from a run's files.
PlanIsValid(packages) ==
  /\ Core \in packages
  /\ (edition \in packages) = (XAML \in packages)
  /\ ({Terminal, Preview} \ {edition}) \cap packages = {}

ValidatePlan ==
  /\ packagePlan.pc = "add" /\ packagePlan.next > Len(add)
  /\ packagePlan' = [packagePlan EXCEPT !.pc = IF PlanIsValid(packagePlan.defaults \union packagePlan.additions)
                                 THEN "stacks" ELSE "error"]
  /\ PlanKeeps

RequireGit ==
  /\ packagePlan.pc = "stacks"
  /\ packagePlan' = [packagePlan EXCEPT !.pc = IF stacks \cap NeedsGit = {} \/ Git \in packagePlan.defaults
                                 THEN "done" ELSE "error"]
  /\ PlanKeeps

PackageInit ==
  /\ edition \in {Terminal, Preview}
  /\ remove \in SeqOf(Packages, MaxListed) /\ add \in SeqOf({Git, Owned, Extra}, MaxListed)
  /\ stacks \in SUBSET NeedsGit
  /\ packagePlan = [pc |-> "remove", next |-> 1, additions |-> {},
             defaults |-> {Core, Git, Optional, XAML, edition}]

PackageNext == RemovePackage \/ BeginAdditions \/ AddPackage \/ ValidatePlan \/ RequireGit

PackageSpec == PackageInit /\ [][PackageNext]_packageVars

----------------------------------------------------------------------------
\* What a configuration may ask for: no removal of Core or of the terminal's
\* framework alone, no addition of what Base knows or a stack owns.
Removable == {Git, Optional, edition}
Addable == {Extra}
Acceptable ==
  /\ IsInjective(remove) /\ Range(remove) \subseteq Removable
  /\ IsInjective(add) /\ Range(add) \subseteq Addable
  /\ Git \in Range(remove) => stacks \cap NeedsGit = {}

DefaultsWithout(removed) ==
  ({Core, Git, Optional, XAML, edition} \ removed) \ IF edition \in removed THEN {XAML} ELSE {}

\* A configuration is accepted exactly when it may be: it removes each package
\* once, none of Core and not the terminal's framework alone, adds no package
\* that Base knows or a stack owns, and leaves Git to the stacks that need it;
\* then the framework goes with the terminal and the other edition never comes in
\* (resolveWingetPackagePlan, validateGitPackageRequirement).
PlanIsWanted ==
  /\ packagePlan.pc = "error" => ~Acceptable
  /\ packagePlan.pc = "done" =>
       /\ Acceptable
       /\ packagePlan.defaults \union packagePlan.additions =
            {Core} \union ({Git, Optional} \ Range(remove)) \union Range(add)
                   \union (IF edition \in Range(remove) THEN {} ELSE {edition, XAML})

\* The first n entries of a list are acceptable.
Accepted(list, n, allowed) ==
  /\ \A i \in 1..n : list[i] \in allowed
  /\ \A i, j \in 1..n : list[i] = list[j] => i = j
FirstOf(list, n) == {list[i] : i \in 1..n}

PackageTypeOK ==
  /\ edition \in {Terminal, Preview}
  /\ remove \in Seq(Packages) /\ add \in Seq(Packages)
  /\ packagePlan \in [pc : {"remove", "add", "stacks", "done", "error"}, next : Nat \ {0},
                     defaults : SUBSET Packages, additions : SUBSET Packages]

\* How far the lists are applied.
ListsApplied ==
  /\ packagePlan.pc = "remove" =>
       /\ packagePlan.next - 1 <= Len(remove) /\ Accepted(remove, packagePlan.next - 1, Removable)
       /\ packagePlan.defaults = DefaultsWithout(FirstOf(remove, packagePlan.next - 1))
       /\ packagePlan.additions = {}
  /\ packagePlan.pc \in {"add", "stacks", "done"} =>
       /\ Accepted(remove, Len(remove), Removable)
       /\ packagePlan.defaults = DefaultsWithout(Range(remove))
  /\ packagePlan.pc = "add" =>
       /\ packagePlan.next - 1 <= Len(add) /\ Accepted(add, packagePlan.next - 1, Addable)
       /\ packagePlan.additions = FirstOf(add, packagePlan.next - 1)
  /\ packagePlan.pc \in {"stacks", "done"} =>
       Accepted(add, Len(add), Addable) /\ packagePlan.additions = Range(add)
  /\ packagePlan.pc = "done" /\ Git \in Range(remove) => stacks \cap NeedsGit = {}

\* The inductive invariant.
PackageIInv == PackageTypeOK /\ ListsApplied /\ (packagePlan.pc = "error" => ~Acceptable)
=============================================================================
