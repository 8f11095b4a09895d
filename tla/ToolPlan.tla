------------------------------ MODULE ToolPlan ------------------------------
(* The version of one tool, merged from what the user's profile and the        *)
(* projects ask for: an exact version, for Python also a series, the version   *)
(* of a project's package lock, or, when nobody names a version of Rust, the   *)
(* toolchain files of the projects.                                            *)
EXTENDS Naturals, Sequences, FiniteSets, SequencesExt

CONSTANTS
  Unnamed,          \* no version, series or file
  Invalid, Outside, \* an unreadable file; a directory outside the workspace
  Series, Patches,  \* a version is a series and a patch
  MaxRequirements

ASSUME ToolAssumption ==
  /\ Unnamed # Invalid /\ Unnamed # Outside /\ Invalid # Outside
  /\ {Unnamed, Invalid, Outside} \cap (Series \X Patches) = {}
  /\ Unnamed \notin Series /\ Series # {} /\ Patches # {}
  /\ MaxRequirements \in Nat

Versions == Series \X Patches
SeriesOf(version) == version[1]
Files == {Unnamed, Invalid, Outside} \union Versions

VARIABLES
  tool, requirements, \* the input: one tool and what is asked of it, in order
  merge               \* the merge: its step, the values by where they come from

toolVars == <<tool, requirements, merge>>

\* "file" is the toolchain file of a project that uses Rust, or the lock file of
\* one that takes Playwright from it.
Requirement(by, version, series, file) ==
  [by |-> by, version |-> version, series |-> series, file |-> file]

Asked(t) ==
  CASE t = "python" -> {Requirement(by, v, s, Unnamed) :
                          by \in {"user"}, v \in Versions \union {Unnamed},
                          s \in Series \union {Unnamed}}
    [] t = "rust" -> {Requirement("user", v, Unnamed, Unnamed) : v \in Versions \union {Unnamed}}
                       \union {Requirement("project", v, Unnamed, f) :
                                 v \in Versions \union {Unnamed}, f \in Files}
    [] t = "playwright" -> {Requirement("user", v, Unnamed, Unnamed) : v \in Versions \union {Unnamed}}
                       \union {Requirement("lock", Unnamed, Unnamed, f) : f \in Files \ {Outside}}

NoValues == [versions |-> {}, series |-> {}]
NoMerge == [pc |-> "collect", owned |-> <<>>, next |-> 1, explicit |-> NoValues, project |-> NoValues,
          direct |-> FALSE, locked |-> FALSE, result |-> Requirement("merge", Unnamed, Unnamed, Unnamed)]
MergeFails == merge' = [NoMerge EXCEPT !.pc = "error"]

----------------------------------------------------------------------------
\* The directory of a Rust project must lie in its workspace.
Collect ==
  /\ merge.pc = "collect"
  /\ IF \E i \in DOMAIN requirements : requirements[i].file = Outside
     THEN MergeFails
     ELSE merge' = [merge EXCEPT !.pc = "read", !.owned = requirements]
  /\ UNCHANGED <<tool, requirements>>

Explicit(r) == r.by # "lock" /\ (r.version # Unnamed \/ r.series # Unnamed)

\* A lock file must be read, a toolchain file only when nobody names a version.
Deferred ==
  {i \in DOMAIN requirements :
     CASE requirements[i].by = "lock" -> TRUE
       [] requirements[i].by = "project" -> ~\E j \in DOMAIN requirements : Explicit(requirements[j])
       [] OTHER -> FALSE}

Unreadable(i) == requirements[i].file \in {Invalid} \union
                   IF requirements[i].by = "lock" THEN {Unnamed} ELSE {}

\* A requirement with the version of its lock file, and what a toolchain file
\* adds: a file that is not read, or that is missing, names no version.
WithLock(i) ==
  IF requirements[i].by = "lock" THEN [requirements[i] EXCEPT !.version = requirements[i].file]
  ELSE requirements[i]

FromFile(i) ==
  Requirement("file", IF i \in Deferred /\ requirements[i].by = "project"
                      THEN requirements[i].file ELSE Unnamed, Unnamed, Unnamed)

AllOwned == [i \in DOMAIN requirements |-> WithLock(i)] \o [i \in DOMAIN requirements |-> FromFile(i)]

ReadFiles ==
  /\ merge.pc = "read"
  /\ IF \E i \in Deferred : Unreadable(i) THEN MergeFails
     ELSE merge' = [merge EXCEPT !.pc = "merge", !.owned = AllOwned]
  /\ UNCHANGED <<tool, requirements>>

\* Variant: a version and a series are compared separately.
SeriesNamed_Only(r) == {r.series} \ {Unnamed}

\* A version of Python also names its series.
SeriesNamed(r) ==
  ({r.series} \union IF tool = "python" /\ r.version # Unnamed THEN {SeriesOf(r.version)} ELSE {})
    \ {Unnamed}

Add(values, r) == [versions |-> values.versions \union ({r.version} \ {Unnamed}),
                   series |-> values.series \union SeriesNamed(r)]

MergeOne ==
  /\ merge.pc = "merge" /\ merge.next <= Len(merge.owned)
  /\ LET r == merge.owned[merge.next]
     IN merge' = [merge EXCEPT !.next = @ + 1,
          !.explicit = IF r.by = "file" THEN @ ELSE Add(@, r),
          !.project = IF r.by = "file" THEN Add(@, r) ELSE @,
          !.direct = @ \/ (Explicit(r) /\ r.by # "file"),
          !.locked = @ \/ r.by = "lock"]
  /\ UNCHANGED <<tool, requirements>>

Only(values) == IF values = {} THEN Unnamed ELSE CHOOSE v \in values : TRUE

ResolveTool ==
  /\ merge.pc = "merge" /\ merge.next > Len(merge.owned)
  /\ LET values == IF merge.explicit = NoValues THEN merge.project ELSE merge.explicit
         source == CASE values = NoValues -> "default"
                     [] merge.explicit = NoValues -> "project"
                     [] ~merge.direct /\ merge.locked -> "selected-project"
                     [] OTHER -> "explicit"
     IN IF Cardinality(values.versions) > 1 \/ Cardinality(values.series) > 1
        THEN MergeFails
        ELSE merge' = [NoMerge EXCEPT !.pc = "done",
               !.result = Requirement(source, Only(values.versions), Only(values.series), Unnamed)]
  /\ UNCHANGED <<tool, requirements>>

ToolInit ==
  /\ tool \in {"python", "rust", "playwright"}
  /\ requirements \in SeqOf(Asked(tool), MaxRequirements)
  /\ merge = NoMerge

ToolNext == Collect \/ ReadFiles \/ MergeOne \/ ResolveTool

ToolSpec == ToolInit /\ [][ToolNext]_toolVars

----------------------------------------------------------------------------
\* The requirements as their authors mean them, without the merge.
Meets(version, r) == r.version \in {Unnamed, version} /\ r.series \in {Unnamed, SeriesOf(version)}

Stated == {requirements[i] : i \in DOMAIN requirements}
Locks == {Requirement("lock", r.file, Unnamed, Unnamed) : r \in {q \in Stated : q.by = "lock"}}
Toolchains == {Requirement("file", r.file, Unnamed, Unnamed) :
                 r \in {q \in Stated : q.by = "project" /\ q.file # Unnamed}}
Binding == IF \E r \in Stated : Explicit(r) THEN Stated \union Locks
           ELSE Stated \union Locks \union Toolchains
Readable == /\ \A r \in Stated : r.file # Outside
            /\ \A r \in Binding : r.by \in {"lock", "file"} => r.version # Invalid
            /\ \A r \in Locks : r.version # Unnamed

Agreed == {v \in Versions : Readable /\ \A r \in Binding : Meets(v, r)}

\* The merge refuses exactly when no version meets all that binds, and otherwise
\* its result admits the versions that do and no other, whoever asked first and
\* whether by version, by series or by file (mergeProjectToolVersions).
ResultIsAgreed ==
  /\ merge.pc = "error" => Agreed = {}
  /\ merge.pc = "done" => Agreed # {} /\ Agreed = {v \in Versions : Meets(v, merge.result)}

ToolTypeOK ==
  /\ tool \in {"python", "rust", "playwright"} /\ requirements \in Seq(Asked(tool))
  /\ merge.pc \in {"collect", "read", "merge", "error", "done"}
  /\ DOMAIN merge = {"pc", "owned", "next", "explicit", "project", "direct", "locked", "result"}

\* What a set of requirements names.
Named(rs) == [versions |-> {r.version : r \in rs} \ {Unnamed},
              series |-> UNION {SeriesNamed(r) : r \in rs}]
Merged == {merge.owned[i] : i \in 1..(merge.next - 1)}
MergedRequirements == {r \in Merged : r.by # "file"}
MergedFiles == {r \in Merged : r.by = "file"}

\* How far the requirements are merged.
RequirementsMerged ==
  /\ merge.pc \in {"collect", "read"} =>
       merge.next = 1 /\ merge.explicit = NoValues /\ merge.project = NoValues
  /\ merge.pc \in {"read", "merge"} => \A i \in DOMAIN requirements : requirements[i].file # Outside
  /\ merge.pc = "merge" =>
       /\ \A i \in Deferred : ~Unreadable(i)
       /\ merge.owned = AllOwned /\ merge.next \in 1..(Len(merge.owned) + 1)
       /\ merge.explicit = Named(MergedRequirements)
       /\ merge.project = Named(MergedFiles)

\* The inductive invariant.
ToolIInv == ToolTypeOK /\ RequirementsMerged /\ ResultIsAgreed
=============================================================================
