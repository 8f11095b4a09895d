---------------------------- MODULE UserSSHConfig ----------------------------
(* ~/.ssh/config, which the user edits while `up` and `attach` put the block   *)
(* at its front that includes the managed configuration (connection.go) and   *)
(* the uninstaller takes it out again (uninstall.go). Both read the file, write *)
(* a new one beside it, compare once more and rename. The lifecycle mutex       *)
(* keeps two commands apart, not the user. A file is a sequence of lines.       *)
EXTENDS Naturals, SequencesExt

CONSTANTS UserLine,  \* lines of the user
          Absent,    \* there is no file
          MaxEdits, MaxCommands

BlockStart == "begin"
Include == "include"
BlockEnd == "end"
Blank == "blank"
Block == <<BlockStart, Include, BlockEnd>>
Line == UserLine \cup {BlockStart, Include, BlockEnd, Blank}

ASSUME LineAssumption ==
  /\ UserLine \cap {BlockStart, Include, BlockEnd, Blank} = {}
  /\ Absent \notin Seq(Line)

VARIABLES
  file,      \* ~/.ssh/config
  managed,   \* the command whose connection the managed configuration holds; 0: none
  command,   \* "off", "install", "remove"
  step,
  snapshot,  \* what the command read
  attempt,
  result,    \* of the last command: "none", "installed", "removed", "failed"
  lost,      \* lines of the user that a rename took away
  late,      \* lines written between the last comparison and the rename
  edits, commands

sshVars == <<file, managed, command, step, snapshot, attempt, result, lost, late, edits, commands>>

Lines(f) == IF f = Absent THEN <<>> ELSE f
Trimmed(s) == IF s # <<>> /\ Head(s) = Blank THEN Tail(s) ELSE s

At(s, l) == {i \in DOMAIN s : s[i] = l}
Position(s, l) == CHOOSE i \in At(s, l) : TRUE
Unmarked(s) == At(s, BlockStart) = {} /\ At(s, BlockEnd) = {}
OneBlock(s) ==
  \E i, j \in DOMAIN s : i < j /\ At(s, BlockStart) = {i} /\ At(s, BlockEnd) = {j}

\* What surrounds the block.
Rest(s) == SubSeq(s, 1, Position(s, BlockStart) - 1) \o SubSeq(s, Position(s, BlockEnd) + 1, Len(s))

\* updateManagedSSHInclude: a block that is there moves to the front.
BlockMovable(s) == Unmarked(s) \/ OneBlock(s)
Prefixed(rest) == IF rest = <<>> THEN Block ELSE Block \o <<Blank>> \o rest
Updated(s) == Prefixed(IF Unmarked(s) THEN s ELSE Trimmed(Rest(s)))

\* removeManagedSSHInclude takes out only the block it would have written.
BlockRemovable(s) == Unmarked(s) \/ (OneBlock(s) /\ IsPrefix(Block, s))
Removed(s) == IF Unmarked(s) THEN s ELSE Trimmed(SubSeq(s, Len(Block) + 1, Len(s)))

Users(f) == ToSet(Lines(f)) \cap UserLine

CommandGoes(to) == step' = to /\ UNCHANGED <<command, result>>
CommandEnds(with) == step' = "off" /\ command' = "off" /\ result' = with

\* Variant: only whether there is a file is compared.
NotChanged_Exists == (file = Absent) = (snapshot = Absent)

\* writeFileAtomicallyIfUnchanged, bytes.Equal
NotChanged == file = snapshot

----------------------------------------------------------------------------
\* installSSHHostAliasAt: the managed file is renamed into place first.
BeginInstall ==
  /\ command = "off" /\ commands < MaxCommands
  /\ commands' = commands + 1 /\ managed' = commands'
  /\ command' = "install" /\ step' = "read" /\ attempt' = 1 /\ result' = "none"
  /\ UNCHANGED <<file, snapshot, lost, late, edits>>

ReadForInstall ==
  /\ command = "install" /\ step = "read"
  /\ snapshot' = file
  /\ IF ~BlockMovable(Lines(file)) THEN CommandEnds("failed")
     ELSE IF Updated(Lines(file)) = Lines(file) THEN CommandEnds("installed")
     ELSE CommandGoes("compare")
  /\ UNCHANGED <<file, managed, attempt, lost, late, edits, commands>>

\* writeFileAtomicallyIfUnchanged: compared when the new file is on the disk
CompareForInstall ==
  /\ command = "install" /\ step = "compare"
  /\ late' = {}
  /\ IF NotChanged THEN CommandGoes("rename") /\ UNCHANGED attempt
     ELSE IF attempt < 3 THEN CommandGoes("read") /\ attempt' = attempt + 1
     ELSE CommandEnds("failed") /\ UNCHANGED attempt
  /\ UNCHANGED <<file, managed, snapshot, lost, edits, commands>>

Rename(new) == file' = new /\ lost' = lost \cup ((Users(file) \ Users(new)) \ late)

RenameForInstall ==
  /\ command = "install" /\ step = "rename"
  /\ Rename(Updated(Lines(snapshot))) /\ CommandEnds("installed")
  /\ UNCHANGED <<managed, snapshot, attempt, late, edits, commands>>

\* planInstallerSSHRemoval
PlanRemoval ==
  /\ command = "off" /\ commands < MaxCommands
  /\ commands' = commands + 1 /\ snapshot' = file
  /\ IF ~BlockRemovable(Lines(file))
     THEN command' = "off" /\ step' = "off" /\ result' = "failed"
     ELSE IF Removed(Lines(file)) = Lines(file)
     THEN command' = "off" /\ step' = "off" /\ result' = "removed"
     ELSE command' = "remove" /\ step' = "compare" /\ result' = "none"
  /\ UNCHANGED <<file, managed, attempt, lost, late, edits>>

\* applyInstallerSSHRemoval compares twice; there is no second attempt.
CompareForRemoval ==
  /\ command = "remove" /\ step \in {"compare", "compare_again"}
  /\ late' = {}
  /\ IF ~NotChanged THEN CommandEnds("failed")
     ELSE CommandGoes(IF step = "compare" THEN "compare_again" ELSE "rename")
  /\ UNCHANGED <<file, managed, snapshot, attempt, lost, edits, commands>>

RenameForRemoval ==
  /\ command = "remove" /\ step = "rename"
  /\ Rename(Removed(Lines(snapshot))) /\ CommandGoes("verify")
  /\ UNCHANGED <<managed, snapshot, attempt, late, edits, commands>>

VerifyRemoval ==
  /\ command = "remove" /\ step = "verify"
  /\ CommandEnds(IF file = Removed(Lines(snapshot)) THEN "removed" ELSE "failed")
  /\ UNCHANGED <<file, managed, snapshot, attempt, lost, late, edits, commands>>

\* removeManagedSSHConfig, in the cleanup after the Sandbox is gone: the block
\* stays and includes nothing.
RemoveManaged ==
  /\ command = "off" /\ managed # 0 /\ managed' = 0
  /\ UNCHANGED <<file, command, step, snapshot, attempt, result, lost, late, edits, commands>>

StopCommand ==
  /\ command # "off" /\ CommandEnds("none")
  /\ UNCHANGED <<file, managed, snapshot, attempt, lost, late, edits, commands>>

\* The user adds a line at either end, deletes one, also of the block, or
\* deletes the file.
Edit ==
  /\ edits < MaxEdits /\ edits' = edits + 1
  /\ file' \in {<<l>> \o Lines(file) : l \in UserLine} \cup {Append(Lines(file), l) : l \in UserLine}
               \cup {RemoveAt(Lines(file), i) : i \in 1..Len(Lines(file))} \cup {Absent}
  /\ file' # file
  /\ late' = late \cup Users(file')
  /\ UNCHANGED <<managed, command, step, snapshot, attempt, result, lost, commands>>

SSHInit ==
  /\ file \in {Absent, <<>>} \cup {<<l>> : l \in UserLine \cup {Blank}}
  /\ managed = 0 /\ command = "off" /\ step = "off" /\ snapshot = Absent /\ attempt = 1
  /\ result = "none" /\ lost = {} /\ late = {} /\ edits = 0 /\ commands = 0

SSHNext ==
  \/ BeginInstall \/ ReadForInstall \/ CompareForInstall \/ RenameForInstall
  \/ PlanRemoval \/ CompareForRemoval \/ RenameForRemoval \/ VerifyRemoval
  \/ RemoveManaged \/ StopCommand \/ Edit

SSHSpec == SSHInit /\ [][SSHNext]_sshVars

----------------------------------------------------------------------------
\* No command takes away a line of the user, except one that the user writes
\* between the last comparison and the rename, whatever commands do and stop
\* in between.
UserLinesKept == lost = {}

\* There is never a second block, and what the uninstaller would leave of a file
\* with the block added is the file that was there before; adding it twice is
\* adding it once.
BlockIsReversible ==
  /\ \A i, j \in At(Lines(file), BlockStart) : i = j
  /\ Unmarked(Lines(file)) =>
       LET added == Updated(Lines(file))
       IN /\ BlockRemovable(added) /\ Removed(added) = Lines(file)
          /\ BlockMovable(added) /\ Updated(added) = added

\* The user's file through installations and removals, and what stops them
\* (connection.go, writeFileAtomicallyIfUnchanged and updateManagedSSHInclude).
UsersFileKept == UserLinesKept /\ BlockIsReversible

SSHTypeOK ==
  /\ {file, snapshot} \subseteq Seq(Line) \cup {Absent}
  /\ command \in {"off", "install", "remove"}
  /\ step \in {"off", "read", "compare", "compare_again", "rename", "verify"}

\* At most one line begins a block and one ends it, in this order and without a
\* line of the user between them, whichever of its lines the user deletes.
Framed(s) ==
  \A i, j \in DOMAIN s :
    /\ s[i] = s[j] /\ s[i] \in {BlockStart, BlockEnd} => i = j
    /\ s[i] = BlockStart /\ s[j] = BlockEnd => i < j /\ \A k \in i..j : s[k] \notin UserLine

\* What a command has read, and how the file differs from it at the rename.
SnapshotIsRead ==
  /\ command = "install" /\ step \in {"compare", "rename"} => BlockMovable(Lines(snapshot))
  /\ command = "remove" /\ step # "verify" => BlockRemovable(Lines(snapshot))
  /\ step = "rename" => Users(file) \subseteq Users(snapshot) \cup late

\* The inductive invariant.
SSHIInv ==
  SSHTypeOK /\ Framed(Lines(file)) /\ Framed(Lines(snapshot)) /\ SnapshotIsRead /\ UserLinesKept
=====
