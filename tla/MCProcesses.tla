----------------------------- MODULE MCProcesses -----------------------------
(* Instances for TLC of the three parts that own process trees: the archive   *)
(* transport, the guest's group of installers and one hidden command of the    *)
(* host. They share no state: `part` says which of them runs in a behaviour,   *)
(* the others stay in their initial state. What a run checks of each is        *)
(* defined and explained in its module.                                        *)
EXTENDS ArchiveTransport, ProcessGroup, HiddenCommand, TLC

VARIABLE part

ProcessInit ==
  /\ part \in {"archive", "group", "command"}
  /\ Init /\ GroupInit
  /\ commandCancelled \in IF part = "command" THEN BOOLEAN ELSE {FALSE}
  /\ CommandInit

ProcessNext ==
  /\ UNCHANGED part
  /\ \/ part = "archive" /\ Next /\ UNCHANGED <<groupVars, cmdVars>>
     \/ part = "group" /\ GroupNext /\ UNCHANGED <<vars, cmdVars>>
     \/ part = "command" /\ CommandNext /\ UNCHANGED <<vars, groupVars>>

ProcessSpec == ProcessInit /\ [][ProcessNext]_<<part, vars, groupVars, cmdVars>>

\* The fairness of each part (Fairness, GroupFairness, CommandSpec), while it is
\* the one that runs.
GroupRuns(A) == part = "group" /\ A
CommandRuns(A) == part = "command" /\ A

FairProcesses ==
  /\ ProcessSpec
  /\ Fairness
  /\ WF_groupVars(GroupRuns(Script))
  /\ \A t \in Task :
       /\ WF_groupVars(GroupRuns(SeesEnd(t)))
       /\ WF_groupVars(GroupRuns(GroupCompletes(t)))
       /\ WF_groupVars(GroupRuns(t \in groupKilled /\ TreeEnds(t)))
  /\ WF_cmdVars(CommandRuns(StartStep))
  /\ WF_cmdVars(CommandRuns(WaitStep))
  /\ WF_cmdVars(CommandRuns(WatchStep))
  /\ WF_cmdVars(CommandRuns(ReadStep))

Symmetry == Permutations(Attempt) \cup Permutations(Task)
=============================================================================
