----------------------- MODULE MCCorrespondenceTasks -----------------------
(* Four worlds in one run: a short line and everything but a crash; one    *)
(* whose nodes are excluded and taken back; an expansion two moves wide;   *)
(* and a line whose clear, enqueue and second commits other calls and      *)
(* crashes come between.                                                   *)
EXTENDS CorrespondenceTasks

VARIABLE world

Calm == INSTANCE CorrespondenceTasks WITH MaxNodes <- 2, MaxSearches <- 2, MaxAttempts <- 2,
  Marks <- {}, Faults <- {"abandon", "clear", "delete"}
Marked == INSTANCE CorrespondenceTasks WITH MaxNodes <- 2, MaxSearches <- 2,
  Marks <- {"excluded"}, Faults <- {"clear", "delete"}
Wide == INSTANCE CorrespondenceTasks WITH Token <- {1}, Marks <- {}, Faults <- {}
Rough == INSTANCE CorrespondenceTasks WITH MaxNodes <- 2, MaxSearches <- 2, Marks <- {},
  Faults <- {"clear", "gap", "crash"}

WorldsInit ==
  \/ world = "calm" /\ Calm!Init
  \/ world = "marked" /\ Marked!Init
  \/ world = "wide" /\ Wide!Init
  \/ world = "rough" /\ Rough!Init

WorldsNext ==
  /\ UNCHANGED world
  /\ \/ world = "calm" /\ Calm!Next
     \/ world = "marked" /\ Marked!Next
     \/ world = "wide" /\ Wide!Next
     \/ world = "rough" /\ Rough!Next
  /\ world # "wide" => asked' <= 2   \* bound: requests, but where one expands to two

Worlds == WorldsInit /\ [][WorldsNext]_<<vars, world>>

-----------------------------------------------------------------------------

(* The two tables agree: a live task has a run or is owed word, a running  *)
(* one has a worker at it or is owed word, and a live run has a live task; *)
(* unless a second commit is lost, or something comes between two          *)
(* statements of one call.                                                 *)
TablesAgreeInWorlds ==
  CASE world = "calm" -> Calm!TypeOK /\ Calm!TablesAgree
    [] world = "marked" -> Marked!TypeOK /\ Marked!TablesAgree
    [] world = "wide" -> Wide!TypeOK /\ Wide!TablesAgree
    [] world = "rough" -> Rough!TypeOK

(* At most one live task on a node, likewise.                              *)
OneLiveTaskPerNodeInWorlds ==
  CASE world = "calm" -> Calm!OneLiveTaskPerNode
    [] world = "marked" -> Marked!OneLiveTaskPerNode
    [] world = "wide" -> Wide!OneLiveTaskPerNode
    [] world = "rough" -> TRUE

(* What has ended stays ended, whatever is still to come of it; and a      *)
(* finished game's tree takes nothing more, but where something comes      *)
(* between two statements of one call.                                     *)
EndedStaysEndedInWorlds ==
  [][/\ \A k \in DOMAIN searches : searches[k].status \in TerminalStates =>
          searches'[k].status \in {searches[k].status, "absent"}
     /\ world # "rough" /\ ~open =>
          tree' \subseteq tree /\ \A k \in DOMAIN searches : Live(k)' => Live(k)]_vars
=============================================================================
