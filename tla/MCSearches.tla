------------------------------ MODULE MCSearches ------------------------------
(* Five worlds in one run.  On this host: one search with every fault, and  *)
(* two searches in line for one slot.  On a runner: one search with links   *)
(* that are lost and a server that restarts; one whose engine fails, whose  *)
(* limit is reached and whose runner is slow to answer; and two in line for *)
(* the one slot of a runner that cannot park, and that comes back before it *)
(* was recorded as gone.                                                    *)
EXTENDS SearchRows

VARIABLES world, parked, quits, closers, alive, kept, link, streams, down, up, sess, links

Here == INSTANCE LocalSearches WITH Slots <- 1, MaxVerbs <- 5,
  Faults <- {"crash", "shutdown", "trouble", "engine", "ends", "limit"}
Line == INSTANCE LocalSearches WITH Slots <- 1, MaxVerbs <- 3, MaxRestarts <- 0,
  Faults <- {"limit"}
There == INSTANCE RemoteSearches WITH RunnerSlots <- 1, WarmPause <- TRUE, MaxVerbs <- 4,
  MaxLinks <- 1, Faults <- {"link", "crash", "shutdown", "trouble"}
Rough == INSTANCE RemoteSearches WITH RunnerSlots <- 1, WarmPause <- TRUE, MaxVerbs <- 3,
  MaxLinks <- 1, Faults <- {"link", "engine", "limit", "slow"}
Cold == INSTANCE RemoteSearches WITH RunnerSlots <- 1, WarmPause <- FALSE, MaxVerbs <- 2,
  MaxLinks <- 1, MaxRestarts <- 0, Faults <- {"link", "early"}

(* The constants of each instance are what its module assumes.             *)
ASSUME InstancesAssumption ==
  /\ Here!SlotsAssumption /\ Line!SlotsAssumption
  /\ There!RunnerSlotsAssumption /\ Rough!RunnerSlotsAssumption /\ Cold!RunnerSlotsAssumption

hereVars == <<parked, quits, closers, alive>>
thereVars == <<kept, link, streams, down, up, sess, links>>

WorldsInit ==
  /\ Here!Init /\ There!Init
  /\ world \in {"here", "line", "there", "rough", "cold"}

WorldsNext ==
  /\ UNCHANGED world
  /\ \/ world = "here" /\ Here!Next /\ UNCHANGED thereVars
     \/ world = "line" /\ Line!Next /\ UNCHANGED thereVars
     \/ world = "there" /\ There!Next /\ UNCHANGED hereVars
     \/ world = "rough" /\ Rough!Next /\ UNCHANGED hereVars
     \/ world = "cold" /\ Cold!Next /\ UNCHANGED hereVars
  /\ world = "line" => verbs'[1] + verbs'[2] <= 4   \* bound: verbs
  /\ world \notin {"line", "cold"} => verbs'[2] = 0   \* bound: one search

Worlds == WorldsInit /\ [][WorldsNext]_<<rowVars, run, hereVars, thereVars, world>>

IsHere == world \in {"here", "line"}
-----------------------------------------------------------------------------

(* On this host every engine process outside the pool has exactly one      *)
(* owner (`_serve`'s held process, _park, _quit_parked, `finally`), and a  *)
(* slot, of the pool or of the runner's link, is held exactly by a stretch *)
(* that searches: none is leaked by one that ended.                        *)
EnginesAreOwned ==
  IF IsHere THEN Here!TypeOK /\ Here!EveryProcessHasAnOwner /\ Line!SearchingHoldsASlot
  ELSE There!TypeOK /\ Cold!SlotsAreOpenStretches

(* A queued search is never one nobody restarts, and a row that says       *)
(* running has a task behind it (_react, _park, `finally`).                *)
LiveIsDriven ==
  IF IsHere THEN Here!QueuedIsStarted /\ Here!RunningIsDriven
  ELSE There!QueuedIsStarted /\ There!RunningIsDriven

(* A stretch that is open is one the runner is told of, is serving or has  *)
(* answered for (_runner_event, _remote_wait), unless a lost link was never *)
(* announced; and a live search's session on the runner is known to the    *)
(* server, while no second frame of an ended session and no lapsed grace   *)
(* confuses them.                                                          *)
RunnerAgrees ==
  /\ IsHere \/ world = "cold" \/ There!StretchIsServed
  /\ world = "there" => There!SessionIsKnown
=============================================================================
