------------------------------- MODULE MCLocal -------------------------------
(* The pool of the server's own host, in one run of two worlds: one whose    *)
(* callers fail, are cancelled and take processes away while its cap moves,  *)
(* and one whose reaper closes what rests.                                   *)
EXTENDS EnginePool

CONSTANTS k1, k2, k3, x, h1, h2, h3

VARIABLE world

TwoProcesses == [e \in {x} |-> 2]
Alike == Permutations({k1, k2, k3}) \cup Permutations({h1, h2, h3})

Rested == INSTANCE EnginePool WITH FirstCap <- 3, Faults <- {"reap", "resize"}

WorldsInit ==
  \/ world = "hurried" /\ Init
  \/ world = "rested" /\ Rested!Init

WorldsNext ==
  /\ UNCHANGED world
  /\ \/ world = "hurried" /\ Next
     \/ world = "rested" /\ Rested!Next

Worlds == WorldsInit /\ [][WorldsNext]_<<world, vars>>
-----------------------------------------------------------------------------
(* An engine that allows itself two processes never has three (_take_slot), *)
(* and a process nobody drives is in its group, where the reaper and close() *)
(* find it; one that another holder detached meanwhile is not.             *)
ProcessesHold ==
  /\ TypeOK /\ InstancesHold
  /\ world = "rested" => EveryProcessIsKept
=============================================================================
