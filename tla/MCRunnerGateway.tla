-------------------------- MODULE MCRunnerGateway --------------------------
(* Five small worlds in one run, each with the faults it is about: boards  *)
(* and broken links; every way a link or the process can go; cancelled     *)
(* runs whose ids come again; two rows on two slots; and database calls    *)
(* that come between each other's reads and writes.                        *)
EXTENDS RunnerGateway

VARIABLE world

Boards == INSTANCE RunnerGateway WITH MaxBoards <- 1, Token <- {1, 2},
  Faults <- {"break"}
Links == INSTANCE RunnerGateway WITH MaxBoards <- 0,
  Faults <- {"break", "overlap", "deaf", "slow", "cancel", "restart"}
Ids == INSTANCE RunnerGateway WITH MaxLinks <- 1, MaxBoards <- 0,
  Faults <- {"cancel", "reuse"}
Rows == INSTANCE RunnerGateway WITH MaxLinks <- 1, MaxBoards <- 0, Slots <- 2,
  Faults <- {"cancel"}
Gaps == INSTANCE RunnerGateway WITH MaxLinks <- 1, MaxBoards <- 0, MaxAttempts <- 2,
  Faults <- {"cancel", "gap"}

WorldsInit ==
  \/ world = "boards" /\ Boards!Init
  \/ world = "links" /\ Links!Init
  \/ world = "ids" /\ Ids!Init
  \/ world = "rows" /\ Rows!Init
  \/ world = "gaps" /\ Gaps!Init

WorldsNext ==
  /\ UNCHANGED world
  /\ \/ world = "boards" /\ Boards!Next
     \/ world = "links" /\ Links!Next
     \/ world = "ids" /\ Ids!Next
     \/ world = "rows" /\ Rows!Next
     \/ world = "gaps" /\ Gaps!Next
  /\ world \notin {"ids", "rows"} => asked' <= 1   \* bound: requests, but where they meet

Worlds == WorldsInit /\ [][WorldsNext]_<<vars, world>>

-----------------------------------------------------------------------------
(* The properties of RunnerGateway, in the worlds they are promised in.    *)

(* No link holds more than the runner has slots for, whoever fills them:   *)
(* runs, boards or what a claim comes back with.  The board's world has    *)
(* one request: with two, a runner that lost its link may come back at the *)
(* run a board pushed off and at the one that was given its slot.          *)
SlotsHoldInWorlds ==
  CASE world = "boards" -> Boards!TypeOK /\ Boards!SlotsHold
    [] world = "links" -> Links!TypeOK /\ Links!SlotsHold
    [] world = "ids" -> Ids!TypeOK /\ Ids!SlotsHold
    [] world = "rows" -> Rows!TypeOK /\ Rows!SlotsHold
    [] world = "gaps" -> Gaps!TypeOK /\ Gaps!SlotsHold

(* A runner that is served is one the app lists; and no attempt falls out   *)
(* of the gateway's hands, unless attaches overlap, the process dies or a  *)
(* cancel takes the next run of its id.                                    *)
NothingIsDropped ==
  /\ ServedIsListed
  /\ CASE world = "boards" -> Boards!RunningIsInHand
       [] world = "rows" -> Rows!RunningIsInHand
       [] world = "gaps" -> Gaps!RunningIsInHand
       [] world \in {"links", "ids"} -> TRUE

(* No cancel under way stops the attempt that holds its run's slot, unless *)
(* a board preempted the one before.                                       *)
CancelSparesHeldInWorlds ==
  CASE world = "links" -> Links!CancelSparesHeld
    [] world = "ids" -> Ids!CancelSparesHeld
    [] world = "rows" -> Rows!CancelSparesHeld
    [] world = "gaps" -> Gaps!CancelSparesHeld
    [] world = "boards" -> TRUE

(* A finished run stays finished, unless calls come between each other's   *)
(* reads and writes.                                                       *)
DoneIsFinalInWorlds ==
  [][world # "gaps" => \A i \in DOMAIN runs : runs[i].status = "done" => runs'[i].status = "done"]_vars
=============================================================================
