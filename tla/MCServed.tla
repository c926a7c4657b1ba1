------------------------------- MODULE MCServed --------------------------------
(* Whoever waits for an engine is served or told, in one run of four worlds: *)
(* the tasks of a correspondence tree, while the queue is cleared; callers of *)
(* one engine whose pool is resized; a tab whose links are lost or whose      *)
(* engine says no more; and a board whose opens fail and whose searches end.  *)
(* Each has the fairness its own module states.                               *)
EXTENDS Sequences, CorrespondenceTasks

CONSTANTS k1, k2, k3, e1, h1, h2, h3, Nobody, Reaper, Withdrawer, Unset, NoSlot, a, b, r1, b1,
          m1, None

VARIABLES
  world,
  \* EnginePool
  cap, permits, inLine, admitted, shrink, at, slots, free, status, spec, warm, holder, lockq,
  reaper,
  \* BrowserRunner
  phase, socket, welcomed, booting, closing, retry, engine, tabRuns, left, stream, board, queue,
  go, down, up, said, slot, owed, counted, tries, newest, links, presses, wanted,
  \* BoardSession
  sess, opening, lock, search, searched, picture, ends, requests, answers, feed, listening,
  enabled, pagePhase, fen, lines, idRef, gen, alive, serverFen, sentFen, sentLines, epoch,
  timer, frame, moves, clicks

poolVars == <<cap, permits, inLine, admitted, shrink, at, slots, free, status, spec, warm,
              holder, lockq, reaper>>
tabVars == <<phase, socket, welcomed, booting, closing, retry, engine, tabRuns, left, stream,
             board, queue, go, down, up, said, slot, owed, counted, tries, newest, links, presses,
             wanted>>
pageVars == <<enabled, pagePhase, fen, lines, idRef, gen, alive, serverFen, sentFen,
              sentLines, epoch, timer, frame, moves, clicks>>
boardVars == <<sess, opening, lock, search, searched, picture, ends, requests, answers, feed,
               listening, pageVars>>

OneProcess == [e \in {e1} |-> 1]

Pool == INSTANCE EnginePool WITH line <- inLine, Caller <- {k1, k2, k3}, Engine <- {e1},
  Slot <- {h1, h2, h3}, NoEngine <- Unset, FirstCap <- 3, MaxCap <- 3, Instances <- OneProcess,
  Faults <- {"raise", "cancel", "resize"}
Tab == INSTANCE BrowserRunner WITH runs <- tabRuns, held <- counted, Runs <- {r1},
  Boards <- {b1}, Moves <- {m1}, Positions <- 1, MaxTries <- 1, MaxLinks <- 2, MaxTurns <- 1, MaxPresses <- 1,
  Faults <- {"drop", "hang"}
Page == INSTANCE BoardSession WITH phase <- pagePhase, calls <- requests,
  Fens <- {a, b}, MaxSessions <- 1, MaxOpens <- 1, MaxRivals <- 0, MaxMoves <- 2, MaxClicks <- 1, Faults <- {"fails", "ends"}

(* The constants of each instance are what its module assumes.             *)
ASSUME InstancesAssumption ==
  /\ Pool!PoolAssumption /\ Tab!TabAssumption /\ Page!PageAssumption

WorldsInit ==
  /\ world \in {"tasks", "pool", "tab", "page"}
  /\ Init /\ Pool!Init /\ Tab!Init /\ Page!Init
  /\ world # "page" => fen = a

WorldsNext ==
  /\ UNCHANGED world
  /\ \/ world = "tasks" /\ Next /\ UNCHANGED <<poolVars, tabVars, boardVars>>
     \/ world = "pool" /\ Pool!Next /\ UNCHANGED <<vars, tabVars, boardVars>>
     \/ /\ world = "tab" /\ Tab!Next
        /\ newest'[m1] = 0   \* bound: practice moves
        /\ UNCHANGED <<vars, poolVars, boardVars>>
     \/ world = "page" /\ Page!Next /\ UNCHANGED <<vars, poolVars, tabVars>>

\* CorrespondenceTasks, EnginePool, BrowserRunner and BoardSession's FairSpec.
InPool(A) == world = "pool" /\ A
InTasks(A) == world = "tasks" /\ A

WorldsFair ==
  /\ WF_vars(InTasks(Claim)) /\ WF_vars(InTasks(Sweep)) /\ WF_vars(InTasks(ReleaseTasks))
  /\ WF_vars(InTasks(ClearDeletes /\ clearing.stage = "selected"))
  /\ WF_vars(InTasks(ClearGivesUp))
  /\ \A i \in RunId :
       /\ WF_vars(InTasks(\E w \in held : w.run = i /\ Ends(w))) /\ WF_vars(InTasks(GoQuiet(i)))
  /\ \A n \in SearchId \cup {NoSearch} :
       WF_vars(InTasks(\E c \in calls : c.search = n /\ Returns(c)))
  /\ \A k \in {k1, k2, k3} :
       /\ WF_poolVars(InPool(Pool!Admit(k))) /\ WF_poolVars(InPool(Pool!LockSlot(k)))
       /\ WF_poolVars(InPool(Pool!Start(k))) /\ WF_poolVars(InPool(Pool!Finish(k)))
       /\ WF_poolVars(InPool(Pool!Drop(k)))
  /\ WF_poolVars(InPool(Pool!Withdraw)) /\ WF_poolVars(InPool(Pool!WithdrawWoken))
  /\ WF_tabVars(world = "tab" /\ (Tab!Booted \/ Tab!RetryRings \/ Tab!Announce))
  /\ WF_tabVars(world = "tab" /\ Tab!Receives)
  /\ WF_tabVars(world = "tab" /\ Tab!Searches)
  /\ WF_tabVars(world = "tab" /\ Tab!BestMove /\ (go = "stopped" \/ Head(queue) # b1))
  /\ WF_tabVars(world = "tab" /\ Tab!WaitRings(b1))
  /\ WF_tabVars(world = "tab" /\ Tab!Coalesced(b1))
  /\ WF_tabVars(world = "tab" /\ (Tab!ServerWelcomes \/ Tab!Hears))
  /\ WF_boardVars(world = "page" /\ Page!Serves /\ UNCHANGED pageVars)
  /\ WF_boardVars(world = "page" /\ Page!Hears)
  /\ WF_boardVars(world = "page" /\ Page!HearsFrame)
  /\ WF_boardVars(world = "page" /\ Page!DebounceRings)
  /\ WF_boardVars(world = "page" /\ Page!SocketReturns)
  /\ WF_boardVars(world = "page" /\ Page!Turns(1) /\ UNCHANGED pageVars)

Worlds ==
  WorldsInit /\ [][WorldsNext]_<<world, vars, poolVars, tabVars, boardVars>> /\ WorldsFair
-----------------------------------------------------------------------------
(* Every caller in line gets its turn or is cancelled, and a shrink of the *)
(* cap is done with, or called off (acquire, resize, _withdraw).           *)
PoolServesEveryone ==
  /\ world = "pool" => Pool!CallersGetTheirTurn
  /\ world = "pool" => Pool!ShrinksEnd

(* No node keeps its spinner for ever (clear_queue, release_tasks).        *)
SpinnersEnd == world = "tasks" => TasksEnd

(* A board that is opened is answered for, a run that is dispatched is     *)
(* settled or given up, and a lost link is dialled again while the owner   *)
(* wants it (openStream, serveStream, onDispatch, execute, scheduleRetry). *)
TabAnswers == Tab!BoardIsAnswered /\ Tab!RunIsSettled /\ Tab!LinkIsRetried

(* An open is answered one way or the other, and the position shown is     *)
(* searched, unless there is nothing to search it (broker.open, the open   *)
(* effect, applyPatch).                                                    *)
BoardSettles ==
  /\ world = "page" => Page!OpeningEnds
  /\ world = "page" => Page!PositionIsSearched
=============================================================================
