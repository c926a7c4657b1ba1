------------------------------- MODULE MCSettled -------------------------------
(* What was asked for comes to its end, in one run of four worlds: a request *)
(* given to a runner, whose links break and whose owner cancels; a search on  *)
(* this host that is paused, resumed and stopped through crashes; a tab that  *)
(* writes and reads what others change; and a practice game.  Each has the    *)
(* fairness its own module states.                                            *)
EXTENDS RunnerGateway

CONSTANTS e4, d4, c1, w1, NoGame

VARIABLES
  world,
  \* LocalSearches
  row, said, feed, calls, out, back, due, verbs, run, svc, restarts, parked, quits, closers,
  alive,
  \* BrowserEvents
  server, shown, fetch, got, news, eventsSocket, pending, deferred, flushTimer, coolTimer,
  cool, write, subject, expected, echoes, changes, drops,
  \* PracticeGame
  cursor, branch, kept, pinned, pins, game, attempt, failure, ask, asks, begins

engineVars == <<parked, quits, closers, alive>>
searchVars == <<row, said, feed, calls, out, back, due, verbs, run, svc, restarts, engineVars>>
eventVars == <<server, shown, fetch, got, news, eventsSocket, pending, deferred, flushTimer,
               coolTimer, cool, write, subject, expected, echoes, changes, drops>>
lineVars == <<cursor, branch, kept, pinned, pins, game, attempt, failure, ask, asks, begins>>

Local == INSTANCE LocalSearches WITH Searches <- {1}, Slots <- 1, MaxVerbs <- 4,
  MaxRestarts <- 1, Faults <- {"crash", "shutdown", "trouble", "engine", "limit"}
Events == INSTANCE BrowserEvents WITH feed <- news, socket <- eventsSocket, held <- echoes,
  Collections <- {c1}, Writes <- {w1}, MaxChanges <- 1, MaxDrops <- 0,
  Faults <- {"fails"}
Game == INSTANCE PracticeGame WITH out <- asks, None <- NoGame, Plies <- 0, Moves <- {e4, d4},
  Offers <- {<<e4, d4>>}, MaxLine <- 2, MaxKept <- 1, MaxPins <- 0, MaxBegins <- 1,
  MaxRetries <- 0, Faults <- {"fails"}

(* The constants of each instance are what its module assumes.             *)
ASSUME InstancesAssumption ==
  /\ Local!SlotsAssumption /\ Local!SearchRowsAssumption
  /\ Events!EventsAssumption /\ Game!PracticeAssumption

WorldsInit ==
  /\ world \in {"gateway", "search", "events", "game"}
  /\ Init /\ Local!Init /\ Events!Init /\ Game!Init
  /\ world # "events" =>
       \A w \in DOMAIN subject : subject[w] = [about |-> "collection", id |-> c1, membership |-> TRUE]

WorldsNext ==
  /\ UNCHANGED world
  /\ \/ world = "gateway" /\ Next /\ UNCHANGED <<searchVars, eventVars, lineVars>>
     \/ world = "search" /\ Local!Next /\ UNCHANGED <<vars, eventVars, lineVars>>
     \/ world = "events" /\ Events!Next /\ UNCHANGED <<vars, searchVars, lineVars>>
     \/ world = "game" /\ Game!Next /\ UNCHANGED <<vars, searchVars, eventVars>>

\* RunnerGateway, LocalSearches, BrowserEvents and PracticeGame's FairSpec.
InGateway(A) == world = "gateway" /\ A
InSearch(A) == world = "search" /\ A

WorldsFair ==
  /\ \A l \in Link :
       /\ WF_vars(InGateway(Route(l))) /\ WF_vars(InGateway(HandsBack(l)))
       /\ SF_vars(InGateway(PumpClaims(l))) /\ WF_vars(InGateway(PumpGoesOn(l)))
       /\ WF_vars(InGateway(Dial(l)))
  /\ \A i \in RunId :
       /\ WF_vars(InGateway(Cancelled(i))) /\ WF_vars(InGateway(Report(i)))
       /\ WF_vars(InGateway(GoQuiet(i)))
       /\ WF_vars(InGateway(~Stray(i) /\ \E ends \in Ends : JobEnds(i, ends)))
  /\ WF_vars(InGateway(\E c \in db : CallRuns(c)))
  /\ WF_vars(InGateway(\E a \in preempts : Preempted(a)))
  /\ WF_vars(InGateway(\E r \in releases : SweepReleases(r)))
  /\ WF_vars(InGateway(Sweep)) /\ WF_vars(InGateway(ReleaseSlot))
  /\ WF_vars(InGateway(HangUp)) /\ WF_vars(InGateway(Hear))
  /\ WF_searchVars(InSearch(Local!Hub(1) /\ UNCHANGED <<run, engineVars>>))
  /\ WF_searchVars(InSearch(Local!React(1))) /\ WF_searchVars(InSearch(Local!QuitParked(1)))
  /\ WF_searchVars(InSearch(Local!Closed(1)))
  /\ WF_searchVars(InSearch(
       \/ Local!Begin(1) \/ Local!GotContext(1) \/ Local!GotState(1) \/ Local!Marked(1)
       \/ Local!At(1, "searching") /\ run[1].stop = "set" /\ Local!EngineStops(1)
       \/ Local!Flushed(1) \/ Local!OwnClosed(1) \/ Local!Parked(1) \/ Local!Finished(1)
       \/ Local!End(1)))
  /\ SF_searchVars(InSearch(Local!TakeSlot(1)))
  /\ WF_searchVars(InSearch(Local!ShutDown)) /\ WF_searchVars(InSearch(Local!Boot))
  /\ WF_eventVars(world = "events" /\ Events!FlushRings)
  /\ WF_eventVars(world = "events" /\ Events!CoolRings)
  /\ WF_eventVars(world = "events" /\ Events!Receives)
  /\ WF_eventVars(world = "events" /\ Events!Connects)
  /\ WF_eventVars(world = "events" /\ Events!Expires)
  /\ \A k \in {"collections", "games"} : WF_eventVars(world = "events" /\ Events!Cools(k))
  /\ WF_eventVars(world = "events" /\ Events!WriteLands(w1))
  /\ WF_eventVars(world = "events" /\ Events!WriteAnswers(w1))
  /\ \A q \in {"collections", "games", "row"} :
       /\ WF_eventVars(world = "events" /\ Events!ServerReads(q))
       /\ WF_eventVars(world = "events" /\ Events!FetchEnds(q))
  /\ \A wants \in BOOLEAN :
       WF_lineVars(world = "game" /\ \E o \in asks : o.wanted = wants /\ Game!Answered(o))

Worlds ==
  WorldsInit /\ [][WorldsNext]_<<world, vars, searchVars, eventVars, lineVars>> /\ WorldsFair
-----------------------------------------------------------------------------
(* Every request is settled or withdrawn, whatever links broke under it    *)
(* (claim_run, complete_run, fail_run, requeue_stale).                     *)
RequestsSettle == world = "gateway" => RunsSettle

(* Nothing of an attempt that is over stays behind: its slot comes free,   *)
(* and the runner is told to stop it (onProgress, _release, _dispatch).    *)
NothingLingers ==
  /\ world = "gateway" => SlotsComeFree
  /\ world = "gateway" => StraysStop

(* A pause gives its slot back, a stop ends the task, and a search that is *)
(* queued leaves the queue (`_react`, `_park`, `_serve`).                  *)
SearchesObey ==
  /\ world = "search" => Local!PauseFreesTheSlot
  /\ world = "search" => Local!StopEndsTheTask
  /\ world = "search" => Local!QueuedLeavesTheQueue

(* The screen catches up with the server (EventsProvider).                 *)
ScreenCatchesUp == world = "events" => Events!ScreenCatchesUp

(* The computer is heard from, with a move or with why not (usePractice).  *)
ReplyComes == world = "game" => Game!ReplyComes
=============================================================================
