-------------------------------- MODULE MCWeb --------------------------------
(* The web client in one run, a world for each of its parts and faults: a   *)
(* browser tab as a runner, whose links are lost or whose engine dies and    *)
(* whose start is refused; a board and the sessions it opens, with another   *)
(* window on the same surface, or with a socket that is lost; a tab that     *)
(* writes and reads what others change, its socket lost and denied, or that  *)
(* writes twice; and a line that is walked, kept and pinned, or practised.   *)
EXTENDS Naturals, Sequences

CONSTANTS a, b, e4, d4, r1, b1, m1, c1, w1, w2, None

VARIABLES
  world,
  \* BrowserRunner
  phase, socket, welcomed, booting, closing, retry, engine, runs, left, stream, board, queue,
  go, down, up, said, slot, owed, held, tries, newest, links, presses, wanted,
  \* BoardSession
  sess, opening, lock, search, searched, picture, ends, calls, answers, feed, listening,
  enabled, pagePhase, fen, lines, idRef, gen, alive, serverFen, sentFen, sentLines, epoch,
  timer, frame, moves, clicks,
  \* BrowserEvents
  server, shown, fetch, got, news, eventsSocket, pending, deferred, flushTimer, coolTimer,
  cool, write, subject, expected, echoes, changes, drops,
  \* PracticeGame
  cursor, branch, kept, pinned, pins, game, attempt, failure, ask, out, begins

tabVars == <<phase, socket, welcomed, booting, closing, retry, engine, runs, left, stream,
             board, queue, go, down, up, said, slot, owed, held, tries, newest, links, presses,
             wanted>>
boardVars == <<sess, opening, lock, search, searched, picture, ends, calls, answers, feed,
               listening, enabled, pagePhase, fen, lines, idRef, gen, alive, serverFen,
               sentFen, sentLines, epoch, timer, frame, moves, clicks>>
eventVars == <<server, shown, fetch, got, news, eventsSocket, pending, deferred, flushTimer,
               coolTimer, cool, write, subject, expected, echoes, changes, drops>>
lineVars == <<cursor, branch, kept, pinned, pins, game, attempt, failure, ask, out, begins>>
vars == <<world, tabVars, boardVars, eventVars, lineVars>>

Tab == INSTANCE BrowserRunner WITH Runs <- {r1}, Boards <- {b1}, Moves <- {m1},
  Positions <- 2, MaxTries <- 2, MaxLinks <- 2, MaxTurns <- 1, MaxPresses <- 1,
  Faults <- {"drop"}
Ill == INSTANCE BrowserRunner WITH Runs <- {r1}, Boards <- {b1}, Moves <- {m1},
  Positions <- 1, MaxTries <- 2, MaxLinks <- 2, MaxTurns <- 0, MaxPresses <- 1,
  Faults <- {"trap", "refuse", "boot"}
Press == INSTANCE BrowserRunner WITH Runs <- {r1}, Boards <- {b1}, Moves <- {m1},
  Positions <- 1, MaxTries <- 2, MaxLinks <- 3, MaxTurns <- 0, MaxPresses <- 3,
  Faults <- {"drop", "boot", "refuse"}
Page == INSTANCE BoardSession WITH phase <- pagePhase, Fens <- {a, b}, MaxSessions <- 1,
  MaxOpens <- 1, MaxRivals <- 1, MaxMoves <- 2, MaxClicks <- 1, Faults <- {"fails", "ends"}
Again == INSTANCE BoardSession WITH phase <- pagePhase, Fens <- {a, b}, MaxSessions <- 2,
  MaxOpens <- 2, MaxRivals <- 0, MaxMoves <- 1, MaxClicks <- 2, Faults <- {"ends", "drop"}
Events == INSTANCE BrowserEvents WITH feed <- news, socket <- eventsSocket, held <- echoes,
  Collections <- {c1}, Writes <- {w1, w2}, MaxChanges <- 1, MaxDrops <- 1,
  Faults <- {"fails", "nothing", "denied"}
Twice == INSTANCE BrowserEvents WITH feed <- news, socket <- eventsSocket, held <- echoes,
  Collections <- {c1}, Writes <- {w1, w2}, MaxChanges <- 0, MaxDrops <- 0,
  Faults <- {"nothing"}
Walk == INSTANCE PracticeGame WITH Plies <- 1, Moves <- {e4, d4}, Offers <- {<<e4, d4>>},
  MaxLine <- 2, MaxKept <- 2, MaxPins <- 0, MaxBegins <- 0, MaxRetries <- 0, Faults <- {}
Pin == INSTANCE PracticeGame WITH Plies <- 0, Moves <- {e4, d4}, Offers <- {<<e4, d4>>},
  MaxLine <- 2, MaxKept <- 1, MaxPins <- 1, MaxBegins <- 0, MaxRetries <- 0, Faults <- {}
Game == INSTANCE PracticeGame WITH Plies <- 0, Moves <- {e4, d4}, Offers <- {<<e4, d4>>},
  MaxLine <- 3, MaxKept <- 1, MaxPins <- 0, MaxBegins <- 1, MaxRetries <- 0,
  Faults <- {}
Ask == INSTANCE PracticeGame WITH Plies <- 0, Moves <- {e4, d4}, Offers <- {<<e4, d4>>},
  MaxLine <- 2, MaxKept <- 1, MaxPins <- 0, MaxBegins <- 1, MaxRetries <- 1,
  Faults <- {"fails"}

(* The constants of each instance are what its module assumes.             *)
ASSUME InstancesAssumption ==
  /\ Tab!TabAssumption /\ Ill!TabAssumption /\ Press!TabAssumption
  /\ Page!PageAssumption /\ Again!PageAssumption
  /\ Events!EventsAssumption /\ Twice!EventsAssumption
  /\ Walk!PracticeAssumption /\ Pin!PracticeAssumption
  /\ Game!PracticeAssumption /\ Ask!PracticeAssumption

TabWorlds == {"tab", "ill", "press"}
BoardWorlds == {"page", "again"}
EventWorlds == {"events", "twice"}
LineWorlds == {"walk", "pin", "game", "ask"}

WorldsInit ==
  /\ world \in TabWorlds \cup BoardWorlds \cup EventWorlds \cup LineWorlds
  /\ Tab!Init /\ Page!Init /\ Events!Init
  /\ IF world = "walk" THEN Walk!Init ELSE Game!Init
  /\ world \notin BoardWorlds => fen = a
  /\ world = "events" =>
       subject[w2] = [about |-> "collection", id |-> c1, membership |-> TRUE]
  /\ world \notin EventWorlds =>
       \A w \in DOMAIN subject : subject[w] = [about |-> "collection", id |-> c1, membership |-> TRUE]

WorldsNext ==
  /\ UNCHANGED world
  /\ \/ /\ \/ world = "tab" /\ Tab!Next
           \/ world = "ill" /\ Ill!Next
           \/ world = "press" /\ Press!Next
        /\ world = "tab" => newest'[m1] = 0   \* bound: practice moves
        /\ world = "press" => tries'[r1] = 0 /\ newest'[b1] = 0 /\ newest'[m1] = 0   \* bound: jobs
        /\ UNCHANGED <<boardVars, eventVars, lineVars>>
     \/ /\ \/ world = "page" /\ Page!Next
           \/ world = "again" /\ Again!Next
        /\ UNCHANGED <<tabVars, eventVars, lineVars>>
     \/ /\ \/ world = "events" /\ Events!Next
           \/ world = "twice" /\ Twice!Next
        /\ world = "events" => write'[w2] = "idle"   \* bound: writes
        /\ UNCHANGED <<tabVars, boardVars, lineVars>>
     \/ /\ \/ world = "walk" /\ Walk!Next
           \/ world = "pin" /\ Pin!Next
           \/ world = "game" /\ Game!Next
           \/ world = "ask" /\ Ask!Next
        /\ UNCHANGED <<tabVars, boardVars, eventVars>>

Worlds == WorldsInit /\ [][WorldsNext]_vars
-----------------------------------------------------------------------------
InTab(P) == world \in TabWorlds => P
InBoard(P) == world \in BoardWorlds => P
InEvents(P) == world \in EventWorlds => P
InLine(P) == world \in LineWorlds => P

(* The page says of the link what is so, and who pressed Start last has a  *)
(* tab that is trying, unless it was refused (BrowserRunnerState.phase).   *)
LinkIsHonest == InTab(Tab!TypeOK /\ Tab!PhaseIsHonest /\ Tab!StartIsHonoured)

(* Whatever the server counts on the tab's slot is worked on, or the frame *)
(* that starts or ends it is on its way; nothing is searched that the      *)
(* server has forgotten and will not call off, whatever the links did; a   *)
(* stop ends the search it was meant for; and a board is searched at the   *)
(* position last asked for (openStream, onDispatch, onClose, Driver.stop). *)
EngineIsAccountedFor ==
  InTab(/\ Tab!SlotIsServed /\ Tab!WorkIsCounted
        /\ Tab!StopIsAimed /\ Tab!NewestIsSearched)

(* Nothing is said of a run, a board or a move after its last word.        *)
LastWordIsLast == [][InTab(Tab!NoWordIsTakenBack)]_vars

(* One board per surface and a search only behind a board on the books;    *)
(* no board of the page's is left open that it neither shows nor closes,   *)
(* and one that is gone on the server is on its way out of the page; and   *)
(* the lines shown under a position are that position's own.               *)
BoardsAreKept ==
  CASE world = "page" -> Page!TypeOK /\ Page!BoardsAreKept
    [] world = "again" -> Again!TypeOK /\ Again!BoardsAreKept
    [] OTHER -> TRUE

(* A screen behind the server has something on its way to bring it up, and *)
(* what is to be read again has a timer that will see to it.               *)
NewsIsNotLost ==
  InEvents(Events!TypeOK /\ Events!NewsIsNotLost /\ Events!HeldKeysHaveATimer)

(* An expensive read the server has begun is not sent again but for a lost *)
(* socket (holdBehindFetch).                                               *)
CooledFetchRunsToItsEnd == [][InEvents(Events!NoCooledFetchStartsOver)]_vars

(* Of the lines off the game: the move list draws each once; while the     *)
(* computer is thinking it has been asked; a walked line is on the board,  *)
(* kept or pinned, unless it is taken back, unpinned or the oldest of too  *)
(* many; the computer's move is the one this game asked for, on its own    *)
(* turn; and a take-back leaves the reader to move, or the line practice   *)
(* found (variationRows, keepBranch, usePractice, takeBackLength).         *)
LinesHold ==
  /\ [][/\ world = "walk" => Walk!LineIsHeldOn
        /\ world = "pin" => Pin!LineIsHeldOn
        /\ world = "game" => Game!LineIsHeldOn /\ Game!ReplyIsExpected /\ Game!TakenBackToAMove
        /\ world = "ask" => Ask!LineIsHeldOn /\ Ask!ReplyIsExpected /\ Ask!TakenBackToAMove]_vars
  /\ [](CASE world = "walk" -> Walk!TypeOK /\ Walk!RowsAreDistinct
          [] world = "pin" -> Pin!TypeOK /\ Pin!RowsAreDistinct
          [] world = "game" -> Game!TypeOK /\ Game!RowsAreDistinct /\ Game!ThinkingIsAsked
          [] world = "ask" -> Ask!TypeOK /\ Ask!RowsAreDistinct /\ Ask!ThinkingIsAsked
          [] OTHER -> TRUE)
=============================================================================
