----------------------------- MODULE BrowserRunner -----------------------------
(***************************************************************************)
(* lib/runner/client.ts, engine.ts and plan.ts: one browser tab as a       *)
(* runner, with one WebAssembly engine, one slot and one socket.  Queue    *)
(* runs, analysis boards and practice moves share the engine through       *)
(* Driver's promise chain.  At the other end stands as much of the         *)
(* server's gateway as decides what the tab is told: RunnerGateway.tla is  *)
(* the whole of it.  An action is what one callback does between awaits.   *)
(***************************************************************************)
EXTENDS Naturals, Sequences, SequencesExt, FiniteSets

CONSTANTS Runs,        \* queue runs
          Boards,      \* session ids of analysis boards, each opened once
          Moves,       \* request ids of practice moves
          None,        \* no job, board or move
          Positions,   \* positions of a run's plan
          MaxTries,    \* bound: attempts per run
          MaxLinks,    \* bound: sockets the tab opens
          MaxTurns,    \* bound: position changes per board
          MaxPresses,  \* bound: presses of Start and Stop
          Faults       \* subset of FaultKinds that may happen

FaultKinds == {"drop", "refuse", "boot", "trap", "hang", "again"}

(* What an instance assumes of its constants.                              *)
TabAssumption ==
  /\ {Positions, MaxTries, MaxLinks, MaxTurns, MaxPresses} \subseteq Nat
  /\ Positions > 0 /\ Faults \subseteq FaultKinds
  /\ None \notin Runs \cup Boards \cup Moves

\* One dispatch of a run: the run and its attempt token.
Jobs == Runs \X (1..MaxTries)

VARIABLES
  phase,    \* BrowserRunnerState.phase
  socket,   \* this.socket: "none", "dialing" or "open"
  welcomed, \* this.established
  booting, closing, retry,   \* the fields of those names; retry is the timer
  engine,   \* this.engine: "none", "ready", "hung" or "dead"
  runs,     \* this.runs: the attempt each run is under, 0 for none
  left,     \* positions a job has still to search, 0 when its loop is over
  stream,   \* this.stream: the board that has the slot
  board,    \* each board's StreamSession and the place of its serve loop
  queue,    \* Driver.queue: what waits for the module; its head has it
  go,       \* the head's exchange: "idle", "setup", "going" or "stopped"
  down, up, \* frames to the tab and from it, in order
  said,     \* the last thing the tab said of each job, board and move
  slot,     \* the gateway's count: what it believes is on the one slot
  owed,     \* runs preempted whose run_cancel is not sent yet
  held,     \* the job on the slot when the link was lost
  tries,    \* attempts dispatched of each run
  newest,   \* the position last asked for at each board, 0 before it is open;
            \* of a practice move, whether it was asked for
  links, presses, wanted   \* counters, and the owner's last button

linkVars == <<phase, socket, welcomed, booting, closing, retry, links, presses, wanted>>
tabVars == <<runs, left, stream, board, queue, go, engine>>
serverVars == <<slot, owed, held, tries, newest>>
wire == <<down, up, said>>
vars == <<linkVars, tabVars, serverVars, wire>>

Unopened == [at |-> "unopened", closing |-> FALSE, started |-> FALSE, restart |-> FALSE,
             aborted |-> FALSE, waiting |-> FALSE, fen |-> 1, asked |-> 1]

Init ==
  /\ phase = "off" /\ socket = "none" /\ wanted = "stop"
  /\ welcomed = FALSE /\ booting = FALSE /\ closing = FALSE /\ retry = FALSE
  /\ links = 0 /\ presses = 0 /\ engine = "none"
  /\ runs = [r \in Runs |-> 0] /\ left = [j \in Jobs |-> 0]
  /\ stream = None /\ board = [b \in Boards |-> Unopened]
  /\ queue = <<>> /\ go = "idle" /\ down = <<>> /\ up = <<>>
  /\ said = [x \in Jobs \cup Boards \cup Moves |-> "nothing"]
  /\ slot = None /\ owed = {} /\ held = None
  /\ tries = [r \in Runs |-> 0] /\ newest = [x \in Boards \cup Moves |-> 0]

Live == {<<r, runs[r]>> : r \in {q \in Runs : runs[q] # 0}}
Going(x) == queue # <<>> /\ Head(queue) = x /\ go \in {"going", "stopped"}

-----------------------------------------------------------------------------
(* Frames.  A frame sent with no socket is lost (send returns).             *)

Says(word, x) ==
  /\ said' = [said EXCEPT ![x] = word]
  /\ up' = IF socket = "open" THEN Append(up, <<word, x>>) ELSE up

Silent == UNCHANGED <<up, said>>
Gets(word, x) == down # <<>> /\ Head(down) = <<word, x>>
Got == down' = Tail(down)

-----------------------------------------------------------------------------
(* Giving a board or a run up.  Aborting a board's search stops the engine  *)
(* only while its own `go infinite` is out; abandoning a run stops whatever *)
(* else is (Driver.stop's `wanted`).                                        *)

StopsBoard(b) == IF Going(b) THEN "stopped" ELSE go

\* mutant: a cancelled run stops whatever the engine is searching
StopSearchUnaimed == IF go = "going" THEN "stopped" ELSE go

StopSearch ==
  IF queue # <<>> /\ Head(queue) \notin Boards /\ go = "going" THEN "stopped" ELSE go

Dropped(b) == [board[b] EXCEPT !.closing = TRUE, !.aborted = TRUE, !.waiting = FALSE]

\* closeStream, apart from its answer.
CloseStream(b) ==
  /\ stream' = None
  /\ board' = [board EXCEPT ![b] = Dropped(b)]
  /\ go' = StopsBoard(b)

\* dropStream: nothing to close is not an error.
DropStream ==
  IF stream = None THEN UNCHANGED <<stream, board, go>> ELSE CloseStream(stream)

\* dropStream and abandon every run, with no answers and no engine to stop.
GiveAllUp ==
  /\ runs' = [r \in Runs |-> 0]
  /\ stream' = None
  /\ board' = IF stream = None THEN board ELSE [board EXCEPT ![stream] = Dropped(stream)]

-----------------------------------------------------------------------------
(* The page's buttons, the engine's start and the socket.                   *)

\* mutant: the stop before is not forgotten
ConnectStillClosing ==
  /\ retry' = FALSE /\ UNCHANGED closing
  /\ IF engine # "none"
       THEN /\ socket' = "dialing" /\ phase' = "connecting" /\ welcomed' = FALSE
            /\ links' = links + 1 /\ UNCHANGED booting
       ELSE /\ booting' = TRUE /\ phase' = "starting"
            /\ UNCHANGED <<socket, welcomed, links>>

\* connect() up to the engine's start or the socket.
Connect ==
  /\ closing' = FALSE /\ retry' = FALSE
  /\ IF engine # "none"
       THEN /\ socket' = "dialing" /\ phase' = "connecting" /\ welcomed' = FALSE
            /\ links' = links + 1 /\ UNCHANGED booting
       ELSE /\ booting' = TRUE /\ phase' = "starting"
            /\ UNCHANGED <<socket, welcomed, links>>

Start ==
  /\ presses < MaxPresses /\ presses' = presses + 1 /\ links < MaxLinks
  /\ booting /\ closing => "again" \in Faults
  /\ wanted' = "start"
  /\ IF socket # "none" \/ booting
       THEN UNCHANGED <<phase, socket, welcomed, booting, closing, retry, links>>
       ELSE Connect
  /\ UNCHANGED <<tabVars, serverVars, wire>>

\* The link is gone for the server too: boards end, the run on the slot is
\* kept in mind for the next hello.
ServerLosesLink ==
  /\ down' = <<>> /\ up' = <<>>
  /\ slot' = None /\ owed' = {}
  /\ held' = IF slot \in Jobs THEN slot ELSE held
  /\ UNCHANGED <<tries, newest, said>>

\* mutant: the retry timer is left set
StopKeepsTimer ==
  /\ presses < MaxPresses /\ presses' = presses + 1 /\ wanted' = "stop"
  /\ closing' = TRUE /\ welcomed' = FALSE /\ socket' = "none" /\ phase' = "off"
  /\ GiveAllUp /\ engine' = "none" /\ queue' = <<>> /\ go' = "idle"
  /\ left' = [j \in Jobs |-> 0]
  /\ ServerLosesLink
  /\ UNCHANGED <<booting, retry, links>>

Stop ==
  /\ presses < MaxPresses /\ presses' = presses + 1 /\ wanted' = "stop"
  /\ closing' = TRUE /\ retry' = FALSE /\ welcomed' = FALSE
  /\ socket' = "none" /\ phase' = "off"
  /\ GiveAllUp
  \* engine.quit(): whatever was queued rejects and ends, unheard.
  /\ engine' = "none" /\ queue' = <<>> /\ go' = "idle"
  /\ left' = [j \in Jobs |-> 0]
  /\ ServerLosesLink
  /\ UNCHANGED <<booting, links>>

Booted ==
  /\ booting /\ booting' = FALSE /\ engine' = "ready"
  /\ IF closing
       THEN UNCHANGED <<phase, socket, welcomed, links>>
       ELSE /\ socket' = "dialing" /\ phase' = "connecting" /\ welcomed' = FALSE
            /\ links' = links + 1
  /\ UNCHANGED <<closing, retry, presses, wanted, runs, left, stream, board, queue, go,
                 serverVars, wire>>

BootFails ==
  /\ "boot" \in Faults /\ booting /\ booting' = FALSE /\ phase' = "refused"
  /\ UNCHANGED <<socket, welcomed, closing, retry, links, presses, wanted, tabVars,
                 serverVars, wire>>

RetryRings ==
  /\ retry /\ links < MaxLinks
  /\ IF socket # "none" \/ booting
       THEN retry' = FALSE
            /\ UNCHANGED <<phase, socket, welcomed, booting, closing, links>>
       ELSE Connect
  /\ UNCHANGED <<presses, wanted, tabVars, serverVars, wire>>

\* onopen: `hello` names every run still being searched.
Announce ==
  /\ socket = "dialing" /\ socket' = "open"
  /\ up' = Append(up, <<"hello", Live>>)
  /\ UNCHANGED <<phase, welcomed, booting, closing, retry, links, presses, wanted, tabVars,
                 serverVars, down, said>>

\* mutant: the tab does not dial again
LinkDropsForGood ==
  /\ "drop" \in Faults /\ socket # "none" /\ links < MaxLinks
  /\ socket' = "none" /\ phase' = "retrying"
  /\ DropStream /\ ServerLosesLink
  /\ UNCHANGED <<welcomed, booting, closing, retry, links, presses, wanted, runs, left,
                 queue, engine>>

\* onclose with a code that is only weather: what is computed goes on.
LinkDrops ==
  /\ "drop" \in Faults /\ socket # "none" /\ links < MaxLinks
  /\ socket' = "none" /\ phase' = "retrying" /\ retry' = TRUE
  /\ DropStream /\ ServerLosesLink
  /\ UNCHANGED <<welcomed, booting, closing, links, presses, wanted, runs, left, queue,
                 engine>>

\* onclose with one of REFUSALS: everything is given up and nothing dials.
LinkRefused ==
  /\ "refuse" \in Faults /\ socket # "none"
  /\ socket' = "none" /\ phase' = "refused"
  /\ GiveAllUp
  /\ go' = IF stream # None /\ Going(stream) THEN "stopped"
           ELSE IF Live # {} THEN StopSearch ELSE go
  /\ ServerLosesLink
  /\ UNCHANGED <<welcomed, booting, closing, retry, links, presses, wanted, left, queue,
                 engine>>

-----------------------------------------------------------------------------
(* Frames from the server.                                                  *)

\* welcomed(): the runs the server took back are abandoned, each answered.
Welcomed ==
  /\ down # <<>> /\ Head(down)[1] = "welcome" /\ Got
  /\ welcomed' = TRUE /\ phase' = "connected"
  /\ LET gone == Head(down)[2] \cap Live IN
     /\ runs' = [r \in Runs |-> IF <<r, runs[r]>> \in gone THEN 0 ELSE runs[r]]
     /\ said' = [x \in DOMAIN said |-> IF x \in gone THEN "cancelled" ELSE said[x]]
     /\ up' = up \o SetToSeq({<<"cancelled", j>> : j \in gone})
     /\ go' = IF gone = {} THEN go ELSE StopSearch
  /\ UNCHANGED <<socket, booting, closing, retry, links, presses, wanted, left, stream,
                 board, queue, engine, serverVars>>

\* mutant: a plan it cannot read is passed over
OnDispatchQuiet(j) ==
  /\ Gets("dispatch", j) /\ Got /\ Silent
  /\ LET r == j[1] IN
     \/ UNCHANGED <<runs, left, queue>>
     \/ /\ runs[r] = 0 /\ stream = None /\ engine # "none"
        /\ runs' = [runs EXCEPT ![r] = j[2]]
        /\ left' = [left EXCEPT ![j] = Positions]
        /\ queue' = Append(queue, j)
  /\ UNCHANGED <<linkVars, stream, board, go, engine, serverVars>>

\* onDispatch: a run already here is a redelivery; with a board on the slot
\* or a plan it cannot read it says so at once.
OnDispatch(j) ==
  /\ Gets("dispatch", j) /\ Got
  /\ LET r == j[1] IN
     \/ /\ runs[r] # 0 /\ Silent /\ UNCHANGED <<runs, left, queue>>
     \/ /\ runs[r] = 0 /\ Says("failed", j) /\ UNCHANGED <<runs, left, queue>>
     \/ /\ runs[r] = 0 /\ stream = None /\ engine # "none"
        /\ runs' = [runs EXCEPT ![r] = j[2]]
        /\ left' = [left EXCEPT ![j] = Positions]
        /\ queue' = Append(queue, j)
        /\ Silent
  /\ UNCHANGED <<linkVars, stream, board, go, engine, serverVars>>

\* mutant: the run is forgotten and the engine left to finish it
OnCancelQuiet(r) ==
  /\ Gets("cancel", r) /\ Got /\ Silent
  /\ UNCHANGED <<linkVars, tabVars, serverVars>>

\* run_cancel names a run and no attempt.
OnCancel(r) ==
  /\ Gets("cancel", r) /\ Got
  /\ IF runs[r] = 0
       THEN Silent /\ UNCHANGED <<runs, go>>
       ELSE /\ Says("cancelled", <<r, runs[r]>>)
            /\ runs' = [runs EXCEPT ![r] = 0]
            /\ go' = StopSearch
  /\ UNCHANGED <<linkVars, left, stream, board, queue, engine, serverVars>>

\* mutant: a board refused is told nothing
OpenStreamQuiet(b) ==
  /\ Gets("open", b) /\ Got /\ Silent
  /\ UNCHANGED <<linkVars, runs, left, stream, board, queue, go, engine, serverVars>>

\* mutant: a board waits for the slot as long as it takes
OpenStreamWaits(b) ==
  /\ Gets("open", b) /\ Got /\ Silent
  /\ stream' = b
  /\ board' = [board EXCEPT ![b].at = "asking"]
  /\ queue' = Append(queue, b)
  /\ UNCHANGED <<linkVars, runs, left, go, engine, serverVars>>

OpenStream(b) ==
  /\ Gets("open", b) /\ Got
  /\ \/ /\ stream = None /\ engine # "none"
        /\ stream' = b
        /\ board' = [board EXCEPT ![b] = [@ EXCEPT !.at = "asking", !.waiting = TRUE]]
        /\ queue' = Append(queue, b)
        /\ Silent
     \/ /\ stream # b /\ Says("closed", b)   \* one board at a time; a FEN it cannot read
        /\ UNCHANGED <<stream, board, queue>>
  /\ UNCHANGED <<linkVars, runs, left, go, engine, serverVars>>

\* mutant: the new position waits for the search to end by itself
RestartStreamLazy(b) ==
  /\ down # <<>> /\ Head(down)[1] = "restart" /\ Head(down)[2] = b /\ Got
  /\ board' = [board EXCEPT ![b] = [@ EXCEPT !.fen = Head(down)[3], !.restart = TRUE]]
  /\ Silent /\ UNCHANGED <<linkVars, runs, left, stream, queue, go, engine, serverVars>>

RestartStream(b) ==
  /\ down # <<>> /\ Head(down)[1] = "restart" /\ Head(down)[2] = b /\ Got
  /\ IF stream = b
       THEN /\ board' = [board EXCEPT ![b] =
                 [@ EXCEPT !.fen = Head(down)[3], !.restart = TRUE, !.aborted = TRUE]]
            /\ go' = StopsBoard(b)
            /\ Silent
       ELSE Says("closed", b) /\ UNCHANGED <<board, go>>
  /\ UNCHANGED <<linkVars, runs, left, stream, queue, engine, serverVars>>

OnClose(b) ==
  /\ Gets("close", b) /\ Got
  /\ IF stream = b THEN CloseStream(b) /\ Says("closed", b)
                   ELSE Silent /\ UNCHANGED <<stream, board, go>>
  /\ UNCHANGED <<linkVars, runs, left, queue, engine, serverVars>>

\* The board waited STREAM_START_TIMEOUT_MS for the slot.
WaitRings(b) ==
  /\ board[b].waiting /\ stream = b
  /\ CloseStream(b) /\ Says("closed", b)
  /\ UNCHANGED <<linkVars, runs, left, queue, engine, down, serverVars>>

PlayMove(m) ==
  /\ Gets("move", m) /\ Got
  /\ IF engine = "none" THEN Says("answer", m) /\ UNCHANGED queue
                        ELSE Silent /\ queue' = Append(queue, m)
  /\ UNCHANGED <<linkVars, runs, left, stream, board, go, engine, serverVars>>

-----------------------------------------------------------------------------
(* The engine.  `setup` is the isready round trip before a `go`; a board    *)
(* whose signal is aborted on either side of it never starts.               *)

\* What becomes of a board's loop when its search has ended.
SearchEnds(b, failed) ==
  LET s == board[b] IN
  IF s.closing
    THEN /\ board' = [board EXCEPT ![b].at = "over"]
         /\ Silent /\ UNCHANGED stream
  ELSE IF s.restart /\ ~failed
    THEN /\ board' = [board EXCEPT ![b].at = "coalescing"]
         /\ Silent /\ UNCHANGED stream
  ELSE /\ board' = [board EXCEPT ![b].at = "over", ![b].waiting = FALSE]
       /\ stream' = IF stream = b THEN None ELSE stream
       /\ Says("closed", b)

\* mutant: an abandoned run still answers
PositionEndsAnyway(j, failed) ==
  /\ left' = [left EXCEPT ![j] = 0] /\ queue' = Tail(queue)
  /\ runs' = [runs EXCEPT ![j[1]] = 0]
  /\ Says(IF failed THEN "failed" ELSE "complete", j)

\* mutant: a run that has answered stays in `runs`
PositionEndsListed(j, failed) ==
  /\ left' = [left EXCEPT ![j] = 0] /\ queue' = Tail(queue) /\ UNCHANGED runs
  /\ IF runs[j[1]] = j[2] THEN Says(IF failed THEN "failed" ELSE "complete", j) ELSE Silent

\* What becomes of a run's loop when a position is done: stopIfAbandoned,
\* the next position, or the answer.  A run gone from `runs` is not touched.
PositionEnds(j, failed) ==
  LET r == j[1]
      mine == runs[r] = j[2] IN
  IF ~mine
    THEN left' = [left EXCEPT ![j] = 0] /\ queue' = Tail(queue) /\ Silent /\ UNCHANGED runs
  ELSE IF ~failed /\ left[j] > 1
    THEN /\ left' = [left EXCEPT ![j] = @ - 1]
         /\ queue' = Append(Tail(queue), j)
         /\ Silent /\ UNCHANGED runs
  ELSE /\ left' = [left EXCEPT ![j] = 0] /\ queue' = Tail(queue)
       /\ runs' = [runs EXCEPT ![r] = 0]
       /\ Says(IF failed THEN "failed" ELSE "complete", j)

\* The head is done with the module, having failed or not.
HeadEnds(failed) ==
  LET x == Head(queue) IN
  /\ go' = "idle"
  /\ \/ x \in Boards /\ queue' = Tail(queue) /\ UNCHANGED <<runs, left>>
        /\ SearchEnds(x, failed)
     \/ x \in Jobs /\ PositionEnds(x, failed) /\ UNCHANGED <<stream, board>>
     \/ x \in Moves /\ queue' = Tail(queue) /\ Says("answer", x)
        /\ UNCHANGED <<runs, left, stream, board>>
  /\ UNCHANGED <<linkVars, engine, down, serverVars>>

Aborted(x) == x \in Boards /\ board[x].aborted

Setup ==
  /\ queue # <<>> /\ go = "idle" /\ engine = "ready" /\ ~Aborted(Head(queue))
  /\ go' = "setup"
  /\ UNCHANGED <<linkVars, runs, left, stream, board, queue, engine, wire, serverVars>>

\* An aborted board leaves the queue without a `go`.
NeverGoes ==
  /\ queue # <<>> /\ Aborted(Head(queue))
  /\ go = "idle" \/ (go = "setup" /\ engine = "ready")
  /\ HeadEnds(FALSE)

\* `go`, and for a board onStarted in the same breath.
Goes ==
  /\ queue # <<>> /\ go = "setup" /\ engine = "ready" /\ ~Aborted(Head(queue))
  /\ go' = "going"
  /\ LET x == Head(queue) IN
     IF x \notin Boards \/ board[x].started
       THEN Silent /\ UNCHANGED board
       ELSE /\ board' = [board EXCEPT ![x] = [@ EXCEPT !.started = TRUE, !.waiting = FALSE]]
            /\ Says("started", x)
  /\ UNCHANGED <<linkVars, runs, left, stream, queue, engine, down, serverVars>>

\* bestmove: asked for, or on its own (a board's only where there is nothing
\* to search).
BestMove ==
  /\ queue # <<>> /\ go \in {"going", "stopped"} /\ engine = "ready"
  /\ HeadEnds(FALSE)

\* A dead module fails whatever reaches it.
Fails ==
  /\ queue # <<>> /\ engine = "dead"
  /\ ~(Aborted(Head(queue)) /\ go = "idle")
  /\ HeadEnds(TRUE)

Traps ==
  /\ "trap" \in Faults /\ engine = "ready" /\ engine' = "dead"
  /\ UNCHANGED <<linkVars, runs, left, stream, board, queue, go, wire, serverVars>>

Hangs ==
  /\ "hang" \in Faults /\ engine = "ready" /\ go \in {"setup", "going"} /\ engine' = "hung"
  /\ UNCHANGED <<linkVars, runs, left, stream, board, queue, go, wire, serverVars>>

\* The window of a burst of restarts has closed: search the newest position.
Coalesced(b) ==
  /\ board[b].at = "coalescing"
  /\ IF board[b].closing
       THEN board' = [board EXCEPT ![b].at = "over"] /\ UNCHANGED queue
       ELSE /\ board' = [board EXCEPT ![b] = [@ EXCEPT !.at = "asking", !.restart = FALSE,
                           !.aborted = FALSE, !.asked = board[b].fen]]
            /\ queue' = Append(queue, b)
  /\ UNCHANGED <<linkVars, runs, left, stream, go, engine, wire, serverVars>>

\* A picture of the running search; nothing of a closed session goes out.
Snapshot(b) ==
  /\ Going(b) /\ ~board[b].closing /\ said[b] = "started"
  /\ said' = [said EXCEPT ![b] = "drawn"]
  /\ UNCHANGED <<linkVars, tabVars, serverVars, down, up>>

-----------------------------------------------------------------------------
(* The server, as far as it decides what the tab hears.                     *)

\* The hello has been answered: the link takes work.
Ready == socket = "open" /\ \A i \in DOMAIN up : up[i][1] # "hello"

Sends(frame) == down' = Append(down, frame)

\* attach: the run on the slot when the link went may still be this tab's;
\* every other run it names is taken off it.
ServerWelcomes ==
  /\ up # <<>> /\ Head(up)[1] = "hello" /\ up' = Tail(up)
  /\ LET active == Head(up)[2] IN
     \E resumed \in {{}, active \cap {held}} :
       /\ slot' = IF resumed = {} THEN None ELSE held
       /\ Sends(<<"welcome", active \ resumed>>)
  /\ held' = None
  /\ UNCHANGED <<linkVars, tabVars, said, owed, tries, newest>>

Dispatch(r) ==
  /\ Ready /\ slot = None /\ r \notin owed /\ tries[r] < MaxTries
  /\ tries' = [tries EXCEPT ![r] = @ + 1]
  /\ slot' = <<r, tries[r] + 1>>
  /\ Sends(<<"dispatch", slot'>>)
  /\ UNCHANGED <<linkVars, tabVars, up, said, owed, held, newest>>

\* cancel and _release: the slot comes free as the frame goes out.
Cancels ==
  /\ Ready /\ slot \in Jobs /\ slot' = None
  /\ Sends(<<"cancel", slot[1]>>)
  /\ UNCHANGED <<linkVars, tabVars, up, said, owed, held, tries, newest>>

\* reserve_slot: a run on the slot is taken off it now, and told so only
\* after the database has it back (_preempt).
Reserves(x, word) ==
  /\ Ready /\ newest[x] = 0 /\ slot \notin Boards \cup Moves
  /\ newest' = [newest EXCEPT ![x] = 1]
  /\ slot' = x
  /\ owed' = IF slot \in Jobs THEN owed \cup {slot[1]} ELSE owed
  /\ Sends(<<word, x>>)
  /\ UNCHANGED <<linkVars, tabVars, up, said, held, tries>>

Preempted(r) ==
  /\ r \in owed /\ owed' = owed \ {r}
  /\ Sends(<<"cancel", r>>)
  /\ UNCHANGED <<linkVars, tabVars, up, said, slot, held, tries, newest>>

Turns(b) ==
  /\ slot = b /\ newest[b] <= MaxTurns
  /\ newest' = [newest EXCEPT ![b] = @ + 1]
  /\ Sends(<<"restart", b, newest[b] + 1>>)
  /\ UNCHANGED <<linkVars, tabVars, up, said, slot, owed, held, tries>>

Closes(b) ==
  /\ slot = b /\ slot' = None
  /\ Sends(<<"close", b>>)
  /\ UNCHANGED <<linkVars, tabVars, up, said, owed, held, tries, newest>>

\* play: the answer did not come in time.
GivesUp(m) ==
  /\ slot = m /\ slot' = None
  /\ UNCHANGED <<linkVars, tabVars, wire, owed, held, tries, newest>>

\* An answer frees the slot it is about; the rest is only noted.
Hears ==
  /\ Ready /\ up # <<>> /\ up' = Tail(up)
  /\ slot' = IF Head(up)[2] = slot /\ Head(up)[1] \in {"complete", "failed", "closed", "answer"}
               THEN None ELSE slot
  /\ UNCHANGED <<linkVars, tabVars, down, said, owed, held, tries, newest>>

-----------------------------------------------------------------------------
Buttons == Start \/ Stop
Link == Booted \/ BootFails \/ RetryRings \/ Announce \/ LinkDrops \/ LinkRefused
Receives ==
  \/ Welcomed
  \/ \E j \in Jobs : OnDispatch(j)
  \/ \E r \in Runs : OnCancel(r)
  \/ \E b \in Boards : OpenStream(b) \/ RestartStream(b) \/ OnClose(b)
  \/ \E m \in Moves : PlayMove(m)
Searches == Setup \/ NeverGoes \/ Goes \/ Fails
Timers == \E b \in Boards : WaitRings(b) \/ Coalesced(b)
Server ==
  \/ ServerWelcomes \/ Hears \/ Cancels
  \/ \E r \in Runs : Dispatch(r) \/ Preempted(r)
  \/ \E b \in Boards : Reserves(b, "open") \/ Turns(b) \/ Closes(b)
  \/ \E m \in Moves : Reserves(m, "move") \/ GivesUp(m)

Next ==
  \/ Buttons \/ Link \/ Receives \/ Searches \/ BestMove \/ Traps \/ Hangs
  \/ Timers \/ Server \/ \E b \in Boards : Snapshot(b)

Spec == Init /\ [][Next]_vars

\* Callbacks and timers run, frames arrive, and the engine answers a bounded
\* search or a stop; nobody has to press, cancel, close or lose anything.
FairSpec ==
  /\ Spec
  /\ WF_vars(Booted \/ RetryRings \/ Announce)
  /\ WF_vars(Receives)
  /\ WF_vars(Searches)
  /\ WF_vars(BestMove /\ (go = "stopped" \/ Head(queue) \notin Boards))
  /\ \A b \in Boards : WF_vars(WaitRings(b)) /\ WF_vars(Coalesced(b))
  /\ WF_vars(ServerWelcomes \/ Hears)

-----------------------------------------------------------------------------
InDown(word, x) == \E i \in DOMAIN down : down[i][1] = word /\ down[i][2] = x
InUp(words, x) == \E i \in DOMAIN up : up[i][1] \in words /\ up[i][2] = x

TypeOK ==
  /\ phase \in {"off", "starting", "connecting", "connected", "retrying", "refused"}
  /\ socket \in {"none", "dialing", "open"}
  /\ {welcomed, booting, closing, retry} \subseteq BOOLEAN
  /\ engine \in {"none", "ready", "hung", "dead"}
  /\ runs \in [Runs -> 0..MaxTries] /\ left \in [Jobs -> 0..Positions]
  /\ stream \in Boards \cup {None}
  /\ go \in {"idle", "setup", "going", "stopped"} /\ (go # "idle" => queue # <<>>)
  /\ \A b \in Boards : board[b].at \in {"unopened", "asking", "coalescing", "over"}
  /\ slot \in Jobs \cup Boards \cup Moves \cup {None}
  /\ \A j \in Live : left[j] > 0 /\ j \in Range(queue)

\* What the page is told of the link is so: connected over an open socket,
\* retrying with the timer set, and nothing dials behind "off" or "refused".
PhaseIsHonest ==
  /\ phase = "connected" => socket = "open" /\ welcomed
  /\ phase = "connecting" => socket # "none"
  /\ phase = "retrying" => retry
  /\ phase = "starting" => booting
  /\ phase \in {"off", "refused"} => socket = "none" /\ ~retry

\* The owner who pressed Start last has a tab that is trying, unless it says
\* why not (start: "Store the credential and connect").
StartIsHonoured ==
  wanted = "start" /\ phase # "refused" => socket # "none" \/ booting \/ retry

\* Whatever the server counts on the one slot is being worked on here, or
\* the frame that starts it or the one that ends it is on its way.
SlotIsServed ==
  Ready /\ slot # None =>
    \/ slot \in Live \/ InDown("dispatch", slot) \/ InUp({"complete", "failed"}, slot)
    \/ stream = slot \/ InDown("open", slot) \/ InUp({"closed"}, slot)
    \/ slot \in Range(queue) \cap Moves \/ InDown("move", slot) \/ InUp({"answer"}, slot)

\* The other way about: nothing is searched here that the server has
\* forgotten and will not call off.
WorkIsCounted ==
  Ready =>
    /\ stream # None => slot = stream \/ InDown("close", stream)
    /\ \A j \in Live :
         \/ slot = j \/ j[1] \in owed \/ InDown("cancel", j[1])
         \/ \E i \in DOMAIN down : down[i][1] = "welcome" /\ j \in down[i][2]

\* A stop ends the search it was meant for: a board's own, closed or moved,
\* or that of a run that was given up.
StopIsAimed ==
  go = "stopped" /\ Head(queue) \notin Moves =>
    \/ Head(queue) \in Boards /\ board[Head(queue)].aborted
    \/ Head(queue) \in Jobs /\ Head(queue) \notin Live

\* A practice move is searched for as long as was asked (Driver.stop: "the
\* caller says which command it means; a stop for anything else is not sent").
MovePlaysOut == ~(go = "stopped" /\ Head(queue) \in Moves)

\* A board is searched at the position last asked for, once the frame that
\* says so is here, however the restarts fell on the engine's turns.
NewestIsSearched ==
  \A b \in Boards :
    slot = b /\ Going(b) /\ go = "going"
      /\ ~(\E i \in DOMAIN down : down[i][1] = "restart" /\ down[i][2] = b)
    => board[b].asked = newest[b]

Order == [nothing |-> 0, started |-> 1, drawn |-> 2, closed |-> 3, answer |-> 3,
          complete |-> 3, failed |-> 3, cancelled |-> 3]

\* One answer per attempt, board and move: nothing is said of one after its
\* last word, no picture before a board's start or after its close.
NoWordIsTakenBack ==
  \A x \in DOMAIN said : said'[x] # said[x] => Order[said'[x]] > Order[said[x]]
LastWordIsLast == [][NoWordIsTakenBack]_vars

\* A board that was asked for hears something, even behind an engine that
\* never answers (STREAM_START_TIMEOUT_MS).
BoardIsAnswered ==
  \A b \in Boards : slot = b ~> (slot # b \/ said[b] # "nothing")

\* A run on the slot is finished, refused or taken away, unless the engine
\* has hung: then the server's sweep is what ends it.
RunIsSettled ==
  \A j \in Jobs : slot = j ~> (slot # j \/ engine = "hung")

\* A tab that lost its link dials again.
LinkIsRetried == phase = "retrying" ~> phase # "retrying"
=============================================================================
