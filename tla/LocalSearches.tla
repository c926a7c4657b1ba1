----------------------------- MODULE LocalSearches -----------------------------
(***************************************************************************)
(* workers/correspondence_searches.py on this host: one task per search,   *)
(* inside the shared pool's slots, with the processes of paused searches   *)
(* kept outside the pool.  An action is what the loop, the engine thread   *)
(* or a spawned task does between two awaits.  The pool itself is          *)
(* EnginePool.tla's; here it is a number of permits.                       *)
(***************************************************************************)
EXTENDS SearchRows

CONSTANT Slots          \* the shared pool's permits

(* What an instance assumes of its constants.                              *)
SlotsAssumption == Slots \in Nat \ {0}

VARIABLES parked,   \* _parked: searches whose process is kept, warm
          quits,    \* spawned `_quit_parked` tasks not yet run
          closers,  \* processes being closed for a search
          alive     \* engine processes of a search that are not the pool's

vars == <<rowVars, run, parked, quits, closers, alive>>
engineVars == <<parked, quits, closers, alive>>

(* `pc` names the await the task is at, `held` is `run.held`, `hand` the     *)
(* process it drives, `stop` the engine thread's event, `warm` what _park    *)
(* told the row.                                                             *)
Fresh == [pc |-> "new", pausing |-> FALSE, closing |-> FALSE, relaunch |-> FALSE,
          stop |-> "unarmed", held |-> FALSE, hand |-> None, slotted |-> FALSE]
Points == {"new", "context", "state", "queueing", "marking", "searching",
           "flushing", "parking", "quitting", "finishing", "failing", "ending"}

Init == /\ RowsInit
        /\ parked = {} /\ quits = {}
        /\ closers = [s \in Searches |-> 0]
        /\ alive = [s \in Searches |-> 0]

Slotted == {s \in Searches : Running(s) /\ run[s].slotted}

-----------------------------------------------------------------------------
(* _react: make this process agree with the row.                            *)

StopSet(r) == IF r.stop = "armed" THEN "set" ELSE r.stop

ReactQueued(s) ==
  /\ Hears(s, "queued") /\ Heard(s)
  /\ CASE svc # "up" -> UNCHANGED run
       [] svc = "up" /\ Running(s) -> Becomes(s, [run[s] EXCEPT !.relaunch = TRUE])
       [] OTHER -> Becomes(s, Fresh)
  /\ UNCHANGED <<row, said, calls, out, back, verbs, svc, restarts, engineVars>>

\* mutant: the task is told and its engine is not
ReactPausedQuiet(s) ==
  /\ Hears(s, "paused") /\ Heard(s)
  /\ IF svc = "up" /\ Running(s)
       THEN Becomes(s, [run[s] EXCEPT !.pausing = TRUE])
       ELSE UNCHANGED run
  /\ UNCHANGED <<row, said, calls, out, back, verbs, svc, restarts, engineVars>>

ReactPaused(s) ==
  /\ Hears(s, "paused") /\ Heard(s)
  /\ IF svc = "up" /\ Running(s)
       THEN Becomes(s, [run[s] EXCEPT !.pausing = TRUE, !.stop = StopSet(run[s])])
       ELSE UNCHANGED run
  /\ UNCHANGED <<row, said, calls, out, back, verbs, svc, restarts, engineVars>>

\* mutant: the task is told and its engine is not
ReactEndedQuiet(s) ==
  /\ \E status \in TerminalStates : Hears(s, status)
  /\ Heard(s)
  /\ IF svc = "up" /\ Running(s)
       THEN Becomes(s, [run[s] EXCEPT !.closing = TRUE, !.relaunch = FALSE])
       ELSE UNCHANGED run
  /\ quits' = IF svc = "up" /\ s \in parked THEN quits \cup {s} ELSE quits
  /\ UNCHANGED <<row, said, calls, out, back, verbs, svc, restarts,
                 parked, closers, alive>>

ReactEnded(s) ==
  /\ \E status \in TerminalStates : Hears(s, status)
  /\ Heard(s)
  /\ IF svc = "up" /\ Running(s)
       THEN Becomes(s, [run[s] EXCEPT !.closing = TRUE, !.relaunch = FALSE,
                                      !.stop = StopSet(run[s])])
       ELSE UNCHANGED run
  /\ quits' = IF svc = "up" /\ s \in parked THEN quits \cup {s} ELSE quits
  /\ UNCHANGED <<row, said, calls, out, back, verbs, svc, restarts,
                 parked, closers, alive>>

\* The worker's own `running` comes back too, and says nothing new.
ReactRunning(s) ==
  /\ Hears(s, "running") /\ Heard(s)
  /\ UNCHANGED <<row, said, calls, out, back, verbs, svc, restarts, run, engineVars>>

React(s) == ReactQueued(s) \/ ReactPaused(s) \/ ReactEnded(s) \/ ReactRunning(s)

\* mutant: looks the process up and leaves it listed
QuitParkedPeeks(s) ==
  /\ s \in quits /\ quits' = quits \ {s}
  /\ closers' = [closers EXCEPT ![s] = IF s \in parked THEN @ + 1 ELSE @]
  /\ UNCHANGED <<rowVars, run, parked, alive>>

\* A spawned `_quit_parked`: whatever is parked by then is closed.
QuitParked(s) ==
  /\ s \in quits /\ quits' = quits \ {s}
  /\ parked' = parked \ {s}
  /\ closers' = [closers EXCEPT ![s] = IF s \in parked THEN @ + 1 ELSE @]
  /\ UNCHANGED <<rowVars, run, alive>>

\* `_close` has quit the process.
Closed(s) ==
  /\ closers[s] > 0
  /\ closers' = [closers EXCEPT ![s] = @ - 1]
  /\ alive' = [alive EXCEPT ![s] = @ - 1]
  /\ UNCHANGED <<rowVars, run, parked, quits>>

-----------------------------------------------------------------------------
(* _serve, _drive and _park.                                                *)

\* mutant: drives the parked process without taking it out of the dictionary
BeginPeeks(s) ==
  /\ At(s, "new")
  /\ LET own == s \in parked
     IN  Asks(s, [run[s] EXCEPT !.pc = "context", !.held = own,
                                !.hand = IF own THEN "own" ELSE None], "context", None)
  /\ UNCHANGED engineVars

\* The task starts: a parked process is in its hands from here on.
Begin(s) ==
  /\ At(s, "new")
  /\ LET own == s \in parked
     IN  Asks(s, [run[s] EXCEPT !.pc = "context", !.held = own,
                                !.hand = IF own THEN "own" ELSE None], "context", None)
  /\ parked' = parked \ {s}
  /\ UNCHANGED <<quits, closers, alive>>

\* A context to start on, or a row to ask the state of, or an engine that
\* cannot run it.
GotContext(s) ==
  /\ Answered(s, "context")
  /\ \/ /\ back[s] = "go" /\ Goes(s, [run[s] EXCEPT !.pc = "queueing"])
     \/ /\ back[s] = "no"
        /\ Asks(s, [run[s] EXCEPT !.pc = "state"], "state", None)
     \/ /\ back[s] = "trouble"
        /\ Asks(s, [run[s] EXCEPT !.pc = "failing"], "finished", "failed")
  /\ UNCHANGED engineVars

\* Parked again if the row is one a resume would still want; `finally` quits
\* the process otherwise.
GotState(s) ==
  /\ Answered(s, "state")
  /\ LET keep == run[s].held /\ back[s] = "paused"
     IN  /\ Goes(s, [run[s] EXCEPT !.pc = "ending", !.held = @ /\ ~keep])
         /\ parked' = IF keep THEN parked \cup {s} ELSE parked
  /\ UNCHANGED <<quits, closers, alive>>

\* _park, on a process (or on none, when nothing was ever started for it).
Parks(s, r, pooled) ==
  /\ Asks(s, [r EXCEPT !.pc = "parking", !.held = FALSE],
          "parked", IF r.hand = None THEN "cold" ELSE "warm")
  /\ parked' = IF r.hand = None THEN parked ELSE parked \cup {s}
  /\ alive' = [alive EXCEPT ![s] = IF pooled THEN @ + 1 ELSE @]
  /\ UNCHANGED <<quits, closers>>

\* The pool lets it in.  Stopped while it queued, it leaves at once; paused, it
\* parks what it kept; otherwise it arms its stop event and says `running`.
TakeSlot(s) ==
  /\ At(s, "queueing") /\ Cardinality(Slotted) < Slots
  /\ LET r == [run[s] EXCEPT !.slotted = TRUE]
     IN  \/ /\ r.closing
            /\ Goes(s, [r EXCEPT !.pc = "ending", !.slotted = FALSE])
            /\ UNCHANGED engineVars
         \/ /\ ~r.closing /\ r.pausing /\ Parks(s, r, FALSE)
         \/ /\ ~r.closing /\ ~r.pausing
            /\ Asks(s, [r EXCEPT !.pc = "marking", !.stop = "armed",
                                 !.hand = IF @ = None THEN "pooled" ELSE @],
                    "running", None)
            /\ UNCHANGED engineVars

\* The pool could not start a process for it.
NoEngine(s) ==
  /\ "engine" \in Faults
  /\ At(s, "queueing") /\ run[s].hand = None /\ Cardinality(Slotted) < Slots
  /\ Asks(s, [run[s] EXCEPT !.pc = "failing"], "finished", "failed")
  /\ UNCHANGED engineVars

\* The row says running; a verb that came in meanwhile stops the engine at once.
Marked(s) ==
  /\ Answered(s, "marking")
  /\ Goes(s, [run[s] EXCEPT !.pc = "searching",
                            !.stop = IF run[s].pausing \/ run[s].closing
                                     THEN "set" ELSE @])
  /\ UNCHANGED engineVars

\* A picture has arrived that meets the search's own limit.
LimitReached(s) ==
  /\ "limit" \in Faults
  /\ At(s, "searching") /\ run[s].stop = "armed"
  /\ Becomes(s, [run[s] EXCEPT !.stop = "set"])
  /\ UNCHANGED <<rowVars, engineVars>>

\* The engine thread comes back: told to stop, or with nothing left to search.
EngineStops(s) ==
  /\ At(s, "searching") /\ (run[s].stop = "set" \/ "ends" \in Faults)
  /\ Asks(s, [run[s] EXCEPT !.pc = "flushing"], "flush", None)
  /\ UNCHANGED engineVars

\* ... or with an error: the slot goes back on the way out, and a process the
\* run owns is left to `finally`.
EngineFails(s) ==
  /\ "engine" \in Faults /\ At(s, "searching")
  /\ Asks(s, [run[s] EXCEPT !.pc = "failing", !.slotted = FALSE], "finished", "failed")
  /\ UNCHANGED engineVars

Outcome(r) == IF r.closing THEN "stopped" ELSE "done"

\* The last picture is written.  The process going down ends no search; a pause
\* parks; otherwise the search is over, and a process of its own is quit first.
Flushed(s) ==
  /\ Answered(s, "flushing")
  /\ LET r == run[s]
     IN  \/ /\ svc # "up"
            /\ Goes(s, [r EXCEPT !.pc = "ending", !.slotted = FALSE])
            /\ UNCHANGED engineVars
         \/ /\ svc = "up" /\ r.pausing /\ ~r.closing /\ Parks(s, r, r.hand = "pooled")
         \/ /\ svc = "up" /\ ~(r.pausing /\ ~r.closing) /\ r.hand = "own"
            /\ Goes(s, [r EXCEPT !.pc = "quitting", !.held = FALSE])
            /\ UNCHANGED engineVars
         \/ /\ svc = "up" /\ ~(r.pausing /\ ~r.closing) /\ r.hand = "pooled"
            /\ Asks(s, [r EXCEPT !.pc = "finishing"], "finished", Outcome(r))
            /\ UNCHANGED engineVars

OwnClosed(s) ==
  /\ At(s, "quitting")
  /\ Asks(s, [run[s] EXCEPT !.pc = "finishing"], "finished", Outcome(run[s]))
  /\ alive' = [alive EXCEPT ![s] = @ - 1]
  /\ UNCHANGED <<parked, quits, closers>>

\* mutant: the answer clears a resume that was heard meanwhile
ParkedClears(s) ==
  /\ Answered(s, "parking")
  /\ Goes(s, [run[s] EXCEPT !.pc = "ending", !.slotted = FALSE,
                            !.relaunch = back[s] = "queued"])
  /\ UNCHANGED engineVars

\* mark_parked has answered: a row that is queued again wants a new stretch.
Parked(s) ==
  /\ Answered(s, "parking")
  /\ Goes(s, [run[s] EXCEPT !.pc = "ending", !.slotted = FALSE,
                            !.relaunch = @ \/ back[s] = "queued"])
  /\ UNCHANGED engineVars

Finished(s) ==
  /\ Answered(s, "finishing") \/ Answered(s, "failing")
  /\ Goes(s, [run[s] EXCEPT !.pc = "ending", !.slotted = FALSE])
  /\ UNCHANGED engineVars

\* `finally`, once the checkpoints in flight are in: quit what is still held,
\* leave _runs, and start the stretch a resume asked for meanwhile.
End(s) ==
  /\ At(s, "ending")
  /\ closers' = [closers EXCEPT ![s] = IF run[s].held THEN @ + 1 ELSE @]
  /\ Becomes(s, IF run[s].relaunch /\ svc = "up" THEN Fresh ELSE NoRun)
  /\ UNCHANGED <<rowVars, parked, quits, alive>>

-----------------------------------------------------------------------------
(* stop() and start(), and a process that is killed.                        *)

Shutdown ==
  /\ "shutdown" \in Faults /\ restarts < MaxRestarts
  /\ svc = "up" /\ \A s \in Searches : said[s] = None
  /\ svc' = "closing"
  /\ run' = [s \in Searches |->
               IF Running(s) THEN [run[s] EXCEPT !.closing = TRUE, !.stop = StopSet(run[s])]
               ELSE NoRun]
  /\ UNCHANGED <<row, said, feed, calls, out, back, due, verbs, restarts, engineVars>>

\* Every task and every spawned close is in; what is parked is quit.
ShutDown ==
  /\ svc = "closing" /\ quits = {}
  /\ \A s \in Searches : ~Running(s) /\ closers[s] = 0
  /\ Ends
  /\ alive' = [s \in Searches |-> IF s \in parked THEN alive[s] - 1 ELSE alive[s]]
  /\ parked' = {} /\ UNCHANGED <<run, quits, closers>>

\* Killed: no task survives, and no engine outlives its pipe.
Crash ==
  /\ "crash" \in Faults /\ restarts < MaxRestarts
  /\ svc = "up" /\ Ends
  /\ run' = [s \in Searches |-> NoRun]
  /\ parked' = {} /\ quits' = {}
  /\ closers' = [s \in Searches |-> 0]
  /\ alive' = [s \in Searches |-> 0]

\* The rows are taken back and every recovered search is launched.
Boot ==
  /\ Boots
  /\ run' = [s \in Searches |-> IF row'[s].status = "queued" THEN Fresh ELSE NoRun]
  /\ UNCHANGED engineVars

Task(s) ==
  \/ Begin(s) \/ GotContext(s) \/ GotState(s) \/ TakeSlot(s) \/ NoEngine(s)
  \/ Marked(s) \/ LimitReached(s) \/ EngineStops(s) \/ EngineFails(s)
  \/ Flushed(s) \/ OwnClosed(s) \/ Parked(s) \/ Finished(s) \/ End(s)

Next ==
  \/ Owner /\ UNCHANGED <<run, engineVars>>
  \/ \E s \in Searches : \/ Hub(s) /\ UNCHANGED <<run, engineVars>>
                         \/ React(s) \/ QuitParked(s) \/ Closed(s) \/ Task(s)
  \/ Shutdown \/ ShutDown \/ Crash \/ Boot

Spec == Init /\ [][Next]_vars

(* The loop, its database thread and its spawned tasks run; an engine answers *)
(* `stop`; a process that went down is started again; the pool's semaphore    *)
(* serves its line, so a search that keeps queueing for a slot that keeps     *)
(* coming free is let in.  Nothing makes the owner act, a limit be reached or *)
(* an engine fail.                                                            *)
Fairness ==
  /\ \A s \in Searches :
       /\ WF_vars(Hub(s) /\ UNCHANGED <<run, engineVars>>)
       /\ WF_vars(React(s)) /\ WF_vars(QuitParked(s)) /\ WF_vars(Closed(s))
       /\ WF_vars(\/ Begin(s) \/ GotContext(s) \/ GotState(s) \/ Marked(s)
                  \/ At(s, "searching") /\ run[s].stop = "set" /\ EngineStops(s)
                  \/ Flushed(s) \/ OwnClosed(s) \/ Parked(s) \/ Finished(s) \/ End(s))
       /\ SF_vars(TakeSlot(s))
  /\ WF_vars(ShutDown) /\ WF_vars(Boot)

FairSpec == Spec /\ Fairness
-----------------------------------------------------------------------------
TypeOK ==
  /\ RowsTypeOK
  /\ run \in [Searches -> {NoRun} \cup
        [pc : Points, pausing : BOOLEAN, closing : BOOLEAN, relaunch : BOOLEAN,
         stop : {"unarmed", "armed", "set"}, held : BOOLEAN,
         hand : {None, "own", "pooled"}, slotted : BOOLEAN]]
  /\ parked \subseteq Searches /\ quits \subseteq Searches
  /\ closers \in [Searches -> 0..2] /\ alive \in [Searches -> 0..2]

\* Every engine process outside the pool has exactly one owner: the parked
\* dictionary, the run that took it back out of there, or the close that is
\* under way.  ("A process that was neither would be memory nothing accounts
\* for and nothing ever frees.")
EveryProcessHasAnOwner ==
  \A s \in Searches :
    alive[s] = closers[s] + (IF s \in parked THEN 1 ELSE 0)
                 + (IF Running(s) /\ (run[s].held \/ run[s].pc = "quitting") THEN 1 ELSE 0)

\* No more searches hold a slot than the pool has permits, and one that is
\* searching holds one.
SearchingHoldsASlot ==
  /\ Cardinality(Slotted) <= Slots
  /\ \A s \in Searches : Running(s) /\ run[s].pc \in {"marking", "searching", "flushing"}
                           => run[s].slotted

\* A queued search is never one nobody restarts: its launch is on its way, or a
\* task that will read the row is there, or the task that is leaving will
\* launch it again.
QueuedIsStarted ==
  \A s \in Searches :
    svc = "up" /\ Is(s, {"queued"}) =>
      \/ Coming(s, "queued")
      \/ Running(s) /\ (run[s].relaunch \/ WillSee(s) \/ run[s].pc \in {"new", "queueing"})

\* A row that says `running` has a task of this process behind it.
RunningIsDriven ==
  \A s \in Searches : svc = "up" /\ Is(s, {"running"}) => Running(s)

\* Nothing about the search is under way.
Settled(s) == /\ svc = "up" /\ ~Running(s) /\ said[s] = None /\ feed[s] = <<>>
              /\ s \notin quits /\ closers[s] = 0

\* When all is said and done a search that has ended has left no process behind.
EndedKeepsNothing ==
  \A s \in Searches : Settled(s) /\ Is(s, TerminalStates) => s \notin parked

\* A pause gives the slot back, a stop ends the task, and a search that is
\* queued while there is a slot for it leaves the queue.
PauseFreesTheSlot ==
  \A s \in Searches : Is(s, {"paused"}) ~> (~Is(s, {"paused"}) \/ s \notin Slotted)
StopEndsTheTask == \A s \in Searches : Is(s, TerminalStates) ~> ~Running(s)
QueuedLeavesTheQueue == \A s \in Searches : Is(s, {"queued"}) ~> ~Is(s, {"queued"})
=============================================================================
