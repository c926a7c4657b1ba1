----------------------------- MODULE RemoteSearches -----------------------------
(***************************************************************************)
(* A correspondence search on a runner's engine: `_serve_remote` and the   *)
(* frame handlers of workers/correspondence_searches.py, the part of       *)
(* workers/runner_gateway.py a search sees (the link, its slots, the       *)
(* runner's comings and goings), and the runner's own sessions             *)
(* (runners/client.py).  A search travels under one session id for life,   *)
(* so a session is identified by its search.                               *)
(*                                                                         *)
(* A link carries frames in order and is dropped whole: what it carried is *)
(* lost with it, and the runner drops its sessions with it.                *)
(***************************************************************************)
EXTENDS SearchRows

CONSTANTS RunnerSlots,  \* the slots the runner's link offers
          MaxLinks,     \* bound: how often the link is lost
          WarmPause     \* whether the runner announced `stream_pause`

(* What an instance assumes of its constants.                              *)
RunnerSlotsAssumption ==
  RunnerSlots \in Nat \ {0} /\ MaxLinks \in Nat /\ WarmPause \in BOOLEAN

VARIABLES kept,     \* _remote_parked: searches parked warm on the runner
          link,     \* the gateway's view: "up", "leaving" (dropped, not recorded), "gone"
          streams,  \* the session keys holding the link's slots
          down,     \* frames on their way to the runner, per session
          up,       \* frames on their way back
          sess,     \* the runner's session: "none", "searching" or "parked"
          links     \* how many links have been lost

linkVars == <<link, streams, links>>
wireVars == <<down, up, sess>>
vars == <<rowVars, run, kept, linkVars, wireVars>>

(* `open` and `outcome` are the run's own; `listed` is its entry in          *)
(* `_remote`; `budget` says that the wait it is in has a deadline.           *)
Fresh == [pc |-> "new", pausing |-> FALSE, closing |-> FALSE, relaunch |-> FALSE,
          limit |-> FALSE, listed |-> FALSE, open |-> FALSE, outcome |-> None,
          warm |-> FALSE, error |-> FALSE, budget |-> FALSE]
Points == {"new", "context", "state", "loop", "waiting", "open", "flushing",
           "parking", "finishing", "failing", "ending"}

Init == /\ RowsInit
        /\ kept = {} /\ link = "up" /\ streams = {} /\ links = 0
        /\ down = [s \in Searches |-> <<>>]
        /\ up = [s \in Searches |-> <<>>]
        /\ sess = [s \in Searches |-> "none"]

Has(seq, e) == \E i \in DOMAIN seq : seq[i] = e
Open(s) == Running(s) /\ run[s].open
Send(s, frame) == down' = [down EXCEPT ![s] = Append(@, frame)]

-----------------------------------------------------------------------------
(* _react and _runner_event.                                                *)

ReactQueued(s) ==
  /\ Hears(s, "queued") /\ Heard(s)
  /\ CASE svc # "up" -> UNCHANGED run
       [] svc = "up" /\ Running(s) -> Becomes(s, [run[s] EXCEPT !.relaunch = TRUE])
       [] OTHER -> Becomes(s, Fresh)
  /\ UNCHANGED <<row, said, calls, out, back, verbs, svc, restarts,
                 kept, linkVars, wireVars>>

\* A verb on an open stretch goes down the link; with no link to send it on the
\* stretch is lost.
SendOrLose(s, r, frame) ==
  IF ~r.open THEN Becomes(s, r) /\ UNCHANGED down
  ELSE IF link = "up" THEN Becomes(s, r) /\ Send(s, frame)
  ELSE Becomes(s, [r EXCEPT !.outcome = "lost"]) /\ UNCHANGED down

\* _remote_pause: parked over there if the runner can, closed if it cannot.
ReactPaused(s) ==
  /\ Hears(s, "paused") /\ Heard(s)
  /\ IF svc = "up" /\ Running(s)
       THEN SendOrLose(s, [run[s] EXCEPT !.pausing = TRUE],
                       IF WarmPause THEN "pause" ELSE "close")
       ELSE UNCHANGED <<run, down>>
  /\ UNCHANGED <<row, said, calls, out, back, verbs, svc, restarts,
                 kept, linkVars, up, sess>>

\* _remote_close, and _quit_remote_parked for what is parked over there.
ReactEnded(s) ==
  /\ \E status \in TerminalStates : Hears(s, status)
  /\ Heard(s)
  /\ \/ svc # "up" /\ UNCHANGED <<run, down, kept>>
     \/ /\ svc = "up" /\ Running(s)
        /\ SendOrLose(s, [run[s] EXCEPT !.closing = TRUE, !.relaunch = FALSE], "close")
        /\ UNCHANGED kept
     \/ /\ svc = "up" /\ ~Running(s)
        /\ kept' = kept \ {s}
        /\ IF s \in kept /\ link = "up" THEN Send(s, "close") ELSE UNCHANGED down
        /\ UNCHANGED run
  /\ UNCHANGED <<row, said, calls, out, back, verbs, svc, restarts, linkVars, up, sess>>

ReactRunning(s) ==
  /\ Hears(s, "running") /\ Heard(s)
  /\ UNCHANGED <<row, said, calls, out, back, verbs, svc, restarts, run,
                 kept, linkVars, wireVars>>

\* mutant: only what is parked there is looked at
HearsRunnerGoneParked(s) ==
  /\ Hears(s, "linkgone") /\ Heard(s)
  /\ IF svc = "up" /\ s \in kept
       THEN calls' = [calls EXCEPT ![s] = Append(@, Call("cold", "parked", "cold"))]
       ELSE UNCHANGED calls
  /\ kept' = IF svc = "up" THEN kept \ {s} ELSE kept
  /\ UNCHANGED <<row, said, out, back, verbs, svc, restarts, run, linkVars, wireVars>>

\* A runner that went takes its processes with it.
HearsRunnerGone(s) ==
  /\ Hears(s, "linkgone") /\ Heard(s)
  /\ IF svc = "up" /\ Open(s) /\ run[s].outcome = None
       THEN Becomes(s, [run[s] EXCEPT !.outcome = "lost"]) ELSE UNCHANGED run
  /\ IF svc = "up" /\ s \in kept
       THEN calls' = [calls EXCEPT ![s] = Append(@, Call("cold", "parked", "cold"))]
       ELSE UNCHANGED calls
  /\ kept' = IF svc = "up" THEN kept \ {s} ELSE kept
  /\ UNCHANGED <<row, said, out, back, verbs, svc, restarts, linkVars, wireVars>>

React(s) == \/ ReactQueued(s) \/ ReactPaused(s) \/ ReactEnded(s) \/ ReactRunning(s)
            \/ HearsRunnerGone(s)

-----------------------------------------------------------------------------
(* What the runner says.  A frame is heeded when the search is out there and *)
(* its stretch is open; the handler of `stream_started` waits for its        *)
(* transaction before the next frame is taken.                               *)

HandlerBusy(s) == \/ \E i \in DOMAIN calls[s] : calls[s][i].by = "link"
                  \/ \E i \in DOMAIN out[s] : out[s][i].by = "link"

Frame(s, kinds) == /\ svc # "down" /\ link = "up" /\ ~HandlerBusy(s)
                   /\ up[s] # <<>> /\ Head(up[s]) \in kinds
                   /\ up' = [up EXCEPT ![s] = Tail(@)]
Owned(s) == svc = "up" /\ Open(s) /\ run[s].listed

OnStarted(s) ==
  /\ Frame(s, {"started"})
  /\ IF Owned(s)
       THEN calls' = [calls EXCEPT ![s] = Append(@, Call("link", "running", None))]
       ELSE UNCHANGED calls
  /\ UNCHANGED <<row, said, feed, out, back, due, verbs, svc, restarts, run,
                 kept, linkVars, down, sess>>

\* mutant: what the runner kept is not asked after
OnPausedCold(s) ==
  /\ Frame(s, {"paused"})
  /\ IF Owned(s) /\ run[s].outcome = None
       THEN Becomes(s, [run[s] EXCEPT !.outcome = "paused"]) ELSE UNCHANGED run
  /\ UNCHANGED <<rowVars, kept, linkVars, down, sess>>

OnPaused(s) ==
  /\ Frame(s, {"paused"})
  /\ IF Owned(s) /\ run[s].outcome = None
       THEN Becomes(s, [run[s] EXCEPT !.warm = TRUE, !.outcome = "paused"])
       ELSE UNCHANGED run
  /\ UNCHANGED <<rowVars, kept, linkVars, down, sess>>

\* A close the runner answered because it was told to pause is a pause.
OnClosed(s) ==
  /\ Frame(s, {"closed", "failed"})
  /\ IF Owned(s) /\ run[s].outcome = None
       THEN Becomes(s, [run[s] EXCEPT !.error = Head(up[s]) = "failed",
                                      !.outcome = IF run[s].pausing /\ ~run[s].closing
                                                  THEN "paused" ELSE "closed"])
       ELSE UNCHANGED run
  /\ UNCHANGED <<rowVars, kept, linkVars, down, sess>>

\* A picture meets the search's limit: the stretch is closed from here.
LimitReached(s) ==
  /\ "limit" \in Faults
  /\ svc = "up" /\ Open(s) /\ ~run[s].limit /\ sess[s] = "searching"
  /\ SendOrLose(s, [run[s] EXCEPT !.limit = TRUE], "close")
  /\ UNCHANGED <<rowVars, kept, linkVars, up, sess>>

-----------------------------------------------------------------------------
(* _serve and _serve_remote.                                                *)

Quiet == <<kept, linkVars, wireVars>>

Begin(s) == /\ At(s, "new")
            /\ Asks(s, [run[s] EXCEPT !.pc = "context"], "context", None)
            /\ UNCHANGED Quiet

GotContext(s) ==
  /\ Answered(s, "context")
  /\ \/ /\ back[s] = "go"
        /\ Goes(s, [run[s] EXCEPT !.pc = "loop", !.listed = TRUE])
     \/ /\ back[s] = "no"
        /\ Asks(s, [run[s] EXCEPT !.pc = "state"], "state", None)
     \/ /\ back[s] = "trouble"
        /\ Asks(s, [run[s] EXCEPT !.pc = "failing"], "finished", "failed")
  /\ UNCHANGED Quiet

GotState(s) == /\ Answered(s, "state")
               /\ Goes(s, [run[s] EXCEPT !.pc = "ending"])
               /\ UNCHANGED Quiet

\* The top of the loop: the process is going down, the search is stopped, or
\* paused before anything was sent, or it waits for the runner.
Loop(s) ==
  /\ At(s, "loop")
  /\ LET r == run[s]
     IN  \/ svc # "up" /\ Goes(s, [r EXCEPT !.pc = "ending"])
         \/ /\ svc = "up" /\ r.closing
            /\ Asks(s, [r EXCEPT !.pc = "finishing"], "finished", "stopped")
         \/ /\ svc = "up" /\ ~r.closing /\ r.pausing
            /\ Asks(s, [r EXCEPT !.pc = "parking"], "parked", "cold")
         \/ /\ svc = "up" /\ ~r.closing /\ ~r.pausing
            /\ Goes(s, [r EXCEPT !.pc = "waiting"])
  /\ UNCHANGED Quiet

\* _await_runner, told by the owner or by the end of the process.
WaitsNoMore(s) ==
  /\ At(s, "waiting") /\ (run[s].closing \/ run[s].pausing \/ svc # "up")
  /\ Goes(s, [run[s] EXCEPT !.pc = "loop"])
  /\ UNCHANGED Quiet

\* The runner is there with a slot to give, and takes the search: what it kept
\* of it, or a fresh session.
OpenStretch(s) ==
  /\ At(s, "waiting") /\ svc = "up" /\ ~run[s].closing /\ ~run[s].pausing
  /\ link = "up" /\ (s \in streams \/ Cardinality(streams) < RunnerSlots)
  /\ streams' = streams \cup {s}
  /\ kept' = kept \ {s}
  /\ Send(s, IF s \in kept THEN "resume" ELSE "open")
  /\ Goes(s, [run[s] EXCEPT !.pc = "open", !.open = TRUE, !.outcome = None,
                            !.warm = FALSE, !.error = FALSE, !.budget = FALSE])
  /\ UNCHANGED <<link, links, up, sess>>

\* An engine the runner cannot search this shortlist with fails it by name.
TooOld(s) ==
  /\ "trouble" \in Faults
  /\ At(s, "waiting") /\ svc = "up" /\ ~run[s].closing /\ ~run[s].pausing
  /\ link = "up" /\ (s \in streams \/ Cardinality(streams) < RunnerSlots)
  /\ Asks(s, [run[s] EXCEPT !.pc = "failing"], "finished", "failed")
  /\ UNCHANGED Quiet

\* mutant: the slot is not given back
StretchEndsHolding(s, outcome) ==
  /\ Asks(s, [run[s] EXCEPT !.pc = "flushing", !.open = FALSE, !.outcome = outcome],
          "flush", None)
  /\ UNCHANGED <<kept, linkVars, wireVars>>

\* _remote_wait returns: the stretch is not open any more and its slot is free.
StretchEnds(s, outcome) ==
  /\ streams' = streams \ {s}
  /\ Asks(s, [run[s] EXCEPT !.pc = "flushing", !.open = FALSE, !.outcome = outcome],
          "flush", None)
  /\ UNCHANGED <<kept, link, links, wireVars>>

Told(s) == At(s, "open") /\ run[s].outcome # None /\ StretchEnds(s, run[s].outcome)
ToldToEnd(s) == /\ At(s, "open") /\ svc = "closing" /\ run[s].outcome = None
                /\ StretchEnds(s, "lost")

\* The grace a verb is given has run out.
TimesOut(s) == /\ "slow" \in Faults
               /\ At(s, "open") /\ svc = "up" /\ run[s].budget /\ run[s].outcome = None
               /\ StretchEnds(s, "closed")

\* Any change the runner announces wakes the wait, which then has a deadline if
\* a verb is out.
Wakes(s) ==
  /\ "slow" \in Faults
  /\ At(s, "open") /\ svc = "up" /\ ~run[s].budget
  /\ run[s].pausing \/ run[s].closing
  /\ Becomes(s, [run[s] EXCEPT !.budget = TRUE])
  /\ UNCHANGED <<rowVars, Quiet>>

\* What the outcome makes of the row, once the last picture is written.
Flushed(s) ==
  /\ Answered(s, "flushing")
  /\ LET r == run[s]
         warm == r.warm /\ ~r.closing
         over == IF r.error /\ ~r.closing /\ ~r.limit THEN "failed"
                 ELSE IF r.closing THEN "stopped" ELSE "done"
     IN  \/ /\ svc # "up" /\ Goes(s, [r EXCEPT !.pc = "ending"]) /\ UNCHANGED kept
         \/ /\ svc = "up" /\ r.outcome = "paused"
            /\ kept' = IF warm THEN kept \cup {s} ELSE kept
            /\ Asks(s, [r EXCEPT !.pc = "parking"], "parked",
                    IF warm THEN "warm" ELSE "cold")
         \/ /\ svc = "up" /\ r.outcome = "closed"
            /\ Asks(s, [r EXCEPT !.pc = "finishing"], "finished", over)
            /\ UNCHANGED kept
         \/ /\ svc = "up" /\ r.outcome = "lost"
            /\ kept' = kept \ {s}
            /\ Goes(s, [r EXCEPT !.pc = "loop"])
  /\ UNCHANGED <<linkVars, wireVars>>

Parked(s) ==
  /\ Answered(s, "parking")
  /\ Goes(s, [run[s] EXCEPT !.pc = "ending", !.relaunch = @ \/ back[s] = "queued"])
  /\ UNCHANGED Quiet

Finished(s) ==
  /\ Answered(s, "finishing") \/ Answered(s, "failing")
  /\ Goes(s, [run[s] EXCEPT !.pc = "ending"])
  /\ UNCHANGED Quiet

End(s) ==
  /\ At(s, "ending")
  /\ Becomes(s, IF run[s].relaunch /\ svc = "up" THEN Fresh ELSE NoRun)
  /\ UNCHANGED <<rowVars, Quiet>>

Task(s) == \/ Begin(s) \/ GotContext(s) \/ GotState(s) \/ Loop(s) \/ WaitsNoMore(s)
           \/ OpenStretch(s) \/ TooOld(s) \/ Told(s) \/ ToldToEnd(s)
           \/ Flushed(s) \/ Parked(s) \/ Finished(s) \/ End(s)

-----------------------------------------------------------------------------
(* The runner: _open_stream, _pause_stream, _resume_stream, _close_stream    *)
(* and the end of a session's own task.                                      *)

Takes(s, kind) == down[s] # <<>> /\ Head(down[s]) = kind
                  /\ down' = [down EXCEPT ![s] = Tail(@)]
Says(s, frames) == up' = [up EXCEPT ![s] = @ \o frames]
AtRunner == <<rowVars, run, kept, linkVars>>

RunnerOpens(s) ==
  /\ Takes(s, "open")
  /\ IF sess[s] # "none" THEN UNCHANGED <<sess, up>>     \* already open here
     ELSE sess' = [sess EXCEPT ![s] = "searching"] /\ Says(s, <<"started">>)
  /\ UNCHANGED AtRunner

RunnerPauses(s) ==
  /\ Takes(s, "pause")
  /\ CASE sess[s] = "none" -> Says(s, <<"closed">>) /\ UNCHANGED sess
       [] sess[s] = "parked" -> UNCHANGED <<sess, up>>
       [] OTHER -> sess' = [sess EXCEPT ![s] = "parked"] /\ Says(s, <<"paused">>)
  /\ UNCHANGED AtRunner

RunnerResumes(s) ==
  /\ Takes(s, "resume")
  /\ CASE sess[s] = "none" -> Says(s, <<"closed">>) /\ UNCHANGED sess
       [] sess[s] = "parked" -> /\ sess' = [sess EXCEPT ![s] = "searching"]
                                /\ Says(s, <<"started">>)
       [] OTHER -> UNCHANGED <<sess, up>>
  /\ UNCHANGED AtRunner

\* Closing a closed session is not an error, and is not answered.
RunnerCloses(s) ==
  /\ Takes(s, "close")
  /\ IF sess[s] = "none" THEN UNCHANGED <<sess, up>>
     ELSE sess' = [sess EXCEPT ![s] = "none"] /\ Says(s, <<"closed">>)
  /\ UNCHANGED AtRunner

RunnerFails(s) ==
  /\ "engine" \in Faults /\ sess[s] = "searching"
  /\ sess' = [sess EXCEPT ![s] = "none"] /\ Says(s, <<"failed">>)
  /\ UNCHANGED <<AtRunner, down>>

Runner(s) == RunnerOpens(s) \/ RunnerPauses(s) \/ RunnerResumes(s) \/ RunnerCloses(s)

-----------------------------------------------------------------------------
(* The link, as the gateway sees it.                                        *)

EveryoneHears(e) == feed' = [s \in Searches |-> Append(feed[s], e)]
WireDies == /\ down' = [s \in Searches |-> <<>>]
            /\ up' = [s \in Searches |-> <<>>]
            /\ sess' = [s \in Searches |-> "none"]
RestOfRows == <<row, said, calls, out, back, due, verbs, svc, restarts>>

\* detach: the state is dropped at once, the disconnection recorded later.
LinkDrops ==
  /\ "link" \in Faults /\ links < MaxLinks /\ link = "up" /\ svc = "up"
  /\ link' = "leaving" /\ links' = links + 1 /\ streams' = {} /\ WireDies
  /\ UNCHANGED <<rowVars, run, kept>>

\* _hand_back records it, unless a newer link is up by then.
HandBack ==
  /\ link = "leaving" /\ svc = "up"
  /\ link' = "gone" /\ EveryoneHears("linkgone")
  /\ UNCHANGED <<RestOfRows, run, kept, streams, links, wireVars>>

\* attach, of a runner recorded as gone: the loop has heard of that, and who was
\* told has let go, before the new link's state is installed, behind transactions
\* of its own.  The event of
\* the arrival only wakes whoever waits (`Wakes`, and the waiting of OpenStretch).
Attach ==
  /\ link = "gone" /\ svc = "up"
  /\ \A s \in Searches : ~Has(feed[s], "linkgone") /\ (Open(s) => run[s].outcome = None)
  /\ link' = "up"
  /\ UNCHANGED <<rowVars, run, kept, streams, links, wireVars>>

\* ... or before that was recorded, while a dispatch round still held the old
\* state: the hand-back then finds a newer link and records nothing.
AttachEarly ==
  /\ "early" \in Faults /\ link = "leaving" /\ svc = "up"
  /\ link' = "up"
  /\ UNCHANGED <<rowVars, run, kept, streams, links, wireVars>>

\* ... or in place of a link nobody had noticed was dead, whose disconnection
\* is announced there and then.
Replaced ==
  /\ "link" \in Faults /\ links < MaxLinks /\ link = "up" /\ svc = "up"
  /\ link' = "gone" /\ links' = links + 1 /\ streams' = {} /\ WireDies
  /\ EveryoneHears("linkgone")
  /\ UNCHANGED <<RestOfRows, run, kept>>

Link == LinkDrops \/ HandBack \/ Attach \/ AttachEarly \/ Replaced

-----------------------------------------------------------------------------
Shutdown ==
  /\ "shutdown" \in Faults /\ restarts < MaxRestarts
  /\ svc = "up" /\ \A s \in Searches : said[s] = None
  /\ svc' = "closing"
  /\ run' = [s \in Searches |->
               IF Running(s) THEN [run[s] EXCEPT !.closing = TRUE] ELSE NoRun]
  /\ UNCHANGED <<row, said, feed, calls, out, back, due, verbs, restarts, Quiet>>

\* The gateway goes down with the process, and its links with it.
Gone == /\ Ends /\ kept' = {} /\ link' = "gone" /\ streams' = {} /\ WireDies
        /\ run' = [s \in Searches |-> NoRun] /\ UNCHANGED links
ShutDown == svc = "closing" /\ (\A s \in Searches : ~Running(s)) /\ Gone
Crash == "crash" \in Faults /\ restarts < MaxRestarts /\ svc = "up" /\ Gone

Boot ==
  /\ Boots
  /\ run' = [s \in Searches |-> IF row'[s].status = "queued" THEN Fresh ELSE NoRun]
  /\ UNCHANGED Quiet

Next ==
  \/ Owner /\ UNCHANGED <<run, Quiet>>
  \/ \E s \in Searches :
       \/ Hub(s) /\ UNCHANGED <<run, Quiet>>
       \/ React(s) \/ Task(s) \/ TimesOut(s) \/ Wakes(s)
       \/ OnStarted(s) \/ OnPaused(s) \/ OnClosed(s) \/ LimitReached(s)
       \/ Runner(s) \/ RunnerFails(s)
  \/ Link \/ Shutdown \/ ShutDown \/ Crash \/ Boot

Spec == Init /\ [][Next]_vars

(* The loop and its database thread run; a runner that is up takes and answers *)
(* its frames; a runner that went is recorded as gone and dials in again; a    *)
(* search whose runner keeps having a slot for it is opened there.             *)
Fairness ==
  /\ \A s \in Searches :
       /\ WF_vars(Hub(s) /\ UNCHANGED <<run, Quiet>>)
       /\ WF_vars(React(s))
       /\ WF_vars(\/ Begin(s) \/ GotContext(s) \/ GotState(s) \/ Loop(s)
                  \/ WaitsNoMore(s) \/ Told(s) \/ ToldToEnd(s) \/ Flushed(s)
                  \/ Parked(s) \/ Finished(s) \/ End(s))
       /\ WF_vars(Runner(s))
       /\ WF_vars(OnStarted(s) \/ OnPaused(s) \/ OnClosed(s))
       /\ SF_vars(OpenStretch(s))
  /\ WF_vars(HandBack) /\ WF_vars(Attach) /\ WF_vars(ShutDown) /\ WF_vars(Boot)

FairSpec == Spec /\ Fairness
-----------------------------------------------------------------------------
TypeOK ==
  /\ RowsTypeOK
  /\ run \in [Searches -> {NoRun} \cup
        [pc : Points, pausing : BOOLEAN, closing : BOOLEAN, relaunch : BOOLEAN,
         limit : BOOLEAN, listed : BOOLEAN, open : BOOLEAN,
         outcome : {None, "paused", "closed", "lost"}, warm : BOOLEAN,
         error : BOOLEAN, budget : BOOLEAN]]
  /\ kept \subseteq Searches /\ streams \subseteq Searches
  /\ link \in {"up", "leaving", "gone"}
  /\ sess \in [Searches -> {"none", "searching", "parked"}]

\* A slot of the runner's is held exactly by the stretches that are open on this
\* link: none is leaked by a stretch that ended, and none taken twice over.
SlotsAreOpenStretches ==
  /\ Cardinality(streams) <= RunnerSlots
  /\ \A s \in streams : svc # "down" => Open(s)

\* A queued search is never one nobody restarts.
QueuedIsStarted ==
  \A s \in Searches :
    svc = "up" /\ Is(s, {"queued"}) =>
      \/ Coming(s, "queued")
      \/ Running(s) /\ (run[s].relaunch \/ WillSee(s) \/ run[s].pc \in {"new", "loop", "waiting", "open", "flushing"})

\* A row that says `running` has a task behind it.
RunningIsDriven ==
  \A s \in Searches : svc = "up" /\ Is(s, {"running"}) => Running(s)

\* A session on the runner is known here: its stretch is open, it is the one kept
\* for a resume, or the frame that ends it is on its way.
SessionIsKnown ==
  \A s \in Searches :
    svc = "up" /\ link = "up" /\ sess[s] # "none" /\ Is(s, LiveStates) =>
      \/ Open(s) \/ s \in kept \/ Has(down[s], "close")
      \/ Running(s) /\ run[s].pc = "flushing" /\ run[s].outcome = "paused" /\ run[s].warm

\* An open stretch is one the runner is told of, is serving, or has answered for:
\* the search is not waiting on a session that is not there.
StretchIsServed ==
  \A s \in Searches :
    svc = "up" /\ Open(s) /\ run[s].outcome = None /\ link = "up" =>
      \/ sess[s] = "searching" \/ down[s] # <<>> \/ up[s] # <<>>
      \/ Has(feed[s], "linkgone")

StopEndsTheTask == \A s \in Searches : Is(s, TerminalStates) ~> ~Running(s)
PauseFreesTheSlot ==
  \A s \in Searches : Is(s, {"paused"}) ~> (~Is(s, {"paused"}) \/ s \notin streams)
\* A search whose runner is lost is opened again when the runner is back.
LostIsReopened ==
  \A s \in Searches : (Running(s) /\ run[s].outcome = "lost")
                        ~> (~Running(s) \/ run[s].open)
=============================================================================
