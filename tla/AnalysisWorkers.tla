-------------------------- MODULE AnalysisWorkers --------------------------
(***************************************************************************)
(* The worker sets that drain the analysis queue on this host, one per     *)
(* process: the server's and, while `blunderbase analyze` runs, the CLI's  *)
(* (backend/workers/analysis_queue.py over backend/services/analysis.py).  *)
(*                                                                         *)
(* A set is an event loop, one database thread and its workers.  A worker  *)
(* claims a run, searches it on an execution task of its own and writes    *)
(* how it ended; the read and the write of such an end are two steps, and  *)
(* what is awaited can be cancelled while its thread goes on.  Around the  *)
(* workers: the heartbeat, three sweeps for stale runs, the owner's cancel *)
(* button, stop() and crashes.                                             *)
(***************************************************************************)
EXTENDS RunQueue

CONSTANTS
  Worker, Sets, SetOf,   \* the workers, the sets, and whose each worker is
  Server,                \* the set in the server's process
  None,                  \* no worker
  Hazards                \* which faults this instance has, of HazardNames

HazardNames == {"pause", "cancel", "crash", "stop", "suspend", "reuse", "late"}

ASSUME WorkersAssumption ==
  /\ SetOf \in [Worker -> Sets]
  /\ Server \in Sets
  /\ None \notin Worker
  /\ Hazards \subseteq HazardNames

Phase == {"idle", "looking", "claimed", "launched", "searching", "ended", "writing",
          "erred", "unwinding", "handing"}
Ends == {"done", "retry", "fatal", "release"}
NoRun == 0

Job == [phase : Phase, run : RunId \cup {NoRun}, work : Work \cup {NoWork},
        token : Token \cup {NoToken}, ends : Ends, seen : Row, dying : BOOLEAN]

IdleJob == [phase |-> "idle", run |-> NoRun, work |-> NoWork, token |-> NoToken,
            ends |-> "done", seen |-> Absent, dying |-> FALSE]

(* A database call whose awaiter was cancelled: its thread finishes it.    *)
Call == [op : {"none", "claim", "write"}, run : RunId \cup {NoRun},
         work : Work \cup {NoWork}, ends : Ends, seen : Row]

NoCall == [op |-> "none", run |-> NoRun, work |-> NoWork, ends |-> "done", seen |-> Absent]

VARIABLES
  up,         \* each set's lifecycle
  jobs,       \* what each worker is at; `token` is the attempt it claimed, never sent
  execs,      \* _executions and _inflight of each set: whose execution an id names
  told,       \* ids whose cancel is on its way to each set's loop
  loose,      \* each set's database call that nobody awaits any more
  cancelling  \* ids the cancel route has read as live and not yet deleted

vars == <<runs, paused, asked, up, jobs, execs, told, loose, cancelling>>

Crew(s) == {w \in Worker : SetOf[w] = s}
LocalHosts == {"none", "local"}

(* One database thread per set; and a worker that hands its run back does  *)
(* so on the loop, which nothing else of the set runs on meanwhile.        *)
OnThread(w) == jobs[w].phase \in {"looking", "writing"}
DbFree(s) == loose[s].op = "none" /\ \A w \in Crew(s) : ~OnThread(w)
LoopFree(s) == \A w \in Crew(s) : jobs[w].phase # "handing"

AtWork(w) == jobs[w].phase \notin {"idle", "looking"}
Searching(w) == jobs[w].phase \in {"claimed", "launched", "searching", "ended", "writing"}
                /\ jobs[w].ends # "release"

InFlight(s) == {i \in RunId : execs[s][i] # None}
InHand(i) ==
  \/ i \in cancelling
  \/ \E w \in Worker : AtWork(w) /\ jobs[w].run = i
  \/ \E s \in Sets : i \in told[s] \/ loose[s].run = i

FreshTokens ==
  Token \ ({runs[i].token : i \in RunId} \cup {jobs[w].token : w \in Worker})
FreshToken == CHOOSE t \in FreshTokens : TRUE

Forgotten(s, i) == [execs EXCEPT ![s] = [@ EXCEPT ![i] = None]]
Becomes(w, job) == [jobs EXCEPT ![w] = job]
At(w, phase) == Becomes(w, [jobs[w] EXCEPT !.phase = phase])

-----------------------------------------------------------------------------
(* The owner.  Without the "reuse" hazard a request only comes while the   *)
(* id it will get is in nobody's hands any more.                           *)

Ask(kind, host) ==
  /\ "reuse" \notin Hazards => \A i \in RunId : IsNewId(i) => ~InHand(i)
  /\ RequestAnalysis(kind, host)
  /\ UNCHANGED <<up, jobs, execs, told, loose, cancelling>>

Pause(flag) ==
  /\ "pause" \in Hazards
  /\ paused # flag
  /\ SetQueuePaused(flag)
  /\ UNCHANGED <<up, jobs, execs, told, loose, cancelling>>

StopBackfill ==
  /\ CancelQueued
  /\ UNCHANGED <<up, jobs, execs, told, loose, cancelling>>

StopQueue ==
  /\ ClearQueue
  /\ UNCHANGED <<up, jobs, execs, told, loose, cancelling>>

CancelRead(i) ==
  /\ "cancel" \in Hazards
  /\ runs[i].status \in {"queued", "running"}
  /\ cancelling' = cancelling \cup {i}
  /\ UNCHANGED <<runs, paused, asked, up, jobs, execs, told, loose>>

CancelRun(i) ==
  /\ i \in cancelling
  /\ cancelling' = cancelling \ {i}
  /\ Deleting({i})
  /\ told' = IF up[Server] = "down" THEN told ELSE [told EXCEPT ![Server] = @ \cup {i}]
  /\ UNCHANGED <<paused, asked, up, jobs, execs, loose>>

-----------------------------------------------------------------------------
(* One worker's turn.                                                      *)

(* The claim call is on its thread and has read the pause...               *)
Look(w) ==
  /\ up[SetOf[w]] = "up" /\ LoopFree(SetOf[w]) /\ DbFree(SetOf[w])
  /\ jobs[w].phase = "idle"
  /\ ~paused
  /\ jobs' = At(w, "looking")
  /\ UNCHANGED <<runs, paused, asked, up, execs, told, loose, cancelling>>

(* ... and now takes the best row there is, if there is one.               *)
Claim(w) ==
  /\ jobs[w].phase = "looking" /\ FreshTokens # {}
  /\ \E i \in RunId :
       /\ IsNextRun(i, LocalHosts)
       /\ runs' = [runs EXCEPT ![i] = Claimed(@, FreshToken)]
       /\ jobs' = Becomes(w, [IdleJob EXCEPT !.phase = "claimed", !.run = i,
                                              !.token = FreshToken])
  /\ UNCHANGED <<paused, asked, up, execs, told, loose, cancelling>>

FindNothing(w) ==
  /\ jobs[w].phase = "looking"
  /\ \A i \in RunId : ~Claimable(i, LocalHosts)
  /\ jobs' = Becomes(w, IdleJob)
  /\ UNCHANGED <<runs, paused, asked, up, execs, told, loose, cancelling>>

LaunchUnnamed(w) ==   \* mutant: the execution is not recorded
  /\ LoopFree(SetOf[w])
  /\ jobs[w].phase = "claimed"
  /\ jobs' = At(w, "launched")
  /\ UNCHANGED <<runs, paused, asked, up, execs, told, loose, cancelling>>

(* Back on the loop.  Without the "late" hazard the loop gets to a call's  *)
(* end before the thread ends the next: a sibling that has just put this   *)
(* run back is then off it.                                                *)
Launch(w) ==
  /\ LoopFree(SetOf[w])
  /\ jobs[w].phase = "claimed"
  /\ "late" \notin Hazards => \A v \in Crew(SetOf[w]) \ {w} : jobs[v].run # jobs[w].run
  /\ jobs' = At(w, "launched")
  /\ execs' = [execs EXCEPT ![SetOf[w]] = [@ EXCEPT ![jobs[w].run] = w]]
  /\ UNCHANGED <<runs, paused, asked, up, told, loose, cancelling>>

PrepareQuietly(w) ==   \* mutant: a run with no plan is left as it is
  /\ LoopFree(SetOf[w]) /\ DbFree(SetOf[w])
  /\ jobs[w].phase = "launched"
  /\ \/ /\ runs[jobs[w].run].status = "running"
        /\ jobs' = Becomes(w, [jobs[w] EXCEPT !.phase = "searching", !.work = runs[jobs[w].run].work])
     \/ jobs' = At(w, "unwinding")
  /\ UNCHANGED <<runs, paused, asked, up, execs, told, loose, cancelling>>

(* _prepare: the plan is read off the row, or there is none to make.       *)
Prepare(w) ==
  /\ LoopFree(SetOf[w]) /\ DbFree(SetOf[w])
  /\ jobs[w].phase = "launched"
  /\ LET row == runs[jobs[w].run] IN
       \/ /\ row.status = "running"
          /\ jobs' = Becomes(w, [jobs[w] EXCEPT !.phase = "searching", !.work = row.work])
       \/ /\ row.status \in {"running", "absent"}
          /\ jobs' = Becomes(w, [jobs[w] EXCEPT !.phase = "ended", !.ends = "fatal"])
       \/ /\ row.status \notin {"running", "absent"}
          /\ jobs' = At(w, "unwinding")
  /\ UNCHANGED <<runs, paused, asked, up, execs, told, loose, cancelling>>

SearchEnds(w, ends) ==
  /\ LoopFree(SetOf[w])
  /\ jobs[w].phase = "searching"
  /\ jobs' = Becomes(w, [jobs[w] EXCEPT !.phase = "ended", !.ends = ends])
  /\ UNCHANGED <<runs, paused, asked, up, execs, told, loose, cancelling>>

(* _finish and _fail: the row is read (get_run) ...                        *)
EndRead(w) ==
  /\ LoopFree(SetOf[w]) /\ DbFree(SetOf[w])
  /\ jobs[w].phase = "ended"
  /\ LET row == runs[jobs[w].run] IN
       \/ /\ row.status = "absent"
          /\ jobs' = At(w, "unwinding")
       \/ /\ row.status # "absent"
          /\ jobs' = Becomes(w, [jobs[w] EXCEPT !.phase = "writing", !.seen = row])
  /\ UNCHANGED <<runs, paused, asked, up, execs, told, loose, cancelling>>

EndedRow(row, seen, work, ends) ==
  IF ends = "done" THEN Completed(row, seen, work) ELSE FailedRow(row, seen, ends # "fatal")

(* ... and written by id.  A row that went meanwhile is an error, which    *)
(* the worker answers with one more _fail (_release).                      *)
EndWrite(w) ==
  /\ jobs[w].phase = "writing"
  /\ LET j == jobs[w] IN
       IF Present(j.run)
       THEN /\ runs' = [runs EXCEPT ![j.run] = EndedRow(@, j.seen, j.work, j.ends)]
            /\ jobs' = Becomes(w, [jobs[w] EXCEPT !.phase = "unwinding", !.seen = Absent])
       ELSE /\ jobs' = Becomes(w, [j EXCEPT !.seen = Absent,
                          !.phase = IF j.ends = "release" THEN "unwinding" ELSE "erred"])
            /\ UNCHANGED runs
  /\ UNCHANGED <<paused, asked, up, execs, told, loose, cancelling>>

Release(w) ==
  /\ LoopFree(SetOf[w])
  /\ jobs[w].phase = "erred"
  /\ jobs' = Becomes(w, [jobs[w] EXCEPT !.phase = "ended", !.ends = "release"])
  /\ UNCHANGED <<runs, paused, asked, up, execs, told, loose, cancelling>>

(* The execution is over.  A worker that was itself cancelled first hands  *)
(* the run back if the row still says running; whoever leaves drops what   *)
(* the set knows of the id.                                                *)
HandsBack(w) ==
  \/ /\ runs[jobs[w].run].status = "running"
     /\ jobs' = Becomes(w, [jobs[w] EXCEPT !.phase = "handing", !.seen = runs[jobs[w].run]])
     /\ UNCHANGED execs
  \/ /\ runs[jobs[w].run].status # "running"
     /\ jobs' = Becomes(w, IdleJob)
     /\ execs' = IF jobs[w].dying THEN Forgotten(SetOf[w], jobs[w].run) ELSE execs

UnwindAsItIs(w) ==   \* mutant: a worker goes for the next run with the last one in hand
  /\ LoopFree(SetOf[w])
  /\ jobs[w].phase = "unwinding"
  /\ \/ /\ ~jobs[w].dying
        /\ jobs' = At(w, "idle")
        /\ execs' = Forgotten(SetOf[w], jobs[w].run)
     \/ jobs[w].dying /\ HandsBack(w)
  /\ UNCHANGED <<runs, paused, asked, up, told, loose, cancelling>>

Unwind(w) ==
  /\ LoopFree(SetOf[w])
  /\ jobs[w].phase = "unwinding"
  /\ \/ /\ ~jobs[w].dying
        /\ jobs' = Becomes(w, IdleJob)
        /\ execs' = Forgotten(SetOf[w], jobs[w].run)
     \/ jobs[w].dying /\ HandsBack(w)
  /\ UNCHANGED <<runs, paused, asked, up, told, loose, cancelling>>

HandBack(w) ==
  /\ jobs[w].phase = "handing"
  /\ LET j == jobs[w] IN
       /\ runs' = IF Present(j.run)
                  THEN [runs EXCEPT ![j.run] = Abandoned(@, j.seen)] ELSE runs
       /\ execs' = IF j.dying THEN Forgotten(SetOf[w], j.run) ELSE execs
  /\ jobs' = Becomes(w, IdleJob)
  /\ UNCHANGED <<paused, asked, up, told, loose, cancelling>>

-----------------------------------------------------------------------------
(* Interruptions.  Cancelling an execution unwinds it, and leaves the      *)
(* database call it was awaiting, if any, to its thread.                   *)

CallOf(w) == [op |-> "write", run |-> jobs[w].run, work |-> jobs[w].work,
              ends |-> jobs[w].ends, seen |-> jobs[w].seen]

Unwound(w, dying) ==
  /\ jobs' = Becomes(w, [jobs[w] EXCEPT !.phase = "unwinding", !.seen = Absent, !.dying = dying])
  /\ loose' = IF jobs[w].phase = "writing"
              THEN [loose EXCEPT ![SetOf[w]] = CallOf(w)] ELSE loose

Interruptible(w) ==
  /\ jobs[w].phase \in {"launched", "searching", "ended", "writing"}
  /\ jobs[w].ends # "release"

(* AnalysisWorkers.cancel, on the set's loop: by id, whoever has it now.   *)
CancelExecution(s, i) ==
  /\ up[s] # "down" /\ LoopFree(s)
  /\ i \in told[s]
  /\ told' = [told EXCEPT ![s] = @ \ {i}]
  /\ \/ \E w \in Crew(s) : execs[s][i] = w /\ Interruptible(w) /\ Unwound(w, FALSE)
     \/ /\ \A w \in Crew(s) : execs[s][i] = w => ~Interruptible(w)
        /\ UNCHANGED <<jobs, loose>>
  /\ UNCHANGED <<runs, paused, asked, up, execs, cancelling>>

(* A cancelled call's thread gets to its end: nothing is told of it.       *)
LooseClaim(s) ==
  /\ loose[s].op = "claim"
  /\ loose' = [loose EXCEPT ![s] = NoCall]
  /\ \/ \E i \in RunId :
          /\ FreshTokens # {}
          /\ IsNextRun(i, LocalHosts)
          /\ runs' = [runs EXCEPT ![i] = Claimed(@, FreshToken)]
     \/ /\ \A i \in RunId : ~Claimable(i, LocalHosts)
        /\ UNCHANGED runs
  /\ UNCHANGED <<paused, asked, up, jobs, execs, told, cancelling>>

LooseWrite(s) ==
  /\ loose[s].op = "write"
  /\ LET c == loose[s] IN
       runs' = IF Present(c.run)
               THEN [runs EXCEPT ![c.run] = EndedRow(@, c.seen, c.work, c.ends)] ELSE runs
  /\ loose' = [loose EXCEPT ![s] = NoCall]
  /\ UNCHANGED <<paused, asked, up, jobs, execs, told, cancelling>>

-----------------------------------------------------------------------------
(* Heartbeats and sweeps.                                                  *)

(* No word about a run for STALE_AFTER_SECONDS.  A set that runs says one  *)
(* every tenth of that about what it has in flight; a suspended host, or a *)
(* database that answers busy for as long, does not.                       *)
GoQuiet(i) ==
  /\ runs[i].status = "running" /\ ~runs[i].quiet
  /\ "suspend" \notin Hazards =>
       /\ \A s \in Sets : i \notin InFlight(s)
       /\ \A w \in Worker : jobs[w].phase = "claimed" => jobs[w].run # i
  /\ runs' = [runs EXCEPT ![i] = [@ EXCEPT !.quiet = TRUE]]
  /\ UNCHANGED <<paused, asked, up, jobs, execs, told, loose, cancelling>>

BeatDeaf(s) ==   \* mutant: what heartbeat_runs reports gone is not looked at
  /\ up[s] = "up" /\ LoopFree(s) /\ DbFree(s)
  /\ InFlight(s) # {}
  /\ HeartbeatRuns(InFlight(s))
  /\ UNCHANGED <<paused, asked, up, jobs, execs, told, loose, cancelling>>

Beat(s) ==
  /\ up[s] = "up" /\ LoopFree(s) /\ DbFree(s)
  /\ InFlight(s) # {}
  /\ HeartbeatRuns(InFlight(s))
  /\ told' = [told EXCEPT ![s] = @ \cup {i \in InFlight(s) : ~Present(i)}]
  /\ UNCHANGED <<paused, asked, up, jobs, execs, loose, cancelling>>

SweepStale(hosts, kept) ==
  /\ \E i \in RunId : Stale(i) /\ runs[i].host \in hosts /\ i \notin kept
  /\ RequeueStaleRuns(hosts, kept)

LocalSweepOfOwn(s) ==   \* mutant: the periodic sweep looks at its own runs only
  /\ up[s] = "up" /\ LoopFree(s) /\ DbFree(s)
  /\ SweepStale(LocalHosts, RunId \ InFlight(s))
  /\ UNCHANGED <<paused, asked, up, jobs, execs, told, loose, cancelling>>

(* _sweep of a set: nothing remote, nothing of its own.                    *)
LocalSweep(s) ==
  /\ up[s] = "up" /\ LoopFree(s) /\ DbFree(s)
  /\ SweepStale(LocalHosts, InFlight(s))
  /\ UNCHANGED <<paused, asked, up, jobs, execs, told, loose, cancelling>>

(* The runner gateway's, in the server's process: everything there is.     *)
GatewaySweep ==
  /\ up[Server] = "up"
  /\ SweepStale(Host, {})
  /\ UNCHANGED <<paused, asked, up, jobs, execs, told, loose, cancelling>>

-----------------------------------------------------------------------------
(* A set's life.                                                           *)

Start(s) ==
  /\ up[s] = "down" /\ loose[s].op = "none"
  /\ up' = [up EXCEPT ![s] = "up"]
  /\ RequeueStaleRuns(Host, {})
  /\ UNCHANGED <<paused, asked, jobs, execs, told, loose, cancelling>>

Stop(s) ==
  /\ "stop" \in Hazards
  /\ up[s] = "up" /\ LoopFree(s)
  /\ up' = [up EXCEPT ![s] = "stopping"]
  /\ UNCHANGED <<runs, paused, asked, jobs, execs, told, loose, cancelling>>

(* The grace is over and a worker is not: stop() cancels its task.         *)
StopCancel(w) ==
  /\ up[SetOf[w]] = "stopping" /\ LoopFree(SetOf[w])
  /\ \/ /\ jobs[w].phase = "looking"
        /\ jobs' = Becomes(w, IdleJob)
        /\ loose' = [loose EXCEPT ![SetOf[w]] = [NoCall EXCEPT !.op = "claim"]]
        /\ UNCHANGED execs
     \/ jobs[w].phase = "claimed" /\ HandsBack(w) /\ UNCHANGED loose
     \/ Interruptible(w) /\ Unwound(w, TRUE) /\ UNCHANGED execs
     \/ /\ jobs[w].phase = "unwinding" /\ ~jobs[w].dying
        /\ jobs' = Becomes(w, [jobs[w] EXCEPT !.dying = TRUE])
        /\ UNCHANGED <<execs, loose>>
     \/ /\ jobs[w].phase \in {"ended", "writing"} /\ jobs[w].ends = "release"
        /\ jobs' = Becomes(w, IdleJob)
        /\ execs' = Forgotten(SetOf[w], jobs[w].run)
        /\ loose' = IF jobs[w].phase = "writing"
                    THEN [loose EXCEPT ![SetOf[w]] = CallOf(w)] ELSE loose
  /\ UNCHANGED <<runs, paused, asked, up, told, cancelling>>

Stopped(s) ==
  /\ up[s] = "stopping"
  /\ \A w \in Crew(s) : jobs[w].phase = "idle"
  /\ up' = [up EXCEPT ![s] = "down"]
  /\ told' = [told EXCEPT ![s] = {}]
  /\ UNCHANGED <<runs, paused, asked, jobs, execs, loose, cancelling>>

Crash(s) ==
  /\ "crash" \in Hazards
  /\ up[s] # "down"
  /\ up' = [up EXCEPT ![s] = "down"]
  /\ jobs' = [w \in Worker |-> IF w \in Crew(s) THEN IdleJob ELSE jobs[w]]
  /\ execs' = [execs EXCEPT ![s] = [i \in RunId |-> None]]
  /\ told' = [told EXCEPT ![s] = {}]
  /\ loose' = [loose EXCEPT ![s] = NoCall]
  /\ cancelling' = IF s = Server THEN {} ELSE cancelling
  /\ UNCHANGED <<runs, paused, asked>>

-----------------------------------------------------------------------------

Init ==
  /\ QueueInit
  /\ up = [s \in Sets |-> "down"]
  /\ jobs = [w \in Worker |-> IdleJob]
  /\ execs = [s \in Sets |-> [i \in RunId |-> None]]
  /\ told = [s \in Sets |-> {}]
  /\ loose = [s \in Sets |-> NoCall]
  /\ cancelling = {}

Owner ==
  \/ \E kind \in AskedKinds, host \in AskedHosts : Ask(kind, host)
  \/ \E flag \in BOOLEAN : Pause(flag)
  \/ StopBackfill
  \/ StopQueue
  \/ \E i \in RunId : CancelRead(i) \/ CancelRun(i)

Step(w) ==
  \/ Look(w) \/ Claim(w) \/ FindNothing(w) \/ Launch(w) \/ Prepare(w)
  \/ \E ends \in {"done", "retry"} : SearchEnds(w, ends)
  \/ EndRead(w) \/ EndWrite(w) \/ Release(w) \/ Unwind(w) \/ HandBack(w)
  \/ StopCancel(w)

Upkeep(s) ==
  \/ \E i \in RunId : CancelExecution(s, i)
  \/ LooseClaim(s) \/ LooseWrite(s)
  \/ Beat(s) \/ LocalSweep(s)
  \/ Start(s) \/ Stop(s) \/ Stopped(s) \/ Crash(s)

Next ==
  \/ Owner
  \/ \E w \in Worker : Step(w)
  \/ \E s \in Sets : Upkeep(s)
  \/ \E i \in RunId : GoQuiet(i)
  \/ GatewaySweep

Spec == Init /\ [][Next]_vars

-----------------------------------------------------------------------------
(* What must hold.                                                         *)

(* Every variable stays within its type; a worker between runs knows none, *)
(* and no worker of a set that is down is at work.                         *)
VarsTyped ==
  /\ QueueTypeOK
  /\ up \in [Sets -> {"down", "up", "stopping"}]
  /\ jobs \in [Worker -> Job]
  /\ execs \in [Sets -> [RunId -> Worker \cup {None}]]
  /\ told \in [Sets -> SUBSET RunId]
  /\ loose \in [Sets -> Call]
  /\ cancelling \subseteq RunId

JobsShaped ==
  /\ \A w \in Worker : jobs[w].phase # "idle" => up[SetOf[w]] # "down"
  /\ \A w \in Worker : IF AtWork(w) THEN jobs[w].run \in RunId
                                    ELSE jobs[w].run = NoRun /\ jobs[w].ends = "done"
  /\ \A s \in Sets : loose[s].op = "write" => loose[s].run \in RunId

TypeOK == VarsTyped /\ JobsShaped

(* A worker that searches a run owns it: the row is still running under    *)
(* the token the worker claimed it with, unless the owner deleted it.  No  *)
(* code of the local path checks this; it rests on heartbeats and sweeps.  *)
HolderOwnsRow ==
  \A w \in Worker : Searching(w) =>
    \/ runs[jobs[w].run].status = "absent"
    \/ /\ runs[jobs[w].run].status = "running"
       /\ runs[jobs[w].run].token = jobs[w].token

(* No two workers, of one set or of two, search the same run.              *)
OneSearcherPerRun ==
  \A v, w \in Worker : Searching(v) /\ Searching(w) /\ jobs[v].run = jobs[w].run => v = w

(* What a finished run stores was searched for the request it stands for.  *)
NoForeignEvals == \A i \in RunId : runs[i].status = "done" => runs[i].evals = runs[i].work

(* A queued run still has an attempt to spend: nothing is searched more    *)
(* often than MAX_ATTEMPTS, whatever mix of failures and sweeps it met.    *)
QueuedHasBudget == \A i \in RunId : runs[i].status = "queued" => runs[i].attempts < MaxAttempts

(* A run is given up on for a reason that repeats, or after MAX_ATTEMPTS.  *)
FailedWasEarned ==
  \A i \in RunId : runs[i].status = "failed" /\ runs[i].error # "fatal" =>
    runs[i].attempts >= MaxAttempts

(* Claims spend attempts, hand-backs refund them, sweeps and failures act  *)
(* on them: nothing is searched too often, nothing given up on too early.  *)
AttemptsAreCounted == QueuedHasBudget /\ FailedWasEarned

(* The id a set cancels and beats by names the worker that searches it.    *)
ExecutionIsNamed ==
  \A w \in Worker : Searching(w) /\ jobs[w].phase # "claimed" =>
    execs[SetOf[w]][jobs[w].run] = w

(* Whoever leaves a run, however it ended or was interrupted, leaves no     *)
(* row that says running under the attempt it had: only the death of its   *)
(* process does, and a claim whose thread outlived the worker it was for.  *)
LeavesNothingRunning ==
  [][\A w \in Worker : AtWork(w) /\ jobs'[w].phase = "idle" /\ up'[SetOf[w]] # "down" =>
       \/ runs'[jobs[w].run].status # "running"
       \/ runs'[jobs[w].run].token # jobs[w].token]_vars

(* A finished run stays finished: no write that was under way when it      *)
(* ended takes it back, and no cancel that read it as running deletes it.  *)
DoneIsFinal ==
  [][\A i \in RunId : runs[i].status = "done" => runs'[i].status = "done"]_vars

-----------------------------------------------------------------------------
(* The workers implement RunLifecycle, one request per row ever asked for. *)

RowsOf(q) == {i \in RunId : Present(i) /\ runs[i].work = q}

StageOf(row) ==
  CASE row.status = "queued" -> "waiting"
    [] row.status = "running" -> "leased"
    [] row.status = "done" -> "stored"
    [] row.status = "failed" -> IF row.error = "fatal" THEN "refused" ELSE "givenup"

StageBar ==
  [q \in Work |-> IF q > asked THEN "unasked"
                  ELSE IF RowsOf(q) = {} THEN "withdrawn"
                  ELSE StageOf(runs[CHOOSE i \in RowsOf(q) : TRUE])]

SpentBar ==
  [q \in Work |-> IF RowsOf(q) = {} THEN 0 ELSE runs[CHOOSE i \in RowsOf(q) : TRUE].attempts]

Lifecycle == INSTANCE RunLifecycle WITH Request <- Work, stage <- StageBar, spent <- SpentBar

(* Crashes, sweeps and restarts included, a run goes through the lifecycle  *)
(* the queue promises and through nothing else.                            *)
ImplementsLifecycle == Lifecycle!Spec

-----------------------------------------------------------------------------
(* Progress.  Calls on a set's database thread are first in, first out, so *)
(* none of them waits for ever (SF); a loop that is up runs what is ready  *)
(* (WF); a process that is gone is started again, and some incarnation of  *)
(* it lives long enough for a claim and for a sweep (SF).  The owner need  *)
(* not do anything, and neither pauses, stops nor crashes are fair.        *)

Fairness ==
  /\ \A w \in Worker :
       /\ SF_vars(Look(w)) /\ SF_vars(Claim(w)) /\ WF_vars(FindNothing(w))
       /\ WF_vars(Launch(w)) /\ SF_vars(Prepare(w))
       /\ SF_vars(EndRead(w)) /\ WF_vars(EndWrite(w)) /\ WF_vars(Release(w))
       /\ WF_vars(Unwind(w)) /\ WF_vars(HandBack(w))
  /\ \A s \in Sets :
       /\ WF_vars(\E i \in RunId : CancelExecution(s, i))
       /\ WF_vars(LooseClaim(s)) /\ WF_vars(LooseWrite(s))
       /\ SF_vars(Beat(s)) /\ SF_vars(LocalSweep(s))
       /\ WF_vars(Start(s)) /\ WF_vars(Stopped(s))
  /\ \A i \in RunId : SF_vars(GoQuiet(i))

(* The row of what this worker searches is gone, or another attempt's.     *)
Disowned(w) ==
  Searching(w) /\ \A i \in RunId : runs[i].token # jobs[w].token

(* An engine searches as long as its plan says.  Of one that nobody wants  *)
(* any more nothing is assumed: it may go on for ever unless it is stopped. *)
SearchesEnd ==
  \A w \in Worker :
    WF_vars(~Disowned(w) /\ \E ends \in {"done", "retry"} : SearchEnds(w, ends))

FairSpec == Spec /\ Fairness /\ SearchesEnd

(* Every request is settled, or withdrawn, or the owner pauses the queue;  *)
(* no mix of crashes, restarts and sweeps leaves one waiting or running.   *)
RunsSettle ==
  \A q \in Work : asked >= q ~>
    paused \/ \A i \in RowsOf(q) : runs[i].status \in {"done", "failed"}

(* Cancelling a run stops its search, in whatever set it is and without    *)
(* waiting for the search to end: by a word from the route or by a beat.   *)
CancelStopsSearch == \A w \in Worker : Disowned(w) ~> ~Disowned(w)
=============================================================================
