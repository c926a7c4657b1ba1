----------------------- MODULE AnalysisWorkersProofs -----------------------
(***************************************************************************)
(* Proofs about AnalysisWorkers for every number of runs, requests,        *)
(* workers and sets.  Whom a run belongs to: in the instances without      *)
(* stop(), suspension, id reuse and a late loop, with crashes, pauses and  *)
(* cancels.  How a run is left: in every instance without id reuse.        *)
(***************************************************************************)
EXTENDS AnalysisWorkers, RunQueueProofs, TLAPS

Calm == Hazards \subseteq {"pause", "cancel", "crash"}

(* A search's row is running under its token and was heard of lately, or   *)
(* the owner deleted it.                                                   *)
Owned ==
  \A w \in Worker : Searching(w) =>
    \/ runs[jobs[w].run].status = "absent"
    \/ /\ runs[jobs[w].run].status = "running"
       /\ runs[jobs[w].run].token = jobs[w].token
       /\ ~runs[jobs[w].run].quiet

(* A launched search is alone on its run among all that its set still has. *)
AloneInSet ==
  \A v, w \in Worker :
    v # w /\ SetOf[v] = SetOf[w] /\ Searching(w) /\ jobs[w].phase # "claimed" =>
      jobs[v].run # jobs[w].run

(* What is only on its way because a row went, finds that row still gone.  *)
StaysGone ==
  /\ \A s \in Sets : \A i \in told[s] : runs[i].status = "absent"
  /\ \A s \in Sets : loose[s].op = "write" => runs[loose[s].run].status = "absent"
  /\ \A w \in Worker : AtWork(w) /\ (jobs[w].phase = "erred" \/ jobs[w].ends = "release") =>
       runs[jobs[w].run].status = "absent"

(* A run that is still to be searched has no end yet.                      *)
EndsLater ==
  \A w \in Worker : jobs[w].phase \in {"claimed", "launched", "searching"} => jobs[w].ends = "done"

(* An entry of a set's table is of a worker that is still on the run.      *)
EntryIsHolders ==
  \A s \in Sets : \A i \in RunId : \A w \in Worker :
    execs[s][i] = w => SetOf[w] = s /\ AtWork(w) /\ jobs[w].run = i

(* Nobody stops a set.                                                     *)
NoStop ==
  /\ \A s \in Sets : up[s] # "stopping" /\ loose[s].op # "claim"
  /\ \A w \in Worker : ~jobs[w].dying /\ jobs[w].phase # "handing"

IInv ==
  /\ TypeOK /\ NoStop /\ Owned /\ OneSearcherPerRun /\ AloneInSet
  /\ ExecutionIsNamed /\ EntryIsHolders /\ EndsLater /\ StaysGone

-----------------------------------------------------------------------------
(* Typing.                                                                 *)

LEMMA EndedRowType ==
  ASSUME NEW row \in Row, NEW seen \in Row, NEW work \in Work \cup {NoWork}, NEW ends \in Ends
  PROVE  EndedRow(row, seen, work, ends) \in Row
BY RowOperators DEF EndedRow

LEMMA Constants ==
  /\ Absent \in Row
  /\ IdleJob \in Job
  /\ NoCall \in Call
<1>1. Absent \in Row
  BY AbsentIsRow
<1>. QED BY <1>1 DEF IdleJob, Job, Phase, Ends, NoCall, Call

LEMMA FreshTokenType == FreshTokens # {} => FreshToken \in Token
BY DEF FreshTokens, FreshToken

LEMMA TypeInit == Init => TypeOK
<1>. SUFFICES ASSUME Init PROVE TypeOK
  OBVIOUS
<1>1. QueueTypeOK
  <2>1. runs \in [RunId -> Row]
    BY Constants DEF Init, QueueInit
  <2>2. paused \in BOOLEAN
    BY DEF Init, QueueInit
  <2>3. asked \in 0 .. MaxWorks
    BY QueueAssumption DEF Init, QueueInit
  <2>. QED BY <2>1, <2>2, <2>3 DEF QueueTypeOK
<1>2. VarsTyped
  BY <1>1, Constants DEF Init, VarsTyped
<1>3. JobsShaped
  BY DEF Init, JobsShaped, AtWork, IdleJob, NoCall
<1>. QED BY <1>2, <1>3 DEF TypeOK

(* A worker's step keeps the types if the job it leaves is a job of the    *)
(* right shape and the rows, tables and calls it touches keep theirs.      *)
JobFits(w, job) ==
  /\ job \in Job
  /\ job.phase # "idle" => up[SetOf[w]] # "down"
  /\ IF job.phase \in {"idle", "looking"} THEN job.run = NoRun /\ job.ends = "done"
                                         ELSE job.run \in RunId

LooseOK ==
  /\ loose \in [Sets -> Call]
  /\ \A s \in Sets : loose[s].op = "write" => loose[s].run \in RunId

LEMMA WorkerMoves ==
  ASSUME TypeOK, NEW w \in Worker, NEW job, JobFits(w, job), jobs' = Becomes(w, job),
         runs' \in [RunId -> Row], execs' \in [Sets -> [RunId -> Worker \cup {None}]], LooseOK',
         UNCHANGED <<paused, asked, up, told, cancelling>>
  PROVE  TypeOK'
<1>1. job \in Job
  BY DEF JobFits
<1>2. /\ jobs' \in [Worker -> Job] /\ jobs'[w] = job
      /\ \A v \in Worker \ {w} : jobs'[v] = jobs[v]
  BY <1>1 DEF Becomes, TypeOK, VarsTyped
<1>3. QueueTypeOK'
  BY DEF TypeOK, VarsTyped, QueueTypeOK
<1>4. VarsTyped'
  BY <1>2, <1>3 DEF TypeOK, VarsTyped, LooseOK
<1>5. JobsShaped'
  BY <1>2 DEF TypeOK, JobsShaped, JobFits, AtWork, LooseOK
<1>. QED BY <1>4, <1>5 DEF TypeOK

LEMMA IdleFits == \A w \in Worker : JobFits(w, IdleJob)
BY Constants DEF JobFits, IdleJob

LEMMA PhaseFits ==
  ASSUME TypeOK, NEW w \in Worker, NEW phase \in Phase,
         jobs[w].phase \notin {"idle", "looking"}, phase \notin {"idle", "looking"}
  PROVE  JobFits(w, [jobs[w] EXCEPT !.phase = phase])
<1>1. jobs[w] \in Job /\ jobs[w].run \in RunId /\ up[SetOf[w]] # "down"
  BY DEF TypeOK, VarsTyped, JobsShaped, AtWork
<1>. QED BY <1>1 DEF JobFits, Job

LEMMA LooseSame == TypeOK /\ UNCHANGED loose => LooseOK'
BY DEF TypeOK, VarsTyped, JobsShaped, LooseOK

(* What a worker at work knows.                                            *)
LEMMA WorkingJob ==
  ASSUME TypeOK, NEW w \in Worker, jobs[w].phase \notin {"idle", "looking"}
  PROVE  /\ jobs[w] \in Job /\ jobs[w].run \in RunId /\ up[SetOf[w]] # "down"
         /\ jobs[w].seen \in Row /\ jobs[w].ends \in Ends /\ jobs[w].token \in Token \cup {NoToken}
         /\ jobs[w].work \in Work \cup {NoWork} /\ runs[jobs[w].run] \in Row
BY DEF TypeOK, VarsTyped, QueueTypeOK, JobsShaped, AtWork, Job

LEMMA ForgottenType ==
  ASSUME TypeOK, NEW s \in Sets, NEW i
  PROVE  Forgotten(s, i) \in [Sets -> [RunId -> Worker \cup {None}]]
BY DEF TypeOK, VarsTyped, Forgotten

LEMMA RowWritten ==
  ASSUME TypeOK, NEW i \in RunId, NEW row \in Row
  PROVE  [runs EXCEPT ![i] = row] \in [RunId -> Row]
BY DEF TypeOK, VarsTyped, QueueTypeOK

LEMMA CallsKept ==
  ASSUME TypeOK, NEW s \in Sets, NEW call \in Call, call.op = "write" => call.run \in RunId,
         loose' = [loose EXCEPT ![s] = call]
  PROVE  LooseOK'
BY DEF TypeOK, VarsTyped, JobsShaped, LooseOK

LEMMA CallOfWorker ==
  ASSUME TypeOK, NEW w \in Worker, jobs[w].phase = "writing"
  PROVE  CallOf(w) \in Call /\ CallOf(w).run \in RunId
BY WorkingJob DEF CallOf, Call

LEMMA UnwoundTypes ==
  ASSUME TypeOK, NEW w \in Worker, NEW dying \in BOOLEAN, Interruptible(w), Unwound(w, dying)
  PROVE  /\ JobFits(w, [jobs[w] EXCEPT !.phase = "unwinding", !.seen = Absent, !.dying = dying])
         /\ LooseOK'
<1>1. /\ jobs[w] \in Job /\ jobs[w].run \in RunId /\ up[SetOf[w]] # "down" /\ SetOf[w] \in Sets
  BY WorkingJob, WorkersAssumption DEF Interruptible
<1>2. JobFits(w, [jobs[w] EXCEPT !.phase = "unwinding", !.seen = Absent, !.dying = dying])
  BY <1>1, Constants DEF JobFits, Job, Phase
<1>3. LooseOK'
  BY <1>1, CallsKept, CallOfWorker, LooseSame DEF Unwound
<1>. QED BY <1>2, <1>3

LEMMA TableTypes ==
  ASSUME TypeOK
  PROVE  /\ \A ids : Deleting(ids) => runs' \in [RunId -> Row]
         /\ \A ids : HeartbeatRuns(ids) => runs' \in [RunId -> Row]
         /\ \A hosts, kept : RequeueStaleRuns(hosts, kept) => runs' \in [RunId -> Row]
<1>1. runs \in [RunId -> Row]
  BY DEF TypeOK, VarsTyped, QueueTypeOK
<1>2. \A row \in Row : Collected(row) \in Row
  BY RowOperators
<1>3. \A row \in Row : [row EXCEPT !.quiet = FALSE] \in Row
  BY DEF Row
<1>4. ASSUME NEW ids, Deleting(ids) PROVE runs' \in [RunId -> Row]
  BY <1>1, <1>4, Constants DEF Deleting
<1>5. ASSUME NEW ids, HeartbeatRuns(ids) PROVE runs' \in [RunId -> Row]
  BY <1>1, <1>3, <1>5 DEF HeartbeatRuns
<1>6. ASSUME NEW hosts, NEW kept, RequeueStaleRuns(hosts, kept) PROVE runs' \in [RunId -> Row]
  BY <1>1, <1>2, <1>6 DEF RequeueStaleRuns
<1>. QED BY <1>4, <1>5, <1>6

LEMMA StepTypes ==
  ASSUME TypeOK, NEW w \in Worker, Step(w)
  PROVE  TypeOK'
<1>. USE DEF Becomes, At
<1>0. /\ runs \in [RunId -> Row] /\ SetOf[w] \in Sets /\ jobs[w] \in Job
      /\ execs \in [Sets -> [RunId -> Worker \cup {None}]]
  BY WorkersAssumption DEF TypeOK, VarsTyped, QueueTypeOK
<1>1. CASE Look(w)
  <2>1. JobFits(w, [jobs[w] EXCEPT !.phase = "looking"])
    BY <1>0, <1>1 DEF JobFits, Look, Job, Phase, TypeOK, JobsShaped, AtWork
  <2>. QED BY <1>0, <1>1, <2>1, WorkerMoves, LooseSame DEF Look
<1>2. CASE Claim(w)
  <2>1. PICK i \in RunId :
          /\ runs' = [runs EXCEPT ![i] = Claimed(@, FreshToken)]
          /\ jobs' = Becomes(w, [IdleJob EXCEPT !.phase = "claimed", !.run = i,
                                               !.token = FreshToken])
    BY <1>2 DEF Claim
  <2>2. FreshToken \in Token /\ up[SetOf[w]] # "down"
    BY <1>2, FreshTokenType DEF Claim, TypeOK, JobsShaped
  <2>3. JobFits(w, [IdleJob EXCEPT !.phase = "claimed", !.run = i, !.token = FreshToken])
    BY <2>2, Constants DEF JobFits, IdleJob, Job, Phase
  <2>4. runs' \in [RunId -> Row]
    BY <1>0, <2>1, <2>2, RowOperators
  <2>. QED BY <1>0, <1>2, <2>1, <2>3, <2>4, WorkerMoves, LooseSame DEF Claim
<1>3. CASE FindNothing(w)
  BY <1>0, <1>3, IdleFits, WorkerMoves, LooseSame DEF FindNothing
<1>4. CASE Launch(w)
  <2>1. JobFits(w, [jobs[w] EXCEPT !.phase = "launched"])
    BY <1>4, PhaseFits DEF Launch, Phase
  <2>2. execs' \in [Sets -> [RunId -> Worker \cup {None}]]
    BY <1>0, <1>4 DEF Launch
  <2>. QED BY <1>0, <1>4, <2>1, <2>2, WorkerMoves, LooseSame DEF Launch
<1>5. CASE Prepare(w)
  <2>. DEFINE row == runs[jobs[w].run]
  <2>1. /\ jobs[w] \in Job /\ jobs[w].run \in RunId /\ row \in Row /\ up[SetOf[w]] # "down"
    BY <1>5, WorkingJob DEF Prepare
  <2>2. JobFits(w, [jobs[w] EXCEPT !.phase = "searching", !.work = row.work])
    BY <2>1 DEF JobFits, Job, Phase, Row
  <2>3. JobFits(w, [jobs[w] EXCEPT !.phase = "ended", !.ends = "fatal"])
    BY <2>1 DEF JobFits, Job, Phase, Ends
  <2>4. JobFits(w, [jobs[w] EXCEPT !.phase = "unwinding"])
    BY <1>5, PhaseFits DEF Prepare, Phase
  <2>. QED BY <1>0, <1>5, <2>2, <2>3, <2>4, WorkerMoves, LooseSame DEF Prepare
<1>6. CASE \E ends \in {"done", "retry"} : SearchEnds(w, ends)
  <2>1. PICK ends \in {"done", "retry"} : SearchEnds(w, ends)
    BY <1>6
  <2>2. JobFits(w, [jobs[w] EXCEPT !.phase = "ended", !.ends = ends])
    BY <2>1, WorkingJob DEF SearchEnds, JobFits, Job, Phase, Ends
  <2>. QED BY <1>0, <2>1, <2>2, WorkerMoves, LooseSame DEF SearchEnds
<1>7. CASE EndRead(w)
  <2>. DEFINE row == runs[jobs[w].run]
  <2>1. JobFits(w, [jobs[w] EXCEPT !.phase = "unwinding"])
    BY <1>7, PhaseFits DEF EndRead, Phase
  <2>2. /\ jobs[w] \in Job /\ jobs[w].run \in RunId /\ row \in Row /\ up[SetOf[w]] # "down"
    BY <1>7, WorkingJob DEF EndRead
  <2>3. JobFits(w, [jobs[w] EXCEPT !.phase = "writing", !.seen = row])
    BY <2>2 DEF JobFits, Job, Phase
  <2>. QED BY <1>0, <1>7, <2>1, <2>3, WorkerMoves, LooseSame DEF EndRead
<1>8. CASE EndWrite(w)
  <2>. DEFINE j == jobs[w]
              row == EndedRow(runs[j.run], j.seen, j.work, j.ends)
              failed == IF j.ends = "release" THEN "unwinding" ELSE "erred"
  <2>1. /\ j \in Job /\ j.run \in RunId /\ up[SetOf[w]] # "down" /\ row \in Row
    BY <1>8, WorkingJob, EndedRowType DEF EndWrite
  <2>2. /\ JobFits(w, [j EXCEPT !.phase = "unwinding", !.seen = Absent])
        /\ JobFits(w, [j EXCEPT !.seen = Absent, !.phase = failed])
    BY <2>1, Constants, ZenonT(60) DEF JobFits, Job, Phase
  <2>3. runs' \in [RunId -> Row]
    BY <1>0, <1>8, <2>1, RowWritten DEF EndWrite
  <2>. QED BY <1>0, <1>8, <2>2, <2>3, WorkerMoves, LooseSame DEF EndWrite
<1>9. CASE Release(w)
  <2>1. JobFits(w, [jobs[w] EXCEPT !.phase = "ended", !.ends = "release"])
    BY <1>9, WorkingJob DEF Release, JobFits, Job, Phase, Ends
  <2>. QED BY <1>0, <1>9, <2>1, WorkerMoves, LooseSame DEF Release
<1>10. ASSUME HandsBack(w), jobs[w].phase \in {"claimed", "unwinding"}, UNCHANGED loose,
              UNCHANGED <<runs, paused, asked, up, told, cancelling>>
       PROVE  TypeOK'
  <2>1. /\ jobs[w] \in Job /\ jobs[w].run \in RunId /\ up[SetOf[w]] # "down"
        /\ runs[jobs[w].run] \in Row
    BY <1>10, WorkingJob
  <2>2. JobFits(w, [jobs[w] EXCEPT !.phase = "handing", !.seen = runs[jobs[w].run]])
    BY <2>1 DEF JobFits, Job, Phase
  <2>3. execs' \in [Sets -> [RunId -> Worker \cup {None}]]
    BY <1>0, <1>10, ForgottenType DEF HandsBack
  <2>. QED BY <1>0, <1>10, <2>2, <2>3, IdleFits, WorkerMoves, LooseSame DEF HandsBack
<1>11. CASE Unwind(w)
  <2>1. CASE ~jobs[w].dying
    BY <1>0, <1>11, <2>1, ForgottenType, IdleFits, WorkerMoves, LooseSame DEF Unwind
  <2>2. CASE jobs[w].dying
    BY <1>10, <1>11, <2>2 DEF Unwind
  <2>. QED BY <2>1, <2>2
<1>12. CASE HandBack(w)
  <2>. DEFINE j == jobs[w]
  <2>1. Abandoned(runs[j.run], j.seen) \in Row /\ j.run \in RunId
    BY <1>12, WorkingJob, RowOperators DEF HandBack
  <2>2. runs' \in [RunId -> Row]
    BY <1>0, <1>12, <2>1, RowWritten DEF HandBack
  <2>3. execs' \in [Sets -> [RunId -> Worker \cup {None}]]
    BY <1>0, <1>12, ForgottenType DEF HandBack
  <2>. QED BY <1>0, <1>12, <2>2, <2>3, IdleFits, WorkerMoves, LooseSame DEF HandBack
<1>13. CASE StopCancel(w)
  <2>1. CASE jobs[w].phase = "looking"
    <3>1. [NoCall EXCEPT !.op = "claim"] \in Call /\ [NoCall EXCEPT !.op = "claim"].op = "claim"
      BY Constants DEF NoCall, Call
    <3>2. loose' = [loose EXCEPT ![SetOf[w]] = [NoCall EXCEPT !.op = "claim"]]
      BY <1>13, <2>1 DEF StopCancel, Interruptible
    <3>3. LooseOK'
      BY <1>0, <3>1, <3>2, CallsKept
    <3>4. jobs' = Becomes(w, IdleJob) /\ UNCHANGED execs
      BY <1>13, <2>1 DEF StopCancel, Interruptible
    <3>. QED BY <1>0, <1>13, <3>3, <3>4, IdleFits, WorkerMoves DEF StopCancel
  <2>2. CASE jobs[w].phase = "claimed" /\ HandsBack(w) /\ UNCHANGED loose
    BY <1>10, <1>13, <2>2 DEF StopCancel
  <2>3. CASE Interruptible(w) /\ Unwound(w, TRUE) /\ UNCHANGED execs
    <3>1. /\ JobFits(w, [jobs[w] EXCEPT !.phase = "unwinding", !.seen = Absent, !.dying = TRUE])
          /\ LooseOK'
      BY <2>3, UnwoundTypes
    <3>. QED BY <1>0, <1>13, <2>3, <3>1, WorkerMoves DEF StopCancel, Unwound
  <2>4. CASE /\ jobs[w].phase = "unwinding"
             /\ jobs' = Becomes(w, [jobs[w] EXCEPT !.dying = TRUE])
             /\ UNCHANGED <<execs, loose>>
    <3>1. JobFits(w, [jobs[w] EXCEPT !.dying = TRUE])
      BY <2>4, WorkingJob DEF JobFits, Job
    <3>. QED BY <1>0, <1>13, <2>4, <3>1, WorkerMoves, LooseSame DEF StopCancel
  <2>5. CASE /\ jobs[w].phase \in {"ended", "writing"}
             /\ jobs' = Becomes(w, IdleJob)
             /\ execs' = Forgotten(SetOf[w], jobs[w].run)
             /\ loose' = IF jobs[w].phase = "writing"
                         THEN [loose EXCEPT ![SetOf[w]] = CallOf(w)] ELSE loose
    <3>1. LooseOK'
      BY <1>0, <2>5, CallsKept, CallOfWorker, LooseSame
    <3>. QED BY <1>0, <1>13, <2>5, <3>1, ForgottenType, IdleFits, WorkerMoves DEF StopCancel
  <2>. QED BY <1>13, <2>1, <2>2, <2>3, <2>4, <2>5 DEF StopCancel
<1>. QED BY <1>1, <1>2, <1>3, <1>4, <1>5, <1>6, <1>7, <1>8, <1>9, <1>11, <1>12, <1>13 DEF Step

LEMMA UpkeepTypes ==
  ASSUME TypeOK, NEW s \in Sets, Upkeep(s)
  PROVE  TypeOK'
<1>0. /\ runs \in [RunId -> Row] /\ loose \in [Sets -> Call] /\ LooseOK
      /\ execs \in [Sets -> [RunId -> Worker \cup {None}]]
  BY DEF TypeOK, VarsTyped, QueueTypeOK, JobsShaped, LooseOK
<1>1. ASSUME NEW i \in RunId, CancelExecution(s, i) PROVE TypeOK'
  <2>1. told' \in [Sets -> SUBSET RunId]
    BY <1>1 DEF CancelExecution, TypeOK, VarsTyped
  <2>2. CASE \E w \in Crew(s) : execs[s][i] = w /\ Interruptible(w) /\ Unwound(w, FALSE)
    <3>1. PICK w \in Worker : Interruptible(w) /\ Unwound(w, FALSE)
      BY <2>2 DEF Crew
    <3>2. /\ JobFits(w, [jobs[w] EXCEPT !.phase = "unwinding", !.seen = Absent, !.dying = FALSE])
          /\ LooseOK'
      BY <3>1, UnwoundTypes
    <3>. DEFINE job == [jobs[w] EXCEPT !.phase = "unwinding", !.seen = Absent, !.dying = FALSE]
    <3>3. job \in Job /\ job.phase = "unwinding" /\ job.run \in RunId
      BY <3>2, WorkingJob, <3>1 DEF JobFits, Interruptible, Job
    <3>4. /\ jobs' \in [Worker -> Job] /\ jobs'[w] = job
          /\ \A v \in Worker \ {w} : jobs'[v] = jobs[v]
      BY <3>1, <3>3 DEF Unwound, Becomes, TypeOK, VarsTyped
    <3>. HIDE DEF job
    <3>5. VarsTyped'
      BY <1>1, <2>1, <3>2, <3>4 DEF CancelExecution, TypeOK, VarsTyped, QueueTypeOK, LooseOK
    <3>6. up[SetOf[w]] # "down"
      BY <3>2, <3>3 DEF JobFits, job
    <3>7. JobsShaped'
      BY <1>1, <3>2, <3>3, <3>4, <3>6 DEF CancelExecution, TypeOK, JobsShaped, AtWork, LooseOK
    <3>. QED BY <3>5, <3>7 DEF TypeOK
  <2>3. CASE UNCHANGED <<jobs, loose>>
    BY <1>1, <2>1, <2>3 DEF CancelExecution, TypeOK, VarsTyped, QueueTypeOK, JobsShaped, AtWork
  <2>. QED BY <1>1, <2>2, <2>3 DEF CancelExecution
<1>2. ASSUME LooseOK', runs' \in [RunId -> Row],
             UNCHANGED <<paused, asked, up, jobs, execs, told, cancelling>>
      PROVE  TypeOK'
  BY <1>2 DEF TypeOK, VarsTyped, QueueTypeOK, JobsShaped, AtWork, LooseOK
<1>3. loose' = [loose EXCEPT ![s] = NoCall] => LooseOK'
  BY Constants, CallsKept DEF NoCall
<1>4. CASE LooseClaim(s)
  <2>1. runs' \in [RunId -> Row]
    <3>1. CASE UNCHANGED runs
      BY <1>0, <3>1
    <3>2. CASE \E i \in RunId : /\ FreshTokens # {}
                                /\ runs' = [runs EXCEPT ![i] = Claimed(@, FreshToken)]
      <4>1. PICK i \in RunId : FreshTokens # {} /\ runs' = [runs EXCEPT ![i] = Claimed(@, FreshToken)]
        BY <3>2
      <4>2. runs[i] \in Row /\ FreshToken \in Token
        BY <1>0, <4>1, FreshTokenType
      <4>3. Claimed(runs[i], FreshToken) \in Row
        BY <4>2, RowOperators
      <4>. QED BY <4>1, <4>3, RowWritten
    <3>. QED BY <1>4, <3>1, <3>2 DEF LooseClaim
  <2>. QED BY <1>2, <1>3, <1>4, <2>1 DEF LooseClaim
<1>5. CASE LooseWrite(s)
  <2>. DEFINE c == loose[s]
  <2>1. c \in Call /\ c.run \in RunId
    BY <1>0, <1>5 DEF LooseWrite, LooseOK
  <2>2. EndedRow(runs[c.run], c.seen, c.work, c.ends) \in Row
    BY <1>0, <2>1, EndedRowType DEF Call
  <2>3. runs' \in [RunId -> Row]
    BY <1>0, <1>5, <2>1, <2>2, RowWritten DEF LooseWrite
  <2>. QED BY <1>2, <1>3, <1>5, <2>3 DEF LooseWrite
<1>6. CASE Beat(s)
  <2>1. runs' \in [RunId -> Row]
    BY <1>6, TableTypes DEF Beat
  <2>2. told' \in [Sets -> SUBSET RunId]
    BY <1>6 DEF Beat, InFlight, TypeOK, VarsTyped
  <2>. QED BY <1>6, <2>1, <2>2
       DEF Beat, TypeOK, VarsTyped, QueueTypeOK, JobsShaped, AtWork
<1>7. CASE LocalSweep(s)
  BY <1>2, <1>7, TableTypes, LooseSame DEF LocalSweep, SweepStale
<1>8. ASSUME up' \in [Sets -> {"down", "up", "stopping"}], told' \in [Sets -> SUBSET RunId],
             runs' \in [RunId -> Row],
             \A w \in Worker : jobs[w].phase # "idle" => up'[SetOf[w]] # "down",
             UNCHANGED <<paused, asked, jobs, execs, loose, cancelling>>
      PROVE  TypeOK'
  BY <1>8 DEF TypeOK, VarsTyped, QueueTypeOK, JobsShaped, AtWork
<1>9. /\ up \in [Sets -> {"down", "up", "stopping"}] /\ told \in [Sets -> SUBSET RunId]
      /\ jobs \in [Worker -> Job] /\ SetOf \in [Worker -> Sets]
      /\ \A w \in Worker : jobs[w].phase # "idle" => up[SetOf[w]] # "down"
  BY WorkersAssumption DEF TypeOK, VarsTyped, JobsShaped
<1>10. CASE Start(s)
  BY <1>8, <1>9, <1>10, TableTypes DEF Start
<1>11. CASE Stop(s)
  BY <1>0, <1>8, <1>9, <1>11 DEF Stop
<1>12. CASE Stopped(s)
  BY <1>0, <1>8, <1>9, <1>12 DEF Stopped, Crew
<1>13. CASE Crash(s)
  <2>1. jobs' \in [Worker -> Job]
    BY <1>9, <1>13, Constants DEF Crash
  <2>2. QueueTypeOK'
    BY <1>13 DEF Crash, TypeOK, VarsTyped, QueueTypeOK
  <2>3. /\ up' \in [Sets -> {"down", "up", "stopping"}] /\ told' \in [Sets -> SUBSET RunId]
        /\ execs' \in [Sets -> [RunId -> Worker \cup {None}]]
    BY <1>0, <1>9, <1>13 DEF Crash
  <2>4. LooseOK' /\ cancelling' \subseteq RunId
    BY <1>3, <1>13 DEF Crash, TypeOK, VarsTyped
  <2>5. VarsTyped'
    BY <2>1, <2>2, <2>3, <2>4 DEF VarsTyped, LooseOK
  <2>6. \A w \in Worker : jobs'[w] = IF SetOf[w] = s THEN IdleJob ELSE jobs[w]
    BY <1>13 DEF Crash, Crew
  <2>7. \A w \in Worker : jobs'[w].phase # "idle" => up'[SetOf[w]] # "down"
    BY <1>9, <1>13, <2>6 DEF Crash, IdleJob
  <2>8. \A w \in Worker : IF AtWork(w)' THEN jobs'[w].run \in RunId
                                    ELSE jobs'[w].run = NoRun /\ jobs'[w].ends = "done"
    BY <2>6 DEF TypeOK, JobsShaped, AtWork, IdleJob
  <2>. QED BY <2>4, <2>5, <2>7, <2>8 DEF TypeOK, JobsShaped, LooseOK
<1>. QED BY <1>1, <1>4, <1>5, <1>6, <1>7, <1>10, <1>11, <1>12, <1>13 DEF Upkeep

LEMMA OwnerTypes == TypeOK /\ Owner => TypeOK'
<1>. SUFFICES ASSUME TypeOK, Owner PROVE TypeOK'
  OBVIOUS
<1>1. ASSUME NEW kind \in AskedKinds, NEW host \in AskedHosts, Ask(kind, host) PROVE TypeOK'
  <2>1. PICK i \in RunId :
          runs' = [runs EXCEPT ![i] = [Absent EXCEPT !.work = asked + 1, !.kind = kind,
                                                     !.host = host, !.status = "queued"]]
    BY <1>1 DEF Ask, RequestAnalysis
  <2>2. kind \in Kind /\ host \in Host
    BY QueueAssumption
  <2>3. asked + 1 \in Work /\ asked' \in 0 .. MaxWorks
    BY <1>1, QueueAssumption DEF Ask, RequestAnalysis, Work, TypeOK, VarsTyped, QueueTypeOK
  <2>4. [Absent EXCEPT !.work = asked + 1, !.kind = kind, !.host = host, !.status = "queued"] \in Row
    BY <2>2, <2>3, Constants DEF Row, Status
  <2>5. runs' \in [RunId -> Row]
    BY <2>1, <2>4, RowWritten
  <2>. QED BY <1>1, <2>3, <2>5
       DEF Ask, RequestAnalysis, TypeOK, VarsTyped, QueueTypeOK, JobsShaped, AtWork
<1>2. ASSUME NEW flag \in BOOLEAN, Pause(flag) PROVE TypeOK'
  BY <1>2 DEF Pause, SetQueuePaused, TypeOK, VarsTyped, QueueTypeOK, JobsShaped, AtWork
<1>3. CASE StopBackfill \/ StopQueue
  BY <1>3, TableTypes DEF StopBackfill, StopQueue, CancelQueued, ClearQueue,
       TypeOK, VarsTyped, QueueTypeOK, JobsShaped, AtWork
<1>4. ASSUME NEW i \in RunId, CancelRead(i) PROVE TypeOK'
  BY <1>4 DEF CancelRead, TypeOK, VarsTyped, QueueTypeOK, JobsShaped, AtWork
<1>5. ASSUME NEW i \in RunId, CancelRun(i) PROVE TypeOK'
  <2>1. told' \in [Sets -> SUBSET RunId]
    BY <1>5 DEF CancelRun, TypeOK, VarsTyped
  <2>. QED BY <1>5, <2>1, TableTypes
       DEF CancelRun, TypeOK, VarsTyped, QueueTypeOK, JobsShaped, AtWork
<1>. QED BY <1>1, <1>2, <1>3, <1>4, <1>5 DEF Owner

LEMMA TypeNext == TypeOK /\ [Next]_vars => TypeOK'
<1>. SUFFICES ASSUME TypeOK, [Next]_vars PROVE TypeOK'
  OBVIOUS
<1>1. ASSUME runs' \in [RunId -> Row],
             UNCHANGED <<paused, asked, up, jobs, execs, told, loose, cancelling>>
      PROVE  TypeOK'
  BY <1>1 DEF TypeOK, VarsTyped, QueueTypeOK, JobsShaped, AtWork
<1>2. ASSUME NEW i \in RunId, GoQuiet(i) PROVE TypeOK'
  <2>1. runs[i] \in Row
    BY DEF TypeOK, VarsTyped, QueueTypeOK
  <2>2. [runs[i] EXCEPT !.quiet = TRUE] \in Row
    BY <2>1 DEF Row
  <2>. QED BY <1>1, <1>2, <2>2, RowWritten DEF GoQuiet
<1>3. CASE GatewaySweep
  BY <1>1, <1>3, TableTypes DEF GatewaySweep, SweepStale
<1>4. CASE UNCHANGED vars
  BY <1>1, <1>4 DEF vars, TypeOK, VarsTyped, QueueTypeOK
<1>. QED BY <1>2, <1>3, <1>4, OwnerTypes, StepTypes, UpkeepTypes DEF Next

(* The variables keep their types, workers between runs know none, and a   *)
(* set that is down has nobody at work, whatever the hazards.              *)
THEOREM TypeCorrect == Spec => []TypeOK
BY TypeInit, TypeNext, PTL DEF Spec

-----------------------------------------------------------------------------
(* Ownership.                                                              *)

LEMMA InvInit == Init => IInv
<1>. SUFFICES ASSUME Init PROVE IInv
  OBVIOUS
<1>1. TypeOK
  BY TypeInit
<1>2. NoStop /\ StaysGone /\ EndsLater
  BY DEF Init, NoStop, StaysGone, EndsLater, IdleJob, NoCall, AtWork
<1>3. Owned /\ OneSearcherPerRun /\ AloneInSet /\ ExecutionIsNamed
  BY DEF Init, Owned, OneSearcherPerRun, AloneInSet, ExecutionIsNamed, Searching, IdleJob
<1>4. EntryIsHolders
  BY WorkersAssumption DEF Init, EntryIsHolders
<1>. QED BY <1>1, <1>2, <1>3, <1>4 DEF IInv

(* Steps that leave the workers alone keep the invariant if they do not    *)
(* touch what a search owns and bring no row back that a hand still holds. *)
LEMMA RowsChange ==
  ASSUME IInv, TypeOK', UNCHANGED <<jobs, execs>>,
         \A s \in Sets : up'[s] # "stopping",
         \A s \in Sets : loose'[s] \in {loose[s], NoCall},
         \A w \in Worker : Searching(w) /\ runs[jobs[w].run].status = "running" =>
           \/ runs'[jobs[w].run].status = "absent"
           \/ /\ runs'[jobs[w].run].status = "running" /\ ~runs'[jobs[w].run].quiet
              /\ runs'[jobs[w].run].token = runs[jobs[w].run].token,
         \A i \in RunId : runs[i].status = "absent" /\ InHand(i) => runs'[i].status = "absent",
         \A s \in Sets : \A i \in told'[s] : i \in told[s] \/ runs'[i].status = "absent"
  PROVE  IInv'
<1>1. /\ told \in [Sets -> SUBSET RunId]
      /\ \A w \in Worker : AtWork(w) => jobs[w].run \in RunId
      /\ \A s \in Sets : loose[s].op = "write" => loose[s].run \in RunId
  BY DEF IInv, TypeOK, VarsTyped, JobsShaped
<1>2. \A w \in Worker : Searching(w) => AtWork(w)
  BY DEF Searching, AtWork
<1>3. NoStop'
  BY DEF IInv, NoStop, NoCall
<1>4. StaysGone'
  <2>1. \A s \in Sets : \A i \in told'[s] : runs'[i].status = "absent"
    BY <1>1 DEF IInv, StaysGone, InHand
  <2>2. \A s \in Sets : loose'[s].op = "write" => runs'[loose'[s].run].status = "absent"
    BY <1>1 DEF IInv, StaysGone, InHand, NoCall
  <2>3. \A w \in Worker : AtWork(w) /\ (jobs[w].phase = "erred" \/ jobs[w].ends = "release") =>
          runs'[jobs[w].run].status = "absent"
    BY <1>1 DEF IInv, StaysGone, InHand
  <2>. QED BY <2>1, <2>2, <2>3 DEF StaysGone, AtWork
<1>5. Owned'
  BY <1>1, <1>2 DEF IInv, Owned, Searching, InHand
<1>6. OneSearcherPerRun' /\ AloneInSet' /\ ExecutionIsNamed' /\ EntryIsHolders' /\ EndsLater'
  BY DEF IInv, OneSearcherPerRun, AloneInSet, ExecutionIsNamed, EntryIsHolders, EndsLater,
         Searching, AtWork
<1>. QED BY <1>3, <1>4, <1>5, <1>6 DEF IInv

(* A worker's step keeps it if a search only goes on with what it has, and *)
(* a worker that leaves takes just its own entry with it.                  *)
LEMMA WorkerContinues ==
  ASSUME IInv, TypeOK', NEW w \in Worker, NEW job, JobFits(w, job), jobs' = Becomes(w, job),
         ~job.dying /\ job.phase # "handing",
         Searching(w)' => /\ Searching(w) /\ job.run = jobs[w].run /\ job.token = jobs[w].token
                          /\ jobs[w].phase = "claimed" => job.phase = "claimed",
         job.phase = "erred" \/ job.ends = "release" => runs[jobs[w].run].status = "absent",
         job.phase \in {"claimed", "launched", "searching"} => job.ends = "done",
         \/ /\ UNCHANGED execs
            /\ job.run = jobs[w].run
            /\ AtWork(w) => job.phase \notin {"idle", "looking"}
         \/ /\ execs' = Forgotten(SetOf[w], jobs[w].run)
            /\ job.phase = "idle",
         UNCHANGED up,
         \A i \in RunId : \/ runs'[i] = runs[i]
                          \/ /\ i = jobs[w].run /\ Present(i)
                             /\ Searching(w) /\ ~Searching(w)',
         \A s \in Sets : told'[s] \subseteq told[s],
         \A s \in Sets : loose'[s].op # "claim" /\
           (loose'[s].op = "write" => loose'[s].run \in RunId /\ runs[loose'[s].run].status = "absent")
  PROVE  IInv'
<1>1. /\ told \in [Sets -> SUBSET RunId] /\ SetOf \in [Worker -> Sets]
      /\ \A v \in Worker : IF AtWork(v) THEN jobs[v].run \in RunId
                             ELSE jobs[v].run = NoRun /\ jobs[v].ends = "done"
      /\ execs \in [Sets -> [RunId -> Worker \cup {None}]] /\ None \notin Worker
  BY WorkersAssumption DEF IInv, TypeOK, VarsTyped, JobsShaped
<1>2. /\ jobs'[w] = job /\ \A v \in Worker \ {w} : jobs'[v] = jobs[v]
  BY DEF Becomes, IInv, TypeOK, VarsTyped
<1>3. NoRun \notin RunId
  BY QueueAssumption DEF NoRun, RunId
<1>4. \A v \in Worker : Searching(v) => AtWork(v)
  BY DEF Searching, AtWork
<1>5. \A v \in Worker \ {w} : Searching(v)' = Searching(v) /\ AtWork(v)' = AtWork(v)
  BY <1>2 DEF Searching, AtWork
<1>6. job.run \in {jobs[w].run, NoRun}
  BY DEF JobFits
<1>7. OneSearcherPerRun'
  BY <1>2, <1>5 DEF IInv, OneSearcherPerRun
<1>8. Owned'
  <2>1. ASSUME NEW v \in Worker, Searching(v)'
        PROVE  runs'[jobs'[v].run] = runs[jobs[v].run] /\ Searching(v)
               /\ jobs'[v].token = jobs[v].token
    BY <1>1, <1>2, <1>4, <1>5, <2>1 DEF IInv, OneSearcherPerRun
  <2>. QED BY <2>1, <1>2 DEF IInv, Owned
<1>9. AloneInSet'
  BY <1>1, <1>2, <1>3, <1>4, <1>5, <1>6 DEF IInv, AloneInSet
<1>10. ExecutionIsNamed'
  <2>1. ASSUME NEW v \in Worker, Searching(v)', jobs'[v].phase # "claimed"
        PROVE  execs'[SetOf[v]][jobs'[v].run] = v
    <3>1. /\ Searching(v) /\ jobs[v].phase # "claimed" /\ jobs'[v].run = jobs[v].run
          /\ jobs[v].run \in RunId
      BY <1>1, <1>2, <1>4, <1>5, <2>1
    <3>2. execs[SetOf[v]][jobs[v].run] = v
      BY <3>1 DEF IInv, ExecutionIsNamed
    <3>3. CASE UNCHANGED execs
      BY <3>1, <3>2, <3>3
    <3>4. CASE execs' = Forgotten(SetOf[w], jobs[w].run) /\ job.phase = "idle"
      <4>1. v # w
        BY <1>2, <2>1, <3>4 DEF Searching
      <4>2. SetOf[v] # SetOf[w] \/ jobs[v].run # jobs[w].run
        BY <3>1, <4>1 DEF IInv, AloneInSet
      <4>. QED BY <1>1, <3>1, <3>2, <3>4, <4>2 DEF Forgotten
    <3>. QED BY <3>3, <3>4
  <2>. QED BY <2>1 DEF ExecutionIsNamed
<1>11. EntryIsHolders'
  <2>1. ASSUME NEW s \in Sets, NEW i \in RunId, NEW v \in Worker, execs'[s][i] = v
        PROVE  SetOf[v] = s /\ AtWork(v)' /\ jobs'[v].run = i
    <3>1. CASE UNCHANGED execs /\ job.run = jobs[w].run
               /\ (AtWork(w) => job.phase \notin {"idle", "looking"})
      BY <1>2, <1>5, <2>1, <3>1 DEF IInv, EntryIsHolders, AtWork
    <3>2. CASE execs' = Forgotten(SetOf[w], jobs[w].run)
      <4>1. execs[s][i] = v /\ ~(s = SetOf[w] /\ i = jobs[w].run)
        BY <1>1, <2>1, <3>2 DEF Forgotten
      <4>2. SetOf[v] = s /\ AtWork(v) /\ jobs[v].run = i
        BY <4>1 DEF IInv, EntryIsHolders
      <4>. QED BY <1>2, <1>5, <4>1, <4>2
    <3>. QED BY <3>1, <3>2
  <2>. QED BY <2>1 DEF EntryIsHolders
<1>12. \A i \in RunId : runs[i].status = "absent" => runs'[i].status = "absent"
  BY DEF Present
<1>13. StaysGone'
  <2>1. \A s \in Sets : \A i \in told'[s] : runs'[i].status = "absent"
    BY <1>1, <1>12 DEF IInv, StaysGone
  <2>2. \A s \in Sets : loose'[s].op = "write" => runs'[loose'[s].run].status = "absent"
    BY <1>12
  <2>3. \A v \in Worker : AtWork(v)' /\ (jobs'[v].phase = "erred" \/ jobs'[v].ends = "release") =>
          runs'[jobs'[v].run].status = "absent"
    <3>1. ASSUME NEW v \in Worker \ {w}, AtWork(v)',
                 jobs'[v].phase = "erred" \/ jobs'[v].ends = "release"
          PROVE  runs'[jobs'[v].run].status = "absent"
      BY <1>1, <1>2, <1>5, <1>12, <3>1 DEF IInv, StaysGone
    <3>2. ASSUME AtWork(w)', job.phase = "erred" \/ job.ends = "release"
          PROVE  runs'[jobs'[w].run].status = "absent"
      <4>1. job.run \in RunId /\ job.run = jobs[w].run
        BY <1>2, <1>6, <1>3, <3>2 DEF JobFits, AtWork
      <4>. QED BY <1>2, <1>12, <3>2, <4>1
    <3>. QED BY <1>2, <3>1, <3>2
  <2>. QED BY <2>1, <2>2, <2>3 DEF StaysGone
<1>14. NoStop' /\ EndsLater'
  BY <1>2 DEF IInv, NoStop, EndsLater
<1>. QED BY <1>7, <1>8, <1>9, <1>10, <1>11, <1>13, <1>14 DEF IInv

LEMMA SameCalls ==
  ASSUME IInv, UNCHANGED <<told, loose>>
  PROVE  /\ \A s \in Sets : told'[s] \subseteq told[s]
         /\ \A s \in Sets : loose'[s].op # "claim" /\
              (loose'[s].op = "write" => loose'[s].run \in RunId /\
                                         runs[loose'[s].run].status = "absent")
BY DEF IInv, TypeOK, JobsShaped, NoStop, StaysGone

(* The running attempt of a search is alone in having its row.             *)
LEMMA ClaimKeeps ==
  ASSUME IInv, TypeOK', NEW w \in Worker, Claim(w)
  PROVE  IInv'
<1>1. PICK i \in RunId :
        /\ runs[i].status = "queued"
        /\ runs' = [runs EXCEPT ![i] = Claimed(@, FreshToken)]
        /\ jobs' = Becomes(w, [IdleJob EXCEPT !.phase = "claimed", !.run = i,
                                             !.token = FreshToken])
  BY DEF Claim, IsNextRun, Claimable
<1>. DEFINE job == [IdleJob EXCEPT !.phase = "claimed", !.run = i, !.token = FreshToken]
<1>2. /\ job.phase = "claimed" /\ job.run = i /\ job.token = FreshToken /\ job.ends = "done"
      /\ ~job.dying
  BY DEF IdleJob
<1>3. /\ runs \in [RunId -> Row] /\ jobs[w].phase = "looking" /\ told \in [Sets -> SUBSET RunId]
      /\ \A v \in Worker : IF AtWork(v) THEN jobs[v].run \in RunId
                             ELSE jobs[v].run = NoRun /\ jobs[v].ends = "done"
      /\ \A s \in Sets : loose[s].op = "write" => loose[s].run \in RunId
  BY DEF Claim, IInv, TypeOK, VarsTyped, QueueTypeOK, JobsShaped
<1>4. /\ jobs'[w] = job /\ \A v \in Worker \ {w} : jobs'[v] = jobs[v]
  BY <1>1 DEF Becomes, IInv, TypeOK, VarsTyped
<1>. HIDE DEF job
<1>5. /\ runs'[i].status = "running" /\ runs'[i].token = FreshToken /\ ~runs'[i].quiet
      /\ \A k \in RunId \ {i} : runs'[k] = runs[k]
  <2>1. runs[i] \in Row
    BY <1>3
  <2>2. /\ Claimed(runs[i], FreshToken).status = "running"
        /\ Claimed(runs[i], FreshToken).token = FreshToken
        /\ ~Claimed(runs[i], FreshToken).quiet
    BY <2>1 DEF Claimed, Row
  <2>. QED BY <1>1, <1>3, <2>2
<1>6. \A v \in Worker : Searching(v) => AtWork(v) /\ jobs[v].run # i /\ v # w
  BY <1>1, <1>3 DEF IInv, Owned, Searching, AtWork
<1>7. /\ Searching(w)'
      /\ \A v \in Worker \ {w} : Searching(v)' = Searching(v) /\ AtWork(v)' = AtWork(v)
  BY <1>2, <1>4 DEF Searching, AtWork
<1>8. \A k \in RunId : runs[k].status = "absent" => runs'[k].status = "absent"
  BY <1>1, <1>5
<1>9. Owned'
  BY <1>2, <1>3, <1>4, <1>5, <1>6, <1>7 DEF IInv, Owned
<1>10. OneSearcherPerRun'
  BY <1>2, <1>4, <1>6, <1>7 DEF IInv, OneSearcherPerRun
<1>11. AloneInSet'
  BY <1>2, <1>4, <1>6, <1>7 DEF IInv, AloneInSet
<1>12. ExecutionIsNamed' /\ EntryIsHolders'
  BY <1>2, <1>3, <1>4, <1>6, <1>7 DEF Claim, IInv, ExecutionIsNamed, EntryIsHolders, AtWork
<1>13. StaysGone'
  <2>1. /\ \A s \in Sets : \A k \in told'[s] : runs'[k].status = "absent"
        /\ \A s \in Sets : loose'[s].op = "write" => runs'[loose'[s].run].status = "absent"
    BY <1>3, <1>8 DEF Claim, IInv, StaysGone
  <2>2. \A v \in Worker : AtWork(v)' /\ (jobs'[v].phase = "erred" \/ jobs'[v].ends = "release") =>
          runs'[jobs'[v].run].status = "absent"
    BY <1>2, <1>3, <1>4, <1>7, <1>8 DEF IInv, StaysGone
  <2>. QED BY <2>1, <2>2 DEF StaysGone
<1>14. NoStop' /\ EndsLater'
  BY <1>2, <1>4 DEF Claim, IInv, NoStop, EndsLater
<1>. QED BY <1>9, <1>10, <1>11, <1>12, <1>13, <1>14 DEF IInv

LEMMA LaunchKeeps ==
  ASSUME Calm, IInv, TypeOK', NEW w \in Worker, Launch(w)
  PROVE  IInv'
<1>1. /\ jobs[w] \in Job /\ jobs[w].phase = "claimed" /\ jobs[w].run \in RunId
      /\ jobs[w].ends # "release" => Searching(w)
      /\ SetOf[w] \in Sets /\ SetOf \in [Worker -> Sets]
      /\ execs \in [Sets -> [RunId -> Worker \cup {None}]]
  BY WorkersAssumption DEF Launch, IInv, TypeOK, VarsTyped, JobsShaped, AtWork, Searching
<1>2. /\ jobs'[w].phase = "launched" /\ jobs'[w].run = jobs[w].run /\ jobs'[w].ends = jobs[w].ends
      /\ jobs'[w].token = jobs[w].token /\ jobs'[w].dying = jobs[w].dying
      /\ \A v \in Worker \ {w} : jobs'[v] = jobs[v]
  BY <1>1 DEF Launch, At, Becomes, Job, IInv, TypeOK, VarsTyped
<1>3. \A v \in Worker : Searching(v)' = Searching(v) /\ AtWork(v)' = AtWork(v)
                          /\ jobs'[v].run = jobs[v].run /\ jobs'[v].token = jobs[v].token
                          /\ jobs'[v].ends = jobs[v].ends
  BY <1>1, <1>2 DEF Searching, AtWork
<1>4. \A v \in Worker \ {w} : SetOf[v] = SetOf[w] => jobs[v].run # jobs[w].run
  BY DEF Launch, Calm, Crew
<1>5. Owned' /\ OneSearcherPerRun'
  BY <1>3 DEF Launch, IInv, Owned, OneSearcherPerRun
<1>6. AloneInSet'
  BY <1>2, <1>3, <1>4 DEF IInv, AloneInSet
<1>7. execs' = [execs EXCEPT ![SetOf[w]] = [@ EXCEPT ![jobs[w].run] = w]]
  BY DEF Launch
<1>8. ExecutionIsNamed'
  <2>1. ASSUME NEW v \in Worker, Searching(v)', jobs'[v].phase # "claimed"
        PROVE  execs'[SetOf[v]][jobs'[v].run] = v
    <3>1. CASE v = w
      BY <1>1, <1>2, <1>7, <3>1
    <3>2. CASE v # w
      <4>1. /\ Searching(v) /\ jobs[v].phase # "claimed" /\ jobs'[v].run = jobs[v].run
            /\ jobs[v].run \in RunId
        BY <1>2, <1>3, <2>1, <3>2 DEF IInv, TypeOK, JobsShaped, AtWork, Searching
      <4>2. execs[SetOf[v]][jobs[v].run] = v
        BY <4>1 DEF IInv, ExecutionIsNamed
      <4>. QED BY <1>1, <1>4, <1>7, <3>2, <4>1, <4>2
    <3>. QED BY <3>1, <3>2
  <2>. QED BY <2>1 DEF ExecutionIsNamed
<1>9. EntryIsHolders'
  <2>1. ASSUME NEW s \in Sets, NEW i \in RunId, NEW v \in Worker, execs'[s][i] = v
        PROVE  SetOf[v] = s /\ AtWork(v)' /\ jobs'[v].run = i
    <3>1. CASE s = SetOf[w] /\ i = jobs[w].run
      BY <1>1, <1>2, <1>7, <2>1, <3>1 DEF AtWork
    <3>2. CASE ~(s = SetOf[w] /\ i = jobs[w].run)
      BY <1>1, <1>3, <1>7, <2>1, <3>2 DEF IInv, EntryIsHolders
    <3>. QED BY <3>1, <3>2
  <2>. QED BY <2>1 DEF EntryIsHolders
<1>10. StaysGone'
  BY <1>2, <1>3 DEF Launch, IInv, StaysGone
<1>11. NoStop' /\ EndsLater'
  BY <1>1, <1>2 DEF Launch, IInv, NoStop, EndsLater
<1>. QED BY <1>5, <1>6, <1>8, <1>9, <1>10, <1>11 DEF IInv

(* What a worker's end writes, or finds gone.                              *)
LEMMA EndWriteKeeps ==
  ASSUME IInv, TypeOK', NEW w \in Worker, EndWrite(w)
  PROVE  IInv'
<1>. DEFINE j == jobs[w]
            row == EndedRow(runs[j.run], j.seen, j.work, j.ends)
            failed == IF j.ends = "release" THEN "unwinding" ELSE "erred"
            left == [j EXCEPT !.phase = "unwinding", !.seen = Absent]
            lost == [j EXCEPT !.seen = Absent, !.phase = failed]
<1>1. /\ TypeOK /\ j.phase = "writing" /\ j \in Job /\ j.run \in RunId /\ up[SetOf[w]] # "down"
      /\ runs \in [RunId -> Row] /\ ~j.dying
  BY WorkingJob DEF EndWrite, IInv, NoStop, TypeOK, VarsTyped, QueueTypeOK
<1>2. /\ left.phase = "unwinding" /\ left.run = j.run /\ left.ends = j.ends /\ ~left.dying
      /\ lost.phase = failed /\ lost.run = j.run /\ lost.ends = j.ends /\ ~lost.dying
  BY <1>1 DEF Job
<1>3. JobFits(w, left) /\ JobFits(w, lost)
  BY <1>1, Constants DEF JobFits, Job, Phase
<1>. HIDE DEF left, lost
<1>4. \A s \in Sets : told'[s] \subseteq told[s]
  BY DEF EndWrite
<1>5. \A s \in Sets : loose'[s].op # "claim" /\
        (loose'[s].op = "write" => loose'[s].run \in RunId /\ runs[loose'[s].run].status = "absent")
  BY SameCalls DEF EndWrite
<1>6. j.ends = "release" => ~Present(j.run)
  BY <1>1 DEF IInv, StaysGone, AtWork, Present
<1>7. CASE Present(j.run)
  <2>1. runs' = [runs EXCEPT ![j.run] = row] /\ jobs' = Becomes(w, left)
    BY <1>7 DEF EndWrite, left
  <2>2. jobs'[w] = left
    BY <1>1, <2>1 DEF Becomes, TypeOK, VarsTyped
  <2>3. Searching(w) /\ ~Searching(w)'
    BY <1>1, <1>2, <1>6, <1>7, <2>2 DEF Searching
  <2>4. \A i \in RunId : runs'[i] = runs[i] \/ (i = jobs[w].run /\ Present(i))
    BY <1>1, <1>7, <2>1
  <2>5. UNCHANGED <<execs, up>>
    BY DEF EndWrite
  <2>. QED BY <1>2, <1>3, <1>4, <1>5, <1>6, <1>7, <2>1, <2>3, <2>4, <2>5, WorkerContinues
<1>8. CASE ~Present(j.run)
  <2>1. UNCHANGED runs /\ jobs' = Becomes(w, lost)
    BY <1>8 DEF EndWrite, lost
  <2>2. jobs'[w] = lost
    BY <1>1, <2>1 DEF Becomes, TypeOK, VarsTyped
  <2>3. ~Searching(w)'
    BY <1>2, <2>2 DEF Searching
  <2>4. UNCHANGED <<execs, up>>
    BY DEF EndWrite
  <2>5. runs[j.run].status = "absent"
    BY <1>8 DEF Present
  <2>6. lost.phase # "handing" /\ lost.phase \notin {"idle", "looking"}
    BY <1>2
  <2>. QED BY <1>2, <1>3, <1>4, <1>5, <2>1, <2>3, <2>4, <2>5, <2>6, WorkerContinues
<1>. QED BY <1>7, <1>8

(* A step that only moves its worker on, with no row and no call touched.  *)
LEMMA WorkerMovesOn ==
  ASSUME IInv, TypeOK', NEW w \in Worker, NEW job, JobFits(w, job), jobs' = Becomes(w, job),
         ~job.dying /\ job.phase # "handing",
         job.run = jobs[w].run, job.token = jobs[w].token,
         AtWork(w) => job.phase \notin {"idle", "looking"},
         job.phase \in {"launched", "searching", "ended", "writing"} /\ job.ends # "release" =>
           Searching(w) /\ jobs[w].phase # "claimed",
         job.phase # "claimed",
         job.phase = "erred" \/ job.ends = "release" => runs[jobs[w].run].status = "absent",
         job.phase \in {"claimed", "launched", "searching"} => job.ends = "done",
         UNCHANGED <<runs, up, execs, told, loose>>
  PROVE  IInv'
<1>1. jobs'[w] = job
  BY DEF Becomes, IInv, TypeOK, VarsTyped
<1>2. Searching(w)' => Searching(w) /\ jobs[w].phase # "claimed"
  BY <1>1 DEF Searching
<1>3. /\ \A s \in Sets : told'[s] \subseteq told[s]
      /\ \A s \in Sets : loose'[s].op # "claim" /\
           (loose'[s].op = "write" => loose'[s].run \in RunId /\
                                      runs[loose'[s].run].status = "absent")
  BY SameCalls
<1>. QED BY <1>2, <1>3, WorkerContinues

(* A worker goes idle and drops the entry of its run.                      *)
LEMMA WorkerLeaves ==
  ASSUME IInv, TypeOK', NEW w \in Worker, jobs' = Becomes(w, IdleJob),
         execs' = Forgotten(SetOf[w], jobs[w].run), UNCHANGED <<runs, up, told, loose>>
  PROVE  IInv'
<1>1. jobs'[w] = IdleJob
  BY DEF Becomes, IInv, TypeOK, VarsTyped
<1>2. ~Searching(w)'
  BY <1>1 DEF Searching, IdleJob
<1>3. IdleJob.phase = "idle" /\ IdleJob.ends = "done" /\ ~IdleJob.dying
  BY DEF IdleJob
<1>4. /\ \A s \in Sets : told'[s] \subseteq told[s]
      /\ \A s \in Sets : loose'[s].op # "claim" /\
           (loose'[s].op = "write" => loose'[s].run \in RunId /\
                                      runs[loose'[s].run].status = "absent")
  BY SameCalls
<1>. QED BY <1>2, <1>3, <1>4, IdleFits, WorkerContinues

LEMMA StepKeeps ==
  ASSUME Calm, IInv, TypeOK', NEW w \in Worker, Step(w)
  PROVE  IInv'
<1>. DEFINE j == jobs[w]
<1>0. /\ TypeOK /\ j \in Job /\ ~j.dying /\ j.phase # "handing"
      /\ up[SetOf[w]] # "stopping" /\ SetOf[w] \in Sets
      /\ AtWork(w) => j.run \in RunId
      /\ ~AtWork(w) => j.run = NoRun /\ j.ends = "done"
      /\ AtWork(w) => up[SetOf[w]] # "down"
  BY WorkersAssumption DEF IInv, NoStop, TypeOK, VarsTyped, JobsShaped, AtWork
<1>1. CASE Look(w)
  <2>. DEFINE job == [j EXCEPT !.phase = "looking"]
  <2>1. /\ job \in Job /\ job.phase = "looking" /\ job.run = j.run /\ job.token = j.token
        /\ job.ends = j.ends /\ ~job.dying
    BY <1>0 DEF Job, Phase
  <2>2. JobFits(w, job) /\ ~AtWork(w) /\ job.ends = "done"
    BY <1>0, <1>1, <2>1 DEF Look, JobFits, AtWork
  <2>3. jobs' = Becomes(w, job) /\ UNCHANGED <<runs, up, execs, told, loose>>
    BY <1>1 DEF Look, At
  <2>. HIDE DEF job
  <2>. QED BY <2>1, <2>2, <2>3, WorkerMovesOn
<1>2. CASE Claim(w)
  BY <1>2, ClaimKeeps
<1>3. CASE FindNothing(w)
  <2>1. ~AtWork(w) /\ IdleJob.run = j.run /\ IdleJob.phase = "idle" /\ IdleJob.ends = "done"
        /\ ~IdleJob.dying
    BY <1>0, <1>3 DEF FindNothing, AtWork, IdleJob
  <2>2. ~Searching(w)'
    BY <1>0, <1>3, <2>1 DEF FindNothing, Becomes, Searching, TypeOK, VarsTyped
  <2>3. jobs' = Becomes(w, IdleJob) /\ UNCHANGED <<runs, up, execs, told, loose>>
    BY <1>3 DEF FindNothing
  <2>. QED BY <2>1, <2>2, <2>3, SameCalls, IdleFits, WorkerContinues
<1>4. CASE Launch(w)
  BY <1>4, LaunchKeeps
<1>5. CASE Prepare(w)
  <2>. DEFINE row == runs[j.run]
              planned == [j EXCEPT !.phase = "searching", !.work = row.work]
              refused == [j EXCEPT !.phase = "ended", !.ends = "fatal"]
              gone == [j EXCEPT !.phase = "unwinding"]
  <2>1. /\ j.phase = "launched" /\ j.run \in RunId /\ row \in Row /\ up[SetOf[w]] # "down"
        /\ UNCHANGED <<runs, up, execs, told, loose>>
        /\ jobs' \in {Becomes(w, planned), Becomes(w, refused), Becomes(w, gone)}
    BY <1>0, <1>5, WorkingJob DEF Prepare, At
  <2>2. /\ planned \in Job /\ planned.phase = "searching" /\ planned.run = j.run
        /\ planned.token = j.token /\ planned.ends = j.ends /\ ~planned.dying
    BY <1>0, <2>1 DEF Job, Phase, Row
  <2>3. /\ refused \in Job /\ refused.phase = "ended" /\ refused.run = j.run
        /\ refused.token = j.token /\ refused.ends = "fatal" /\ ~refused.dying
    BY <1>0, <2>1 DEF Job, Phase, Ends
  <2>4. /\ gone \in Job /\ gone.phase = "unwinding" /\ gone.run = j.run
        /\ gone.token = j.token /\ gone.ends = j.ends /\ ~gone.dying
    BY <1>0, <2>1 DEF Job, Phase
  <2>. HIDE DEF planned, refused, gone
  <2>5. j.ends # "release" => Searching(w)
    BY <2>1 DEF Searching
  <2>6. j.ends = "done"
    BY <2>1 DEF IInv, EndsLater
  <2>7. JobFits(w, planned) /\ JobFits(w, refused) /\ JobFits(w, gone)
    BY <2>1, <2>2, <2>3, <2>4 DEF JobFits
  <2>9. CASE jobs' = Becomes(w, planned)
    BY <2>1, <2>2, <2>5, <2>6, <2>7, <2>9, WorkerMovesOn
  <2>10. CASE jobs' = Becomes(w, refused)
    BY <2>1, <2>3, <2>5, <2>6, <2>7, <2>10, WorkerMovesOn
  <2>11. CASE jobs' = Becomes(w, gone)
    BY <2>1, <2>4, <2>5, <2>6, <2>7, <2>11, WorkerMovesOn
  <2>. QED BY <2>1, <2>9, <2>10, <2>11
<1>6. CASE \E ends \in {"done", "retry"} : SearchEnds(w, ends)
  <2>1. PICK ends \in {"done", "retry"} : SearchEnds(w, ends)
    BY <1>6
  <2>. DEFINE job == [j EXCEPT !.phase = "ended", !.ends = ends]
  <2>2. /\ j.phase = "searching" /\ jobs' = Becomes(w, job) /\ j.run \in RunId
        /\ UNCHANGED <<runs, up, execs, told, loose>> /\ up[SetOf[w]] # "down"
    BY <1>0, <2>1 DEF SearchEnds, AtWork
  <2>3. /\ job \in Job /\ job.phase = "ended" /\ job.run = j.run /\ job.token = j.token
        /\ job.ends = ends /\ ~job.dying
    BY <1>0 DEF Job, Phase, Ends
  <2>. HIDE DEF job
  <2>4. JobFits(w, job) /\ Searching(w)
    BY <2>2, <2>3 DEF JobFits, IInv, EndsLater, Searching
  <2>. QED BY <2>2, <2>3, <2>4, WorkerMovesOn
<1>7. CASE EndRead(w)
  <2>. DEFINE row == runs[j.run]
              gone == [j EXCEPT !.phase = "unwinding"]
              read == [j EXCEPT !.phase = "writing", !.seen = row]
  <2>1. /\ j.phase = "ended" /\ j.run \in RunId /\ row \in Row /\ up[SetOf[w]] # "down"
        /\ UNCHANGED <<runs, up, execs, told, loose>>
        /\ jobs' \in {Becomes(w, gone), Becomes(w, read)}
    BY <1>0, <1>7, WorkingJob DEF EndRead, At
  <2>2. /\ gone \in Job /\ gone.phase = "unwinding" /\ gone.run = j.run
        /\ gone.token = j.token /\ gone.ends = j.ends /\ ~gone.dying
    BY <1>0, <2>1 DEF Job, Phase
  <2>3. /\ read \in Job /\ read.phase = "writing" /\ read.run = j.run
        /\ read.token = j.token /\ read.ends = j.ends /\ ~read.dying
    BY <1>0, <2>1 DEF Job, Phase
  <2>. HIDE DEF gone, read
  <2>4. JobFits(w, gone) /\ JobFits(w, read)
    BY <2>1, <2>2, <2>3 DEF JobFits
  <2>5. j.ends # "release" => Searching(w)
    BY <2>1 DEF Searching
  <2>6. j.ends = "release" => runs[j.run].status = "absent"
    BY <2>1 DEF IInv, StaysGone, AtWork
  <2>7. CASE jobs' = Becomes(w, gone)
    BY <2>1, <2>2, <2>4, <2>5, <2>6, <2>7, WorkerMovesOn
  <2>8. CASE jobs' = Becomes(w, read)
    BY <2>1, <2>3, <2>4, <2>5, <2>6, <2>8, WorkerMovesOn
  <2>. QED BY <2>1, <2>7, <2>8
<1>8. CASE EndWrite(w)
  BY <1>8, EndWriteKeeps
<1>9. CASE Release(w)
  <2>. DEFINE job == [j EXCEPT !.phase = "ended", !.ends = "release"]
  <2>1. /\ j.phase = "erred" /\ jobs' = Becomes(w, job) /\ j.run \in RunId
        /\ UNCHANGED <<runs, up, execs, told, loose>> /\ up[SetOf[w]] # "down"
    BY <1>0, <1>9 DEF Release, AtWork
  <2>2. /\ job \in Job /\ job.phase = "ended" /\ job.run = j.run /\ job.token = j.token
        /\ job.ends = "release" /\ ~job.dying
    BY <1>0 DEF Job, Phase, Ends
  <2>. HIDE DEF job
  <2>3. JobFits(w, job) /\ runs[j.run].status = "absent"
    BY <2>1, <2>2 DEF JobFits, IInv, StaysGone, AtWork
  <2>. QED BY <2>1, <2>2, <2>3, WorkerMovesOn
<1>10. CASE Unwind(w)
  BY <1>0, <1>10, WorkerLeaves DEF Unwind
<1>11. CASE HandBack(w)
  BY <1>0, <1>11 DEF HandBack
<1>12. CASE StopCancel(w)
  BY <1>0, <1>12 DEF StopCancel
<1>. QED BY <1>1, <1>2, <1>3, <1>4, <1>5, <1>6, <1>7, <1>8, <1>9, <1>10, <1>11, <1>12 DEF Step

(* Cancelling by id unwinds the worker the entry names, if that is still   *)
(* there; the write it was awaiting is of a row that is gone.              *)
LEMMA CancelExecutionKeeps ==
  ASSUME IInv, TypeOK', NEW s \in Sets, NEW i \in RunId, CancelExecution(s, i)
  PROVE  IInv'
<1>1. /\ TypeOK /\ runs[i].status = "absent"
      /\ \A t \in Sets : told'[t] \subseteq told[t]
      /\ UNCHANGED <<runs, up, execs>>
  BY DEF CancelExecution, IInv, StaysGone, TypeOK, VarsTyped
<1>2. CASE UNCHANGED <<jobs, loose>>
  <2>1. /\ \A t \in Sets : up'[t] # "stopping"
        /\ \A t \in Sets : loose'[t] \in {loose[t], NoCall}
    BY <1>1, <1>2 DEF IInv, NoStop
  <2>2. \A w \in Worker : Searching(w) /\ runs[jobs[w].run].status = "running" =>
           /\ runs'[jobs[w].run].status = "running" /\ ~runs'[jobs[w].run].quiet
           /\ runs'[jobs[w].run].token = runs[jobs[w].run].token
    BY <1>1 DEF IInv, Owned
  <2>3. \A t \in Sets : \A k \in told'[t] : k \in told[t]
    BY <1>1
  <2>. QED BY <1>1, <1>2, <2>1, <2>2, <2>3, RowsChange
<1>3. ASSUME NEW w \in Crew(s), execs[s][i] = w, Interruptible(w), Unwound(w, FALSE)
      PROVE  IInv'
  <2>. DEFINE job == [jobs[w] EXCEPT !.phase = "unwinding", !.seen = Absent, !.dying = FALSE]
  <2>1. w \in Worker /\ jobs[w].run = i /\ SetOf[w] = s
    BY <1>3 DEF Crew, IInv, EntryIsHolders
  <2>2. JobFits(w, job) /\ LooseOK'
    BY <1>1, <1>3, <2>1, UnwoundTypes
  <2>3. jobs[w] \in Job
    BY <1>1, <2>1 DEF TypeOK, VarsTyped
  <2>4. /\ job.phase = "unwinding" /\ job.run = i /\ job.token = jobs[w].token
        /\ job.ends = jobs[w].ends /\ job.ends # "release" /\ ~job.dying
    BY <1>3, <2>1, <2>3 DEF Job, Interruptible
  <2>5. jobs' = Becomes(w, job)
    BY <1>3 DEF Unwound
  <2>. HIDE DEF job
  <2>6. jobs'[w] = job
    BY <1>1, <2>1, <2>5 DEF Becomes, TypeOK, VarsTyped
  <2>7. ~Searching(w)'
    BY <2>4, <2>6 DEF Searching
  <2>8. ASSUME NEW t \in Sets
        PROVE  loose'[t].op # "claim" /\
          (loose'[t].op = "write" => loose'[t].run \in RunId /\ runs[loose'[t].run].status = "absent")
    <3>1. loose'[t] = loose[t] \/ loose'[t] = CallOf(w)
      BY <1>1, <1>3 DEF Unwound, TypeOK, VarsTyped
    <3>2. CallOf(w).op = "write" /\ CallOf(w).run = i
      BY <2>1 DEF CallOf
    <3>. QED BY <1>1, <3>1, <3>2 DEF IInv, NoStop, StaysGone, TypeOK, JobsShaped
  <2>. QED BY <1>1, <2>1, <2>2, <2>4, <2>5, <2>7, <2>8, WorkerContinues
<1>. QED BY <1>2, <1>3 DEF CancelExecution

LEMMA CrashKeeps ==
  ASSUME IInv, TypeOK', NEW s \in Sets, Crash(s)
  PROVE  IInv'
<1>1. /\ UNCHANGED runs /\ SetOf \in [Worker -> Sets] /\ None \notin Worker
      /\ \A w \in Worker : jobs'[w] = IF SetOf[w] = s THEN IdleJob ELSE jobs[w]
      /\ \A t \in Sets : /\ loose'[t] = IF t = s THEN NoCall ELSE loose[t]
                         /\ told'[t] = IF t = s THEN {} ELSE told[t]
                         /\ execs'[t] = IF t = s THEN [i \in RunId |-> None] ELSE execs[t]
                         /\ up'[t] = IF t = s THEN "down" ELSE up[t]
  BY WorkersAssumption DEF Crash, Crew, IInv, TypeOK, VarsTyped
<1>2. \A w \in Worker :
        IF SetOf[w] = s
        THEN ~Searching(w)' /\ ~AtWork(w)'
        ELSE Searching(w)' = Searching(w) /\ AtWork(w)' = AtWork(w)
  BY <1>1 DEF Searching, AtWork, IdleJob
<1>3. Owned' /\ OneSearcherPerRun' /\ AloneInSet'
  BY <1>1, <1>2 DEF IInv, Owned, OneSearcherPerRun, AloneInSet, IdleJob
<1>4. ExecutionIsNamed'
  BY <1>1, <1>2 DEF IInv, ExecutionIsNamed
<1>5. EntryIsHolders'
  <2>1. ASSUME NEW t \in Sets, NEW i \in RunId, NEW w \in Worker, execs'[t][i] = w
        PROVE  SetOf[w] = t /\ AtWork(w)' /\ jobs'[w].run = i
    <3>1. t # s /\ execs[t][i] = w
      BY <1>1, <2>1
    <3>. QED BY <1>1, <1>2, <3>1 DEF IInv, EntryIsHolders
  <2>. QED BY <2>1 DEF EntryIsHolders
<1>6. StaysGone'
  BY <1>1, <1>2 DEF IInv, StaysGone, NoCall
<1>7. NoStop' /\ EndsLater'
  BY <1>1 DEF IInv, NoStop, EndsLater, NoCall, IdleJob
<1>. QED BY <1>3, <1>4, <1>5, <1>6, <1>7 DEF IInv

(* A sweep collects only what is quiet, and what a search owns is not; it  *)
(* brings no row back.                                                     *)
LEMMA SweepSpares ==
  ASSUME IInv, NEW hosts, NEW kept, RequeueStaleRuns(hosts, kept)
  PROVE  /\ \A w \in Worker : Searching(w) => runs'[jobs[w].run] = runs[jobs[w].run]
         /\ \A i \in RunId : runs[i].status = "absent" => runs'[i].status = "absent"
<1>1. \A w \in Worker : Searching(w) => jobs[w].run \in RunId /\ ~Stale(jobs[w].run)
  BY DEF IInv, Owned, Searching, AtWork, TypeOK, JobsShaped, Stale
<1>. QED BY <1>1 DEF RequeueStaleRuns, Stale

LEMMA UpkeepKeeps ==
  ASSUME Calm, IInv, TypeOK', NEW s \in Sets, Upkeep(s)
  PROVE  IInv'
<1>0. /\ runs \in [RunId -> Row] /\ up[s] # "stopping" /\ loose[s].op # "claim"
      /\ \A w \in Worker : Searching(w) => jobs[w].run \in RunId
      /\ \A t \in Sets : up[t] # "stopping"
      /\ \A w \in Worker : Searching(w) /\ runs[jobs[w].run].status = "running" =>
           ~runs[jobs[w].run].quiet
  BY DEF IInv, NoStop, TypeOK, VarsTyped, QueueTypeOK, JobsShaped, Searching, AtWork, Owned
<1>1. ASSUME UNCHANGED <<jobs, execs, told>>,
             \A t \in Sets : up'[t] # "stopping",
             \A t \in Sets : loose'[t] \in {loose[t], NoCall},
             \A w \in Worker : Searching(w) => runs'[jobs[w].run] = runs[jobs[w].run],
             \A i \in RunId : runs[i].status = "absent" => runs'[i].status = "absent"
      PROVE  IInv'
  BY <1>0, <1>1, RowsChange
<1>2. ASSUME NEW i \in RunId, CancelExecution(s, i) PROVE IInv'
  BY <1>2, CancelExecutionKeeps
<1>3. CASE LooseClaim(s)
  BY <1>0, <1>3 DEF LooseClaim
<1>4. CASE LooseWrite(s)
  <2>1. loose[s].run \in RunId /\ runs[loose[s].run].status = "absent"
    BY <1>4 DEF LooseWrite, IInv, StaysGone, TypeOK, JobsShaped
  <2>2. UNCHANGED runs
    BY <1>4, <2>1 DEF LooseWrite, Present
  <2>3. \A t \in Sets : loose'[t] \in {loose[t], NoCall}
    BY <1>4 DEF LooseWrite, IInv, TypeOK, VarsTyped
  <2>. QED BY <1>0, <1>1, <1>4, <2>2, <2>3 DEF LooseWrite
<1>5. CASE Beat(s)
  <2>1. \A i \in RunId : /\ runs'[i].status = runs[i].status /\ runs'[i].token = runs[i].token
                         /\ ~runs[i].quiet => ~runs'[i].quiet
    <3>1. ASSUME NEW i \in RunId
          PROVE  runs'[i] = runs[i] \/ runs'[i] = [runs[i] EXCEPT !.quiet = FALSE]
      BY <1>5, <3>1 DEF Beat, HeartbeatRuns
    <3>2. \A i \in RunId : runs[i] \in Row
      BY <1>0
    <3>. QED BY <3>1, <3>2 DEF Row
  <2>2. \A t \in Sets : \A i \in told'[t] : i \in told[t] \/ runs'[i].status = "absent"
    BY <1>5, <2>1 DEF Beat, InFlight, Present, IInv, TypeOK, VarsTyped
  <2>3. UNCHANGED <<jobs, execs, up, loose>>
    BY <1>5 DEF Beat
  <2>. QED BY <1>0, <2>1, <2>2, <2>3, RowsChange
<1>6. CASE LocalSweep(s)
  BY <1>0, <1>1, <1>6, SweepSpares DEF LocalSweep, SweepStale
<1>7. CASE Start(s)
  <2>1. \A t \in Sets : up'[t] # "stopping"
    BY <1>0, <1>7 DEF Start, IInv, TypeOK, VarsTyped
  <2>. QED BY <1>1, <1>7, <2>1, SweepSpares DEF Start
<1>8. CASE Stop(s)
  BY <1>8 DEF Stop, Calm
<1>9. CASE Stopped(s)
  BY <1>0, <1>9 DEF Stopped
<1>10. CASE Crash(s)
  BY <1>10, CrashKeeps
<1>. QED BY <1>2, <1>3, <1>4, <1>5, <1>6, <1>7, <1>8, <1>9, <1>10 DEF Upkeep

(* Deleting rows takes nothing from a search but the row, which it may     *)
(* lose, and it brings none back.                                          *)
LEMMA DeletingSpares ==
  ASSUME IInv, NEW ids, Deleting(ids)
  PROVE  \A i \in RunId : runs'[i].status = "absent" \/ runs'[i] = runs[i]
BY DEF Deleting, Absent

LEMMA OwnerKeeps ==
  ASSUME Calm, IInv, TypeOK', Owner
  PROVE  IInv'
<1>0. /\ \A w \in Worker : Searching(w) => jobs[w].run \in RunId
      /\ \A s \in Sets : up[s] # "stopping"
      /\ \A w \in Worker : Searching(w) /\ runs[jobs[w].run].status = "running" =>
           ~runs[jobs[w].run].quiet
      /\ \A s \in Sets : told[s] \subseteq RunId
  BY DEF IInv, NoStop, TypeOK, VarsTyped, JobsShaped, Searching, AtWork, Owned
<1>1. ASSUME UNCHANGED <<jobs, execs, up, loose>>,
             \A i \in RunId : runs'[i].status = "absent" \/ runs'[i] = runs[i],
             \A s \in Sets : \A i \in told'[s] : i \in told[s] \/ runs'[i].status = "absent"
      PROVE  IInv'
  <2>1. \A i \in RunId : runs[i].status = "absent" => runs'[i].status = "absent"
    BY <1>1
  <2>2. \A w \in Worker : Searching(w) /\ runs[jobs[w].run].status = "running" =>
           \/ runs'[jobs[w].run].status = "absent"
           \/ /\ runs'[jobs[w].run].status = "running" /\ ~runs'[jobs[w].run].quiet
              /\ runs'[jobs[w].run].token = runs[jobs[w].run].token
    BY <1>0, <1>1
  <2>3. /\ \A s \in Sets : up'[s] # "stopping"
        /\ \A s \in Sets : loose'[s] \in {loose[s], NoCall}
    BY <1>0, <1>1
  <2>. QED BY <1>1, <2>1, <2>2, <2>3, RowsChange
<1>2. ASSUME NEW kind \in AskedKinds, NEW host \in AskedHosts, Ask(kind, host) PROVE IInv'
  <2>. DEFINE row == [Absent EXCEPT !.work = asked + 1, !.kind = kind, !.host = host,
                                    !.status = "queued"]
  <2>1. PICK i \in RunId : IsNewId(i) /\ runs' = [runs EXCEPT ![i] = row]
    BY <1>2 DEF Ask, RequestAnalysis
  <2>. HIDE DEF row
  <2>2. runs[i].status = "absent" /\ ~InHand(i)
    <3>1. i >= i
      BY <2>1 DEF RunId
    <3>2. ~Present(i)
      BY <2>1, <3>1 DEF IsNewId
    <3>3. "reuse" \notin Hazards
      BY DEF Calm
    <3>. QED BY <1>2, <2>1, <3>2, <3>3 DEF Present, Ask
  <2>3. \A k \in RunId \ {i} : runs'[k] = runs[k]
    BY <2>1 DEF IInv, TypeOK, VarsTyped, QueueTypeOK
  <2>4. \A w \in Worker : Searching(w) /\ runs[jobs[w].run].status = "running" =>
           runs'[jobs[w].run] = runs[jobs[w].run]
    BY <1>0, <2>2, <2>3
  <2>5. UNCHANGED <<jobs, execs, up, loose, told>>
    BY <1>2 DEF Ask
  <2>6. \A k \in RunId : runs[k].status = "absent" /\ InHand(k) => runs'[k].status = "absent"
    BY <2>2, <2>3
  <2>7. /\ \A s \in Sets : up'[s] # "stopping"
        /\ \A s \in Sets : loose'[s] \in {loose[s], NoCall}
    BY <1>0, <2>5
  <2>8. \A w \in Worker : Searching(w) /\ runs[jobs[w].run].status = "running" =>
           /\ runs'[jobs[w].run].status = "running" /\ ~runs'[jobs[w].run].quiet
           /\ runs'[jobs[w].run].token = runs[jobs[w].run].token
    BY <1>0, <2>4
  <2>9. \A s \in Sets : \A k \in told'[s] : k \in told[s]
    BY <2>5
  <2>. QED BY <2>5, <2>6, <2>7, <2>8, <2>9, RowsChange
<1>3. ASSUME NEW flag \in BOOLEAN, Pause(flag) PROVE IInv'
  BY <1>1, <1>3 DEF Pause, SetQueuePaused
<1>4. CASE StopBackfill
  BY <1>1, <1>4, DeletingSpares DEF StopBackfill, CancelQueued
<1>5. CASE StopQueue
  BY <1>1, <1>5, DeletingSpares DEF StopQueue, ClearQueue
<1>6. ASSUME NEW i \in RunId, CancelRead(i) PROVE IInv'
  BY <1>1, <1>6 DEF CancelRead
<1>7. ASSUME NEW i \in RunId, CancelRun(i) PROVE IInv'
  <2>1. Deleting({i}) /\ UNCHANGED <<jobs, execs, up, loose>>
    BY <1>7 DEF CancelRun
  <2>2. runs'[i].status = "absent"
    BY <2>1 DEF Deleting, Absent
  <2>3. \A s \in Sets : \A k \in told'[s] : k \in told[s] \/ k = i
    BY <1>7 DEF CancelRun, IInv, TypeOK, VarsTyped
  <2>. QED BY <1>1, <2>1, <2>2, <2>3, DeletingSpares
<1>. QED BY <1>2, <1>3, <1>4, <1>5, <1>6, <1>7 DEF Owner

(* Nothing goes quiet that a set has in hand.                              *)
LEMMA GoQuietKeeps ==
  ASSUME Calm, IInv, TypeOK', NEW i \in RunId, GoQuiet(i)
  PROVE  IInv'
<1>1. /\ UNCHANGED <<jobs, execs, up, told, loose>>
      /\ runs[i].status = "running" /\ runs' = [runs EXCEPT ![i] = [@ EXCEPT !.quiet = TRUE]]
      /\ \A s \in Sets : execs[s][i] = None
      /\ \A w \in Worker : jobs[w].phase = "claimed" => jobs[w].run # i
  BY DEF GoQuiet, Calm, InFlight
<1>2. \A w \in Worker : Searching(w) => jobs[w].run # i /\ jobs[w].run \in RunId
  <2>1. ASSUME NEW w \in Worker, Searching(w), jobs[w].run = i PROVE FALSE
    <3>1. execs[SetOf[w]][i] = w
      BY <1>1, <2>1 DEF IInv, ExecutionIsNamed
    <3>. QED BY <1>1, <3>1, WorkersAssumption
  <2>. QED BY <2>1 DEF IInv, TypeOK, JobsShaped, Searching, AtWork
<1>3. \A k \in RunId \ {i} : runs'[k] = runs[k]
  BY <1>1 DEF IInv, TypeOK, VarsTyped, QueueTypeOK
<1>4. \A w \in Worker : Searching(w) /\ runs[jobs[w].run].status = "running" =>
         /\ runs'[jobs[w].run].status = "running" /\ ~runs'[jobs[w].run].quiet
         /\ runs'[jobs[w].run].token = runs[jobs[w].run].token
  BY <1>2, <1>3 DEF IInv, Owned
<1>5. \A k \in RunId : runs[k].status = "absent" => runs'[k].status = "absent"
  BY <1>1, <1>3
<1>6. /\ \A s \in Sets : up'[s] # "stopping"
      /\ \A s \in Sets : loose'[s] \in {loose[s], NoCall}
      /\ \A s \in Sets : \A k \in told'[s] : k \in told[s]
  BY <1>1 DEF IInv, NoStop
<1>. QED BY <1>1, <1>4, <1>5, <1>6, RowsChange

LEMMA InvNext == Calm /\ IInv /\ [Next]_vars => IInv'
<1>. SUFFICES ASSUME Calm, IInv, [Next]_vars PROVE IInv'
  OBVIOUS
<1>0. TypeOK'
  BY TypeNext DEF IInv
<1>1. ASSUME UNCHANGED <<jobs, execs, up, told, loose>>,
             \A w \in Worker : Searching(w) => runs'[jobs[w].run] = runs[jobs[w].run],
             \A i \in RunId : runs[i].status = "absent" => runs'[i].status = "absent"
      PROVE  IInv'
  <2>1. /\ \A s \in Sets : up'[s] # "stopping"
        /\ \A s \in Sets : loose'[s] \in {loose[s], NoCall}
        /\ \A s \in Sets : \A k \in told'[s] : k \in told[s]
    BY <1>1 DEF IInv, NoStop
  <2>2. \A w \in Worker : Searching(w) /\ runs[jobs[w].run].status = "running" =>
           /\ runs'[jobs[w].run].status = "running" /\ ~runs'[jobs[w].run].quiet
           /\ runs'[jobs[w].run].token = runs[jobs[w].run].token
    BY <1>1 DEF IInv, Owned
  <2>. QED BY <1>0, <1>1, <2>1, <2>2, RowsChange
<1>2. ASSUME Owner PROVE IInv'
  BY <1>0, <1>2, OwnerKeeps
<1>3. ASSUME NEW w \in Worker, Step(w) PROVE IInv'
  BY <1>0, <1>3, StepKeeps
<1>4. ASSUME NEW s \in Sets, Upkeep(s) PROVE IInv'
  BY <1>0, <1>4, UpkeepKeeps
<1>5. ASSUME NEW i \in RunId, GoQuiet(i) PROVE IInv'
  BY <1>0, <1>5, GoQuietKeeps
<1>6. CASE GatewaySweep
  BY <1>1, <1>6, SweepSpares DEF GatewaySweep, SweepStale
<1>7. CASE UNCHANGED vars
  BY <1>1, <1>7 DEF vars
<1>. QED BY <1>2, <1>3, <1>4, <1>5, <1>6, <1>7 DEF Next

LEMMA InvAlways == ASSUME Calm PROVE Spec => []IInv
<1>1. IInv /\ [Next]_vars => IInv'
  BY InvNext
<1>. QED BY <1>1, InvInit, PTL DEF Spec

(* In every instance where processes only crash and restart, and the owner *)
(* cancels, clears and pauses at will, whoever searches a run owns its     *)
(* row: no sweep, heartbeat or sibling set takes it away meanwhile.        *)
THEOREM HoldersOwnTheirRows == ASSUME Calm PROVE Spec => []HolderOwnsRow
<1>1. IInv => HolderOwnsRow
  BY DEF IInv, Owned, HolderOwnsRow
<1>. QED BY <1>1, InvAlways, PTL

(* ... and no run is searched twice at once, by one set or by two.         *)
THEOREM SearchersAreAlone == ASSUME Calm PROVE Spec => []OneSearcherPerRun
<1>1. IInv => OneSearcherPerRun
  BY DEF IInv
<1>. QED BY <1>1, InvAlways, PTL

(* ... and the id that a cancel or a beat goes by names the worker that    *)
(* searches it, for as long as it does.                                    *)
THEOREM ExecutionsAreNamed == ASSUME Calm PROVE Spec => []ExecutionIsNamed
<1>1. IInv => ExecutionIsNamed
  BY DEF IInv
<1>. QED BY <1>1, InvAlways, PTL


-----------------------------------------------------------------------------
(* Leaving a run.  A worker that has lost its row never gets it back: a     *)
(* claim draws a token of its own, and nothing else makes a row run.  So it *)
(* is enough that whoever unwinds has lost the row, or hands it back first. *)
(* That holds whatever is late, suspended, stopped or crashed, and rests on *)
(* an id never being used again while a cancel of it is on its way.         *)

Unreused == "reuse" \notin Hazards

OffRow(row, job) == row.status # "running" \/ row.token # job.token

Leaves(job) ==
  \/ job.phase = "erred"
  \/ job.phase = "unwinding" /\ ~job.dying
  \/ job.phase \notin {"idle", "looking"} /\ job.ends = "release"
  \/ job.phase = "writing" /\ job.seen.status # "running"

LeaversHaveLost ==
  \A w \in Worker : Leaves(jobs[w]) => OffRow(runs[jobs[w].run], jobs[w])

ToldAreGone == \A s \in Sets : \A i \in told[s] : ~Present(i)

EntryFits(job, i) ==
  /\ job.run = i
  /\ job.phase \notin {"idle", "looking", "claimed"}
  /\ job.phase = "handing" => job.dying

EntriesAreWorkers ==
  \A s \in Sets, i \in RunId, w \in Worker :
    execs[s][i] = w => SetOf[w] = s /\ EntryFits(jobs[w], i)

DyingFits(job) ==
  /\ job.dying => job.phase \in {"unwinding", "handing"}
  /\ job.phase = "handing" => job.seen.status = "running"

DyingUnwind == \A w \in Worker : DyingFits(jobs[w])

WorkersKnow == LeaversHaveLost /\ EntriesAreWorkers /\ DyingUnwind

LInv == TypeOK /\ ToldAreGone /\ WorkersKnow

-----------------------------------------------------------------------------
(* The rows: no step makes one run again but a claim, under a fresh token, *)
(* and none brings one back but a request, whose id is in no hands.        *)

Outlasts(row, next) ==
  /\ next.status = "running" => row.status = "running" /\ next.token = row.token
  /\ row.status = "absent" => next.status = "absent"

RowsOutlast ==
  \A i \in RunId :
    \/ Outlasts(runs[i], runs'[i])
    \/ /\ runs[i].status # "absent"
       /\ \A w \in Worker : jobs[w].token # runs'[i].token
    \/ ~InHand(i) /\ runs'[i].status = "queued"

(* A write of an end never makes a row run; over one it read as running it *)
(* makes it something else.                                                *)
LEMMA EndedRowOutlasts ==
  ASSUME NEW row \in Row, NEW seen \in Row, NEW work \in Work \cup {NoWork}, NEW ends \in Ends,
         row.status # "absent"
  PROVE  /\ Outlasts(row, EndedRow(row, seen, work, ends))
         /\ Outlasts(row, Abandoned(row, seen))
         /\ seen.status = "running" =>
              /\ EndedRow(row, seen, work, ends).status # "running"
              /\ Abandoned(row, seen).status # "running"
         /\ EndedRow(row, seen, work, ends).token = row.token
<1>1. \A value \in {"done", "queued", "failed"} :
        /\ Assigned(row.status, seen.status, value) \in {row.status, value}
        /\ seen.status = "running" => Assigned(row.status, seen.status, value) = value
  BY DEF Assigned
<1>2. ASSUME NEW next, next.token = row.token,
             NEW value \in {"done", "queued", "failed"},
             next.status = Assigned(row.status, seen.status, value)
      PROVE  Outlasts(row, next) /\ (seen.status = "running" => next.status # "running")
  BY <1>1, <1>2 DEF Outlasts
<1>3. LET next == Completed(row, seen, work) IN
        next.token = row.token /\ next.status = Assigned(row.status, seen.status, "done")
  BY DEF Completed, Row
<1>4. LET next == Abandoned(row, seen) IN
        next.token = row.token /\ next.status = Assigned(row.status, seen.status, "queued")
  BY DEF Abandoned, Row
<1>5. ASSUME NEW retry \in BOOLEAN
      PROVE  \E value \in {"done", "queued", "failed"} :
               /\ FailedRow(row, seen, retry).token = row.token
               /\ FailedRow(row, seen, retry).status = Assigned(row.status, seen.status, value)
  <2>. DEFINE value == IF retry /\ seen.attempts < MaxAttempts THEN "queued" ELSE "failed"
              error == IF retry THEN "engine" ELSE "fatal"
  <2>1. value \in {"done", "queued", "failed"}
    OBVIOUS
  <2>. HIDE DEF value, error
  <2>2. FailedRow(row, seen, retry) =
          [row EXCEPT !.status = Assigned(@, seen.status, value),
                      !.error = Assigned(@, seen.error, error)]
    BY Zenon DEF FailedRow, value, error
  <2>3. /\ FailedRow(row, seen, retry).token = row.token
        /\ FailedRow(row, seen, retry).status = Assigned(row.status, seen.status, value)
    BY <2>2 DEF Row
  <2>. QED BY <2>1, <2>3
<1>6. PICK value \in {"done", "queued", "failed"} :
        LET next == EndedRow(row, seen, work, ends) IN
        next.token = row.token /\ next.status = Assigned(row.status, seen.status, value)
  <2>1. CASE ends = "done"
    BY <1>3, <2>1 DEF EndedRow
  <2>2. CASE ends # "done"
    <3>1. (ends # "fatal") \in BOOLEAN /\ EndedRow(row, seen, work, ends) = FailedRow(row, seen, ends # "fatal")
      BY <2>2 DEF EndedRow
    <3>. QED BY <1>5, <3>1
  <2>. QED BY <2>1, <2>2
<1>7. Outlasts(row, EndedRow(row, seen, work, ends)) /\
      (seen.status = "running" => EndedRow(row, seen, work, ends).status # "running")
  BY <1>2, <1>6
<1>8. Outlasts(row, Abandoned(row, seen)) /\
      (seen.status = "running" => Abandoned(row, seen).status # "running")
  BY <1>2, <1>4
<1>. QED BY <1>6, <1>7, <1>8

LEMMA RowOutlasts ==
  ASSUME NEW row \in Row
  PROVE  /\ Outlasts(row, row) /\ Outlasts(row, Absent)
         /\ \A flag \in BOOLEAN : Outlasts(row, [row EXCEPT !.quiet = flag])
         /\ row.status = "running" => Outlasts(row, Collected(row))
<1>1. Outlasts(row, row) /\ Outlasts(row, Absent)
  BY DEF Outlasts, Absent
<1>2. \A flag \in BOOLEAN : Outlasts(row, [row EXCEPT !.quiet = flag])
  BY DEF Outlasts, Row
<1>3. ASSUME row.status = "running" PROVE Outlasts(row, Collected(row))
  <2>1. CASE row.host = "browser"
    BY <1>3, <2>1 DEF Outlasts, Collected, Row
  <2>2. CASE row.host # "browser"
    BY <1>3, <2>2 DEF Outlasts, Collected, Row
  <2>. QED BY <2>1, <2>2
<1>. QED BY <1>1, <1>2, <1>3

(* The statements that write many rows.                                    *)
LEMMA TableOutlasts ==
  ASSUME TypeOK
  PROVE  /\ UNCHANGED runs => RowsOutlast
         /\ \A ids : HeartbeatRuns(ids) => RowsOutlast
         /\ \A ids : Deleting(ids) => RowsOutlast
         /\ \A hosts, kept : RequeueStaleRuns(hosts, kept) => RowsOutlast
<1>1. \A i \in RunId : runs[i] \in Row
  BY DEF TypeOK, VarsTyped, QueueTypeOK
<1>. DEFINE Kept == \A i \in RunId : Outlasts(runs[i], runs'[i])
<1>2. Kept => RowsOutlast
  BY DEF RowsOutlast
<1>3. UNCHANGED runs => Kept
  BY <1>1, RowOutlasts
<1>4. ASSUME NEW ids, HeartbeatRuns(ids) PROVE Kept
  <2>1. \A i \in RunId : Outlasts(runs[i], runs[i]) /\ Outlasts(runs[i], [runs[i] EXCEPT !.quiet = FALSE])
    BY <1>1, RowOutlasts
  <2>. QED BY <1>4, <2>1 DEF HeartbeatRuns
<1>5. ASSUME NEW ids, Deleting(ids) PROVE Kept
  <2>1. \A i \in RunId : Outlasts(runs[i], runs[i]) /\ Outlasts(runs[i], Absent)
    BY <1>1, RowOutlasts
  <2>. QED BY <1>5, <2>1 DEF Deleting
<1>6. ASSUME NEW hosts, NEW kept, RequeueStaleRuns(hosts, kept) PROVE Kept
  <2>1. \A i \in RunId : Outlasts(runs[i], runs[i]) /\ (Stale(i) => Outlasts(runs[i], Collected(runs[i])))
    BY <1>1, RowOutlasts DEF Stale
  <2>. QED BY <1>6, <2>1 DEF RequeueStaleRuns
<1>. HIDE DEF Kept
<1>. QED BY <1>2, <1>3, <1>4, <1>5, <1>6

(* A claim's token is no worker's.                                         *)
LEMMA ClaimOutlasts ==
  ASSUME TypeOK, NEW i \in RunId, FreshTokens # {}, runs[i].status = "queued",
         runs' = [runs EXCEPT ![i] = Claimed(@, FreshToken)]
  PROVE  RowsOutlast
<1>1. /\ FreshToken \in Token /\ \A w \in Worker : jobs[w].token # FreshToken
  BY DEF FreshTokens, FreshToken
<1>2. /\ runs[i] \in Row /\ \A k \in RunId \ {i} : runs'[k] = runs[k]
      /\ runs'[i] = Claimed(runs[i], FreshToken)
      /\ \A k \in RunId : Outlasts(runs[k], runs[k])
  BY RowOutlasts DEF TypeOK, VarsTyped, QueueTypeOK
<1>3. runs'[i].token = FreshToken
  BY <1>1, <1>2, ClaimedRow
<1>. QED BY <1>1, <1>2, <1>3 DEF RowsOutlast

(* One row is written, as its writer read it.                              *)
LEMMA WriteOutlasts ==
  ASSUME TypeOK, NEW i \in RunId, NEW row, Outlasts(runs[i], row),
         runs' = [runs EXCEPT ![i] = row]
  PROVE  RowsOutlast
<1>1. /\ \A k \in RunId \ {i} : runs'[k] = runs[k]
      /\ runs'[i] = row
      /\ \A k \in RunId : Outlasts(runs[k], runs[k])
  BY RowOutlasts DEF TypeOK, VarsTyped, QueueTypeOK
<1>. QED BY <1>1 DEF RowsOutlast

LEMMA AskOutlasts ==
  ASSUME TypeOK, Unreused, NEW kind, NEW host, Ask(kind, host)
  PROVE  RowsOutlast
<1>. DEFINE row == [Absent EXCEPT !.work = asked + 1, !.kind = kind, !.host = host,
                                  !.status = "queued"]
<1>1. PICK i \in RunId : IsNewId(i) /\ runs' = [runs EXCEPT ![i] = row]
  BY DEF Ask, RequestAnalysis
<1>2. row.status = "queued"
  BY DEF Absent
<1>. HIDE DEF row
<1>3. ~InHand(i)
  BY <1>1 DEF Ask, Unreused
<1>4. /\ \A k \in RunId \ {i} : runs'[k] = runs[k]
      /\ runs'[i] = row
      /\ \A k \in RunId : Outlasts(runs[k], runs[k])
  BY <1>1, RowOutlasts DEF TypeOK, VarsTyped, QueueTypeOK
<1>. QED BY <1>2, <1>3, <1>4 DEF RowsOutlast

LEMMA EveryStepOutlasts ==
  ASSUME Unreused, TypeOK, [Next]_vars
  PROVE  RowsOutlast
<1>0. \A i \in RunId : runs[i] \in Row
  BY DEF TypeOK, VarsTyped, QueueTypeOK
<1>1. ASSUME UNCHANGED runs PROVE RowsOutlast
  BY <1>1, TableOutlasts
<1>2. CASE Owner
  <2>1. ASSUME NEW kind \in AskedKinds, NEW host \in AskedHosts, Ask(kind, host) PROVE RowsOutlast
    BY <2>1, AskOutlasts
  <2>2. ASSUME NEW flag \in BOOLEAN, Pause(flag) PROVE RowsOutlast
    BY <1>1, <2>2 DEF Pause, SetQueuePaused
  <2>3. CASE StopBackfill \/ StopQueue
    BY <2>3, TableOutlasts DEF StopBackfill, StopQueue, CancelQueued, ClearQueue
  <2>4. ASSUME NEW i \in RunId, CancelRead(i) \/ CancelRun(i) PROVE RowsOutlast
    BY <1>1, <2>4, TableOutlasts DEF CancelRead, CancelRun
  <2>. QED BY <1>2, <2>1, <2>2, <2>3, <2>4 DEF Owner
<1>3. ASSUME NEW w \in Worker, Step(w) PROVE RowsOutlast
  <2>1. CASE Claim(w)
    BY <2>1, ClaimOutlasts DEF Claim, IsNextRun, Claimable
  <2>2. CASE EndWrite(w)
    <3>. DEFINE j == jobs[w]
    <3>1. /\ j.run \in RunId /\ j.seen \in Row /\ j.work \in Work \cup {NoWork} /\ j.ends \in Ends
      BY <2>2, WorkingJob DEF EndWrite
    <3>2. CASE Present(j.run)
      <4>1. Outlasts(runs[j.run], EndedRow(runs[j.run], j.seen, j.work, j.ends))
        BY <1>0, <3>1, <3>2, EndedRowOutlasts DEF Present
      <4>2. runs' = [runs EXCEPT ![j.run] = EndedRow(runs[j.run], j.seen, j.work, j.ends)]
        BY <2>2, <3>2 DEF EndWrite
      <4>. HIDE DEF j
      <4>. QED BY <3>1, <4>1, <4>2, WriteOutlasts
    <3>3. CASE ~Present(j.run)
      BY <1>1, <2>2, <3>3 DEF EndWrite
    <3>. QED BY <3>2, <3>3
  <2>3. CASE HandBack(w)
    <3>. DEFINE j == jobs[w]
    <3>1. /\ j.run \in RunId /\ j.seen \in Row /\ j.work \in Work \cup {NoWork} /\ j.ends \in Ends
      BY <2>3, WorkingJob DEF HandBack
    <3>2. CASE Present(j.run)
      <4>1. Outlasts(runs[j.run], Abandoned(runs[j.run], j.seen))
        BY <1>0, <3>1, <3>2, EndedRowOutlasts DEF Present
      <4>2. runs' = [runs EXCEPT ![j.run] = Abandoned(runs[j.run], j.seen)]
        BY <2>3, <3>2 DEF HandBack
      <4>. HIDE DEF j
      <4>. QED BY <3>1, <4>1, <4>2, WriteOutlasts
    <3>3. CASE ~Present(j.run)
      BY <1>1, <2>3, <3>3 DEF HandBack
    <3>. QED BY <3>2, <3>3
  <2>4. CASE \/ Look(w) \/ FindNothing(w) \/ Launch(w) \/ Prepare(w)
             \/ \E ends \in {"done", "retry"} : SearchEnds(w, ends)
             \/ EndRead(w) \/ Release(w) \/ Unwind(w) \/ StopCancel(w)
    BY <1>1, <2>4 DEF Look, FindNothing, Launch, Prepare, SearchEnds, EndRead, Release,
         Unwind, StopCancel
  <2>. QED BY <1>3, <2>1, <2>2, <2>3, <2>4 DEF Step
<1>4. ASSUME NEW s \in Sets, Upkeep(s) PROVE RowsOutlast
  <2>1. CASE LooseClaim(s)
    <3>1. CASE UNCHANGED runs
      BY <1>1, <3>1
    <3>2. ASSUME NEW i \in RunId, FreshTokens # {}, IsNextRun(i, LocalHosts),
                 runs' = [runs EXCEPT ![i] = Claimed(@, FreshToken)]
          PROVE  RowsOutlast
      BY <3>2, ClaimOutlasts DEF IsNextRun, Claimable
    <3>. QED BY <2>1, <3>1, <3>2 DEF LooseClaim
  <2>2. CASE LooseWrite(s)
    <3>. DEFINE c == loose[s]
    <3>1. /\ c.run \in RunId /\ c.seen \in Row /\ c.work \in Work \cup {NoWork} /\ c.ends \in Ends
      BY <2>2 DEF LooseWrite, TypeOK, VarsTyped, JobsShaped, Call
    <3>2. CASE Present(c.run)
      <4>1. Outlasts(runs[c.run], EndedRow(runs[c.run], c.seen, c.work, c.ends))
        BY <1>0, <3>1, <3>2, EndedRowOutlasts DEF Present
      <4>2. runs' = [runs EXCEPT ![c.run] = EndedRow(runs[c.run], c.seen, c.work, c.ends)]
        BY <2>2, <3>2 DEF LooseWrite
      <4>. HIDE DEF c
      <4>. QED BY <3>1, <4>1, <4>2, WriteOutlasts
    <3>3. CASE ~Present(c.run)
      BY <1>1, <2>2, <3>3 DEF LooseWrite
    <3>. QED BY <3>2, <3>3
  <2>3. CASE Beat(s) \/ LocalSweep(s) \/ Start(s)
    BY <2>3, TableOutlasts DEF Beat, LocalSweep, Start, SweepStale
  <2>4. CASE (\E i \in RunId : CancelExecution(s, i)) \/ Stop(s) \/ Stopped(s) \/ Crash(s)
    BY <1>1, <2>4 DEF CancelExecution, Stop, Stopped, Crash
  <2>. QED BY <1>4, <2>1, <2>2, <2>3, <2>4 DEF Upkeep
<1>5. ASSUME NEW i \in RunId, GoQuiet(i) PROVE RowsOutlast
  <2>1. Outlasts(runs[i], [runs[i] EXCEPT !.quiet = TRUE])
    BY <1>0, RowOutlasts
  <2>2. runs' = [runs EXCEPT ![i] = [runs[i] EXCEPT !.quiet = TRUE]]
    BY <1>5 DEF GoQuiet
  <2>. QED BY <2>1, <2>2, WriteOutlasts
<1>6. CASE GatewaySweep
  BY <1>6, TableOutlasts DEF GatewaySweep, SweepStale
<1>7. CASE UNCHANGED vars
  BY <1>1, <1>7 DEF vars
<1>. QED BY <1>2, <1>3, <1>4, <1>5, <1>6, <1>7 DEF Next


-----------------------------------------------------------------------------
(* The workers.                                                            *)

LEMMA OffRowStays ==
  ASSUME TypeOK, RowsOutlast, NEW w \in Worker, jobs[w].phase \notin {"idle", "looking"},
         OffRow(runs[jobs[w].run], jobs[w])
  PROVE  OffRow(runs'[jobs[w].run], jobs[w])
<1>1. jobs[w].run \in RunId
  BY WorkingJob
<1>2. InHand(jobs[w].run)
  BY DEF InHand, AtWork
<1>. QED BY <1>1, <1>2 DEF RowsOutlast, Outlasts, OffRow

(* A turn of one worker keeps what workers know if the job it then has     *)
(* fits, and it keeps its entry for as long as it is on the run.           *)
JobKnows(job) == DyingFits(job) /\ (Leaves(job) => OffRow(runs'[job.run], job))

LEMMA WorkerTurns ==
  ASSUME LInv, RowsOutlast, NEW w \in Worker, NEW job, jobs' = Becomes(w, job),
         JobKnows(job),
         \/ execs' = Forgotten(SetOf[w], jobs[w].run)
         \/ /\ UNCHANGED execs
            /\ \A i \in RunId : EntryFits(jobs[w], i) => EntryFits(job, i)
  PROVE  WorkersKnow'
<1>1. /\ jobs'[w] = job /\ \A v \in Worker \ {w} : jobs'[v] = jobs[v]
      /\ execs \in [Sets -> [RunId -> Worker \cup {None}]] /\ None \notin Worker
      /\ SetOf \in [Worker -> Sets]
  BY WorkersAssumption DEF Becomes, LInv, TypeOK, VarsTyped
<1>2. LeaversHaveLost'
  <2>1. ASSUME NEW v \in Worker \ {w}, Leaves(jobs[v])
        PROVE  OffRow(runs'[jobs[v].run], jobs[v])
    <3>1. OffRow(runs[jobs[v].run], jobs[v]) /\ jobs[v].phase \notin {"idle", "looking"}
      BY <2>1 DEF LInv, WorkersKnow, LeaversHaveLost, Leaves
    <3>. QED BY <3>1, OffRowStays DEF LInv
  <2>. QED BY <1>1, <2>1 DEF LeaversHaveLost, JobKnows
<1>3. DyingUnwind'
  BY <1>1 DEF LInv, WorkersKnow, DyingUnwind, JobKnows
<1>4. EntriesAreWorkers'
  <2>1. ASSUME NEW s \in Sets, NEW i \in RunId, NEW v \in Worker, execs'[s][i] = v
        PROVE  SetOf[v] = s /\ EntryFits(jobs'[v], i)
    <3>1. CASE execs' = Forgotten(SetOf[w], jobs[w].run)
      <4>1. execs[s][i] = v /\ ~(s = SetOf[w] /\ i = jobs[w].run)
        BY <1>1, <2>1, <3>1 DEF Forgotten
      <4>2. SetOf[v] = s /\ EntryFits(jobs[v], i)
        BY <4>1 DEF LInv, WorkersKnow, EntriesAreWorkers
      <4>3. v # w
        BY <4>1, <4>2 DEF EntryFits
      <4>. QED BY <1>1, <4>2, <4>3
    <3>2. CASE UNCHANGED execs /\ \A k \in RunId : EntryFits(jobs[w], k) => EntryFits(job, k)
      <4>1. SetOf[v] = s /\ EntryFits(jobs[v], i)
        BY <2>1, <3>2 DEF LInv, WorkersKnow, EntriesAreWorkers
      <4>. QED BY <1>1, <3>2, <4>1
    <3>. QED BY <3>1, <3>2
  <2>. QED BY <2>1 DEF EntriesAreWorkers
<1>. QED BY <1>2, <1>3, <1>4 DEF WorkersKnow

(* A step that is no worker's.                                             *)
LEMMA WorkersStay ==
  ASSUME LInv, RowsOutlast, UNCHANGED <<jobs, execs>>
  PROVE  WorkersKnow'
<1>1. ASSUME NEW v \in Worker, Leaves(jobs[v])
      PROVE  OffRow(runs'[jobs[v].run], jobs[v])
  <2>1. OffRow(runs[jobs[v].run], jobs[v]) /\ jobs[v].phase \notin {"idle", "looking"}
    BY <1>1 DEF LInv, WorkersKnow, LeaversHaveLost, Leaves
  <2>. QED BY <2>1, OffRowStays DEF LInv
<1>2. LeaversHaveLost'
  BY <1>1 DEF LeaversHaveLost
<1>3. DyingUnwind' /\ EntriesAreWorkers'
  BY DEF LInv, WorkersKnow, DyingUnwind, EntriesAreWorkers
<1>. QED BY <1>2, <1>3 DEF WorkersKnow

LEMMA IdleKnows == JobKnows(IdleJob)
BY DEF JobKnows, IdleJob, DyingFits, Leaves

(* A worker in a phase that is neither leaving nor dying knows enough.     *)
LEMMA PlainKnows ==
  ASSUME NEW job, ~job.dying,
         job.phase \in {"looking", "claimed", "launched", "searching", "ended"},
         job.phase # "looking" => job.ends # "release"
  PROVE  JobKnows(job)
BY DEF JobKnows, DyingFits, Leaves

(* Whoever hands back reads the row as running, or has nothing to hand     *)
(* back and is gone; if it was to be launched it has no entry yet.         *)
LEMMA HandsBackKeeps ==
  ASSUME LInv, RowsOutlast, NEW w \in Worker, UNCHANGED runs, HandsBack(w),
         \/ jobs[w].phase = "unwinding" /\ jobs[w].dying
         \/ jobs[w].phase = "claimed"
  PROVE  WorkersKnow'
<1>. DEFINE j == jobs[w]
            job == [j EXCEPT !.phase = "handing", !.seen = runs[j.run]]
<1>1. j \in Job /\ j.run \in RunId
  BY WorkingJob DEF LInv
<1>2. /\ j.phase = "claimed" => ~j.dying
      /\ Leaves(j) => OffRow(runs[j.run], j)
  BY DEF LInv, WorkersKnow, LeaversHaveLost, DyingUnwind, DyingFits
<1>3. CASE runs[j.run].status = "running" /\ jobs' = Becomes(w, job) /\ UNCHANGED execs
  <2>1. /\ job.phase = "handing" /\ job.seen = runs[j.run] /\ job.dying = j.dying
        /\ job.run = j.run /\ job.ends = j.ends /\ job.token = j.token
    BY <1>1 DEF Job
  <2>. HIDE DEF job
  <2>2. Leaves(job) => OffRow(runs[j.run], j)
    BY <1>2, <2>1 DEF Leaves
  <2>3. JobKnows(job)
    BY <1>3, <2>1, <2>2 DEF JobKnows, DyingFits, OffRow
  <2>4. \A i \in RunId : EntryFits(j, i) => EntryFits(job, i)
    BY <2>1 DEF EntryFits
  <2>. HIDE DEF j
  <2>. QED BY <1>3, <2>3, <2>4, WorkerTurns DEF j
<1>4. CASE jobs' = Becomes(w, IdleJob) /\ execs' = IF j.dying THEN Forgotten(SetOf[w], j.run) ELSE execs
  <2>1. ~j.dying => \A i \in RunId : EntryFits(j, i) => EntryFits(IdleJob, i)
    BY DEF EntryFits
  <2>. QED BY <1>4, <2>1, IdleKnows, WorkerTurns
<1>. QED BY <1>3, <1>4 DEF HandsBack

LEMMA UnwoundKeeps ==
  ASSUME LInv, RowsOutlast, NEW w \in Worker, NEW dying \in BOOLEAN, UNCHANGED <<runs, execs>>,
         Interruptible(w), Unwound(w, dying),
         ~dying => OffRow(runs[jobs[w].run], jobs[w])
  PROVE  WorkersKnow'
<1>. DEFINE j == jobs[w]
            job == [j EXCEPT !.phase = "unwinding", !.seen = Absent, !.dying = dying]
<1>1. j \in Job /\ j.run \in RunId
  BY WorkingJob DEF LInv, Interruptible
<1>2. jobs' = Becomes(w, job)
  BY DEF Unwound
<1>3. /\ job.phase = "unwinding" /\ job.dying = dying
      /\ job.run = j.run /\ job.ends = j.ends /\ job.token = j.token
  BY <1>1 DEF Job
<1>. HIDE DEF job
<1>4. JobKnows(job)
  BY <1>3 DEF JobKnows, DyingFits, OffRow, Leaves, Interruptible
<1>5. \A i \in RunId : EntryFits(j, i) => EntryFits(job, i)
  BY <1>3 DEF EntryFits
<1>. QED BY <1>2, <1>4, <1>5, WorkerTurns

LEMMA StepKnows ==
  ASSUME LInv, RowsOutlast, NEW w \in Worker, Step(w)
  PROVE  WorkersKnow'
<1>. DEFINE j == jobs[w]
<1>0. /\ TypeOK /\ j \in Job /\ SetOf[w] \in Sets
      /\ AtWork(w) => j.run \in RunId
      /\ ~AtWork(w) => j.run = NoRun /\ j.ends = "done"
      /\ DyingFits(j)
      /\ Leaves(j) => OffRow(runs[j.run], j)
      /\ NoRun \notin RunId
  BY WorkersAssumption, QueueAssumption DEF LInv, WorkersKnow, LeaversHaveLost, DyingUnwind,
     TypeOK, VarsTyped, JobsShaped, AtWork, NoRun, RunId
<1>. HIDE DEF j
<1>1. CASE Look(w)
  <2>. DEFINE job == [j EXCEPT !.phase = "looking"]
  <2>1. /\ job.phase = "looking" /\ ~job.dying /\ j.phase = "idle"
    BY <1>0, <1>1 DEF Look, Job, DyingFits, j
  <2>2. jobs' = Becomes(w, job) /\ UNCHANGED execs
    BY <1>1 DEF Look, At, j
  <2>. HIDE DEF job
  <2>3. JobKnows(job)
    BY <2>1, PlainKnows
  <2>4. \A i \in RunId : EntryFits(j, i) => EntryFits(job, i)
    BY <2>1 DEF EntryFits
  <2>. QED BY <2>2, <2>3, <2>4, WorkerTurns DEF j
<1>2. CASE Claim(w)
  <2>1. PICK i \in RunId : jobs' = Becomes(w, [IdleJob EXCEPT !.phase = "claimed", !.run = i,
                                                              !.token = FreshToken])
    BY <1>2 DEF Claim
  <2>. DEFINE job == [IdleJob EXCEPT !.phase = "claimed", !.run = i, !.token = FreshToken]
  <2>2. job.phase = "claimed" /\ ~job.dying /\ job.ends = "done"
    BY DEF IdleJob
  <2>. HIDE DEF job
  <2>3. JobKnows(job)
    BY <2>2, PlainKnows
  <2>4. \A k \in RunId : EntryFits(j, k) => EntryFits(job, k)
    BY <1>2 DEF Claim, EntryFits, j
  <2>5. UNCHANGED execs
    BY <1>2 DEF Claim
  <2>. QED BY <2>1, <2>3, <2>4, <2>5, WorkerTurns DEF j, job
<1>3. CASE FindNothing(w)
  <2>1. \A k \in RunId : EntryFits(j, k) => EntryFits(IdleJob, k)
    BY <1>3 DEF FindNothing, EntryFits, j
  <2>2. jobs' = Becomes(w, IdleJob) /\ UNCHANGED execs
    BY <1>3 DEF FindNothing
  <2>. QED BY <2>1, <2>2, IdleKnows, WorkerTurns DEF j
<1>4. CASE Launch(w)
  <2>. DEFINE job == [j EXCEPT !.phase = "launched"]
  <2>1. /\ j.phase = "claimed" /\ job.phase = "launched" /\ job.run = j.run /\ ~job.dying
        /\ job.ends = j.ends /\ job.token = j.token /\ j.run \in RunId
    BY <1>0, <1>4 DEF Launch, Job, DyingFits, j, AtWork
  <2>2. /\ jobs' = Becomes(w, job)
        /\ execs' = [execs EXCEPT ![SetOf[w]] = [@ EXCEPT ![j.run] = w]]
    BY <1>4 DEF Launch, At, j
  <2>. HIDE DEF job
  <2>3. /\ jobs'[w] = job /\ \A v \in Worker \ {w} : jobs'[v] = jobs[v]
        /\ execs \in [Sets -> [RunId -> Worker \cup {None}]]
    BY <1>0, <2>2 DEF Becomes, TypeOK, VarsTyped
  <2>4. LeaversHaveLost' /\ DyingUnwind'
    <3>1. Leaves(job) => OffRow(runs'[job.run], job)
      <4>1. Leaves(job) => Leaves(j)
        BY <2>1 DEF Leaves
      <4>2. UNCHANGED runs
        BY <1>4 DEF Launch
      <4>. QED BY <1>0, <2>1, <4>1, <4>2 DEF OffRow
    <3>2. ASSUME NEW v \in Worker \ {w}, Leaves(jobs[v])
          PROVE  OffRow(runs'[jobs[v].run], jobs[v])
      BY <1>4, <3>2 DEF Launch, LInv, WorkersKnow, LeaversHaveLost
    <3>3. DyingFits(job)
      BY <2>1 DEF DyingFits
    <3>. QED BY <2>3, <3>1, <3>2, <3>3 DEF LeaversHaveLost, DyingUnwind, LInv, WorkersKnow
  <2>5. EntriesAreWorkers'
    <3>1. ASSUME NEW s \in Sets, NEW i \in RunId, NEW v \in Worker, execs'[s][i] = v
          PROVE  SetOf[v] = s /\ EntryFits(jobs'[v], i)
      <4>1. CASE s = SetOf[w] /\ i = j.run
        <5>1. v = w
          BY <1>0, <2>2, <2>3, <3>1, <4>1
        <5>. QED BY <2>1, <2>3, <4>1, <5>1 DEF EntryFits
      <4>2. CASE ~(s = SetOf[w] /\ i = j.run)
        <5>1. execs[s][i] = v
          BY <1>0, <2>2, <2>3, <3>1, <4>2
        <5>2. SetOf[v] = s /\ EntryFits(jobs[v], i)
          BY <5>1 DEF LInv, WorkersKnow, EntriesAreWorkers
        <5>3. v # w
          BY <2>1, <5>2 DEF EntryFits, j
        <5>. QED BY <2>3, <5>2, <5>3
      <4>. QED BY <4>1, <4>2
    <3>. QED BY <3>1 DEF EntriesAreWorkers
  <2>. QED BY <2>4, <2>5 DEF WorkersKnow
<1>5. CASE Prepare(w)
  <2>. DEFINE row == runs[j.run]
              planned == [j EXCEPT !.phase = "searching", !.work = row.work]
              refused == [j EXCEPT !.phase = "ended", !.ends = "fatal"]
              gone == [j EXCEPT !.phase = "unwinding"]
  <2>1. /\ j.phase = "launched" /\ UNCHANGED <<runs, execs>> /\ ~j.dying
        /\ \/ jobs' \in {Becomes(w, planned), Becomes(w, refused)}
           \/ jobs' = Becomes(w, gone) /\ row.status # "running"
    BY <1>0, <1>5 DEF Prepare, At, j, DyingFits
  <2>2. /\ planned.phase = "searching" /\ planned.run = j.run /\ planned.ends = j.ends
        /\ planned.token = j.token /\ ~planned.dying
        /\ refused.phase = "ended" /\ refused.run = j.run /\ refused.ends = "fatal" /\ ~refused.dying
        /\ gone.phase = "unwinding" /\ gone.run = j.run /\ gone.ends = j.ends
        /\ gone.token = j.token /\ ~gone.dying
    BY <1>0, <2>1 DEF Job
  <2>. HIDE DEF planned, refused, gone
  <2>3. j.ends = "release" => OffRow(row, j)
    BY <1>0, <2>1 DEF Leaves
  <2>4. JobKnows(planned)
    BY <2>1, <2>2, <2>3 DEF JobKnows, DyingFits, Leaves, OffRow
  <2>5. JobKnows(refused)
    BY <2>2, PlainKnows
  <2>6. row.status # "running" => JobKnows(gone)
    BY <2>1, <2>2 DEF JobKnows, DyingFits, OffRow
  <2>7. \A i \in RunId : EntryFits(j, i) =>
          EntryFits(planned, i) /\ EntryFits(refused, i) /\ EntryFits(gone, i)
    BY <2>2 DEF EntryFits
  <2>. QED BY <2>1, <2>4, <2>5, <2>6, <2>7, WorkerTurns DEF j
<1>6. CASE \E ends \in {"done", "retry"} : SearchEnds(w, ends)
  <2>1. PICK ends \in {"done", "retry"} : SearchEnds(w, ends)
    BY <1>6
  <2>. DEFINE job == [j EXCEPT !.phase = "ended", !.ends = ends]
  <2>2. /\ j.phase = "searching" /\ jobs' = Becomes(w, job) /\ UNCHANGED execs
    BY <2>1 DEF SearchEnds, j
  <2>3. /\ job.phase = "ended" /\ job.run = j.run /\ job.ends # "release" /\ ~job.dying
    BY <1>0, <2>2 DEF Job, DyingFits
  <2>. HIDE DEF job
  <2>4. JobKnows(job)
    BY <2>3, PlainKnows
  <2>5. \A i \in RunId : EntryFits(j, i) => EntryFits(job, i)
    BY <2>3 DEF EntryFits
  <2>. QED BY <2>2, <2>4, <2>5, WorkerTurns DEF j
<1>7. CASE EndRead(w)
  <2>. DEFINE row == runs[j.run]
              gone == [j EXCEPT !.phase = "unwinding"]
              read == [j EXCEPT !.phase = "writing", !.seen = row]
  <2>1. /\ j.phase = "ended" /\ UNCHANGED <<runs, execs>> /\ ~j.dying
        /\ \/ jobs' = Becomes(w, gone) /\ row.status = "absent"
           \/ jobs' = Becomes(w, read)
    BY <1>0, <1>7 DEF EndRead, At, j, DyingFits
  <2>2. /\ gone.phase = "unwinding" /\ gone.run = j.run /\ gone.ends = j.ends
        /\ gone.token = j.token /\ ~gone.dying
        /\ read.phase = "writing" /\ read.run = j.run /\ read.ends = j.ends
        /\ read.token = j.token /\ ~read.dying /\ read.seen = row
    BY <1>0, <2>1 DEF Job
  <2>. HIDE DEF gone, read
  <2>3. j.ends = "release" => OffRow(row, j)
    BY <1>0, <2>1 DEF Leaves
  <2>4. row.status = "absent" => JobKnows(gone)
    BY <2>1, <2>2 DEF JobKnows, DyingFits, OffRow
  <2>5. JobKnows(read)
    BY <2>1, <2>2, <2>3 DEF JobKnows, DyingFits, Leaves, OffRow
  <2>6. \A i \in RunId : EntryFits(j, i) => EntryFits(gone, i) /\ EntryFits(read, i)
    BY <2>2 DEF EntryFits
  <2>. QED BY <2>1, <2>4, <2>5, <2>6, WorkerTurns DEF j
<1>8. CASE EndWrite(w)
  <2>. DEFINE gone == [j EXCEPT !.phase = "unwinding", !.seen = Absent]
              failed == [j EXCEPT !.seen = Absent,
                           !.phase = IF j.ends = "release" THEN "unwinding" ELSE "erred"]
              row == runs[j.run]
  <2>1. /\ j.phase = "writing" /\ UNCHANGED execs /\ ~j.dying
        /\ j.run \in RunId /\ j.seen \in Row /\ j.work \in Work \cup {NoWork} /\ j.ends \in Ends
        /\ row \in Row
    BY <1>0, <1>8, WorkingJob DEF EndWrite, j, DyingFits
  <2>2. /\ gone.phase = "unwinding" /\ gone.run = j.run /\ gone.ends = j.ends
        /\ gone.token = j.token /\ ~gone.dying
        /\ failed.phase = (IF j.ends = "release" THEN "unwinding" ELSE "erred") /\ failed.run = j.run
        /\ failed.ends = j.ends /\ failed.token = j.token /\ ~failed.dying
    BY <1>0, <2>1 DEF Job
  <2>. HIDE DEF gone, failed
  <2>3. \A i \in RunId : EntryFits(j, i) => EntryFits(gone, i) /\ EntryFits(failed, i)
    BY <2>2 DEF EntryFits
  <2>4. CASE Present(j.run)
    <3>1. /\ jobs' = Becomes(w, gone)
          /\ runs'[j.run] = EndedRow(row, j.seen, j.work, j.ends)
      BY <1>0, <1>8, <2>1, <2>4 DEF EndWrite, j, gone, TypeOK, VarsTyped, QueueTypeOK
    <3>2. OffRow(runs'[j.run], j)
      <4>1. CASE j.seen.status = "running"
        <5>1. EndedRow(row, j.seen, j.work, j.ends).status # "running"
          BY <2>1, <2>4, <4>1, EndedRowOutlasts DEF Present
        <5>. QED BY <3>1, <5>1 DEF OffRow
      <4>2. CASE j.seen.status # "running"
        <5>1. OffRow(row, j)
          BY <1>0, <2>1, <4>2 DEF Leaves
        <5>2. OffRow(runs'[jobs[w].run], jobs[w])
          BY <1>0, <2>1, <5>1, OffRowStays DEF j
        <5>. QED BY <5>2 DEF j
      <4>. QED BY <4>1, <4>2
    <3>3. JobKnows(gone)
      BY <2>2, <3>2 DEF JobKnows, DyingFits, OffRow
    <3>. QED BY <2>1, <2>3, <3>1, <3>3, WorkerTurns DEF j
  <2>5. CASE ~Present(j.run)
    <3>1. jobs' = Becomes(w, failed) /\ UNCHANGED runs
      BY <1>8, <2>5 DEF EndWrite, j, failed
    <3>2. JobKnows(failed)
      BY <2>2, <2>5, <3>1 DEF JobKnows, DyingFits, OffRow, Present
    <3>. QED BY <2>1, <2>3, <3>1, <3>2, WorkerTurns DEF j
  <2>. QED BY <2>4, <2>5
<1>9. CASE Release(w)
  <2>. DEFINE job == [j EXCEPT !.phase = "ended", !.ends = "release"]
  <2>1. /\ j.phase = "erred" /\ jobs' = Becomes(w, job) /\ UNCHANGED <<runs, execs>> /\ ~j.dying
    BY <1>0, <1>9 DEF Release, j, DyingFits
  <2>2. /\ job.phase = "ended" /\ job.run = j.run /\ job.token = j.token /\ ~job.dying
    BY <1>0, <2>1 DEF Job
  <2>. HIDE DEF job
  <2>3. JobKnows(job)
    BY <1>0, <2>1, <2>2 DEF JobKnows, DyingFits, OffRow, Leaves
  <2>4. \A i \in RunId : EntryFits(j, i) => EntryFits(job, i)
    BY <2>2 DEF EntryFits
  <2>. QED BY <2>1, <2>3, <2>4, WorkerTurns DEF j
<1>10. CASE Unwind(w)
  <2>1. CASE jobs' = Becomes(w, IdleJob) /\ execs' = Forgotten(SetOf[w], jobs[w].run)
    BY <2>1, IdleKnows, WorkerTurns
  <2>. QED BY <1>10, <2>1, HandsBackKeeps DEF Unwind
<1>11. CASE HandBack(w)
  <2>1. /\ jobs' = Becomes(w, IdleJob) /\ j.phase = "handing"
        /\ execs' = IF j.dying THEN Forgotten(SetOf[w], jobs[w].run) ELSE execs
    BY <1>11 DEF HandBack, j
  <2>2. ~j.dying => \A i \in RunId : EntryFits(j, i) => EntryFits(IdleJob, i)
    BY <2>1 DEF EntryFits
  <2>. QED BY <2>1, <2>2, IdleKnows, WorkerTurns DEF j
<1>12. CASE StopCancel(w)
  <2>0. UNCHANGED runs
    BY <1>12 DEF StopCancel
  <2>1. CASE jobs[w].phase = "looking" /\ jobs' = Becomes(w, IdleJob) /\ UNCHANGED execs
    <3>1. \A i \in RunId : EntryFits(jobs[w], i) => EntryFits(IdleJob, i)
      BY <2>1 DEF EntryFits
    <3>. QED BY <2>1, <3>1, IdleKnows, WorkerTurns
  <2>2. CASE jobs[w].phase = "claimed" /\ HandsBack(w)
    BY <2>0, <2>2, HandsBackKeeps
  <2>3. CASE Interruptible(w) /\ Unwound(w, TRUE) /\ UNCHANGED execs
    BY <2>0, <2>3, UnwoundKeeps
  <2>4. CASE /\ jobs[w].phase = "unwinding" /\ ~jobs[w].dying
             /\ jobs' = Becomes(w, [jobs[w] EXCEPT !.dying = TRUE])
             /\ UNCHANGED execs
    <3>. DEFINE job == [j EXCEPT !.dying = TRUE]
    <3>1. /\ job.phase = "unwinding" /\ job.run = j.run /\ job.token = j.token /\ job.ends = j.ends
          /\ jobs' = Becomes(w, job) /\ j.phase = "unwinding" /\ ~j.dying
      BY <1>0, <2>4 DEF Job, j
    <3>. HIDE DEF job
    <3>2. JobKnows(job)
      BY <1>0, <2>0, <3>1 DEF JobKnows, DyingFits, OffRow, Leaves
    <3>3. \A i \in RunId : EntryFits(j, i) => EntryFits(job, i)
      BY <3>1 DEF EntryFits
    <3>. QED BY <2>4, <3>1, <3>2, <3>3, WorkerTurns DEF j
  <2>5. CASE jobs' = Becomes(w, IdleJob) /\ execs' = Forgotten(SetOf[w], jobs[w].run)
    BY <2>5, IdleKnows, WorkerTurns
  <2>. QED BY <1>12, <2>1, <2>2, <2>3, <2>4, <2>5 DEF StopCancel
<1>. QED BY <1>1, <1>2, <1>3, <1>4, <1>5, <1>6, <1>7, <1>8, <1>9, <1>10, <1>11, <1>12 DEF Step

LEMMA CancelKnows ==
  ASSUME LInv, RowsOutlast, NEW s \in Sets, NEW i \in RunId, CancelExecution(s, i)
  PROVE  WorkersKnow'
<1>1. ~Present(i) /\ UNCHANGED <<runs, execs>>
  BY DEF CancelExecution, LInv, ToldAreGone
<1>2. CASE UNCHANGED jobs
  BY <1>1, <1>2, WorkersStay
<1>3. ASSUME NEW w \in Crew(s), execs[s][i] = w, Interruptible(w), Unwound(w, FALSE)
      PROVE  WorkersKnow'
  <2>1. w \in Worker /\ jobs[w].run = i
    BY <1>3 DEF Crew, LInv, WorkersKnow, EntriesAreWorkers, EntryFits
  <2>2. OffRow(runs[jobs[w].run], jobs[w])
    BY <1>1, <2>1 DEF OffRow, Present
  <2>. QED BY <1>1, <1>3, <2>1, <2>2, UnwoundKeeps
<1>. QED BY <1>2, <1>3 DEF CancelExecution

LEMMA CrashKnows ==
  ASSUME LInv, RowsOutlast, NEW s \in Sets, Crash(s)
  PROVE  WorkersKnow'
<1>1. /\ UNCHANGED runs /\ None \notin Worker
      /\ \A w \in Worker : jobs'[w] = IF SetOf[w] = s THEN IdleJob ELSE jobs[w]
      /\ \A t \in Sets : execs'[t] = IF t = s THEN [i \in RunId |-> None] ELSE execs[t]
  BY WorkersAssumption DEF Crash, Crew, LInv, TypeOK, VarsTyped
<1>2. ~Leaves(IdleJob) /\ DyingFits(IdleJob)
  BY DEF IdleJob, Leaves, DyingFits
<1>3. LeaversHaveLost' /\ DyingUnwind'
  BY <1>1, <1>2 DEF LInv, WorkersKnow, LeaversHaveLost, DyingUnwind
<1>4. EntriesAreWorkers'
  <2>1. ASSUME NEW t \in Sets, NEW i \in RunId, NEW w \in Worker, execs'[t][i] = w
        PROVE  SetOf[w] = t /\ EntryFits(jobs'[w], i)
    <3>1. t # s /\ execs[t][i] = w
      BY <1>1, <2>1
    <3>. QED BY <1>1, <3>1 DEF LInv, WorkersKnow, EntriesAreWorkers
  <2>. QED BY <2>1 DEF EntriesAreWorkers
<1>. QED BY <1>3, <1>4 DEF WorkersKnow

LEMMA WorkersKnowNext ==
  ASSUME LInv, RowsOutlast, [Next]_vars
  PROVE  WorkersKnow'
<1>1. CASE UNCHANGED <<jobs, execs>>
  BY <1>1, WorkersStay
<1>2. ASSUME NEW w \in Worker, Step(w) PROVE WorkersKnow'
  BY <1>2, StepKnows
<1>3. ASSUME NEW s \in Sets, Upkeep(s) PROVE WorkersKnow'
  <2>1. ASSUME NEW i \in RunId, CancelExecution(s, i) PROVE WorkersKnow'
    BY <2>1, CancelKnows
  <2>2. CASE Crash(s)
    BY <2>2, CrashKnows
  <2>3. CASE LooseClaim(s) \/ LooseWrite(s) \/ Beat(s) \/ LocalSweep(s) \/ Start(s) \/ Stop(s) \/ Stopped(s)
    BY <1>1, <2>3 DEF LooseClaim, LooseWrite, Beat, LocalSweep, Start, Stop, Stopped
  <2>. QED BY <1>3, <2>1, <2>2, <2>3 DEF Upkeep
<1>4. CASE Owner
  BY <1>1, <1>4 DEF Owner, Ask, Pause, StopBackfill, StopQueue, CancelRead, CancelRun
<1>5. CASE (\E i \in RunId : GoQuiet(i)) \/ GatewaySweep \/ UNCHANGED vars
  BY <1>1, <1>5 DEF GoQuiet, GatewaySweep, vars
<1>. QED BY <1>2, <1>3, <1>4, <1>5 DEF Next

(* A cancel is only on its way for a row that is gone, and stays gone.     *)
LEMMA ToldStayGone ==
  ASSUME LInv, RowsOutlast, [Next]_vars
  PROVE  ToldAreGone'
<1>1. told \in [Sets -> SUBSET RunId]
  BY DEF LInv, TypeOK, VarsTyped
<1>2. ASSUME NEW s \in Sets, NEW i \in told[s] PROVE ~Present(i)'
  <2>1. i \in RunId /\ runs[i].status = "absent" /\ InHand(i)
    BY <1>1, <1>2 DEF LInv, ToldAreGone, Present, InHand
  <2>. QED BY <2>1 DEF RowsOutlast, Outlasts, Present
<1>3. ASSUME \A s \in Sets : \A i \in told'[s] : i \in told[s] \/ ~Present(i)'
      PROVE  ToldAreGone'
  BY <1>2, <1>3 DEF ToldAreGone
<1>4. CASE UNCHANGED told
  BY <1>3, <1>4
<1>5. ASSUME NEW i \in RunId, CancelRun(i) PROVE ToldAreGone'
  <2>1. ~Present(i)'
    BY <1>5 DEF CancelRun, Deleting, Present, Absent
  <2>2. \A s \in Sets : \A k \in told'[s] : k \in told[s] \/ k = i
    BY <1>1, <1>5 DEF CancelRun
  <2>. QED BY <1>3, <2>1, <2>2
<1>6. ASSUME NEW s \in Sets, Upkeep(s) PROVE ToldAreGone'
  <2>1. CASE Beat(s)
    <3>1. \A i \in RunId : ~Present(i) => runs'[i] = runs[i]
      BY <2>1 DEF Beat, HeartbeatRuns, Present
    <3>2. \A t \in Sets : \A i \in told'[t] : i \in told[t] \/ (i \in RunId /\ ~Present(i))
      BY <1>1, <2>1 DEF Beat, InFlight
    <3>3. \A t \in Sets : \A i \in told'[t] : i \in told[t] \/ ~Present(i)'
      BY <3>1, <3>2 DEF Present
    <3>. QED BY <1>3, <3>3
  <2>2. CASE (\E i \in RunId : CancelExecution(s, i)) \/ Stopped(s) \/ Crash(s)
    <3>1. \A t \in Sets : told'[t] \subseteq told[t]
      BY <1>1, <2>2 DEF CancelExecution, Stopped, Crash
    <3>. QED BY <1>3, <3>1
  <2>3. CASE LooseClaim(s) \/ LooseWrite(s) \/ LocalSweep(s) \/ Start(s) \/ Stop(s)
    BY <1>4, <2>3 DEF LooseClaim, LooseWrite, LocalSweep, Start, Stop
  <2>. QED BY <1>6, <2>1, <2>2, <2>3 DEF Upkeep
<1>7. ASSUME NEW w \in Worker, Step(w) PROVE ToldAreGone'
  BY <1>4, <1>7 DEF Step, Look, Claim, FindNothing, Launch, Prepare, SearchEnds, EndRead,
     EndWrite, Release, Unwind, HandBack, StopCancel
<1>8. CASE Owner
  BY <1>4, <1>5, <1>8 DEF Owner, Ask, Pause, StopBackfill, StopQueue, CancelRead
<1>9. CASE (\E i \in RunId : GoQuiet(i)) \/ GatewaySweep \/ UNCHANGED vars
  BY <1>4, <1>9 DEF GoQuiet, GatewaySweep, vars
<1>. QED BY <1>6, <1>7, <1>8, <1>9 DEF Next

-----------------------------------------------------------------------------
(* What a step that makes a worker idle leaves of its row.                 *)
LeavesRow(w) ==
  AtWork(w) /\ jobs'[w].phase = "idle" /\ up'[SetOf[w]] # "down" =>
    OffRow(runs'[jobs[w].run], jobs[w])

LEMMA StepLeavesRow ==
  ASSUME LInv, RowsOutlast, NEW w \in Worker, Step(w), AtWork(w), jobs'[w].phase = "idle"
  PROVE  OffRow(runs'[jobs[w].run], jobs[w])
<1>. DEFINE j == jobs[w]
<1>0. /\ j \in Job /\ j.run \in RunId /\ runs[j.run] \in Row /\ j.seen \in Row
      /\ j.phase \notin {"idle", "looking"} /\ DyingFits(j)
      /\ Leaves(j) => OffRow(runs[j.run], j)
      /\ jobs \in [Worker -> Job]
  <2>1. j.phase \notin {"idle", "looking"}
    BY DEF AtWork
  <2>. QED BY <2>1, WorkingJob DEF LInv, TypeOK, VarsTyped, WorkersKnow, LeaversHaveLost,
       DyingUnwind
<1>1. CASE HandBack(w)
  <2>1. j.phase = "handing" /\ j.seen.status = "running"
    BY <1>0, <1>1 DEF HandBack, DyingFits
  <2>2. j.work \in Work \cup {NoWork} /\ j.ends \in Ends
    BY <1>0 DEF Job
  <2>3. CASE Present(j.run)
    <3>1. runs'[j.run] = Abandoned(runs[j.run], j.seen)
      BY <1>0, <1>1, <2>3 DEF HandBack, LInv, TypeOK, VarsTyped, QueueTypeOK
    <3>2. Abandoned(runs[j.run], j.seen).status # "running"
      BY <1>0, <2>1, <2>2, <2>3, EndedRowOutlasts DEF Present
    <3>. QED BY <3>1, <3>2 DEF OffRow
  <2>4. CASE ~Present(j.run)
    BY <1>1, <2>4 DEF HandBack, OffRow, Present
  <2>. QED BY <2>3, <2>4
<1>2. ASSUME UNCHANGED runs, Leaves(j) \/ runs[j.run].status # "running"
      PROVE  OffRow(runs'[j.run], j)
  BY <1>0, <1>2 DEF OffRow
<1>3. ASSUME UNCHANGED runs, HandsBack(w) PROVE OffRow(runs'[j.run], j)
  BY <1>0, <1>2, <1>3 DEF HandsBack, Becomes, Job
<1>4. CASE Unwind(w)
  BY <1>0, <1>2, <1>3, <1>4 DEF Unwind, Leaves
<1>5. CASE StopCancel(w)
  <2>0. UNCHANGED runs
    BY <1>5 DEF StopCancel
  <2>1. CASE Unwound(w, TRUE)
    BY <1>0, <2>1 DEF Unwound, Becomes, Job
  <2>2. CASE jobs' = Becomes(w, [jobs[w] EXCEPT !.dying = TRUE])
    BY <1>0, <2>2 DEF Becomes, Job
  <2>3. CASE jobs[w].ends = "release"
    BY <1>0, <1>2, <2>0, <2>3 DEF Leaves
  <2>. QED BY <1>0, <1>3, <1>5, <2>0, <2>1, <2>2, <2>3 DEF StopCancel
<1>6. CASE Look(w) \/ FindNothing(w) \/ Claim(w)
  BY <1>0, <1>6 DEF Look, FindNothing, Claim
<1>7. CASE Launch(w)
  BY <1>0, <1>7 DEF Launch, At, Becomes, Job
<1>8. CASE Prepare(w)
  BY <1>0, <1>8 DEF Prepare, At, Becomes, Job
<1>9. CASE \E ends \in {"done", "retry"} : SearchEnds(w, ends)
  BY <1>0, <1>9 DEF SearchEnds, Becomes, Job
<1>10. CASE EndRead(w)
  BY <1>0, <1>10 DEF EndRead, At, Becomes, Job
<1>11. CASE EndWrite(w)
  BY <1>0, <1>11 DEF EndWrite, Becomes, Job
<1>12. CASE Release(w)
  BY <1>0, <1>12 DEF Release, Becomes, Job
<1>. QED BY <1>1, <1>4, <1>5, <1>6, <1>7, <1>8, <1>9, <1>10, <1>11, <1>12 DEF Step

LEMMA LInvInit == Init => LInv
<1>. SUFFICES ASSUME Init PROVE LInv
  OBVIOUS
<1>1. ~Leaves(IdleJob) /\ DyingFits(IdleJob)
  BY DEF IdleJob, Leaves, DyingFits
<1>2. LeaversHaveLost /\ DyingUnwind /\ EntriesAreWorkers /\ ToldAreGone
  BY <1>1, WorkersAssumption DEF Init, LeaversHaveLost, DyingUnwind, EntriesAreWorkers, ToldAreGone
<1>. QED BY <1>2, TypeInit DEF LInv, WorkersKnow

LEMMA LInvNext == ASSUME Unreused PROVE LInv /\ [Next]_vars => LInv'
<1>. SUFFICES ASSUME LInv, [Next]_vars PROVE LInv'
  OBVIOUS
<1>1. RowsOutlast
  BY EveryStepOutlasts DEF LInv
<1>2. TypeOK'
  BY TypeNext DEF LInv
<1>. QED BY <1>1, <1>2, ToldStayGone, WorkersKnowNext DEF LInv
LEMMA EveryStepLeavesRow ==
  ASSUME Unreused, LInv, [Next]_vars, NEW w \in Worker
  PROVE  LeavesRow(w)
<1>0. RowsOutlast
  BY EveryStepOutlasts DEF LInv
<1>. SUFFICES ASSUME AtWork(w), jobs'[w].phase = "idle", up'[SetOf[w]] # "down"
              PROVE  OffRow(runs'[jobs[w].run], jobs[w])
  BY DEF LeavesRow
<1>1. jobs'[w] # jobs[w]
  BY DEF AtWork
<1>2. jobs \in [Worker -> Job] /\ up \in [Sets -> {"down", "up", "stopping"}] /\ SetOf \in [Worker -> Sets]
  BY WorkersAssumption DEF LInv, TypeOK, VarsTyped
<1>3. ASSUME NEW v \in Worker, Step(v) PROVE OffRow(runs'[jobs[w].run], jobs[w])
  <2>1. \A u \in Worker \ {v} : jobs'[u] = jobs[u]
    BY <1>2, <1>3 DEF Step, Look, Claim, FindNothing, Launch, Prepare, SearchEnds, EndRead,
       EndWrite, Release, Unwind, HandBack, StopCancel, HandsBack, Unwound, At, Becomes
  <2>. QED BY <1>0, <1>1, <1>3, <2>1, StepLeavesRow, SMTT(30)
<1>4. ASSUME NEW s \in Sets, Upkeep(s) PROVE FALSE
  <2>1. ASSUME NEW i \in RunId, CancelExecution(s, i) PROVE FALSE
    <3>1. PICK v \in Worker : Unwound(v, FALSE)
      BY <1>1, <2>1 DEF CancelExecution, Crew
    <3>2. jobs'[w].phase \in {"unwinding", jobs[w].phase}
      BY <1>2, <3>1 DEF Unwound, Becomes, Job
    <3>. QED BY <3>2 DEF AtWork
  <2>2. ~Crash(s)
    BY <1>1, <1>2 DEF Crash, Crew
  <2>. QED BY <1>1, <1>4, <2>1, <2>2 DEF Upkeep, LooseClaim, LooseWrite, Beat, LocalSweep,
       Start, Stop, Stopped
<1>5. ~Owner
  BY <1>1 DEF Owner, Ask, Pause, StopBackfill, StopQueue, CancelRead, CancelRun
<1>6. ~((\E i \in RunId : GoQuiet(i)) \/ GatewaySweep \/ UNCHANGED vars)
  BY <1>1 DEF GoQuiet, GatewaySweep, vars
<1>. QED BY <1>3, <1>4, <1>5, <1>6 DEF Next

(* Whoever leaves a run - done, failed, cancelled, stopped or with a plan   *)
(* that cannot be made (workers/analysis_queue.py: _execute, _finish,      *)
(* _release, stop) - leaves no row running under its attempt: for every    *)
(* number of sets, under every hazard but that of an id that is used again *)
(* while a cancel of it is on its way.                                     *)
THEOREM NothingIsLeftRunning == ASSUME Unreused PROVE Spec => LeavesNothingRunning
<1>1. LInv /\ [Next]_vars => LInv'
  BY LInvNext
<1>2. LInv /\ [Next]_vars =>
        [\A w \in Worker : AtWork(w) /\ jobs'[w].phase = "idle" /\ up'[SetOf[w]] # "down" =>
           \/ runs'[jobs[w].run].status # "running"
           \/ runs'[jobs[w].run].token # jobs[w].token]_vars
  BY EveryStepLeavesRow DEF LeavesRow, OffRow
<1>. QED BY <1>1, <1>2, LInvInit, PTL DEF Spec, LeavesNothingRunning
=============================================================================
