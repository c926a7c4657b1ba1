--------------------------- MODULE LifecycleProofs ---------------------------
(***************************************************************************)
(* What becomes of the rows of the analysis queue, proved on top of the    *)
(* ownership that AnalysisWorkersProofs establishes: every step of the     *)
(* workers is one of eight moves of the table, and from those follow how   *)
(* attempts are counted, what a finished run stores and that a run goes    *)
(* through RunLifecycle and through nothing else.                          *)
(***************************************************************************)
EXTENDS AnalysisWorkersProofs

(* What a search and its end know of their row is what the row says.       *)
KnowsItsRow ==
  \A w \in Worker : Searching(w) /\ Present(jobs[w].run) =>
    /\ jobs[w].phase = "writing" => jobs[w].seen = runs[jobs[w].run]
    /\ \/ jobs[w].phase = "searching"
       \/ jobs[w].phase \in {"ended", "writing"} /\ jobs[w].ends = "done"
       => jobs[w].work = runs[jobs[w].run].work

(* Attempts and ends of a row: a running one is local and within budget.   *)
RowCounts(row) ==
  /\ row.status = "queued" => row.attempts < MaxAttempts
  /\ row.status = "running" => row.attempts <= MaxAttempts /\ row.host \in LocalHosts
  /\ row.status = "failed" /\ row.error # "fatal" => row.attempts >= MaxAttempts
  /\ row.status = "done" => row.evals = row.work

RowsCount == \A i \in RunId : RowCounts(runs[i])

(* A request has one row at most, and a row stands for a request.          *)
RowsStandForRequests ==
  /\ \A i \in RunId : Present(i) => runs[i].work \in 1 .. asked
  /\ \A i, k \in RunId : Present(i) /\ Present(k) /\ runs[i].work = runs[k].work => i = k

(* A route that is about to delete a run was asked to.                     *)
CancelsAreAsked == cancelling # {} => "cancel" \in Hazards

RInv ==
  IInv /\ KnowsItsRow /\ RowsCount /\ RowsStandForRequests /\ CancelsAreAsked

-----------------------------------------------------------------------------
(* The moves of the table.                                                 *)

NewRow(kind, host) ==
  [Absent EXCEPT !.work = asked + 1, !.kind = kind, !.host = host, !.status = "queued"]

RowBecomes(i, row) == runs' = [runs EXCEPT ![i] = row]

Asks ==
  /\ asked < MaxWorks /\ asked' = asked + 1
  /\ \E i \in RunId, kind \in Kind, host \in Host :
       ~Present(i) /\ RowBecomes(i, NewRow(kind, host))

Claims ==
  \E i \in RunId, t \in Token :
    /\ Claimable(i, LocalHosts)
    /\ RowBecomes(i, Claimed(runs[i], t))

Stores ==
  \E i \in RunId :
    /\ runs[i].status = "running"
    /\ RowBecomes(i, Completed(runs[i], runs[i], runs[i].work))

Fails ==
  \E i \in RunId, retry \in BOOLEAN :
    /\ runs[i].status = "running"
    /\ RowBecomes(i, FailedRow(runs[i], runs[i], retry))

Collects ==
  \E ids \in SUBSET RunId :
    /\ \A i \in ids : runs[i].status = "running"
    /\ runs' = [i \in RunId |-> IF i \in ids THEN Collected(runs[i]) ELSE runs[i]]

Removes ==
  \E ids \in SUBSET RunId :
    /\ "cancel" \notin Hazards => \A i \in ids : runs[i].status \in {"queued", "running"}
    /\ Deleting(ids)

Hears ==
  \A i \in RunId :
    \/ runs'[i] = runs[i]
    \/ /\ runs[i].status = "running"
       /\ \E quiet \in BOOLEAN : runs'[i] = [runs[i] EXCEPT !.quiet = quiet]

TableMoves ==
  \/ Asks
  \/ UNCHANGED asked /\ (Claims \/ Stores \/ Fails \/ Collects \/ Removes \/ Hears)

(* A sweep collects rows that run, and a beat is heard by rows that run.   *)
LEMMA SweepMoves ==
  ASSUME NEW hosts, NEW kept, RequeueStaleRuns(hosts, kept)
  PROVE  Collects
<1>. DEFINE ids == {i \in RunId : Stale(i) /\ runs[i].host \in hosts /\ i \notin kept}
<1>1. ids \in SUBSET RunId /\ \A i \in ids : runs[i].status = "running"
  BY DEF Stale
<1>2. runs' = [i \in RunId |-> IF i \in ids THEN Collected(runs[i]) ELSE runs[i]]
  BY DEF RequeueStaleRuns
<1>. QED BY <1>1, <1>2 DEF Collects

LEMMA BeatMoves ==
  ASSUME NEW ids, HeartbeatRuns(ids)
  PROVE  Hears
BY DEF HeartbeatRuns, Hears

(* What the end of a search writes, it writes over a row it has read as it *)
(* stands and still owns.                                                  *)
LEMMA EndMoves ==
  ASSUME RInv, NEW w \in Worker, EndWrite(w), Present(jobs[w].run)
  PROVE  Stores \/ Fails
<1>. DEFINE j == jobs[w]
            row == runs[j.run]
<1>1. /\ j.phase = "writing" /\ j.run \in RunId /\ j.ends \in Ends
      /\ runs' = [runs EXCEPT ![j.run] = EndedRow(row, j.seen, j.work, j.ends)]
  BY WorkingJob DEF EndWrite, RInv, IInv
<1>2. j.ends # "release" /\ row.status # "absent"
  BY <1>1 DEF RInv, IInv, StaysGone, AtWork, Present
<1>3. Searching(w)
  BY <1>1, <1>2 DEF Searching
<1>4. row.status = "running" /\ j.seen = row /\ (j.ends = "done" => j.work = row.work)
  BY <1>1, <1>2, <1>3 DEF RInv, IInv, Owned, KnowsItsRow
<1>5. CASE j.ends = "done"
  BY <1>1, <1>4, <1>5 DEF EndedRow, Stores, RowBecomes
<1>6. CASE j.ends # "done"
  <2>1. runs' = [runs EXCEPT ![j.run] = FailedRow(row, row, j.ends # "fatal")]
    BY <1>1, <1>4, <1>6 DEF EndedRow
  <2>2. (j.ends # "fatal") \in BOOLEAN
    OBVIOUS
  <2>. HIDE DEF j, row
  <2>. QED BY <1>1, <1>4, <2>1, <2>2 DEF Fails, RowBecomes, j, row
<1>. QED BY <1>5, <1>6

LEMMA OwnerMoves ==
  ASSUME RInv, Owner
  PROVE  TableMoves
<1>1. ASSUME NEW kind \in AskedKinds, NEW host \in AskedHosts, Ask(kind, host)
      PROVE  Asks
  <2>1. PICK i \in RunId : IsNewId(i) /\ RowBecomes(i, NewRow(kind, host))
    BY <1>1 DEF Ask, RequestAnalysis, RowBecomes, NewRow
  <2>2. i >= i
    BY DEF RunId
  <2>3. ~Present(i) /\ kind \in Kind /\ host \in Host
    BY <2>1, <2>2, QueueAssumption DEF IsNewId
  <2>. QED BY <1>1, <2>1, <2>3 DEF Ask, RequestAnalysis, Asks
<1>2. ASSUME NEW flag \in BOOLEAN, Pause(flag) PROVE UNCHANGED asked /\ Hears
  BY <1>2 DEF Pause, SetQueuePaused, Hears
<1>3. ASSUME StopBackfill \/ StopQueue PROVE UNCHANGED asked /\ Removes
  BY <1>3 DEF StopBackfill, StopQueue, CancelQueued, ClearQueue, Removes
<1>4. ASSUME NEW i \in RunId, CancelRead(i) PROVE UNCHANGED asked /\ Hears
  BY <1>4 DEF CancelRead, Hears
<1>5. ASSUME NEW i \in RunId, CancelRun(i) PROVE UNCHANGED asked /\ Removes
  <2>1. "cancel" \in Hazards /\ Deleting({i}) /\ UNCHANGED asked
    BY <1>5 DEF CancelRun, RInv, CancelsAreAsked
  <2>. QED BY <2>1 DEF Removes
<1>. QED BY <1>1, <1>2, <1>3, <1>4, <1>5 DEF Owner, TableMoves

(* Whatever the workers, the sets and the owner do is a move of the table. *)
LEMMA EveryStepMoves ==
  ASSUME Calm, RInv, [Next]_vars
  PROVE  TableMoves
<1>1. ASSUME UNCHANGED <<runs, asked>> PROVE TableMoves
  BY <1>1 DEF TableMoves, Hears
<1>2. ASSUME NEW w \in Worker, Step(w) PROVE TableMoves
  <2>1. CASE Claim(w)
    <3>1. PICK i \in RunId : Claimable(i, LocalHosts) /\ RowBecomes(i, Claimed(runs[i], FreshToken))
      BY <2>1 DEF Claim, IsNextRun, RowBecomes
    <3>2. FreshToken \in Token /\ UNCHANGED asked
      BY <2>1, FreshTokenType DEF Claim
    <3>. QED BY <3>1, <3>2 DEF Claims, TableMoves
  <2>2. CASE EndWrite(w)
    BY <1>1, <2>2, EndMoves DEF EndWrite, TableMoves
  <2>3. ~HandBack(w)
    BY DEF HandBack, RInv, IInv, NoStop
  <2>4. CASE \/ Look(w) \/ FindNothing(w) \/ Launch(w) \/ Prepare(w)
             \/ \E ends \in {"done", "retry"} : SearchEnds(w, ends)
             \/ EndRead(w) \/ Release(w) \/ Unwind(w) \/ StopCancel(w)
    BY <1>1, <2>4 DEF Look, FindNothing, Launch, Prepare, SearchEnds, EndRead, Release,
         Unwind, StopCancel
  <2>. QED BY <1>2, <2>1, <2>2, <2>3, <2>4 DEF Step
<1>3. ASSUME NEW s \in Sets, Upkeep(s) PROVE TableMoves
  <2>1. ASSUME NEW hosts, NEW kept, RequeueStaleRuns(hosts, kept), UNCHANGED asked
        PROVE  TableMoves
    BY <2>1, SweepMoves DEF TableMoves
  <2>2. ~LooseClaim(s)
    BY DEF LooseClaim, RInv, IInv, NoStop
  <2>3. CASE LooseWrite(s)
    BY <1>1, <2>3 DEF LooseWrite, RInv, IInv, StaysGone, Present
  <2>4. CASE Beat(s)
    BY <2>4, BeatMoves DEF Beat, TableMoves
  <2>5. CASE LocalSweep(s) \/ Start(s)
    BY <2>1, <2>5 DEF LocalSweep, Start, SweepStale
  <2>6. CASE (\E i \in RunId : CancelExecution(s, i)) \/ Stop(s) \/ Stopped(s) \/ Crash(s)
    BY <1>1, <2>6 DEF CancelExecution, Stop, Stopped, Crash
  <2>. QED BY <1>3, <2>2, <2>3, <2>4, <2>5, <2>6 DEF Upkeep
<1>4. ASSUME NEW i \in RunId, GoQuiet(i) PROVE TableMoves
  <2>1. Hears /\ UNCHANGED asked
    BY <1>4 DEF GoQuiet, Hears, RInv, IInv, TypeOK, VarsTyped, QueueTypeOK
  <2>. QED BY <2>1 DEF TableMoves
<1>5. CASE GatewaySweep
  BY <1>5, SweepMoves DEF GatewaySweep, SweepStale, TableMoves
<1>6. CASE UNCHANGED vars
  BY <1>1, <1>6 DEF vars
<1>. QED BY <1>2, <1>3, <1>4, <1>5, <1>6, OwnerMoves DEF Next

-----------------------------------------------------------------------------
(* What searches know of their rows.                                       *)

(* How a worker that is still on its run, or has just taken it, came here. *)
GoesOn(w) ==
  LET j == jobs[w]
      k == jobs'[w] IN
    \/ k = j
    \/ k.phase \in {"claimed", "launched"}
    \/ /\ UNCHANGED runs /\ k.run = j.run
       /\ \/ k.phase = "searching" /\ k.work = runs[j.run].work
          \/ k.phase = "ended" /\ (k.ends = "done" => j.phase = "searching" /\ k.work = j.work)
          \/ /\ k.phase = "writing" /\ k.seen = runs[j.run]
             /\ j.phase = "ended" /\ k.ends = j.ends /\ k.work = j.work

LEMMA SearchGoesOn ==
  ASSUME Calm, RInv, [Next]_vars, NEW w \in Worker, Searching(w)'
  PROVE  GoesOn(w)
<1>. DEFINE j == jobs[w]
<1>1. /\ j \in Job /\ jobs \in [Worker -> Job] /\ Searching(w)' = (jobs'[w].phase \in
         {"claimed", "launched", "searching", "ended", "writing"} /\ jobs'[w].ends # "release")
  BY DEF RInv, IInv, TypeOK, VarsTyped, Searching
<1>2. ASSUME UNCHANGED jobs PROVE GoesOn(w)
  BY <1>2 DEF GoesOn
<1>0. IdleJob.phase = "idle"
  BY DEF IdleJob
<1>3. ASSUME NEW v \in Worker, Step(v), v # w PROVE GoesOn(w)
  <2>1. jobs'[w] = jobs[w]
    BY <1>1, <1>3 DEF Step, Look, Claim, FindNothing, Launch, Prepare, SearchEnds, EndRead,
         EndWrite, Release, Unwind, HandBack, HandsBack, StopCancel, Unwound, Becomes, At
  <2>. QED BY <2>1, SMTT(30) DEF GoesOn
<1>4. ASSUME Step(w) PROVE GoesOn(w)
  <2>1. CASE Look(w)
    BY <1>1, <2>1 DEF Look, Becomes, At, Job
  <2>2. CASE FindNothing(w) \/ Unwind(w) \/ HandBack(w)
    <3>1. jobs'[w] = IdleJob \/ jobs'[w].phase = "handing"
      BY <1>1, <2>2 DEF FindNothing, Unwind, HandBack, HandsBack, Becomes, Job
    <3>. QED BY <1>0, <1>1, <3>1
  <2>3. CASE EndWrite(w)
    <3>. DEFINE failed == IF j.ends = "release" THEN "unwinding" ELSE "erred"
    <3>1. \/ jobs'[w] = [j EXCEPT !.phase = "unwinding", !.seen = Absent]
          \/ jobs'[w] = [j EXCEPT !.seen = Absent, !.phase = failed]
      BY <1>1, <2>3 DEF EndWrite, Becomes
    <3>2. failed \in {"unwinding", "erred"}
      OBVIOUS
    <3>. HIDE DEF failed
    <3>3. jobs'[w].phase \in {"unwinding", "erred"}
      BY <1>1, <3>1, <3>2 DEF Job
    <3>. QED BY <1>1, <3>3
  <2>4. CASE Claim(w)
    <3>1. jobs'[w].phase = "claimed"
      BY <1>1, <2>4 DEF Claim, Becomes, IdleJob
    <3>. QED BY <3>1 DEF GoesOn
  <2>5. CASE Launch(w)
    <3>1. jobs'[w].phase = "launched"
      BY <1>1, <2>5 DEF Launch, Becomes, At, Job
    <3>. QED BY <3>1 DEF GoesOn
  <2>6. CASE Prepare(w)
    <3>. DEFINE row == runs[j.run]
                k == jobs'[w]
    <3>1. \/ k = [j EXCEPT !.phase = "searching", !.work = row.work]
          \/ k = [j EXCEPT !.phase = "ended", !.ends = "fatal"]
          \/ k = [j EXCEPT !.phase = "unwinding"]
      BY <1>1, <2>6 DEF Prepare, Becomes, At
    <3>2. k.run = j.run /\ UNCHANGED runs
      BY <1>1, <2>6, <3>1 DEF Job, Prepare
    <3>3. \/ k.phase = "searching" /\ k.work = row.work
          \/ k.phase = "ended" /\ k.ends = "fatal"
          \/ k.phase = "unwinding"
      BY <1>1, <3>1 DEF Job
    <3>. HIDE DEF row, k
    <3>. QED BY <1>1, <3>2, <3>3 DEF GoesOn, k, row
  <2>7. CASE \E ends \in {"done", "retry"} : SearchEnds(w, ends)
    BY <1>1, <2>7 DEF SearchEnds, Becomes, Job, GoesOn
  <2>8. CASE EndRead(w)
    <3>. DEFINE row == runs[j.run]
                k == jobs'[w]
    <3>1. \/ k = [j EXCEPT !.phase = "unwinding"]
          \/ k = [j EXCEPT !.phase = "writing", !.seen = row]
      BY <1>1, <2>8 DEF EndRead, Becomes, At
    <3>2. k.run = j.run /\ k.ends = j.ends /\ k.work = j.work /\ UNCHANGED runs /\ j.phase = "ended"
      BY <1>1, <2>8, <3>1 DEF Job, EndRead
    <3>3. k.phase = "unwinding" \/ (k.phase = "writing" /\ k.seen = row)
      BY <1>1, <3>1 DEF Job
    <3>. HIDE DEF row, k
    <3>. QED BY <1>1, <3>2, <3>3 DEF GoesOn, k, row
  <2>9. CASE Release(w)
    <3>1. jobs'[w].ends = "release"
      BY <1>1, <2>9 DEF Release, Becomes, Job
    <3>. QED BY <1>1, <3>1
  <2>10. ~StopCancel(w)
    BY WorkersAssumption DEF StopCancel, RInv, IInv, NoStop
  <2>. QED BY <1>4, <2>1, <2>2, <2>3, <2>4, <2>5, <2>6, <2>7, <2>8, <2>9, <2>10 DEF Step
<1>5. ASSUME NEW s \in Sets, Upkeep(s) PROVE GoesOn(w)
  <2>1. ASSUME NEW i \in RunId, CancelExecution(s, i) PROVE GoesOn(w)
    <3>1. CASE UNCHANGED jobs
      BY <1>2, <3>1
    <3>2. ASSUME NEW v \in Crew(s), Unwound(v, FALSE) PROVE GoesOn(w)
      <4>1. v \in Worker
        BY DEF Crew
      <4>2. IF v = w THEN jobs'[w].phase = "unwinding" ELSE jobs'[w] = jobs[w]
        BY <1>1, <3>2, <4>1 DEF Unwound, Becomes, Job
      <4>. QED BY <1>1, <4>2 DEF GoesOn
    <3>. QED BY <2>1, <3>1, <3>2 DEF CancelExecution
  <2>2. CASE Crash(s)
    <3>1. jobs'[w] = jobs[w] \/ jobs'[w] = IdleJob
      BY <1>1, <2>2 DEF Crash
    <3>. QED BY <1>0, <1>1, <3>1 DEF GoesOn
  <2>3. CASE \/ LooseClaim(s) \/ LooseWrite(s) \/ Beat(s) \/ LocalSweep(s)
             \/ Start(s) \/ Stop(s) \/ Stopped(s)
    BY <1>2, <2>3 DEF LooseClaim, LooseWrite, Beat, LocalSweep, Start, Stop, Stopped
  <2>. QED BY <1>5, <2>1, <2>2, <2>3 DEF Upkeep
<1>6. CASE Owner \/ GatewaySweep \/ UNCHANGED vars \/ \E i \in RunId : GoQuiet(i)
  BY <1>2, <1>6 DEF Owner, Ask, Pause, StopBackfill, StopQueue, CancelRead, CancelRun,
       GatewaySweep, GoQuiet, vars
<1>. QED BY <1>3, <1>4, <1>5, <1>6 DEF Next

(* A search that goes on has its row as it was: what it has read is still  *)
(* so when it writes.                                                      *)
LEMMA OwnedRowStays ==
  ASSUME RInv, IInv', TableMoves, NEW w \in Worker, Searching(w), Searching(w)',
         jobs'[w].run = jobs[w].run, Present(jobs[w].run)'
  PROVE  Present(jobs[w].run) /\ runs'[jobs[w].run] = runs[jobs[w].run]
<1>. DEFINE i == jobs[w].run
            row == runs[i]
            new == runs'[i]
<1>1. /\ i \in RunId /\ runs \in [RunId -> Row] /\ runs' \in [RunId -> Row]
  BY DEF RInv, IInv, TypeOK, VarsTyped, QueueTypeOK, JobsShaped, Searching, AtWork
<1>2. /\ row.status = "absent" \/ (row.status = "running" /\ ~row.quiet)
      /\ new.status = "running" /\ ~new.quiet
  BY DEF RInv, IInv, Owned, Present
<1>3. ASSUME NEW k \in RunId, NEW made \in Row, RowBecomes(k, made), made.status # "running"
      PROVE  new = row
  BY <1>1, <1>2, <1>3 DEF RowBecomes
<1>4. CASE Asks
  <2>1. PICK k \in RunId, kind \in Kind, host \in Host : RowBecomes(k, NewRow(kind, host))
    BY <1>4 DEF Asks
  <2>2. NewRow(kind, host).status = "queued"
    BY DEF NewRow, Absent
  <2>. QED BY <1>1, <1>2, <2>1, <2>2 DEF RowBecomes, Present
<1>5. CASE Claims
  <2>1. PICK k \in RunId, t \in Token : Claimable(k, LocalHosts) /\ RowBecomes(k, Claimed(runs[k], t))
    BY <1>5 DEF Claims
  <2>2. k # i
    BY <1>2, <2>1 DEF Claimable
  <2>. QED BY <1>1, <1>2, <2>1, <2>2 DEF RowBecomes, Present
<1>6. CASE Stores
  <2>1. PICK k \in RunId : RowBecomes(k, Completed(runs[k], runs[k], runs[k].work)) /\ runs[k].status = "running"
    BY <1>6 DEF Stores
  <2>2. Completed(runs[k], runs[k], runs[k].work).status = "done"
    BY <1>1, <2>1 DEF Completed, Assigned, Row
  <2>. QED BY <1>1, <1>2, <2>1, <2>2 DEF RowBecomes, Present
<1>7. CASE Fails
  <2>1. PICK k \in RunId, retry \in BOOLEAN :
          RowBecomes(k, FailedRow(runs[k], runs[k], retry)) /\ runs[k].status = "running"
    BY <1>7 DEF Fails
  <2>2. FailedRow(runs[k], runs[k], retry).status # "running"
    BY <1>1, <2>1 DEF FailedRow, Assigned, Row
  <2>. QED BY <1>1, <1>2, <2>1, <2>2 DEF RowBecomes, Present
<1>8. CASE Collects
  <2>1. PICK ids \in SUBSET RunId :
          runs' = [k \in RunId |-> IF k \in ids THEN Collected(runs[k]) ELSE runs[k]]
    BY <1>8 DEF Collects
  <2>2. Collected(row).status # "running"
    BY <1>1 DEF Collected, Row
  <2>. QED BY <1>1, <1>2, <2>1, <2>2 DEF Present
<1>9. CASE Removes
  BY <1>1, <1>2, <1>9 DEF Removes, Deleting, Absent, Present
<1>10. CASE Hears
  <2>1. new = row \/ (row.status = "running" /\ \E quiet \in BOOLEAN : new = [row EXCEPT !.quiet = quiet])
    BY <1>1, <1>10 DEF Hears
  <2>2. row \in Row
    BY <1>1
  <2>3. ASSUME NEW quiet \in BOOLEAN, new = [row EXCEPT !.quiet = quiet], row.status = "running"
        PROVE  new = row
    <3>1. quiet = row.quiet
      BY <1>2, <2>2, <2>3 DEF Row
    <3>. QED BY <2>2, <2>3, <3>1 DEF Row
  <2>. QED BY <1>2, <2>1, <2>3 DEF Present
<1>. QED BY <1>4, <1>5, <1>6, <1>7, <1>8, <1>9, <1>10 DEF TableMoves

LEMMA KnowledgeKept ==
  ASSUME Calm, RInv, [Next]_vars
  PROVE  KnowsItsRow'
<1>1. IInv' /\ TableMoves
  BY InvNext, EveryStepMoves DEF RInv
<1>. SUFFICES ASSUME NEW w \in Worker, Searching(w)', Present(jobs[w].run)'
     PROVE  LET k == jobs'[w] IN
              /\ k.phase = "writing" => k.seen = runs'[k.run]
              /\ \/ k.phase = "searching"
                 \/ k.phase \in {"ended", "writing"} /\ k.ends = "done"
                 => k.work = runs'[k.run].work
  BY DEF KnowsItsRow
<1>. DEFINE j == jobs[w]
            k == jobs'[w]
<1>2. GoesOn(w)
  BY SearchGoesOn
<1>3. CASE k.phase \in {"claimed", "launched"}
  BY <1>3
<1>4. CASE k = j
  <2>1. Searching(w) /\ k.run = j.run
    BY <1>4 DEF Searching
  <2>2. Present(j.run) /\ runs'[j.run] = runs[j.run]
    BY <1>1, <2>1, OwnedRowStays
  <2>. QED BY <1>4, <2>1, <2>2 DEF RInv, KnowsItsRow
<1>5. CASE /\ UNCHANGED runs /\ k.run = j.run
           /\ \/ k.phase = "searching" /\ k.work = runs[j.run].work
              \/ k.phase = "ended" /\ (k.ends = "done" => j.phase = "searching" /\ k.work = j.work)
              \/ /\ k.phase = "writing" /\ k.seen = runs[j.run]
                 /\ j.phase = "ended" /\ k.ends = j.ends /\ k.work = j.work
  <2>1. k.ends # "release" /\ Present(j.run)
    BY <1>5 DEF Searching, Present
  <2>2. j.phase = "searching" => Searching(w)
    BY DEF Searching, RInv, IInv, EndsLater
  <2>3. j.phase = "ended" /\ j.ends # "release" => Searching(w)
    BY DEF Searching
  <2>. QED BY <1>5, <2>1, <2>2, <2>3 DEF RInv, KnowsItsRow
<1>. QED BY <1>2, <1>3, <1>4, <1>5 DEF GoesOn

-----------------------------------------------------------------------------
(* What each move makes of a row.                                          *)

LEMMA RowAfter ==
  ASSUME NEW row \in Row
  PROVE  /\ \A t \in Token : LET new == Claimed(row, t) IN
              /\ new.status = "running" /\ new.attempts = row.attempts + 1
              /\ new.work = row.work /\ new.host = row.host
         /\ row.status = "running" =>
              LET new == Completed(row, row, row.work) IN
                /\ new.status = "done" /\ new.attempts = row.attempts
                /\ new.work = row.work /\ new.evals = row.work
         /\ row.status = "running" => \A retry \in BOOLEAN :
              LET new == FailedRow(row, row, retry) IN
                /\ new.status = IF retry /\ row.attempts < MaxAttempts THEN "queued" ELSE "failed"
                /\ new.error = IF retry THEN "engine" ELSE "fatal"
                /\ new.attempts = row.attempts /\ new.work = row.work
         /\ row.host # "browser" =>
              LET new == Collected(row) IN
                /\ new.status = IF row.attempts >= MaxAttempts THEN "failed" ELSE "queued"
                /\ new.error = "stale" /\ new.attempts = row.attempts /\ new.work = row.work
<1>1. ASSUME NEW t \in Token
      PROVE  LET new == Claimed(row, t) IN
               /\ new.status = "running" /\ new.attempts = row.attempts + 1
               /\ new.work = row.work /\ new.host = row.host
  BY DEF Claimed, Row
<1>2. ASSUME row.status = "running"
      PROVE  LET new == Completed(row, row, row.work) IN
               /\ new.status = "done" /\ new.attempts = row.attempts
               /\ new.work = row.work /\ new.evals = row.work
  BY <1>2 DEF Completed, Assigned, Row
<1>3. ASSUME row.status = "running", NEW retry \in BOOLEAN
      PROVE  LET new == FailedRow(row, row, retry) IN
               /\ new.status = IF retry /\ row.attempts < MaxAttempts THEN "queued" ELSE "failed"
               /\ new.error = IF retry THEN "engine" ELSE "fatal"
               /\ new.attempts = row.attempts /\ new.work = row.work
  <2>. DEFINE status == IF retry /\ row.attempts < MaxAttempts THEN "queued" ELSE "failed"
              error == IF retry THEN "engine" ELSE "fatal"
              new == [row EXCEPT !.status = status, !.error = error]
  <2>1. FailedRow(row, row, retry) = new
    <3>1. /\ Assigned(row.status, row.status, status) = status
          /\ Assigned(row.error, row.error, error) = error
      BY DEF Assigned
    <3>. HIDE DEF status, error
    <3>. QED BY <3>1, Zenon DEF FailedRow, status, error
  <2>. HIDE DEF status, error
  <2>2. new.status = status /\ new.error = error /\ new.attempts = row.attempts /\ new.work = row.work
    BY DEF Row
  <2>. QED BY <2>1, <2>2 DEF status, error
<1>4. ASSUME row.host # "browser"
      PROVE  LET new == Collected(row) IN
               /\ new.status = IF row.attempts >= MaxAttempts THEN "failed" ELSE "queued"
               /\ new.error = "stale" /\ new.attempts = row.attempts /\ new.work = row.work
  <2>. DEFINE status == IF row.attempts >= MaxAttempts THEN "failed" ELSE "queued"
  <2>1. Collected(row) = [row EXCEPT !.status = status, !.quiet = FALSE, !.error = "stale"]
    BY <1>4 DEF Collected
  <2>. HIDE DEF status
  <2>2. LET new == [row EXCEPT !.status = status, !.quiet = FALSE, !.error = "stale"] IN
          new.status = status /\ new.error = "stale" /\ new.attempts = row.attempts /\ new.work = row.work
    BY DEF Row
  <2>. QED BY <2>1, <2>2 DEF status
<1>. QED BY <1>1, <1>2, <1>3, <1>4

LEMMA TableTyped ==
  ASSUME RInv
  PROVE  /\ runs \in [RunId -> Row] /\ asked \in 0 .. MaxWorks
         /\ \A i \in RunId : runs[i].status = "running" =>
              runs[i].host # "browser" /\ runs[i].attempts <= MaxAttempts
BY DEF RInv, IInv, TypeOK, VarsTyped, QueueTypeOK, RowsCount, RowCounts, LocalHosts

(* Attempts stay counted.                                                  *)
LEMMA CountsKept ==
  ASSUME RInv, TableMoves, runs' \in [RunId -> Row]
  PROVE  RowsCount'
<1>1. /\ runs \in [RunId -> Row] /\ MaxAttempts \in Nat \ {0}
      /\ \A i \in RunId : RowCounts(runs[i])
      /\ \A i \in RunId : runs[i].status = "running" => runs[i].host # "browser"
  BY TableTyped, QueueAssumption DEF RInv, RowsCount
<1>2. RowsCount' = \A i \in RunId : RowCounts(runs'[i])
  BY DEF RowsCount, RowCounts
<1>3. ASSUME NEW i \in RunId, NEW row, RowBecomes(i, row), RowCounts(row)
      PROVE  RowsCount'
  BY <1>1, <1>2, <1>3 DEF RowBecomes
<1>4. CASE Asks
  <2>1. PICK i \in RunId, kind \in Kind, host \in Host : RowBecomes(i, NewRow(kind, host))
    BY <1>4 DEF Asks
  <2>2. NewRow(kind, host).status = "queued" /\ NewRow(kind, host).attempts = 0
    BY DEF NewRow, Absent
  <2>3. RowCounts(NewRow(kind, host))
    BY <1>1, <2>2 DEF RowCounts
  <2>. QED BY <1>3, <2>1, <2>3
<1>5. CASE Claims
  <2>1. PICK i \in RunId, t \in Token :
          Claimable(i, LocalHosts) /\ RowBecomes(i, Claimed(runs[i], t))
    BY <1>5 DEF Claims
  <2>. DEFINE new == Claimed(runs[i], t)
  <2>2. /\ runs[i].status = "queued" /\ runs[i].host \in LocalHosts
        /\ runs[i].attempts < MaxAttempts /\ runs[i].attempts \in Nat
    BY <1>1, <2>1 DEF Claimable, RowCounts, Row
  <2>3. new.status = "running" /\ new.attempts = runs[i].attempts + 1 /\ new.host = runs[i].host
    BY <1>1, RowAfter
  <2>. HIDE DEF new
  <2>4. RowCounts(new)
    BY <1>1, <2>2, <2>3 DEF RowCounts
  <2>. QED BY <1>3, <2>1, <2>4 DEF new
<1>6. CASE Stores
  <2>1. PICK i \in RunId :
          runs[i].status = "running" /\ RowBecomes(i, Completed(runs[i], runs[i], runs[i].work))
    BY <1>6 DEF Stores
  <2>2. RowCounts(Completed(runs[i], runs[i], runs[i].work))
    BY <1>1, <2>1, RowAfter DEF RowCounts
  <2>. QED BY <1>3, <2>1, <2>2
<1>7. CASE Fails
  <2>1. PICK i \in RunId, retry \in BOOLEAN :
          runs[i].status = "running" /\ RowBecomes(i, FailedRow(runs[i], runs[i], retry))
    BY <1>7 DEF Fails
  <2>. DEFINE new == FailedRow(runs[i], runs[i], retry)
  <2>2. /\ new.status = IF retry /\ runs[i].attempts < MaxAttempts THEN "queued" ELSE "failed"
        /\ new.error = IF retry THEN "engine" ELSE "fatal"
        /\ new.attempts = runs[i].attempts /\ runs[i].attempts \in Nat
    BY <1>1, <2>1, RowAfter DEF Row
  <2>. HIDE DEF new
  <2>3. RowCounts(new)
    BY <1>1, <2>2 DEF RowCounts
  <2>. QED BY <1>3, <2>1, <2>3 DEF new
<1>8. CASE Collects
  <2>1. PICK ids \in SUBSET RunId :
          /\ \A i \in ids : runs[i].status = "running"
          /\ runs' = [i \in RunId |-> IF i \in ids THEN Collected(runs[i]) ELSE runs[i]]
    BY <1>8 DEF Collects
  <2>2. ASSUME NEW i \in ids PROVE RowCounts(Collected(runs[i]))
    <3>. DEFINE new == Collected(runs[i])
    <3>1. /\ new.status = IF runs[i].attempts >= MaxAttempts THEN "failed" ELSE "queued"
          /\ new.attempts = runs[i].attempts /\ runs[i].attempts \in Nat
      BY <1>1, <2>1, RowAfter DEF Row
    <3>. HIDE DEF new
    <3>2. RowCounts(new)
      BY <1>1, <3>1 DEF RowCounts
    <3>. QED BY <3>2 DEF new
  <2>. QED BY <1>1, <1>2, <2>1, <2>2
<1>9. CASE Removes
  <2>1. RowCounts(Absent)
    BY DEF RowCounts, Absent
  <2>. QED BY <1>1, <1>2, <1>9, <2>1 DEF Removes, Deleting
<1>10. CASE Hears
  <2>1. ASSUME NEW i \in RunId, NEW quiet \in BOOLEAN
        PROVE  RowCounts([runs[i] EXCEPT !.quiet = quiet])
    <3>1. runs[i] \in Row /\ RowCounts(runs[i])
      BY <1>1
    <3>. QED BY <3>1 DEF RowCounts, Row
  <2>. QED BY <1>1, <1>2, <1>10, <2>1 DEF Hears
<1>. QED BY <1>4, <1>5, <1>6, <1>7, <1>8, <1>9, <1>10 DEF TableMoves

(* No move but a request and a deletion changes which rows there are, and  *)
(* none changes what a row stands for.                                     *)
LEMMA RowsStay ==
  ASSUME RInv, TableMoves, ~Asks, NEW i \in RunId, Present(i)'
  PROVE  Present(i) /\ runs'[i].work = runs[i].work
<1>1. runs \in [RunId -> Row] /\ Present(i)' = (runs'[i].status # "absent")
  BY TableTyped DEF Present
<1>2. ASSUME NEW k \in RunId, NEW row, RowBecomes(k, row), runs[k].status # "absent",
             row.work = runs[k].work
      PROVE  Present(i) /\ runs'[i].work = runs[i].work
  BY <1>1, <1>2 DEF RowBecomes, Present
<1>3. CASE Claims
  <2>1. PICK k \in RunId, t \in Token :
          Claimable(k, LocalHosts) /\ RowBecomes(k, Claimed(runs[k], t))
    BY <1>3 DEF Claims
  <2>2. Claimed(runs[k], t).work = runs[k].work /\ runs[k].status # "absent"
    BY <1>1, <2>1, RowAfter DEF Claimable
  <2>. QED BY <1>2, <2>1, <2>2
<1>4. CASE Stores
  <2>1. PICK k \in RunId :
          runs[k].status = "running" /\ RowBecomes(k, Completed(runs[k], runs[k], runs[k].work))
    BY <1>4 DEF Stores
  <2>2. Completed(runs[k], runs[k], runs[k].work).work = runs[k].work
    BY <1>1, <2>1, RowAfter
  <2>. QED BY <1>2, <2>1, <2>2
<1>5. CASE Fails
  <2>1. PICK k \in RunId, retry \in BOOLEAN :
          runs[k].status = "running" /\ RowBecomes(k, FailedRow(runs[k], runs[k], retry))
    BY <1>5 DEF Fails
  <2>2. FailedRow(runs[k], runs[k], retry).work = runs[k].work
    BY <1>1, <2>1, RowAfter
  <2>. QED BY <1>2, <2>1, <2>2
<1>6. CASE Collects
  <2>1. PICK ids \in SUBSET RunId :
          /\ \A k \in ids : runs[k].status = "running"
          /\ runs' = [k \in RunId |-> IF k \in ids THEN Collected(runs[k]) ELSE runs[k]]
    BY <1>6 DEF Collects
  <2>2. \A k \in ids : Collected(runs[k]).work = runs[k].work
    BY <1>1, <2>1, TableTyped, RowAfter
  <2>. QED BY <1>1, <2>1, <2>2 DEF Present
<1>7. CASE Removes
  BY <1>1, <1>7 DEF Removes, Deleting, Present, Absent
<1>8. CASE Hears
  <2>1. \A quiet \in BOOLEAN : [runs[i] EXCEPT !.quiet = quiet].work = runs[i].work
    BY <1>1 DEF Row
  <2>. QED BY <1>1, <1>8, <2>1 DEF Hears, Present
<1>. QED BY <1>3, <1>4, <1>5, <1>6, <1>7, <1>8 DEF TableMoves

LEMMA RequestsKept ==
  ASSUME RInv, TableMoves
  PROVE  RowsStandForRequests'
<1>1. /\ runs \in [RunId -> Row] /\ asked \in Nat
      /\ \A i \in RunId : Present(i) => runs[i].work \in 1 .. asked
      /\ \A i, k \in RunId : Present(i) /\ Present(k) /\ runs[i].work = runs[k].work => i = k
  BY TableTyped, QueueAssumption DEF RInv, RowsStandForRequests
<1>2. CASE ~Asks
  <2>1. UNCHANGED asked
    BY <1>2 DEF TableMoves
  <2>2. \A i \in RunId : Present(i)' => Present(i) /\ runs'[i].work = runs[i].work
    BY <1>2, RowsStay
  <2>. QED BY <1>1, <2>1, <2>2 DEF RowsStandForRequests
<1>3. CASE Asks
  <2>1. PICK i \in RunId, kind \in Kind, host \in Host :
          ~Present(i) /\ RowBecomes(i, NewRow(kind, host)) /\ asked' = asked + 1
    BY <1>3 DEF Asks
  <2>2. NewRow(kind, host).work = asked + 1
    BY DEF NewRow, Absent
  <2>3. /\ runs'[i].work = asked + 1
        /\ \A k \in RunId \ {i} : runs'[k] = runs[k] /\ (Present(k)' = Present(k))
    BY <1>1, <2>1, <2>2 DEF RowBecomes, Present
  <2>4. \A k \in RunId \ {i} : Present(k) => runs[k].work \in 1 .. asked /\ runs[k].work # asked + 1
    BY <1>1
  <2>. QED BY <1>1, <2>1, <2>3, <2>4 DEF RowsStandForRequests
<1>. QED BY <1>2, <1>3

LEMMA RInvInit == Init => RInv
<1>. SUFFICES ASSUME Init PROVE RInv
  OBVIOUS
<1>1. runs = [i \in RunId |-> Absent] /\ Absent.status = "absent"
  BY DEF Init, QueueInit, Absent
<1>2. RowsCount /\ RowsStandForRequests
  BY <1>1 DEF RowsCount, RowCounts, RowsStandForRequests, Present
<1>3. KnowsItsRow /\ CancelsAreAsked
  BY DEF Init, KnowsItsRow, Searching, IdleJob, CancelsAreAsked
<1>. QED BY <1>2, <1>3, InvInit DEF RInv

LEMMA RInvNext == Calm /\ RInv /\ [Next]_vars => RInv' /\ TableMoves
<1>. SUFFICES ASSUME Calm, RInv, [Next]_vars PROVE RInv' /\ TableMoves
  OBVIOUS
<1>1. IInv' /\ TableMoves
  BY InvNext, EveryStepMoves DEF RInv
<1>2. RowsCount' /\ RowsStandForRequests'
  BY <1>1, CountsKept, RequestsKept, SMTT(30) DEF IInv, TypeOK, VarsTyped, QueueTypeOK
<1>3. CancelsAreAsked'
  BY DEF RInv, CancelsAreAsked, Next, Owner, Ask, Pause, StopBackfill, StopQueue, CancelRead,
     CancelRun, Step, Look, Claim, FindNothing, Launch, Prepare, SearchEnds, EndRead, EndWrite,
     Release, Unwind, HandBack, StopCancel, Upkeep, CancelExecution, LooseClaim, LooseWrite,
     Beat, LocalSweep, Start, Stop, Stopped, Crash, GoQuiet, GatewaySweep, vars
<1>. QED BY <1>1, <1>2, <1>3, KnowledgeKept DEF RInv

LEMMA RInvAlways == ASSUME Calm PROVE Spec => []RInv
<1>1. RInv /\ [Next]_vars => RInv'
  BY RInvNext
<1>. QED BY <1>1, RInvInit, PTL DEF Spec

(* Claims spend attempts, sweeps and failures act on them: a queued run    *)
(* always has one left, and none is given up on before its last, whatever  *)
(* mix of crashes, sweeps, failures and cancels it has met.                *)
THEOREM AttemptsCounted == ASSUME Calm PROVE Spec => []AttemptsAreCounted
<1>1. RInv => AttemptsAreCounted
  BY DEF RInv, RowsCount, RowCounts, AttemptsAreCounted, QueuedHasBudget, FailedWasEarned
<1>. QED BY <1>1, RInvAlways, PTL

(* What a finished run stores was searched for the request it stands for,  *)
(* although an end is written by id and its row read a step earlier.       *)
THEOREM EvalsAreOwn == ASSUME Calm PROVE Spec => []NoForeignEvals
<1>1. RInv => NoForeignEvals
  BY DEF RInv, RowsCount, RowCounts, NoForeignEvals
<1>. QED BY <1>1, RInvAlways, PTL

(* Where nobody cancels single runs, a finished run stays finished: no     *)
(* write, sweep or button that was under way when it ended undoes it.  (A  *)
(* cancel that read it as running deletes it.)                             *)
THEOREM DoneStays ==
  ASSUME Calm, "cancel" \notin Hazards
  PROVE  Spec => DoneIsFinal
<1>1. ASSUME RInv, TableMoves, NEW i \in RunId, runs[i].status = "done"
      PROVE  runs'[i].status = "done"
  <2>1. runs \in [RunId -> Row]
    BY <1>1, TableTyped
  <2>2. ASSUME NEW k \in RunId, NEW row, RowBecomes(k, row), runs[k].status # "done"
        PROVE  runs'[i].status = "done"
    BY <1>1, <2>1, <2>2 DEF RowBecomes
  <2>3. CASE Hears
    BY <1>1, <2>1, <2>3 DEF Hears
  <2>4. CASE Removes
    BY <1>1, <2>1, <2>4 DEF Removes, Deleting
  <2>5. CASE Collects
    BY <1>1, <2>1, <2>5 DEF Collects
  <2>6. CASE Asks \/ Claims \/ Stores \/ Fails
    BY <2>2, <2>6 DEF Asks, Claims, Stores, Fails, Claimable, Present
  <2>. QED BY <1>1, <2>3, <2>4, <2>5, <2>6 DEF TableMoves
<1>2. RInv /\ [Next]_vars => [\A i \in RunId : runs[i].status = "done" => runs'[i].status = "done"]_vars
  BY <1>1, RInvNext
<1>. QED BY <1>2, RInvAlways, PTL DEF Spec, DoneIsFinal

-----------------------------------------------------------------------------
(* The refinement: where a request stands is what its row says.            *)

RowIsItsRequest(i) ==
  LET q == runs[i].work IN
    /\ q <= asked
    /\ StageBar[q] = StageOf(runs[i])
    /\ SpentBar[q] = runs[i].attempts

StandsForNothing(q) == \A i \in RunId : Present(i) => runs[i].work # q

StagesFollowRows ==
  /\ \A i \in RunId : Present(i) /\ runs[i].work \in Work => RowIsItsRequest(i)
  /\ \A q \in Work : StandsForNothing(q) =>
       /\ StageBar[q] = IF q > asked THEN "unasked" ELSE "withdrawn"
       /\ SpentBar[q] = 0

LEMMA StagesAre == asked \in Nat /\ RowsStandForRequests => StagesFollowRows
<1>. SUFFICES ASSUME asked \in Nat, RowsStandForRequests PROVE StagesFollowRows
  OBVIOUS
<1>1. ASSUME NEW i \in RunId, Present(i), runs[i].work \in Work
      PROVE  RowIsItsRequest(i)
  <2>. DEFINE q == runs[i].work
  <2>1. q \in 1 .. asked
    BY <1>1 DEF RowsStandForRequests
  <2>2. RowsOf(q) = {i}
    BY <1>1 DEF RowsStandForRequests, RowsOf
  <2>3. (CHOOSE k \in RowsOf(q) : TRUE) = i /\ RowsOf(q) # {}
    BY <2>2
  <2>4. q <= asked /\ ~(q > asked)
    BY <2>1
  <2>. QED BY <1>1, <2>3, <2>4 DEF StageBar, SpentBar, RowIsItsRequest
<1>2. ASSUME NEW q \in Work, StandsForNothing(q)
      PROVE  /\ StageBar[q] = IF q > asked THEN "unasked" ELSE "withdrawn"
             /\ SpentBar[q] = 0
  <2>1. RowsOf(q) = {}
    BY <1>2 DEF RowsOf, StandsForNothing
  <2>. QED BY <2>1 DEF StageBar, SpentBar
<1>. QED BY <1>1, <1>2 DEF StagesFollowRows

LEMMA StagesBecome == (asked \in Nat)' /\ RowsStandForRequests' => StagesFollowRows'
BY StagesAre, PTL

LEMMA RowsAreTyped ==
  ASSUME RInv
  PROVE  /\ runs \in [RunId -> Row] /\ asked \in Nat /\ RowsStandForRequests /\ StagesFollowRows
         /\ \A i \in RunId : Present(i) => runs[i].work \in Work /\ RowIsItsRequest(i)
<1>1. runs \in [RunId -> Row] /\ asked \in Nat /\ asked <= MaxWorks
  BY TableTyped, QueueAssumption
<1>2. RowsStandForRequests /\ StagesFollowRows
  BY <1>1, StagesAre DEF RInv
<1>3. ASSUME NEW i \in RunId, Present(i) PROVE runs[i].work \in Work
  BY <1>1, <1>2, <1>3, QueueAssumption DEF RowsStandForRequests, Work
<1>. QED BY <1>1, <1>2, <1>3 DEF StagesFollowRows

LEMMA RowsBecomeTyped ==
  RInv' => /\ StagesFollowRows' /\ (asked \in Nat)'
           /\ \A i \in RunId : Present(i)' => runs'[i].work \in Work /\ RowIsItsRequest(i)'
<1>. DEFINE P == /\ runs \in [RunId -> Row] /\ asked \in Nat /\ RowsStandForRequests /\ StagesFollowRows
                 /\ \A i \in RunId : Present(i) => runs[i].work \in Work /\ RowIsItsRequest(i)
<1>1. RInv => P
  BY RowsAreTyped
<1>2. RInv' => P'
  BY <1>1, PTL
<1>. QED BY <1>2

(* A request whose row does not move stands where it stood.                *)
LEMMA OthersStand ==
  ASSUME RInv, RInv', UNCHANGED asked, NEW q \in Work,
         \A i \in RunId : Present(i) /\ runs[i].work = q =>
           /\ Present(i)' /\ runs'[i].work = q
           /\ StageOf(runs'[i]) = StageOf(runs[i]) /\ runs'[i].attempts = runs[i].attempts,
         \A i \in RunId : Present(i)' /\ runs'[i].work = q => Present(i) /\ runs[i].work = q
  PROVE  StageBar'[q] = StageBar[q] /\ SpentBar'[q] = SpentBar[q]
<1>1. CASE \E i \in RunId : Present(i) /\ runs[i].work = q
  <2>1. PICK i \in RunId : Present(i) /\ runs[i].work = q
    BY <1>1
  <2>2. RowIsItsRequest(i) /\ RowIsItsRequest(i)' /\ runs'[i].work = q
    BY <2>1, RowsAreTyped, RowsBecomeTyped
  <2>3. StageOf(runs'[i]) = StageOf(runs[i]) /\ runs'[i].attempts = runs[i].attempts
    BY <2>1
  <2>4. StageBar'[q] = StageOf(runs'[i]) /\ StageBar[q] = StageOf(runs[i])
        /\ SpentBar'[q] = runs'[i].attempts /\ SpentBar[q] = runs[i].attempts
    BY <2>1, <2>2 DEF RowIsItsRequest, StageOf
  <2>. QED BY <2>3, <2>4
<1>2. CASE ~\E i \in RunId : Present(i) /\ runs[i].work = q
  <2>1. StandsForNothing(q) /\ StandsForNothing(q)'
    BY <1>2 DEF StandsForNothing
  <2>. QED BY <2>1, RowsAreTyped, RowsBecomeTyped DEF StagesFollowRows
<1>. QED BY <1>1, <1>2

LEMMA BarsAreFunctions ==
  /\ StageBar = [q \in Work |-> StageBar[q]] /\ StageBar' = [q \in Work |-> StageBar'[q]]
  /\ SpentBar = [q \in Work |-> SpentBar[q]] /\ SpentBar' = [q \in Work |-> SpentBar'[q]]
BY DEF StageBar, SpentBar

(* One row moves: its request does, and no other.                          *)
LEMMA OneRowMoves ==
  ASSUME RInv, RInv', UNCHANGED asked, NEW i \in RunId, NEW row, RowBecomes(i, row),
         Present(i), row.status # "absent", row.work = runs[i].work
  PROVE  LET q == runs[i].work IN
           /\ q \in Work /\ StageBar[q] = StageOf(runs[i]) /\ SpentBar[q] = runs[i].attempts
           /\ \A to : StageOf(row) = to => Lifecycle!Moved({q}, to)
           /\ SpentBar' = [SpentBar EXCEPT ![q] = row.attempts]
<1>. DEFINE q == runs[i].work
<1>1. runs \in [RunId -> Row] /\ q \in Work /\ RowIsItsRequest(i) /\ RowsStandForRequests
  BY RowsAreTyped
<1>2. runs'[i] = row /\ \A k \in RunId \ {i} : runs'[k] = runs[k]
  BY <1>1 DEF RowBecomes
<1>3. Present(i)' /\ RowIsItsRequest(i)'
  BY <1>2, RowsBecomeTyped DEF Present
<1>4. StageBar'[q] = StageOf(row) /\ SpentBar'[q] = row.attempts
  BY <1>2, <1>3 DEF RowIsItsRequest, StageOf
<1>5. ASSUME NEW p \in Work, p # q PROVE StageBar'[p] = StageBar[p] /\ SpentBar'[p] = SpentBar[p]
  <2>1. \A k \in RunId : Present(k) /\ runs[k].work = p => k # i
    BY <1>5
  <2>2. \A k \in RunId : Present(k)' /\ runs'[k].work = p => k # i
    BY <1>2, <1>5
  <2>3. \A k \in RunId \ {i} : runs'[k] = runs[k] /\ Present(k)' = Present(k)
    BY <1>2 DEF Present
  <2>. QED BY <2>1, <2>2, <2>3, OthersStand
<1>6. StageBar[q] = StageOf(runs[i]) /\ SpentBar[q] = runs[i].attempts
  BY <1>1 DEF RowIsItsRequest
<1>7. ASSUME NEW to, StageOf(row) = to PROVE Lifecycle!Moved({q}, to)
  <2>. HIDE DEF q
  <2>1. \A p \in Work : StageBar'[p] = IF p \in {q} THEN to ELSE StageBar[p]
    BY <1>4, <1>5, <1>7
  <2>2. StageBar' = [p \in Work |-> IF p \in {q} THEN to ELSE StageBar[p]]
    BY <2>1, BarsAreFunctions
  <2>. QED BY <2>2 DEF Lifecycle!Moved
<1>8. SpentBar' = [SpentBar EXCEPT ![q] = row.attempts]
  <2>. HIDE DEF q
  <2>1. \A p \in Work : SpentBar'[p] = IF p = q THEN row.attempts ELSE SpentBar[p]
    BY <1>4, <1>5
  <2>. QED BY <1>1, <2>1, BarsAreFunctions
<1>. QED BY <1>1, <1>6, <1>7, <1>8

LEMMA AskMoves ==
  ASSUME RInv, RInv', Asks
  PROVE  Lifecycle!Next
<1>. DEFINE q == asked + 1
<1>1. PICK i \in RunId, kind \in Kind, host \in Host :
        ~Present(i) /\ RowBecomes(i, NewRow(kind, host))
  BY DEF Asks
<1>2. /\ runs \in [RunId -> Row] /\ asked \in Nat /\ asked' = asked + 1
      /\ q \in Work /\ RowsStandForRequests
  BY RowsAreTyped, QueueAssumption DEF Asks, Work
<1>3. /\ NewRow(kind, host).work = q /\ NewRow(kind, host).attempts = 0
      /\ NewRow(kind, host).status = "queued"
  BY DEF NewRow, Absent
<1>4. /\ runs'[i].work = q /\ runs'[i].attempts = 0 /\ runs'[i].status = "queued" /\ Present(i)'
      /\ \A k \in RunId \ {i} : runs'[k] = runs[k] /\ Present(k)' = Present(k)
  BY <1>1, <1>2, <1>3 DEF RowBecomes, Present
<1>5. StageBar'[q] = "waiting" /\ SpentBar'[q] = 0
  <2>1. RowIsItsRequest(i)'
    BY <1>4, RowsBecomeTyped
  <2>. QED BY <1>4, <2>1 DEF RowIsItsRequest, StageOf
<1>6. StageBar[q] = "unasked" /\ SpentBar[q] = 0
  <2>1. \A k \in RunId : Present(k) => runs[k].work # q
    BY <1>2 DEF RowsStandForRequests
  <2>2. StandsForNothing(q) /\ q > asked
    BY <1>2, <2>1 DEF StandsForNothing
  <2>. QED BY <1>2, <2>2, RowsAreTyped DEF StagesFollowRows
<1>7. ASSUME NEW p \in Work, p # q PROVE StageBar'[p] = StageBar[p] /\ SpentBar'[p] = SpentBar[p]
  <2>1. CASE \E k \in RunId : Present(k) /\ runs[k].work = p
    <3>1. PICK k \in RunId : Present(k) /\ runs[k].work = p
      BY <2>1
    <3>2. k # i /\ runs'[k] = runs[k] /\ Present(k)'
      BY <1>1, <1>4, <3>1
    <3>3. RowIsItsRequest(k) /\ RowIsItsRequest(k)'
      BY <3>1, <3>2, RowsAreTyped, RowsBecomeTyped
    <3>. QED BY <3>1, <3>2, <3>3 DEF RowIsItsRequest, StageOf
  <2>2. CASE ~\E k \in RunId : Present(k) /\ runs[k].work = p
    <3>1. StandsForNothing(p) /\ StandsForNothing(p)'
      BY <1>4, <1>7, <2>2 DEF StandsForNothing
    <3>2. (p > asked) = (p > asked')
      BY <1>2, <1>7 DEF Work
    <3>. QED BY <3>1, <3>2, RowsAreTyped, RowsBecomeTyped DEF StagesFollowRows
  <2>. QED BY <2>1, <2>2
<1>8. Lifecycle!Moved({q}, "waiting")
  <2>. HIDE DEF q
  <2>1. \A p \in Work : StageBar'[p] = IF p \in {q} THEN "waiting" ELSE StageBar[p]
    BY <1>5, <1>7
  <2>. QED BY <2>1, BarsAreFunctions DEF Lifecycle!Moved
<1>9. SpentBar' = SpentBar
  <2>. HIDE DEF q
  <2>1. \A p \in Work : SpentBar'[p] = SpentBar[p]
    BY <1>5, <1>6, <1>7
  <2>. QED BY <2>1, BarsAreFunctions
<1>. HIDE DEF q
<1>10. Lifecycle!Ask(q)
  BY <1>6, <1>8, <1>9 DEF Lifecycle!Ask
<1>. QED BY <1>2, <1>10 DEF Lifecycle!Next

LEMMA ClaimMoves ==
  ASSUME RInv, RInv', UNCHANGED asked, Claims
  PROVE  Lifecycle!Next
<1>1. PICK i \in RunId, t \in Token : Claimable(i, LocalHosts) /\ RowBecomes(i, Claimed(runs[i], t))
  BY DEF Claims
<1>. DEFINE q == runs[i].work
            new == Claimed(runs[i], t)
<1>2. /\ runs[i] \in Row /\ runs[i].status = "queued" /\ Present(i)
      /\ new.status = "running" /\ new.attempts = runs[i].attempts + 1 /\ new.work = q
  BY <1>1, RowsAreTyped, RowAfter DEF Claimable, Present
<1>3. StageOf(runs[i]) = "waiting" /\ StageOf(new) = "leased" /\ runs[i].attempts < MaxAttempts
  <2>. HIDE DEF new
  <2>. QED BY <1>2 DEF StageOf, RInv, RowsCount, RowCounts
<1>. HIDE DEF new
<1>4. /\ q \in Work /\ StageBar[q] = StageOf(runs[i]) /\ SpentBar[q] = runs[i].attempts
      /\ Lifecycle!Moved({q}, "leased")
      /\ SpentBar' = [SpentBar EXCEPT ![q] = new.attempts]
  BY <1>1, <1>2, <1>3, OneRowMoves DEF new
<1>5. SpentBar' = [SpentBar EXCEPT ![q] = @ + 1]
  BY <1>2, <1>4
<1>. HIDE DEF q
<1>6. Lifecycle!Lease(q)
  BY <1>3, <1>4, <1>5 DEF Lifecycle!Lease
<1>. QED BY <1>4, <1>6 DEF Lifecycle!Next

(* A row whose attempts stay leaves what is spent as it is.                *)
LEMMA SpentStays ==
  ASSUME NEW q \in Work, NEW n, SpentBar[q] = n, SpentBar' = [SpentBar EXCEPT ![q] = n]
  PROVE  UNCHANGED SpentBar
BY BarsAreFunctions

LEMMA EndsMove ==
  ASSUME RInv, RInv', UNCHANGED asked, Stores \/ Fails
  PROVE  Lifecycle!Next
<1>1. ASSUME NEW i \in RunId, runs[i].status = "running", NEW new, RowBecomes(i, new),
             new.work = runs[i].work, new.attempts = runs[i].attempts, new.status # "absent",
             NEW to, StageOf(new) = to
      PROVE  LET q == runs[i].work IN
               /\ q \in Work /\ StageBar[q] = "leased" /\ SpentBar[q] = runs[i].attempts
               /\ Lifecycle!Moved({q}, to) /\ UNCHANGED SpentBar
  <2>. DEFINE q == runs[i].work
  <2>1. Present(i) /\ StageOf(runs[i]) = "leased"
    BY <1>1 DEF Present, StageOf
  <2>2. /\ q \in Work /\ StageBar[q] = StageOf(runs[i]) /\ SpentBar[q] = runs[i].attempts
        /\ Lifecycle!Moved({q}, to)
        /\ SpentBar' = [SpentBar EXCEPT ![q] = new.attempts]
    BY <1>1, <2>1, OneRowMoves
  <2>3. UNCHANGED SpentBar
    BY <1>1, <2>2, SpentStays
  <2>. QED BY <2>1, <2>2, <2>3
<1>2. CASE Stores
  <2>1. PICK i \in RunId :
          runs[i].status = "running" /\ RowBecomes(i, Completed(runs[i], runs[i], runs[i].work))
    BY <1>2 DEF Stores
  <2>. DEFINE q == runs[i].work
              new == Completed(runs[i], runs[i], runs[i].work)
  <2>2. new.status = "done" /\ new.attempts = runs[i].attempts /\ new.work = runs[i].work
    BY <2>1, RowsAreTyped, RowAfter
  <2>3. RowBecomes(i, new)
    BY <2>1
  <2>. HIDE DEF new
  <2>4. StageOf(new) = "stored"
    BY <2>2 DEF StageOf
  <2>5. q \in Work /\ StageBar[q] = "leased" /\ Lifecycle!Moved({q}, "stored") /\ UNCHANGED SpentBar
    BY <1>1, <2>1, <2>2, <2>3, <2>4
  <2>. HIDE DEF q
  <2>6. Lifecycle!Store(q)
    BY <2>5 DEF Lifecycle!Store
  <2>. QED BY <2>5, <2>6 DEF Lifecycle!Next
<1>3. CASE Fails
  <2>1. PICK i \in RunId, retry \in BOOLEAN :
          runs[i].status = "running" /\ RowBecomes(i, FailedRow(runs[i], runs[i], retry))
    BY <1>3 DEF Fails
  <2>. DEFINE q == runs[i].work
              new == FailedRow(runs[i], runs[i], retry)
              left == runs[i].attempts < MaxAttempts
              to == IF ~retry THEN "refused" ELSE IF left THEN "waiting" ELSE "givenup"
  <2>2. /\ new.status = IF retry /\ left THEN "queued" ELSE "failed"
        /\ new.error = IF retry THEN "engine" ELSE "fatal"
        /\ new.attempts = runs[i].attempts /\ new.work = runs[i].work
    BY <2>1, RowsAreTyped, RowAfter
  <2>3. RowBecomes(i, new)
    BY <2>1
  <2>. HIDE DEF new, left
  <2>4. StageOf(new) = to /\ new.status # "absent"
    BY <2>2 DEF StageOf
  <2>. HIDE DEF to
  <2>5. /\ q \in Work /\ StageBar[q] = "leased" /\ SpentBar[q] = runs[i].attempts
        /\ Lifecycle!Moved({q}, to) /\ UNCHANGED SpentBar
    BY <1>1, <2>1, <2>2, <2>3, <2>4
  <2>6. left = (SpentBar[q] < MaxAttempts)
    BY <2>5 DEF left
  <2>. HIDE DEF q
  <2>7. CASE retry
    <3>1. StageBar' = [p \in Work |-> IF p \notin {q} THEN StageBar[p]
                        ELSE IF SpentBar[p] < MaxAttempts THEN "waiting" ELSE "givenup"]
      BY <2>5, <2>6, <2>7 DEF Lifecycle!Moved, to
    <3>2. Lifecycle!Miss({q})
      BY <2>5, <3>1 DEF Lifecycle!Miss
    <3>. QED BY <2>5, <3>2 DEF Lifecycle!Next
  <2>8. CASE ~retry
    <3>1. Lifecycle!Refuse(q)
      BY <2>5, <2>8 DEF Lifecycle!Refuse, to
    <3>. QED BY <2>5, <3>1 DEF Lifecycle!Next
  <2>. QED BY <2>7, <2>8
<1>. QED BY <1>2, <1>3

(* Of the requests that have a row, those of some rows.                    *)
RequestsOf(ids) == {runs[i].work : i \in ids}

LEMMA RequestsOfRows ==
  ASSUME RInv, NEW ids \in SUBSET RunId, \A i \in ids : Present(i)
  PROVE  /\ RequestsOf(ids) \subseteq Work
         /\ \A i \in RunId : Present(i) /\ runs[i].work \in RequestsOf(ids) => i \in ids
         /\ ids # {} => RequestsOf(ids) # {}
BY RowsAreTyped DEF RequestsOf, RowsStandForRequests

LEMMA CollectMoves ==
  ASSUME RInv, RInv', UNCHANGED asked, Collects
  PROVE  Lifecycle!Next \/ UNCHANGED <<StageBar, SpentBar>>
<1>1. PICK ids \in SUBSET RunId :
        /\ \A i \in ids : runs[i].status = "running"
        /\ runs' = [i \in RunId |-> IF i \in ids THEN Collected(runs[i]) ELSE runs[i]]
  BY DEF Collects
<1>. DEFINE qs == RequestsOf(ids)
            to(i) == IF runs[i].attempts < MaxAttempts THEN "waiting" ELSE "givenup"
<1>2. /\ runs \in [RunId -> Row] /\ \A i \in ids : Present(i)
      /\ \A i \in RunId \ ids : runs'[i] = runs[i]
  BY <1>1, RowsAreTyped DEF Present
<1>3. ASSUME NEW i \in ids
      PROVE  /\ Present(i)' /\ runs'[i].work = runs[i].work /\ runs'[i].attempts = runs[i].attempts
             /\ StageOf(runs'[i]) = to(i)
  <2>. DEFINE new == Collected(runs[i])
  <2>1. /\ new.status = IF runs[i].attempts >= MaxAttempts THEN "failed" ELSE "queued"
        /\ new.error = "stale" /\ new.attempts = runs[i].attempts /\ new.work = runs[i].work
    BY <1>1, <1>2, TableTyped, RowAfter
  <2>2. runs'[i] = new /\ runs[i].attempts \in Nat /\ MaxAttempts \in Nat
    BY <1>1, <1>2, QueueAssumption DEF Row
  <2>. HIDE DEF new
  <2>. QED BY <2>1, <2>2 DEF StageOf, Present
<1>4. ASSUME NEW i \in ids
      PROVE  LET q == runs[i].work IN
               /\ StageBar[q] = "leased" /\ SpentBar[q] = runs[i].attempts
               /\ StageBar'[q] = to(i) /\ SpentBar'[q] = SpentBar[q]
  <2>1. RowIsItsRequest(i) /\ RowIsItsRequest(i)' /\ StageOf(runs[i]) = "leased"
    BY <1>1, <1>2, <1>3, RowsAreTyped, RowsBecomeTyped DEF StageOf
  <2>. HIDE DEF to
  <2>. QED BY <1>3, <2>1 DEF RowIsItsRequest, StageOf
<1>5. ASSUME NEW q \in Work \ qs PROVE StageBar'[q] = StageBar[q] /\ SpentBar'[q] = SpentBar[q]
  <2>1. \A i \in RunId : runs[i].work = q => i \notin ids
    BY <1>5 DEF RequestsOf
  <2>2. \A i \in RunId : runs'[i].work = q => i \notin ids
    BY <1>3, <2>1
  <2>3. \A i \in RunId \ ids : runs'[i] = runs[i] /\ Present(i)' = Present(i)
    BY <1>2 DEF Present
  <2>. QED BY <2>1, <2>2, <2>3, OthersStand
<1>6. qs \subseteq Work /\ (ids # {} => qs # {})
  BY <1>2, RequestsOfRows
<1>7. \A q \in qs : /\ StageBar[q] = "leased" /\ SpentBar'[q] = SpentBar[q]
                    /\ StageBar'[q] = IF SpentBar[q] < MaxAttempts THEN "waiting" ELSE "givenup"
  <2>1. ASSUME NEW q \in qs
        PROVE  /\ StageBar[q] = "leased" /\ SpentBar'[q] = SpentBar[q]
               /\ StageBar'[q] = IF SpentBar[q] < MaxAttempts THEN "waiting" ELSE "givenup"
    <3>1. PICK i \in ids : q = runs[i].work
      BY DEF RequestsOf
    <3>. QED BY <1>4, <3>1
  <2>. QED BY <2>1
<1>. HIDE DEF qs
<1>8. SpentBar' = SpentBar
  <2>1. \A q \in Work : SpentBar'[q] = SpentBar[q]
    BY <1>5, <1>7
  <2>. QED BY <2>1, BarsAreFunctions
<1>9. CASE qs = {}
  <2>1. \A q \in Work : StageBar'[q] = StageBar[q]
    BY <1>5, <1>9
  <2>. QED BY <1>8, <2>1, BarsAreFunctions
<1>10. CASE qs # {}
  <2>1. StageBar' = [q \in Work |-> IF q \notin qs THEN StageBar[q]
                       ELSE IF SpentBar[q] < MaxAttempts THEN "waiting" ELSE "givenup"]
    BY <1>5, <1>7, BarsAreFunctions
  <2>2. Lifecycle!Miss(qs)
    BY <1>7, <1>8, <1>10, <2>1 DEF Lifecycle!Miss
  <2>. QED BY <1>6, <2>2 DEF Lifecycle!Next
<1>. QED BY <1>9, <1>10

LEMMA RemoveMoves ==
  ASSUME RInv, RInv', UNCHANGED asked, Removes, "cancel" \notin Hazards
  PROVE  Lifecycle!Next \/ UNCHANGED <<StageBar, SpentBar>>
<1>1. PICK ids \in SUBSET RunId :
        /\ \A i \in ids : runs[i].status \in {"queued", "running"}
        /\ Deleting(ids)
  BY DEF Removes
<1>. DEFINE qs == RequestsOf(ids)
<1>2. /\ runs \in [RunId -> Row] /\ \A i \in ids : Present(i)
      /\ \A i \in RunId \ ids : runs'[i] = runs[i] /\ Present(i)' = Present(i)
      /\ \A i \in ids : ~Present(i)'
  BY <1>1, RowsAreTyped DEF Present, Deleting, Absent
<1>3. /\ qs \subseteq Work
      /\ \A i \in RunId : Present(i) /\ runs[i].work \in qs => i \in ids
  BY <1>2, RequestsOfRows
<1>4. ASSUME NEW q \in Work \ qs PROVE StageBar'[q] = StageBar[q] /\ SpentBar'[q] = SpentBar[q]
  <2>1. \A i \in RunId : runs[i].work = q => i \notin ids
    BY <1>4 DEF RequestsOf
  <2>2. \A i \in RunId : Present(i)' => i \notin ids
    BY <1>2
  <2>. QED BY <1>2, <2>1, <2>2, OthersStand
<1>5. ASSUME NEW q \in qs
      PROVE  StageBar[q] \in {"waiting", "leased"} /\ StageBar'[q] = "withdrawn" /\ SpentBar'[q] = 0
  <2>1. PICK i \in ids : q = runs[i].work
    BY DEF RequestsOf
  <2>2. StageBar[q] \in {"waiting", "leased"} /\ q <= asked
    BY <1>1, <1>2, <2>1, RowsAreTyped DEF RowIsItsRequest, StageOf
  <2>3. \A k \in RunId : Present(k)' => runs'[k].work # q
    BY <1>2, <1>3
  <2>4. StandsForNothing(q)' /\ q \in Work /\ asked \in Nat
    BY <1>3, <2>3, RowsAreTyped DEF StandsForNothing
  <2>5. ~(q > asked')
    BY <2>2, <2>4 DEF Work
  <2>. QED BY <2>2, <2>4, <2>5, RowsBecomeTyped DEF StagesFollowRows
<1>. HIDE DEF qs
<1>6. CASE qs = {}
  BY <1>4, <1>6, BarsAreFunctions
<1>7. CASE qs # {}
  <2>1. /\ StageBar' = [q \in Work |-> IF q \in qs THEN "withdrawn" ELSE StageBar[q]]
        /\ SpentBar' = [q \in Work |-> IF q \in qs THEN 0 ELSE SpentBar[q]]
    BY <1>4, <1>5, BarsAreFunctions
  <2>2. Lifecycle!Withdraw(qs)
    BY <1>5, <1>7, <2>1 DEF Lifecycle!Withdraw, Lifecycle!Moved
  <2>. QED BY <1>3, <2>2 DEF Lifecycle!Next
<1>. QED BY <1>6, <1>7

LEMMA HearMoves ==
  ASSUME RInv, RInv', UNCHANGED asked, Hears
  PROVE  UNCHANGED <<StageBar, SpentBar>>
<1>1. ASSUME NEW i \in RunId
      PROVE  /\ Present(i)' = Present(i) /\ runs'[i].work = runs[i].work
             /\ StageOf(runs'[i]) = StageOf(runs[i]) /\ runs'[i].attempts = runs[i].attempts
  <2>1. runs[i] \in Row
    BY RowsAreTyped
  <2>2. ASSUME NEW quiet \in BOOLEAN
        PROVE  LET new == [runs[i] EXCEPT !.quiet = quiet] IN
                 /\ new.status = runs[i].status /\ new.work = runs[i].work
                 /\ new.error = runs[i].error /\ new.attempts = runs[i].attempts
    BY <2>1 DEF Row
  <2>3. /\ runs'[i].status = runs[i].status /\ runs'[i].work = runs[i].work
        /\ runs'[i].error = runs[i].error /\ runs'[i].attempts = runs[i].attempts
    BY <2>2 DEF Hears
  <2>. QED BY <2>3 DEF StageOf, Present
<1>2. \A q \in Work : StageBar'[q] = StageBar[q] /\ SpentBar'[q] = SpentBar[q]
  BY <1>1, OthersStand
<1>. QED BY <1>2, BarsAreFunctions

LEMMA StepsRefine ==
  ASSUME "cancel" \notin Hazards, RInv, RInv', TableMoves
  PROVE  [Lifecycle!Next]_<<StageBar, SpentBar>>
BY AskMoves, ClaimMoves, EndsMove, CollectMoves, RemoveMoves, HearMoves DEF TableMoves

LEMMA InitRefines == Init => Lifecycle!Init
<1>. SUFFICES ASSUME Init PROVE Lifecycle!Init
  OBVIOUS
<1>1. asked = 0 /\ \A q \in Work : StandsForNothing(q) /\ q > 0
  BY DEF Init, QueueInit, StandsForNothing, Present, Absent, Work
<1>2. \A q \in Work : StageBar[q] = "unasked" /\ SpentBar[q] = 0
  BY <1>1, RInvInit, RowsAreTyped DEF StagesFollowRows
<1>. QED BY <1>2, BarsAreFunctions DEF Lifecycle!Init

(* Whatever crashes, sweeps and restarts there are, and however many       *)
(* workers and sets, a request goes through the lifecycle the queue        *)
(* promises: asked, leased by one attempt at a time and at most            *)
(* MaxAttempts times, and ended once.  (With single cancels it does not:   *)
(* one that read a run as live deletes it when it has just finished.)      *)
THEOREM RefinesLifecycle ==
  ASSUME Calm, "cancel" \notin Hazards
  PROVE  Spec => ImplementsLifecycle
<1>1. RInv /\ RInv' /\ [Next]_vars => [Lifecycle!Next]_<<StageBar, SpentBar>>
  BY StepsRefine, RInvNext
<1>. QED BY <1>1, InitRefines, RInvAlways, PTL DEF Spec, ImplementsLifecycle, Lifecycle!Spec
=============================================================================
