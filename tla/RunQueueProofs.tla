--------------------------- MODULE RunQueueProofs ---------------------------
(* What the operators of RunQueue make of a row, for whoever goes through it. *)
EXTENDS RunQueue, TLAPS

LEMMA AbsentIsRow == Absent \in Row
BY DEF Absent, Row, Kind, Host, Status, Error

(* What a claim, a sweep and the three ways a run ends make of a row is a  *)
(* row again.                                                              *)
LEMMA RowOperators ==
  ASSUME NEW row \in Row, NEW seen \in Row
  PROVE  /\ \A t \in Token : Claimed(row, t) \in Row
         /\ Collected(row) \in Row
         /\ \A work \in Work \cup {NoWork} : Completed(row, seen, work) \in Row
         /\ \A retry \in BOOLEAN : FailedRow(row, seen, retry) \in Row
         /\ Abandoned(row, seen) \in Row
<1>1. /\ row.attempts + 1 \in Nat /\ Refunded(row.attempts) \in Nat
      /\ Refunded(seen.attempts) \in Nat
  BY DEF Refunded, Row
<1>2. {"queued", "running", "done", "failed"} \subseteq Status
  BY DEF Status
<1>3. {"none", "engine", "fatal", "stale"} \subseteq Error
  BY DEF Error
<1>4. ASSUME NEW t \in Token PROVE Claimed(row, t) \in Row
  BY <1>1, <1>2 DEF Claimed, Row
<1>5. Collected(row) \in Row
  <2>1. CASE row.host = "browser"
    BY <1>1, <1>2, <1>3, <2>1 DEF Collected, Row
  <2>2. CASE row.host # "browser"
    BY <1>2, <1>3, <2>2 DEF Collected, Row
  <2>. QED BY <2>1, <2>2
<1>6. ASSUME NEW status \in Status, NEW error \in Error, NEW attempts \in Nat
      PROVE  /\ Assigned(row.status, seen.status, status) \in Status
             /\ Assigned(row.error, seen.error, error) \in Error
             /\ Assigned(row.attempts, seen.attempts, attempts) \in Nat
  BY DEF Assigned, Row
<1>7. ASSUME NEW work \in Work \cup {NoWork} PROVE Completed(row, seen, work) \in Row
  <2>1. /\ Assigned(row.status, seen.status, "done") \in Status
        /\ Assigned(row.error, seen.error, "none") \in Error
    BY <1>2, <1>3, <1>6
  <2>. QED BY <2>1 DEF Completed, Row
<1>8. ASSUME NEW retry \in BOOLEAN PROVE FailedRow(row, seen, retry) \in Row
  <2>. DEFINE status == IF retry /\ seen.attempts < MaxAttempts THEN "queued" ELSE "failed"
              error == IF retry THEN "engine" ELSE "fatal"
  <2>1. status \in Status /\ error \in Error
    BY <1>2, <1>3
  <2>. HIDE DEF status, error
  <2>2. /\ Assigned(row.status, seen.status, status) \in Status
        /\ Assigned(row.error, seen.error, error) \in Error
    BY <1>6, <2>1
  <2>3. FailedRow(row, seen, retry) =
          [row EXCEPT !.status = Assigned(@, seen.status, status),
                      !.error = Assigned(@, seen.error, error)]
    BY Zenon DEF FailedRow, status, error
  <2>. QED BY <2>2, <2>3 DEF Row
<1>9. Abandoned(row, seen) \in Row
  <2>1. /\ Assigned(row.status, seen.status, "queued") \in Status
        /\ Assigned(row.attempts, seen.attempts, Refunded(seen.attempts)) \in Nat
        /\ Assigned(row.error, seen.error, "stale") \in Error
    BY <1>1, <1>2, <1>3, <1>6
  <2>. QED BY <2>1 DEF Abandoned, Row
<1>. QED BY <1>4, <1>5, <1>7, <1>8, <1>9

(* So the statements that write many rows leave a table of rows.           *)
LEMMA QueueOperators ==
  ASSUME runs \in [RunId -> Row]
  PROVE  /\ \A ids : HeartbeatRuns(ids) => runs' \in [RunId -> Row]
         /\ \A ids : Deleting(ids) => runs' \in [RunId -> Row]
         /\ \A hosts, kept : RequeueStaleRuns(hosts, kept) => runs' \in [RunId -> Row]
<1>1. \A row \in Row : [row EXCEPT !.quiet = FALSE] \in Row
  BY DEF Row
<1>2. ASSUME NEW ids, HeartbeatRuns(ids) PROVE runs' \in [RunId -> Row]
  <2>1. \A i \in RunId : [runs[i] EXCEPT !.quiet = FALSE] \in Row
    BY <1>1
  <2>. QED BY <1>2, <2>1 DEF HeartbeatRuns
<1>3. ASSUME NEW ids, Deleting(ids) PROVE runs' \in [RunId -> Row]
  BY <1>3, AbsentIsRow DEF Deleting
<1>4. ASSUME NEW hosts, NEW kept, RequeueStaleRuns(hosts, kept) PROVE runs' \in [RunId -> Row]
  <2>1. \A i \in RunId : Collected(runs[i]) \in Row
    BY RowOperators
  <2>. QED BY <1>4, <2>1 DEF RequeueStaleRuns
<1>. QED BY <1>2, <1>3, <1>4

-----------------------------------------------------------------------------
(* What an operator that is no claim makes of a row it found running: the  *)
(* row stands for the same request, does not begin to run, and is done     *)
(* with no other's evaluations.                                            *)
Ages(row, next) ==
  next.status # "absent" =>
    /\ row.status # "absent" /\ next.work = row.work
    /\ next.status = "running" => row.status = "running" /\ next.token = row.token
    /\ next.status = "done" =>
         next.evals = next.work \/ (row.status = "done" /\ next.evals = row.evals)

LEMMA RowsAge ==
  ASSUME NEW row \in Row, NEW seen \in Row
  PROVE  /\ Ages(row, row) /\ Ages(row, Absent)
         /\ \A flag \in BOOLEAN : Ages(row, [row EXCEPT !.quiet = flag])
         /\ row.status = "running" => Ages(row, Collected(row))
         /\ row.status # "absent" /\ seen.status = "running" =>
              /\ \A retry \in BOOLEAN : Ages(row, FailedRow(row, seen, retry))
              /\ Ages(row, Abandoned(row, seen))
              /\ Ages(row, Completed(row, seen, row.work))
<1>1. Ages(row, row) /\ Ages(row, Absent)
  BY DEF Ages, Absent
<1>2. ASSUME NEW flag \in BOOLEAN PROVE Ages(row, [row EXCEPT !.quiet = flag])
  BY DEF Ages, Row
<1>3. ASSUME row.status = "running" PROVE Ages(row, Collected(row))
  <2>1. CASE row.host = "browser"
    BY <1>3, <2>1 DEF Ages, Collected, Row
  <2>2. CASE row.host # "browser"
    BY <1>3, <2>2 DEF Ages, Collected, Row
  <2>. QED BY <2>1, <2>2
<1>4. ASSUME row.status # "absent", seen.status = "running", NEW retry \in BOOLEAN
      PROVE  Ages(row, FailedRow(row, seen, retry))
  <2>. DEFINE status == IF retry /\ seen.attempts < MaxAttempts THEN "queued" ELSE "failed"
              error == IF retry THEN "engine" ELSE "fatal"
              next == FailedRow(row, seen, retry)
  <2>1. status \in {"queued", "failed"}
    OBVIOUS
  <2>. HIDE DEF status, error
  <2>2. next = [row EXCEPT !.status = Assigned(@, seen.status, status),
                           !.error = Assigned(@, seen.error, error)]
    BY Zenon DEF FailedRow, status, error
  <2>3. Assigned(row.status, seen.status, status) = status
    BY <1>4, <2>1 DEF Assigned
  <2>4. next.status = status /\ next.work = row.work
    BY <2>2, <2>3 DEF Row
  <2>. HIDE DEF next
  <2>5. Ages(row, next)
    BY <1>4, <2>1, <2>4 DEF Ages
  <2>. QED BY <2>5 DEF next
<1>5. ASSUME row.status # "absent", seen.status = "running" PROVE Ages(row, Abandoned(row, seen))
  BY <1>5 DEF Ages, Abandoned, Assigned, Row
<1>6. ASSUME row.status # "absent", seen.status = "running"
      PROVE  Ages(row, Completed(row, seen, row.work))
  BY <1>6 DEF Ages, Completed, Assigned, Row
<1>. QED BY <1>1, <1>2, <1>3, <1>4, <1>5, <1>6

(* Only a claim begins to run a row, under the token it draws.             *)
LEMMA ClaimedRow ==
  ASSUME NEW row \in Row, NEW token \in Token
  PROVE  LET next == Claimed(row, token) IN
         /\ next.status = "running" /\ next.token = token /\ next.work = row.work
         /\ next.evals = row.evals
BY DEF Claimed, Row

(* Every statement that writes many rows ages them.                        *)
TableAges == \A i \in RunId : Ages(runs[i], runs'[i])

LEMMA QueueAges ==
  ASSUME runs \in [RunId -> Row]
  PROVE  /\ UNCHANGED runs => TableAges
         /\ \A ids : HeartbeatRuns(ids) => TableAges
         /\ \A ids : Deleting(ids) => TableAges
         /\ \A hosts, kept : RequeueStaleRuns(hosts, kept) => TableAges
<1>1. \A i \in RunId : runs[i] \in Row
  OBVIOUS
<1>2. UNCHANGED runs => TableAges
  BY <1>1, RowsAge DEF TableAges
<1>3. ASSUME NEW ids, HeartbeatRuns(ids) PROVE TableAges
  <2>1. \A i \in RunId : Ages(runs[i], runs[i]) /\ Ages(runs[i], [runs[i] EXCEPT !.quiet = FALSE])
    BY <1>1, RowsAge
  <2>. QED BY <1>3, <2>1 DEF HeartbeatRuns, TableAges
<1>4. ASSUME NEW ids, Deleting(ids) PROVE TableAges
  <2>1. \A i \in RunId : Ages(runs[i], runs[i]) /\ Ages(runs[i], Absent)
    BY <1>1, RowsAge
  <2>. QED BY <1>4, <2>1 DEF Deleting, TableAges
<1>5. ASSUME NEW hosts, NEW kept, RequeueStaleRuns(hosts, kept) PROVE TableAges
  <2>1. \A i \in RunId : Ages(runs[i], runs[i]) /\ (Stale(i) => Ages(runs[i], Collected(runs[i])))
    BY <1>1, RowsAge DEF Stale
  <2>. QED BY <1>5, <2>1 DEF RequeueStaleRuns, TableAges
<1>. QED BY <1>2, <1>3, <1>4, <1>5
=============================================================================
