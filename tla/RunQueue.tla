------------------------------ MODULE RunQueue ------------------------------
(***************************************************************************)
(* The analysis queue as one table of rows: the database half of           *)
(* backend/services/analysis.py, which every kind of worker goes through.  *)
(* A row is one AnalysisRun that carries no correspondence task.  What is  *)
(* abstracted: a run's game, limits and engine are one number, `work`, the *)
(* order it was asked in; what a finished run stores is the `work` whose   *)
(* search produced it; a heartbeat is only ever read against the stale     *)
(* cutoff, so it is the flag `quiet`.                                      *)
(***************************************************************************)
EXTENDS Naturals

CONSTANTS
  MaxRuns,       \* bound: row ids
  MaxWorks,      \* bound: requests ever made
  MaxAttempts,   \* MAX_ATTEMPTS
  Token,         \* attempt tokens; a claim draws one that is nowhere in use
  AskedKinds,    \* the kinds of run this instance asks for
  AskedHosts     \* where the engines those runs name live

RunId == 1 .. MaxRuns
Work == 1 .. MaxWorks
NoWork == 0
NoToken == 0
Status == {"absent", "queued", "running", "done", "failed"}
Kind == {"pass", "fill", "asked"}
Host == {"none", "local", "runner", "browser"}
Error == {"none", "engine", "fatal", "stale"}

ASSUME QueueAssumption ==
  /\ MaxRuns \in Nat /\ MaxWorks \in Nat
  /\ MaxAttempts \in Nat \ {0}
  /\ NoToken \notin Token
  /\ AskedKinds \subseteq Kind /\ AskedHosts \subseteq Host

Row == [work : Work \cup {NoWork}, kind : Kind, host : Host, status : Status,
        attempts : Nat, token : Token \cup {NoToken}, quiet : BOOLEAN,
        evals : Work \cup {NoWork}, error : Error]

Absent == [work |-> NoWork, kind |-> "pass", host |-> "local", status |-> "absent",
           attempts |-> 0, token |-> NoToken, quiet |-> FALSE,
           evals |-> NoWork, error |-> "none"]

VARIABLES
  runs,     \* the analysis_runs table
  paused,   \* the queue_paused setting
  asked     \* how many requests were made so far

Present(i) == runs[i].status # "absent"

-----------------------------------------------------------------------------
(* Enqueueing.  The table has no AUTOINCREMENT, so SQLite hands out one    *)
(* past the largest id present: the id of a deleted last row comes again.  *)

IsNewId(i) ==
  /\ \A j \in RunId : j >= i => ~Present(j)
  /\ i # 1 => Present(i - 1)

RequestAnalysis(kind, host) ==
  /\ asked < MaxWorks
  /\ asked' = asked + 1
  /\ \E i \in RunId :
       /\ IsNewId(i)
       /\ runs' = [runs EXCEPT ![i] =
            [Absent EXCEPT !.work = asked + 1, !.kind = kind, !.host = host,
                           !.status = "queued"]]
  /\ UNCHANGED paused

(* Taking queued runs back: the backfill's stop button, then the queue's.  *)

Deleting(ids) == runs' = [i \in RunId |-> IF i \in ids THEN Absent ELSE runs[i]]

CancelQueued ==
  /\ Deleting({i \in RunId : runs[i].status = "queued" /\ runs[i].kind = "pass"})
  /\ UNCHANGED <<paused, asked>>

ClearQueue ==
  /\ Deleting({i \in RunId : runs[i].status = "queued"})
  /\ UNCHANGED <<paused, asked>>

SetQueuePaused(flag) == paused' = flag /\ UNCHANGED <<runs, asked>>

-----------------------------------------------------------------------------
(* Claiming: highest priority first, then oldest; one statement, so two    *)
(* claimers never take the same row.  The pause was read before it, in a   *)
(* statement of its own: see AnalysisWorkers!Look.                         *)

Priority(kind) == IF kind = "asked" THEN 10 ELSE 0

ClaimableUnlessRunning(i, hosts) ==   \* mutant: ended rows are taken too
  runs[i].status \notin {"absent", "running"} /\ runs[i].host \in hosts

ClaimableTwice(i, hosts) ==   \* mutant: a running row is taken too
  runs[i].status \in {"queued", "running"} /\ runs[i].host \in hosts

Claimable(i, hosts) == runs[i].status = "queued" /\ runs[i].host \in hosts

Before(i, j) ==
  \/ Priority(runs[i].kind) > Priority(runs[j].kind)
  \/ /\ Priority(runs[i].kind) = Priority(runs[j].kind)
     /\ runs[i].work <= runs[j].work

IsNextRun(i, hosts) ==
  /\ Claimable(i, hosts)
  /\ \A j \in RunId : Claimable(j, hosts) => Before(i, j)

Claimed(row, token) ==
  [row EXCEPT !.status = "running", !.attempts = @ + 1, !.token = token, !.quiet = FALSE]

(* What a sweep makes of a run nobody has said a word about for the whole  *)
(* stale window; Sweep collects every such row outside `kept` and `hosts`. *)

Refunded(n) == IF n = 0 THEN 0 ELSE n - 1

CollectedForever(row) ==   \* mutant: the sweep does not count attempts
  [row EXCEPT !.status = "queued", !.quiet = FALSE, !.error = "stale"]

CollectedLate(row) ==   \* mutant: off by one, as is > for >=
  [row EXCEPT !.status = IF row.attempts > MaxAttempts THEN "failed" ELSE "queued",
              !.quiet = FALSE, !.error = "stale"]

Collected(row) ==
  IF row.host = "browser"
  THEN [row EXCEPT !.status = "queued", !.attempts = Refunded(@), !.quiet = FALSE,
                   !.error = "stale"]
  ELSE [row EXCEPT !.status = IF row.attempts >= MaxAttempts THEN "failed" ELSE "queued",
                   !.quiet = FALSE, !.error = "stale"]

StaleOrNot(i) == runs[i].status = "running"   \* mutant: no regard for heartbeats

Stale(i) == runs[i].status = "running" /\ runs[i].quiet

RequeueStaleRuns(hosts, kept) ==
  runs' = [i \in RunId |->
             IF Stale(i) /\ runs[i].host \in hosts /\ i \notin kept
             THEN Collected(runs[i]) ELSE runs[i]]

HeartbeatRuns(ids) ==
  runs' = [i \in RunId |->
             IF i \in ids /\ runs[i].status = "running"
             THEN [runs[i] EXCEPT !.quiet = FALSE] ELSE runs[i]]

-----------------------------------------------------------------------------
(* How a run ends.  Each of these reads the row, assigns attributes to what *)
(* it read, and flushes the ones whose value changed in an UPDATE whose only *)
(* condition is the id: `seen` is the row read, `row` the row written over.  *)

Assigned(now, was, value) == IF value = was THEN now ELSE value

Completed(row, seen, work) ==
  [row EXCEPT !.status = Assigned(@, seen.status, "done"),
              !.error = Assigned(@, seen.error, "none"),
              !.evals = work]

FailedRowEarly(row, seen, retry) ==   \* mutant: off by one
  [row EXCEPT !.status = Assigned(@, seen.status,
                   IF retry /\ seen.attempts + 1 < MaxAttempts THEN "queued" ELSE "failed"),
              !.error = Assigned(@, seen.error, IF retry THEN "engine" ELSE "fatal")]

FailedRowRefunded(row, seen, retry) ==   \* mutant: a failed attempt is not counted
  [row EXCEPT !.status = IF retry THEN "queued" ELSE "failed", !.attempts = Refunded(@),
              !.error = IF retry THEN "engine" ELSE "fatal"]

FailedRow(row, seen, retry) ==
  [row EXCEPT !.status = Assigned(@, seen.status,
                           IF retry /\ seen.attempts < MaxAttempts THEN "queued" ELSE "failed"),
              !.error = Assigned(@, seen.error, IF retry THEN "engine" ELSE "fatal")]

Abandoned(row, seen) ==
  [row EXCEPT !.status = Assigned(@, seen.status, "queued"),
              !.attempts = Assigned(@, seen.attempts, Refunded(seen.attempts)),
              !.error = Assigned(@, seen.error, "stale")]

-----------------------------------------------------------------------------

QueueInit ==
  /\ runs = [i \in RunId |-> Absent]
  /\ paused = FALSE
  /\ asked = 0

QueueTypeOK ==
  /\ runs \in [RunId -> Row]
  /\ paused \in BOOLEAN
  /\ asked \in 0 .. MaxWorks
=============================================================================
