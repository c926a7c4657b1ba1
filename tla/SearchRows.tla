------------------------------ MODULE SearchRows ------------------------------
(***************************************************************************)
(* A correspondence search as its row, and the three parties that move it. *)
(*                                                                         *)
(* services/correspondence.py commits a transition of the row and then     *)
(* emits `correspondence.search`; workers/correspondence_searches.py hears *)
(* the event later, on its loop, and asks the service for transitions of   *)
(* its own through one database thread.  The owner's verbs come from       *)
(* request threads, so a verb's commit, its event and the worker's         *)
(* reaction to it are three steps with anything in between.                *)
(*                                                                         *)
(* What the loop may count on is order: callbacks are handed to it first   *)
(* in, first out, so an event emitted before a database answer was handed  *)
(* over is heard before that answer is (`due`).                            *)
(***************************************************************************)
EXTENDS Integers, Sequences, FiniteSets

CONSTANTS Searches,     \* the ids of correspondence_searches rows
          MaxVerbs,     \* bound: the owner's requests about one search
          MaxRestarts,  \* bound: crashes and shutdowns of the process
          Faults        \* which of AllFaults this instance explores

AllFaults == {"crash", "shutdown", "trouble", "engine", "ends", "limit", "link", "early", "slow"}

ASSUME SearchRowsAssumption ==
  /\ IsFiniteSet(Searches) /\ Searches # {}
  /\ MaxVerbs \in Nat /\ MaxRestarts \in Nat
  /\ Faults \subseteq AllFaults

VARIABLES row,      \* the committed row of each search
          said,     \* a verb's status, committed and not emitted yet
          feed,     \* statuses handed to the loop and not reacted to yet
          calls,    \* service calls waiting for the worker's database thread
          out,      \* the call that thread has committed and not returned from
          back,     \* the answer handed to the loop for the search's own task
          due,      \* events the loop hears before it hears that answer
          verbs,    \* how many requests the owner has made of each search
          run,      \* _runs: the task of each search, NoRun when there is none
          svc,      \* the worker set: "up", "closing" or "down"
          restarts  \* how often the process has ended

rowVars == <<row, said, feed, calls, out, back, due, verbs, svc, restarts>>

None == "none"
LiveStates == {"queued", "running", "paused"}
TerminalStates == {"done", "stopped", "failed"}
Rows == [status : {None} \cup LiveStates \cup TerminalStates, warm : BOOLEAN]
NoRun == [pc |-> "gone"]
Is(s, states) == row[s].status \in states

RowsInit ==
  /\ row = [s \in Searches |-> [status |-> None, warm |-> FALSE]]
  /\ said = [s \in Searches |-> None]
  /\ feed = [s \in Searches |-> <<>>]
  /\ calls = [s \in Searches |-> <<>>]
  /\ out = [s \in Searches |-> <<>>]
  /\ back = [s \in Searches |-> None]
  /\ due = [s \in Searches |-> 0]
  /\ verbs = [s \in Searches |-> 0]
  /\ run = [s \in Searches |-> NoRun]
  /\ svc = "up" /\ restarts = 0

-----------------------------------------------------------------------------
(* The owner's verbs, on a request's thread.  One request about a search is *)
(* in flight at a time: the page waits for its answer.                      *)

Ask(s) == svc = "up" /\ said[s] = None /\ verbs[s] < MaxVerbs

Commit(S, to) ==
  /\ row' = [s \in Searches |->
               IF s \in S THEN [status |-> to,
                                warm |-> to \notin TerminalStates /\ row[s].warm]
               ELSE row[s]]
  /\ said' = [s \in Searches |-> IF s \in S THEN to ELSE said[s]]
  /\ verbs' = [s \in Searches |-> IF s \in S THEN verbs[s] + 1 ELSE verbs[s]]
  /\ UNCHANGED <<feed, calls, out, back, due, svc, restarts>>

StartSearch(s) == Ask(s) /\ Is(s, {None}) /\ Commit({s}, "queued")
PauseSearch(s) == Ask(s) /\ Is(s, {"queued", "running"}) /\ Commit({s}, "paused")
ResumeSearch(s) == Ask(s) /\ Is(s, {"paused"}) /\ Commit({s}, "queued")
StopSearch(s) == Ask(s) /\ Is(s, LiveStates) /\ Commit({s}, "stopped")

\* "The laptop is closing": one commit for every row there is to move.
PauseAll ==
  LET S == {s \in Searches : Is(s, {"queued", "running"})}
  IN  Cardinality(S) > 1 /\ (\A s \in S : Ask(s)) /\ Commit(S, "paused")
ResumeAll ==
  LET S == {s \in Searches : Is(s, {"paused"})}
  IN  Cardinality(S) > 1 /\ (\A s \in S : Ask(s)) /\ Commit(S, "queued")

\* The event of a verb reaches the loop's queue, in `_on_event`.
Announce(s) ==
  /\ said[s] # None
  /\ feed' = [feed EXCEPT ![s] = Append(@, said[s])]
  /\ said' = [said EXCEPT ![s] = None]
  /\ UNCHANGED <<row, calls, out, back, due, verbs, svc, restarts>>

-----------------------------------------------------------------------------
(* What the worker calls, each in one transaction: the row it leaves, the   *)
(* event it emits and the answer it gives.                                  *)

Served(r, echo, answer) == [row |-> r, echo |-> echo, answer |-> answer]

SearchContext(r) == Served(r, None, IF r.status = "queued" THEN "go" ELSE "no")
SearchState(r) == Served(r, None, r.status)
Checkpoint(r) == Served(r, None, "ok")

\* mutant: a row that has ended is written over
MarkRunningBlind(r) == Served([status |-> "running", warm |-> FALSE], "running", "running")

MarkRunning(r) ==
  IF r.status \in TerminalStates THEN Served(r, None, "moved")
  ELSE Served([status |-> "running", warm |-> FALSE], "running", "running")

\* mutant: the status is left as it was
MarkParkedOnly(r, warm) ==
  IF r.status \in TerminalStates THEN Served(r, None, "moved")
  ELSE Served([status |-> r.status, warm |-> warm], r.status, r.status)

MarkParked(r, warm) ==
  IF r.status \in TerminalStates THEN Served(r, None, "moved")
  ELSE LET status == IF r.status = "queued" THEN "queued" ELSE "paused"
       IN  Served([status |-> status, warm |-> warm], status, status)

MarkFinished(r, wanted) ==
  LET status == IF r.status \in TerminalStates THEN r.status ELSE wanted
  IN  Served([status |-> status, warm |-> FALSE], status, status)

Call(by, fn, arg) == [by |-> by, fn |-> fn, arg |-> arg]

Serve(r, c) ==
  CASE c.fn = "context" -> SearchContext(r)
    [] c.fn = "state" -> SearchState(r)
    [] c.fn = "flush" -> Checkpoint(r)
    [] c.fn = "running" -> MarkRunning(r)
    [] c.fn = "parked" -> MarkParked(r, c.arg = "warm")
    [] c.fn = "finished" -> MarkFinished(r, c.arg)

\* The database thread takes the next call about this search and commits it.
DbRun(s) ==
  /\ svc # "down" /\ calls[s] # <<>> /\ out[s] = <<>>
  /\ LET c == Head(calls[s])
         served == Serve(row[s], c)
     IN  /\ row' = [row EXCEPT ![s] = served.row]
         /\ \E answer \in {served.answer} \cup
                          (IF served.answer = "go" /\ "trouble" \in Faults
                             THEN {"trouble"} ELSE {}) :
              out' = [out EXCEPT ![s] = <<[by |-> c.by, echo |-> served.echo,
                                           answer |-> answer]>>]
  /\ calls' = [calls EXCEPT ![s] = Tail(@)]
  /\ UNCHANGED <<said, feed, back, due, verbs, svc, restarts>>

\* It emits what it wrote, and the answer is handed to the loop behind that.
DbReturn(s) ==
  /\ out[s] # <<>>
  /\ LET done == Head(out[s])
         heard == IF done.echo = None THEN feed[s] ELSE Append(feed[s], done.echo)
     IN  /\ feed' = [feed EXCEPT ![s] = heard]
         /\ IF done.by = "run"
              THEN /\ back' = [back EXCEPT ![s] = done.answer]
                   /\ due' = [due EXCEPT ![s] = Len(heard)]
              ELSE UNCHANGED <<back, due>>
  /\ out' = [out EXCEPT ![s] = <<>>]
  /\ UNCHANGED <<row, said, calls, verbs, svc, restarts>>

-----------------------------------------------------------------------------
(* The loop's side of the queue.                                            *)

Hears(s, status) == feed[s] # <<>> /\ Head(feed[s]) = status

Heard(s) ==
  /\ feed' = [feed EXCEPT ![s] = Tail(@)]
  /\ due' = [due EXCEPT ![s] = IF @ = 0 THEN 0 ELSE @ - 1]

Running(s) == run[s] # NoRun
At(s, pc) == svc # "down" /\ run[s].pc = pc
Becomes(s, r) == run' = [run EXCEPT ![s] = r]

\* The task asks the database thread for something and waits for the answer.
Submits(s, fn, arg) == calls' = [calls EXCEPT ![s] = Append(@, Call("run", fn, arg))]
Asks(s, r, fn, arg) ==
  /\ Becomes(s, r) /\ Submits(s, fn, arg) /\ back' = [back EXCEPT ![s] = None]
  /\ UNCHANGED <<row, said, feed, out, due, verbs, svc, restarts>>
\* The task wakes with the answer it was waiting for, behind what came before.
Answered(s, pc) == At(s, pc) /\ back[s] # None /\ due[s] = 0
\* ... and goes on to something that is not another call.
Goes(s, r) ==
  /\ Becomes(s, r) /\ back' = [back EXCEPT ![s] = None]
  /\ UNCHANGED <<row, said, feed, calls, out, due, verbs, svc, restarts>>

\* What recover_at_boot makes of a row: the search is queued again, unless it
\* was parked or its engine is gone.
Recovered(r, trouble) ==
  IF r.status \notin LiveStates THEN r
  ELSE [status |-> IF r.status = "paused" \/ trouble THEN "paused" ELSE "queued",
        warm |-> FALSE]

\* The process is gone: what it had committed is all that is left of it.
Ends ==
  /\ svc' = "down" /\ restarts' = restarts + 1
  /\ said' = [s \in Searches |-> None]
  /\ feed' = [s \in Searches |-> <<>>]
  /\ calls' = [s \in Searches |-> <<>>]
  /\ out' = [s \in Searches |-> <<>>]
  /\ back' = [s \in Searches |-> None]
  /\ due' = [s \in Searches |-> 0]
  /\ UNCHANGED <<row, verbs>>

Boots ==
  /\ svc = "down" /\ svc' = "up"
  /\ \E gone \in SUBSET (IF "trouble" \in Faults THEN Searches ELSE {}) :
       row' = [s \in Searches |-> Recovered(row[s], s \in gone)]
  /\ UNCHANGED <<said, feed, calls, out, back, due, verbs, restarts>>

Owner == \/ \E s \in Searches : \/ StartSearch(s) \/ PauseSearch(s)
                                \/ ResumeSearch(s) \/ StopSearch(s)
         \/ PauseAll \/ ResumeAll

Hub(s) == Announce(s) \/ DbRun(s) \/ DbReturn(s)

RowsTypeOK ==
  /\ row \in [Searches -> Rows]
  /\ said \in [Searches -> {None} \cup LiveStates \cup TerminalStates]
  /\ \A s \in Searches : /\ due[s] \in 0..Len(feed[s])
                         /\ due[s] > 0 => back[s] # None
                         /\ Len(out[s]) <= 1
  /\ svc \in {"up", "closing", "down"}

\* The event that launches a search is on its way to the loop ...
Coming(s, status) ==
  \/ said[s] = status
  \/ \E i \in DOMAIN feed[s] : feed[s][i] = status
  \/ \E i \in DOMAIN out[s] : out[s][i].echo = status

\* ... or the search's task has a look at the row before it, or has had one that
\* found it queued.
WillSee(s) ==
  \/ \E i \in DOMAIN calls[s] : calls[s][i].by = "run" /\ calls[s][i].fn # "state"
  \/ back[s] \in {"go", "queued", "trouble"}
  \/ \E i \in DOMAIN out[s] : out[s][i].by = "run"
                            /\ out[s][i].answer \in {"go", "queued", "trouble"}

\* A search that has ended stays as it ended: nothing the worker writes after
\* the owner's stop, and nothing a restart makes of the row, brings it back.
EndedStaysEnded ==
  [][\A s \in Searches : Is(s, TerminalStates) => row'[s].status = row[s].status]_row
=============================================================================
