------------------------ MODULE CorrespondenceTasks ------------------------
(***************************************************************************)
(* The tasks of one correspondence tree (backend/services/correspondence)  *)
(* and the analysis runs that carry them (backend/services/analysis).  A   *)
(* task is two rows that name each other by id, the search row the tree    *)
(* reads and the run a worker claims; what happens to the run is committed *)
(* first and the search row follows in a commit of its own, which other    *)
(* calls, a crash included, may come before.                               *)
(*                                                                         *)
(* The tree is what an engine would make of it: the best lines of node n   *)
(* begin with the moves to 2n and 2n + 1.  One engine; no move of the game *)
(* is played, so only the root is.  Workers are runners', whose answers    *)
(* name their attempt; AnalysisWorkers has the local ones.  A call that    *)
(* reads and then writes in one transaction is one step, except where the  *)
(* fault "gap" lets others come between.                                   *)
(***************************************************************************)
EXTENDS RunQueue, FiniteSetsExt

CONSTANTS
  MaxNodes,      \* bound: positions of the tree
  MaxSearches,   \* bound: ids of search rows
  MaxStages,     \* MAX_EXPAND_STAGES
  Marks,         \* the marks the owner may set
  Faults         \* of FaultNames

FaultNames == {"crash", "abandon", "gap", "clear", "delete", "reuse"}

ASSUME TasksAssumption ==
  /\ MaxNodes \in Nat \ {0} /\ MaxSearches \in Nat /\ MaxStages \in Nat \ {0}
  /\ Marks \subseteq {"none", "good", "bad", "excluded"}
  /\ Faults \subseteq FaultNames

Node == 1 .. MaxNodes
Root == 1
SearchId == 1 .. MaxSearches
NoSearch == 0
NoRun == 0

LiveStates == {"queued", "running"}
TerminalStates == {"done", "stopped", "failed"}

Search == [status : {"absent"} \cup LiveStates \cup TerminalStates, node : Node,
           run : RunId \cup {NoRun}, stages : 0 .. MaxStages]
NoRow == [status |-> "absent", node |-> Root, run |-> NoRun, stages |-> 0]

VARIABLES
  tree,       \* the nodes there are
  mark,       \* the owner's word on each
  verdict,    \* the nodes with a stored evaluation
  open,       \* the game goes on
  searches,   \* the correspondence_searches table
  carries,    \* the search each run names
  held,       \* attempts workers are at
  calls,      \* second commits that are still owed
  clearing    \* clear_queue: how far, and the searches it has read

treeVars == <<tree, mark, verdict, open>>
vars == <<runs, paused, asked, treeVars, searches, carries, held, calls, clearing>>

-----------------------------------------------------------------------------
(* The tree and the rows on it.                                            *)

Ancestors[n \in 0 .. MaxNodes] == IF n = 0 THEN {} ELSE {n} \cup Ancestors[n \div 2]

Under(n) == {m \in tree : n \in Ancestors[m]}

Children(n) == {m \in Node : m \div 2 = n}

Live(k) == searches[k].status \in LiveStates

Busy(n) == \E k \in SearchId : Live(k) /\ searches[k].node = n

StagesFor(n, stages) ==
  LET left == IF stages = 0 THEN 0 ELSE stages - 1 IN
    CASE mark[n] = "good" -> Min({MaxStages, left + 1})
      [] mark[n] = "bad" -> Min({left, 1})
      [] OTHER -> left

MayQueueAnyway(n) == open /\ mark[n] # "excluded"   \* mutant: no look for a live search

(* What queue_task refuses.                                                *)
MayQueue(n) == open /\ mark[n] # "excluded" /\ ~Busy(n)

(* The rows of new tasks, over searches as `rows` has them: each pair is   *)
(* written in one commit and names each other's id.                        *)
LastRun == Max({0} \cup {i \in RunId : Present(i)})
LastSearch == Max({0} \cup {k \in SearchId : searches[k].status # "absent"})

Room(ns) ==
  LET n == Cardinality(ns) IN
    /\ "reuse" \in Faults \/
         /\ \A k \in SearchId : Live(k) => searches[k].run <= LastRun
         /\ \A k \in clearing.searches \cup {c.search : c \in calls} : k <= LastSearch
    /\ LastRun + n <= MaxRuns /\ LastSearch + n <= MaxSearches /\ asked + n <= MaxWorks

(* One id after another, in the order of the nodes.                        *)
Place(n, ns) == Cardinality({m \in ns : m <= n})

QueueTasks(ns, stages, rows) ==
  /\ Room(ns)
  /\ asked' = asked + Cardinality(ns)
  /\ runs' = [i \in RunId |->
       IF \E n \in ns : i = LastRun + Place(n, ns)
       THEN [Absent EXCEPT !.work = asked + (i - LastRun), !.kind = "asked", !.host = "runner",
                           !.status = "queued"]
       ELSE runs[i]]
  /\ carries' = [i \in RunId |->
       IF \E n \in ns : i = LastRun + Place(n, ns) THEN LastSearch + (i - LastRun)
       ELSE carries[i]]
  /\ searches' = [k \in SearchId |->
       IF \E n \in ns : k = LastSearch + Place(n, ns)
       THEN LET n == CHOOSE m \in ns : k = LastSearch + Place(m, ns) IN
              [status |-> "queued", node |-> n, run |-> LastRun + Place(n, ns),
               stages |-> stages[n]]
       ELSE rows[k]]
  /\ UNCHANGED paused

-----------------------------------------------------------------------------
(* The owner.                                                              *)

Call(op, k) == [op |-> op, search |-> k, run |-> NoRun, node |-> Root, stages |-> 0]

(* queue_task: its look for a live search, then its inserts.               *)
QueueTask(n) ==
  /\ n \in tree /\ MayQueue(n)
  /\ IF "gap" \in Faults
     THEN /\ calls' = calls \cup {[Call("queue", NoSearch) EXCEPT !.node = n]}
          /\ UNCHANGED <<runs, paused, asked, carries, searches>>
     ELSE /\ QueueTasks({n}, [m \in Node |-> 0], searches)
          /\ UNCHANGED calls
  /\ UNCHANGED <<treeVars, held, clearing>>

QueueCommits(c) ==
  /\ c.op = "queue"
  /\ calls' = calls \ {c}
  /\ \/ c.node \in tree /\ QueueTasks({c.node}, [m \in Node |-> 0], searches)
     \/ c.node \notin tree /\ UNCHANGED <<runs, paused, asked, carries, searches>>
  /\ UNCHANGED <<treeVars, held, clearing>>

(* _expand_from: the first moves of the lines become children, and each    *)
(* that is neither excluded nor busy gets a task.                          *)
ExpandFrom(n, stages, rows) ==
  LET wanted == {m \in Children(n) : m \notin tree \/ mark[m] # "excluded"} IN
    /\ tree' = tree \cup wanted
    /\ QueueTasks({m \in wanted : MayQueue(m)}, [m \in Node |-> StagesFor(m, stages)], rows)
    /\ UNCHANGED <<mark, verdict, open>>

(* expand_node, on a node with a verdict or without one.                   *)
Expand(n, stages) ==
  /\ n \in tree /\ open /\ mark[n] # "excluded"
  /\ IF n \in verdict
     THEN ExpandFrom(n, stages, searches)
     ELSE /\ MayQueue(n)
          /\ QueueTasks({n}, [m \in Node |-> stages], searches)
          /\ UNCHANGED treeVars
  /\ UNCHANGED <<held, calls, clearing>>

(* refresh_subtree: what is not excluded, itself or above, and stale.      *)
Refresh(n, stale) ==
  /\ n \in tree /\ open
  /\ stale \subseteq {m \in Under(n) : ~Busy(m)
                        /\ \A a \in Ancestors[m] \cap Under(n) : mark[a] # "excluded"}
  /\ stale # {}
  /\ QueueTasks(stale, [m \in Node |-> 0], searches)
  /\ UNCHANGED <<treeVars, held, calls, clearing>>

CancelHalf(k) ==   \* mutant: the run is left in the queue
  /\ Live(k)
  /\ searches[k].run # NoRun /\ Present(searches[k].run) => runs[searches[k].run].status = "queued"
  /\ searches' = [searches EXCEPT ![k].status = "stopped", ![k].run = NoRun]
  /\ UNCHANGED <<runs, paused, asked, treeVars, carries, held, calls, clearing>>

(* cancel_task, which a stop is too: by the id on the search row.          *)
Cancel(k) ==
  LET i == searches[k].run IN
    /\ Live(k)
    /\ i # NoRun /\ Present(i) => runs[i].status = "queued"
    /\ Deleting({i})
    /\ searches' = [searches EXCEPT ![k].status = "stopped", ![k].run = NoRun]
    /\ UNCHANGED <<paused, asked, treeVars, carries, held, calls, clearing>>

DeleteNodeOnly(n) ==   \* mutant: the rows of its tasks are left
  /\ "delete" \in Faults
  /\ n \in tree \ {Root} /\ open
  /\ \A m \in Under(n) : ~Busy(m)
  /\ tree' = tree \ Under(n)
  /\ UNCHANGED <<runs, paused, asked, mark, verdict, open, searches, carries, held, calls, clearing>>

(* delete_node.  Its queued tasks are cancelled one commit at a time, by   *)
(* steps like Cancel; it goes on when none is left.  A task that is not    *)
(* queued any more refuses it.  The tree's rows cascade.                   *)
DeleteNode(n) ==
  /\ "delete" \in Faults
  /\ n \in tree \ {Root} /\ open
  /\ \A m \in Under(n) : ~Busy(m)
  /\ tree' = tree \ Under(n)
  /\ mark' = [m \in Node |-> IF m \in Under(n) THEN "none" ELSE mark[m]]
  /\ searches' = [k \in SearchId |-> IF searches[k].node \in Under(n) THEN NoRow ELSE searches[k]]
  /\ UNCHANGED <<runs, paused, asked, verdict, open, carries, held, calls, clearing>>

(* add_node.                                                               *)
AddNode(n) ==
  /\ open /\ n \notin tree /\ n \div 2 \in tree
  /\ tree' = tree \cup {n}
  /\ UNCHANGED <<runs, paused, asked, mark, verdict, open, searches, carries, held, calls, clearing>>

MarkNode(n, m) ==
  /\ n \in tree /\ open /\ mark[n] # m
  /\ mark' = [mark EXCEPT ![n] = m]
  /\ UNCHANGED <<runs, paused, asked, tree, verdict, open, searches, carries, held, calls,
                 clearing>>

FinishGame ==
  /\ open
  /\ open' = FALSE
  /\ UNCHANGED <<runs, paused, asked, tree, mark, verdict, searches, carries, held, calls, clearing>>

-----------------------------------------------------------------------------
(* clear_queue: a SELECT of the queued runs' searches, the DELETE and its  *)
(* commit, then release_tasks in a commit of its own.                      *)

QueuedTasks == {carries[i] : i \in {j \in RunId : runs[j].status = "queued"}}

ClearSelects ==
  /\ "clear" \in Faults /\ "gap" \in Faults /\ clearing.stage = "no"
  /\ clearing' = [stage |-> "selected", searches |-> QueuedTasks]
  /\ UNCHANGED <<runs, paused, asked, treeVars, searches, carries, held, calls>>

ClearDeletesUntold ==   \* mutant: the tree is not told
  /\ "clear" \in Faults /\ clearing.stage = "no"
  /\ ClearQueue
  /\ UNCHANGED <<treeVars, searches, carries, held, calls, clearing>>

ClearDeletes ==
  /\ \/ clearing.stage = "selected" /\ clearing' = [clearing EXCEPT !.stage = "deleted"]
     \/ /\ "clear" \in Faults /\ "gap" \notin Faults /\ clearing.stage = "no"
        /\ clearing' = [stage |-> "deleted", searches |-> QueuedTasks]
  /\ \E i \in RunId : runs[i].status = "queued"
  /\ ClearQueue
  /\ UNCHANGED <<treeVars, searches, carries, held, calls>>

(* Nothing was dropped: nobody is told.                                    *)
ClearGivesUp ==
  /\ clearing.stage = "selected" /\ \A i \in RunId : runs[i].status # "queued"
  /\ clearing' = [stage |-> "no", searches |-> {}]
  /\ UNCHANGED <<runs, paused, asked, treeVars, searches, carries, held, calls>>

ReleaseTasks ==
  /\ clearing.stage = "deleted"
  /\ clearing' = [stage |-> "no", searches |-> {}]
  /\ searches' = [k \in SearchId |->
       IF k \in clearing.searches /\ Live(k)
       THEN [searches[k] EXCEPT !.status = "stopped", !.run = NoRun] ELSE searches[k]]
  /\ UNCHANGED <<runs, paused, asked, treeVars, carries, held, calls>>

-----------------------------------------------------------------------------
(* Workers.                                                                *)

Holds(a) == runs[a.run].status = "running" /\ runs[a.run].token = a.token

FreshTokens ==
  Token \ ({runs[i].token : i \in {j \in RunId : runs[j].status = "running"}}
           \cup {a.token : a \in held})
FreshToken == CHOOSE t \in FreshTokens : TRUE

(* claim_next_run, and the search row after it.                            *)
Claim ==
  /\ FreshTokens # {}
  /\ \E i \in RunId :
       /\ IsNextRun(i, {"runner"})
       /\ runs' = [runs EXCEPT ![i] = Claimed(@, FreshToken)]
       /\ held' = held \cup {[run |-> i, token |-> FreshToken]}
       /\ calls' = calls \cup {[Call("mark", carries[i]) EXCEPT !.run = i]}
  /\ UNCHANGED <<paused, asked, treeVars, searches, carries, clearing>>

(* The attempt goes to its worker when the claim's call has returned.      *)
Working(a) == a \in held /\ ~\E c \in calls : c.op = "mark" /\ c.run = a.run

Complete(a) ==
  /\ Working(a)
  /\ held' = held \ {a}
  /\ IF Holds(a)
     THEN /\ runs' = [runs EXCEPT ![a.run] = Completed(@, @, @.work)]
          /\ calls' = calls \cup {[Call("absorb", carries[a.run]) EXCEPT !.run = a.run]}
     ELSE UNCHANGED <<runs, calls>>
  /\ UNCHANGED <<paused, asked, treeVars, searches, carries, clearing>>

Told(status) == IF status = "queued" THEN "requeue" ELSE "fail"

Fail(a, retry) ==
  /\ Working(a)
  /\ held' = held \ {a}
  /\ IF Holds(a)
     THEN /\ runs' = [runs EXCEPT ![a.run] = FailedRow(@, @, retry)]
          /\ calls' = calls \cup
               {Call(Told(FailedRow(runs[a.run], runs[a.run], retry).status), carries[a.run])}
     ELSE UNCHANGED <<runs, calls>>
  /\ UNCHANGED <<paused, asked, treeVars, searches, carries, clearing>>

Abandon(a) ==
  /\ "abandon" \in Faults
  /\ Working(a)
  /\ held' = held \ {a}
  /\ IF Holds(a)
     THEN /\ runs' = [runs EXCEPT ![a.run] = Abandoned(@, @)]
          /\ calls' = calls \cup {Call("requeue", carries[a.run])}
     ELSE UNCHANGED <<runs, calls>>
  /\ UNCHANGED <<paused, asked, treeVars, searches, carries, clearing>>

SweepForgetsTasks ==   \* mutant: only the runs are swept
  /\ \E i \in RunId : Stale(i)
  /\ RequeueStaleRuns(Host, {})
  /\ UNCHANGED <<paused, asked, treeVars, searches, carries, held, calls, clearing>>

(* requeue_stale_runs and _reconcile_stale_tasks.                          *)
Sweep ==
  /\ \E i \in RunId : Stale(i)
  /\ RequeueStaleRuns(Host, {})
  /\ calls' = calls \cup
       {Call(Told(Collected(runs[i]).status), carries[i]) : i \in {j \in RunId : Stale(j)}}
  /\ UNCHANGED <<paused, asked, treeVars, searches, carries, held, clearing>>

(* A worker goes away without a word, and its run goes quiet.              *)
Vanish(a) ==
  /\ "abandon" \in Faults
  /\ Working(a)
  /\ held' = held \ {a}
  /\ UNCHANGED <<runs, paused, asked, treeVars, searches, carries, calls, clearing>>

GoQuiet(i) ==
  /\ runs[i].status = "running" /\ ~runs[i].quiet
  /\ ~\E a \in held : Holds(a) /\ a.run = i
  /\ runs' = [runs EXCEPT ![i].quiet = TRUE]
  /\ UNCHANGED <<paused, asked, treeVars, searches, carries, held, calls, clearing>>

Crash ==
  /\ "crash" \in Faults
  /\ held # {} \/ calls # {} \/ clearing.stage # "no"
  /\ held' = {} /\ calls' = {} /\ clearing' = [stage |-> "no", searches |-> {}]
  /\ UNCHANGED <<runs, paused, asked, treeVars, searches, carries>>

-----------------------------------------------------------------------------
(* The second commits.                                                     *)

MarkTaskRunning(c) ==
  /\ c.op = "mark"
  /\ calls' = calls \ {c}
  /\ searches' = IF c.search # NoSearch /\ searches[c.search].status = "queued"
                 THEN [searches EXCEPT ![c.search].status = "running"] ELSE searches
  /\ UNCHANGED <<runs, paused, asked, treeVars, carries, held, clearing>>

RequeueTaskBlind(c) ==   \* mutant: whatever became of the task
  /\ c.op = "requeue"
  /\ calls' = calls \ {c}
  /\ searches' = [searches EXCEPT ![c.search].status = "queued"]
  /\ UNCHANGED <<runs, paused, asked, treeVars, carries, held, clearing>>

RequeueTask(c) ==
  /\ c.op = "requeue"
  /\ calls' = calls \ {c}
  /\ searches' = IF searches[c.search].status = "running"
                 THEN [searches EXCEPT ![c.search].status = "queued"] ELSE searches
  /\ UNCHANGED <<runs, paused, asked, treeVars, carries, held, clearing>>

FailTask(c) ==
  /\ c.op = "fail"
  /\ calls' = calls \ {c}
  /\ searches' = IF Live(c.search) THEN [searches EXCEPT ![c.search].status = "failed"] ELSE searches
  /\ UNCHANGED <<runs, paused, asked, treeVars, carries, held, clearing>>

AbsorbAnyway(c) ==   \* mutant: a task that was called off is expanded all the same
  LET row == searches[c.search] IN
    /\ c.op = "absorb"
    /\ verdict' = verdict \cup {row.node}
    /\ searches' = IF Live(c.search) THEN [searches EXCEPT ![c.search].status = "done"] ELSE searches
    /\ calls' = (calls \ {c}) \cup {[Call("expand", c.search) EXCEPT !.node = row.node, !.stages = row.stages]}
    /\ UNCHANGED <<runs, paused, asked, tree, mark, open, carries, held, clearing>>

(* absorb_run: the verdict is kept whatever became of the task; the row it *)
(* read is the one its expansion goes by.                                  *)
Absorb(c) ==
  LET row == searches[c.search]
      rest == calls \ {c} IN
    /\ c.op = "absorb"
    /\ \/ /\ row.status = "absent"
          /\ calls' = rest
          /\ UNCHANGED <<verdict, searches>>
       \/ /\ row.status \in TerminalStates
          /\ verdict' = verdict \cup {row.node}
          /\ calls' = rest
          /\ UNCHANGED searches
       \/ /\ row.status \in LiveStates
          /\ verdict' = verdict \cup {row.node}
          /\ searches' = [searches EXCEPT ![c.search].status = "done"]
          /\ calls' = IF row.stages = 0 \/ mark[row.node] = "excluded" THEN rest
               ELSE rest \cup {[Call("expand", c.search) EXCEPT !.node = row.node,
                                                                !.stages = row.stages]}
    /\ UNCHANGED <<runs, paused, asked, tree, mark, open, carries, held, clearing>>

ExpandAfterEnd(c) ==   \* mutant: no look at whether the game has finished
  /\ c.op = "expand"
  /\ calls' = calls \ {c}
  /\ c.node \in tree
  /\ ExpandFrom(c.node, c.stages, [searches EXCEPT ![c.search].stages = 0])
  /\ UNCHANGED <<held, clearing>>

(* _expand_after.  A branch that went meanwhile takes the call with it.    *)
ExpandAfter(c) ==
  /\ c.op = "expand"
  /\ calls' = calls \ {c}
  /\ \/ /\ open /\ c.node \in tree
        /\ ExpandFrom(c.node, c.stages, [searches EXCEPT ![c.search].stages = 0])
     \/ /\ ~open \/ c.node \notin tree
        /\ UNCHANGED <<runs, paused, asked, carries, searches, treeVars>>
  /\ UNCHANGED <<held, clearing>>

Returns(c) ==
  MarkTaskRunning(c) \/ RequeueTask(c) \/ FailTask(c) \/ Absorb(c) \/ ExpandAfter(c) \/ QueueCommits(c)

-----------------------------------------------------------------------------

Init ==
  /\ QueueInit
  /\ tree = {Root}
  /\ mark = [n \in Node |-> "none"]
  /\ verdict = {}
  /\ open = TRUE
  /\ searches = [k \in SearchId |-> NoRow]
  /\ carries = [i \in RunId |-> NoSearch]
  /\ held = {} /\ calls = {}
  /\ clearing = [stage |-> "no", searches |-> {}]

Ends(a) == Complete(a) \/ Fail(a, TRUE) \/ Fail(a, FALSE)

Next ==
  \/ \E n \in Node : QueueTask(n) \/ AddNode(n) \/ DeleteNode(n)
  \/ \E n \in Node, s \in 1 .. MaxStages : Expand(n, s)
  \/ \E n \in Node, stale \in SUBSET Node : Refresh(n, stale)
  \/ \E n \in Node, m \in Marks : MarkNode(n, m)
  \/ \E k \in SearchId : Cancel(k)
  \/ ClearSelects \/ ClearDeletes \/ ClearGivesUp \/ ReleaseTasks \/ FinishGame
  \/ Claim \/ \E a \in held : Ends(a) \/ Abandon(a) \/ Vanish(a)
  \/ \E c \in calls : Returns(c)
  \/ Sweep \/ Crash \/ \E i \in RunId : GoQuiet(i)

Spec == Init /\ [][Next]_vars

-----------------------------------------------------------------------------
(* What must hold.                                                         *)

(* Every variable stays within its type; the tree hangs together and no row *)
(* names a node that is not in it.                                         *)
TypeOK ==
  /\ QueueTypeOK
  /\ Root \in tree /\ tree \subseteq Node
  /\ mark \in [Node -> {"none", "good", "bad", "excluded"}]
  /\ verdict \subseteq Node /\ open \in BOOLEAN
  /\ searches \in [SearchId -> Search]
  /\ carries \in [RunId -> SearchId \cup {NoSearch}]
  /\ held \subseteq [run : RunId, token : Token]
  /\ \A n \in tree : Ancestors[n] \subseteq tree
  /\ \A k \in SearchId : searches[k].status # "absent" => searches[k].node \in tree

Owed(k) == (\E c \in calls : c.search = k) \/ k \in clearing.searches

Carried(k) ==
  LET i == searches[k].run IN
    i # NoRun /\ carries[i] = k /\ runs[i].status \in {"queued", "running"}

(* A task the tree shows as queued or running has a run in the queue or at *)
(* a worker that names it back, or a commit on its way that will settle it *)
(* (cancel_task: "a spinner on a node that nothing will ever take off").   *)
LiveTaskIsCarried == \A k \in SearchId : Live(k) => Carried(k) \/ Owed(k)

(* A task the tree shows as running has a worker at it, or is owed word.   *)
RunningTaskIsRun ==
  \A k \in SearchId : searches[k].status = "running" =>
    runs[searches[k].run].status = "running" \/ Owed(k)

(* No engine spends a task's nodes with nowhere to put the answer: a run   *)
(* that waits or is worked on is one a live task of a node in the tree     *)
(* knows it by.                                                            *)
LiveRunHasTask ==
  \A i \in RunId : runs[i].status \in {"queued", "running"} =>
    LET k == carries[i] IN
      k # NoSearch /\ Live(k) /\ searches[k].run = i /\ searches[k].node \in tree

(* The tree's table and the queue's say the same of every task.            *)
TablesAgree == LiveTaskIsCarried /\ RunningTaskIsRun /\ LiveRunHasTask

(* "At most one search in queued, running or paused per (node, engine)".   *)
OneLiveTaskPerNode ==
  \A j, k \in SearchId : Live(j) /\ Live(k) /\ searches[j].node = searches[k].node => j = k

(* An expansion under way belongs to a task that was absorbed while it was *)
(* wanted, and there is one: what was called off expands nothing, and what *)
(* was expanded is not expanded again.                                     *)
ExpandsWhatIsOwed ==
  \A c \in calls : c.op = "expand" =>
    \/ searches[c.search].status = "absent"
    \/ /\ searches[c.search].status = "done"
       /\ searches[c.search].stages = c.stages

(* A task that is over is over, until its branch is deleted.               *)
EndedTaskStaysEnded ==
  [][\A k \in DOMAIN searches : searches[k].status \in TerminalStates =>
       searches'[k].status \in {searches[k].status, "absent"}]_vars

(* A finished game's tree takes no node and no task.                       *)
FinishedTreeIsClosed ==
  [][~open => tree' \subseteq tree /\ \A k \in DOMAIN searches : Live(k)' => Live(k)]_vars

-----------------------------------------------------------------------------
(* Progress: a worker claims and its search ends, calls return, the sweep  *)
(* comes round.                                                            *)

Fairness ==
  /\ WF_vars(Claim) /\ WF_vars(Sweep) /\ WF_vars(ReleaseTasks)
  /\ WF_vars(ClearDeletes /\ clearing.stage = "selected") /\ WF_vars(ClearGivesUp)
  /\ \A i \in RunId : WF_vars(\E a \in held : a.run = i /\ Ends(a)) /\ WF_vars(GoQuiet(i))
  /\ \A k \in SearchId \cup {NoSearch} : WF_vars(\E c \in calls : c.search = k /\ Returns(c))

FairSpec == Spec /\ Fairness

(* No node keeps its spinner for ever: tasks are bounded, and in the end    *)
(* none is live.                                                           *)
TasksEnd == []<>(\A k \in SearchId : ~Live(k))
=============================================================================
