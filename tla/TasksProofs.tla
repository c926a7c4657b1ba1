----------------------------- MODULE TasksProofs -----------------------------
(* The theorems of CorrespondenceTasks.  A node is never given two tasks,   *)
(* only a task that was wanted expands its node, what has ended stays       *)
(* ended, and the tree's table and the queue's agree, for trees, tables and *)
(* marks of any size.                                                       *)
EXTENDS CorrespondenceTasks, RunQueueProofs, FiniteSetTheorems, WellFoundedInduction

-----------------------------------------------------------------------------
(* Ids.  A finite set of numbers has a largest one: among the sets of what *)
(* is larger than each, take a smallest.                                   *)
LEMMA LargestOne ==
  ASSUME NEW N \in Nat, NEW S \in SUBSET (1 .. N)
  PROVE  /\ Max({0} \cup S) \in 0 .. N
         /\ \A i \in S : i <= Max({0} \cup S)
<1>. DEFINE T == {0} \cup S
            left(x) == N - x
<1>1. \E x \in T : \A y \in T : x >= y
  <2>. DEFINE R == {ss \in Nat \X Nat : ss[1] < ss[2]}
              D == {n \in Nat : \E x \in T : n = left(x)}
  <2>1. N \in D
    BY DEF D
  <2>0. IsWellFoundedOn(R, Nat)
    BY NatLessThanWellFounded DEF OpToRel
  <2>2. PICK n \in D : \A m \in D : <<m, n>> \notin R
    <3>. HIDE DEF R
    <3>1. D \subseteq Nat /\ D # {}
      BY <2>1
    <3>. HIDE DEF D
    <3>. QED BY <2>0, <3>1, WFMin
  <2>3. PICK x \in T : n = left(x)
    OBVIOUS
  <2>4. ASSUME NEW y \in T PROVE x >= y
    <3>1. left(y) \in Nat /\ left(y) \in D
      OBVIOUS
    <3>2. ~(left(y) < n)
      BY <2>2, <3>1
    <3>. QED BY <2>3, <3>2
  <2>. QED BY <2>4
<1>. DEFINE last == Max(T)
<1>2. last \in T /\ \A y \in T : last >= y
  BY <1>1 DEF Max
<1>. HIDE DEF last
<1>3. last \in 0 .. N /\ \A i \in S : i <= last
  BY <1>2
<1>. QED BY <1>3 DEF last


LEMMA LastIds ==
  /\ LastRun \in 0 .. MaxRuns /\ \A i \in RunId : Present(i) => i <= LastRun
  /\ LastSearch \in 0 .. MaxSearches
  /\ \A k \in SearchId : searches[k].status # "absent" => k <= LastSearch
<1>. DEFINE rs == {i \in RunId : Present(i)}
            ss == {k \in SearchId : searches[k].status # "absent"}
<1>1. /\ MaxRuns \in Nat /\ rs \in SUBSET (1 .. MaxRuns)
      /\ MaxSearches \in Nat /\ ss \in SUBSET (1 .. MaxSearches)
  BY QueueAssumption, TasksAssumption DEF RunId, SearchId
<1>2. LastRun = Max({0} \cup rs) /\ LastSearch = Max({0} \cup ss)
  BY DEF LastRun, LastSearch
<1>3. /\ \A i \in RunId : Present(i) => i \in rs
      /\ \A k \in SearchId : searches[k].status # "absent" => k \in ss
  OBVIOUS
<1>. HIDE DEF rs, ss
<1>4. LastRun \in 0 .. MaxRuns /\ \A i \in rs : i <= LastRun
  BY <1>1, <1>2, LargestOne
<1>5. LastSearch \in 0 .. MaxSearches /\ \A k \in ss : k <= LastSearch
  BY <1>1, <1>2, LargestOne
<1>. QED BY <1>3, <1>4, <1>5

(* The places of some nodes are apart, and within their number.            *)
LEMMA Places ==
  ASSUME NEW ns \in SUBSET Node
  PROVE  /\ IsFiniteSet(ns) /\ Cardinality(ns) \in Nat
         /\ \A n \in ns : Place(n, ns) \in 1 .. Cardinality(ns)
         /\ \A m, n \in ns : Place(m, ns) = Place(n, ns) => m = n
<1>. DEFINE upTo(n) == {m \in ns : m <= n}
<1>1. IsFiniteSet(ns) /\ Cardinality(ns) \in Nat
  <2>1. MaxNodes \in Int /\ 1 \in Int
    BY TasksAssumption
  <2>2. IsFiniteSet(1 .. MaxNodes)
    BY <2>1, FS_Interval
  <2>3. ns \in SUBSET (1 .. MaxNodes)
    BY DEF Node
  <2>4. IsFiniteSet(ns)
    BY <2>2, <2>3, FS_Subset
  <2>. QED BY <2>4, FS_CardinalityType
<1>2. \A n : upTo(n) \in SUBSET ns
  OBVIOUS
<1>3. \A n \in ns : n \in upTo(n)
  BY TasksAssumption DEF Node
<1>4. ASSUME NEW m \in ns, NEW n \in ns, m < n
      PROVE  upTo(m) \in SUBSET upTo(n) /\ n \notin upTo(m)
  <2>1. \A x \in ns : x \in Int
    BY TasksAssumption DEF Node
  <2>2. \A x \in ns : x <= m => x <= n
    BY <1>4, <2>1
  <2>3. ~(n <= m)
    BY <1>4, <2>1
  <2>4. upTo(m) \subseteq upTo(n)
    BY <2>2
  <2>5. n \notin upTo(m)
    BY <2>3
  <2>. QED BY <2>4, <2>5
<1>5. \A n : Place(n, ns) = Cardinality(upTo(n))
  BY DEF Place
<1>. HIDE DEF upTo
<1>6. \A n : IsFiniteSet(upTo(n)) /\ Cardinality(upTo(n)) <= Cardinality(ns)
  BY <1>1, <1>2, FS_Subset
<1>7. \A n : Cardinality(upTo(n)) \in Nat
  BY <1>6, FS_CardinalityType
<1>8. ASSUME NEW n \in ns PROVE Cardinality(upTo(n)) # 0
  <2>1. IsFiniteSet(upTo(n)) /\ upTo(n) # {}
    BY <1>3, <1>6
  <2>2. \A S : IsFiniteSet(S) /\ Cardinality(S) = 0 => S = {}
    BY FS_EmptySet
  <2>. QED BY <2>1, <2>2
<1>9. ASSUME NEW n \in ns PROVE Place(n, ns) \in 1 .. Cardinality(ns)
  <2>1. /\ Cardinality(upTo(n)) \in Nat /\ Cardinality(upTo(n)) # 0
        /\ Cardinality(upTo(n)) <= Cardinality(ns)
    BY <1>6, <1>7, <1>8
  <2>. QED BY <1>1, <1>5, <2>1
<1>10. ASSUME NEW m \in ns, NEW n \in ns, m < n PROVE Place(m, ns) # Place(n, ns)
  <2>1. upTo(m) \in SUBSET upTo(n) /\ upTo(m) # upTo(n)
    BY <1>3, <1>4, <1>10
  <2>2. Cardinality(upTo(m)) # Cardinality(upTo(n))
    BY <1>6, <2>1, FS_Subset
  <2>. QED BY <1>5, <2>2
<1>11. ASSUME NEW m \in ns, NEW n \in ns, m # n PROVE m < n \/ n < m
  BY <1>11, TasksAssumption DEF Node
<1>. QED BY <1>1, <1>9, <1>10, <1>11


-----------------------------------------------------------------------------
(* What is true of the shape of the state.                                 *)
CallTyped(c) ==
  /\ c.node \in Node /\ c.stages \in 0 .. MaxStages
  /\ c.op = "queue" => "gap" \in Faults
  /\ c.op # "queue" => c.search \in SearchId

Typed ==
  /\ runs \in [RunId -> Row] /\ asked \in 0 .. MaxWorks
  /\ tree \subseteq Node
  /\ searches \in [SearchId -> Search]
  /\ carries \in [RunId -> SearchId \cup {NoSearch}]
  /\ \A i \in RunId : Present(i) => carries[i] \in SearchId
  /\ \A a \in held : a.run \in RunId
  /\ \A c \in calls : CallTyped(c)

(* The search rows a statement adds.                                       *)
Added(k, ns) == \E n \in ns : k = LastSearch + Place(n, ns)

LEMMA RoomForTasks ==
  ASSUME NEW ns, NEW stages, NEW rows, QueueTasks(ns, stages, rows)
  PROVE  /\ LastRun \in Nat /\ LastSearch \in Nat
         /\ LastRun + Cardinality(ns) <= MaxRuns
         /\ LastSearch + Cardinality(ns) <= MaxSearches
         /\ asked + Cardinality(ns) <= MaxWorks
         /\ "reuse" \notin Faults => \A c \in calls : c.search <= LastSearch
<1>1. Room(ns)
  BY DEF QueueTasks
<1>2. LastRun \in Nat /\ LastSearch \in Nat
  BY LastIds, QueueAssumption, TasksAssumption
<1>3. /\ LastRun + Cardinality(ns) <= MaxRuns
      /\ LastSearch + Cardinality(ns) <= MaxSearches
      /\ asked + Cardinality(ns) <= MaxWorks
  BY <1>1 DEF Room
<1>4. ASSUME "reuse" \notin Faults, NEW c \in calls PROVE c.search <= LastSearch
  BY <1>1, <1>4 DEF Room
<1>. QED BY <1>2, <1>3, <1>4

(* The rows of new tasks take ids that are free, one for each node.        *)
LEMMA QueueTasksAdds ==
  ASSUME Typed, NEW ns \in SUBSET Node, NEW stages \in [Node -> 0 .. MaxStages],
         NEW rows \in [SearchId -> Search], QueueTasks(ns, stages, rows)
  PROVE  /\ searches' \in [SearchId -> Search]
         /\ \A k \in SearchId :
              IF Added(k, ns)
              THEN k > LastSearch /\ searches'[k].status = "queued" /\ searches'[k].node \in ns
              ELSE searches'[k] = rows[k]
         /\ \A j, k \in SearchId :
              /\ Added(j, ns) /\ Added(k, ns)
              /\ searches'[j].node = searches'[k].node
              => j = k
<1>. DEFINE of(k) == CHOOSE m \in ns : k = LastSearch + Place(m, ns)
            new(k) == [status |-> "queued", node |-> of(k),
                       run |-> LastRun + Place(of(k), ns), stages |-> stages[of(k)]]
<1>1. ASSUME NEW k, Added(k, ns)
      PROVE  of(k) \in ns /\ k = LastSearch + Place(of(k), ns)
  BY <1>1 DEF Added
<1>2. searches' = [k \in SearchId |-> IF Added(k, ns) THEN new(k) ELSE rows[k]]
  BY DEF QueueTasks, Added
<1>. HIDE DEF of
<1>3. /\ Cardinality(ns) \in Nat
      /\ \A n \in ns : Place(n, ns) \in 1 .. Cardinality(ns)
  BY Places
<1>4. /\ LastRun \in Nat /\ LastSearch \in Nat
      /\ LastRun + Cardinality(ns) <= MaxRuns
  BY RoomForTasks
<1>5. ASSUME NEW k \in SearchId, Added(k, ns)
      PROVE  /\ new(k) \in Search /\ k > LastSearch
             /\ new(k).status = "queued" /\ new(k).node = of(k)
  <2>1. of(k) \in ns /\ k = LastSearch + Place(of(k), ns)
    BY <1>1, <1>5
  <2>2. Place(of(k), ns) \in 1 .. Cardinality(ns)
    BY <1>3, <2>1
  <2>3. k > LastSearch
    BY <1>3, <1>4, <2>1, <2>2
  <2>4. LastRun + Place(of(k), ns) \in RunId
    BY <1>3, <1>4, <2>2, QueueAssumption DEF RunId
  <2>5. of(k) \in Node /\ stages[of(k)] \in 0 .. MaxStages
    BY <2>1
  <2>6. "queued" \in {"absent"} \cup LiveStates \cup TerminalStates
    BY DEF LiveStates
  <2>. QED BY <2>3, <2>4, <2>5, <2>6 DEF Search
<1>. HIDE DEF new
<1>6. searches' \in [SearchId -> Search]
  BY <1>2, <1>5
<1>7. ASSUME NEW k \in SearchId
      PROVE  IF Added(k, ns)
             THEN k > LastSearch /\ searches'[k].status = "queued" /\ searches'[k].node = of(k)
             ELSE searches'[k] = rows[k]
  BY <1>2, <1>5
<1>8. ASSUME NEW k \in SearchId, Added(k, ns) PROVE searches'[k].node = of(k) /\ of(k) \in ns
  BY <1>1, <1>7, <1>8
<1>9. ASSUME NEW j \in SearchId, NEW k \in SearchId, Added(j, ns), Added(k, ns),
             searches'[j].node = searches'[k].node
      PROVE  j = k
  BY <1>1, <1>8, <1>9
<1>. QED BY <1>6, <1>7, <1>8, <1>9

(* So do the runs, and each names its search.                              *)
LEMMA QueueTasksCarries ==
  ASSUME Typed, NEW ns \in SUBSET Node, NEW stages, NEW rows, QueueTasks(ns, stages, rows)
  PROVE  /\ runs' \in [RunId -> Row] /\ asked' \in 0 .. MaxWorks
         /\ carries' \in [RunId -> SearchId \cup {NoSearch}]
         /\ \A i \in RunId : Present(i)' => carries'[i] \in SearchId
<1>. DEFINE fresh(i) == \E n \in ns : i = LastRun + Place(n, ns)
            new(i) == [Absent EXCEPT !.work = asked + (i - LastRun), !.kind = "asked",
                                     !.host = "runner", !.status = "queued"]
<1>1. /\ runs' = [i \in RunId |-> IF fresh(i) THEN new(i) ELSE runs[i]]
      /\ carries' = [i \in RunId |-> IF fresh(i) THEN LastSearch + (i - LastRun) ELSE carries[i]]
      /\ asked' = asked + Cardinality(ns)
  BY DEF QueueTasks
<1>2. /\ LastRun \in Nat /\ LastSearch \in Nat
      /\ LastSearch + Cardinality(ns) <= MaxSearches
      /\ asked + Cardinality(ns) <= MaxWorks
  BY RoomForTasks
<1>3. /\ Cardinality(ns) \in Nat
      /\ \A n \in ns : Place(n, ns) \in 1 .. Cardinality(ns)
  BY Places
<1>4. MaxWorks \in Nat /\ MaxSearches \in Nat /\ asked \in 0 .. MaxWorks
  BY QueueAssumption, TasksAssumption DEF Typed
<1>5. ASSUME NEW i \in RunId, fresh(i)
      PROVE  asked + (i - LastRun) \in Work /\ LastSearch + (i - LastRun) \in SearchId
  <2>1. PICK n \in ns : i = LastRun + Place(n, ns)
    BY <1>5
  <2>2. Place(n, ns) \in 1 .. Cardinality(ns)
    BY <1>3
  <2>3. i - LastRun = Place(n, ns)
    BY <1>2, <1>3, <2>1, <2>2
  <2>. QED BY <1>2, <1>3, <1>4, <2>2, <2>3 DEF Work, SearchId
<1>6. ASSUME NEW i \in RunId, fresh(i) PROVE new(i) \in Row
  <2>. DEFINE w == asked + (i - LastRun)
  <2>1. w \in Work
    BY <1>5, <1>6
  <2>. HIDE DEF w
  <2>2. [Absent EXCEPT !.work = w, !.kind = "asked", !.host = "runner", !.status = "queued"] \in Row
    BY <2>1, AbsentIsRow DEF Row, Kind, Host, Status
  <2>. QED BY <2>2 DEF w
<1>. HIDE DEF fresh, new
<1>7. runs' \in [RunId -> Row]
  BY <1>1, <1>6 DEF Typed
<1>8. asked' \in 0 .. MaxWorks
  BY <1>1, <1>2, <1>3, <1>4
<1>9. carries' \in [RunId -> SearchId \cup {NoSearch}]
  BY <1>1, <1>5 DEF Typed
<1>10. ASSUME NEW i \in RunId, Present(i)' PROVE carries'[i] \in SearchId
  <2>1. CASE fresh(i)
    BY <1>1, <1>5, <2>1
  <2>2. CASE ~fresh(i)
    <3>1. runs'[i] = runs[i] /\ carries'[i] = carries[i]
      BY <1>1, <2>2
    <3>. QED BY <1>10, <3>1 DEF Typed, Present
  <2>. QED BY <2>1, <2>2
<1>. QED BY <1>7, <1>8, <1>9, <1>10


-----------------------------------------------------------------------------
(* What a step makes of the search rows.  Either every row settles: a live *)
(* one stays what it is or is over, one that is over stays so ...          *)
Settles(row, next) ==
  /\ next.status \in LiveStates => row.status \in LiveStates /\ next.node = row.node
  /\ row.status \in TerminalStates =>
       next.status = "absent" \/ (next.status = row.status /\ next.stages = row.stages)
  /\ row.status = "absent" => next.status = "absent"

RowsSettle == \A k \in SearchId : Settles(searches[k], searches'[k])

(* ... or there are new ones, on nodes apart, and every other row is what  *)
(* it was but for the stages of one, k0.                                   *)
Adds(ns, k0) ==
  /\ \A k \in SearchId :
       IF Added(k, ns)
       THEN /\ searches[k].status = "absent" /\ k > LastSearch
            /\ searches'[k].status = "queued" /\ searches'[k].node \in ns
       ELSE /\ searches'[k].status = searches[k].status /\ searches'[k].node = searches[k].node
            /\ k # k0 => searches'[k].stages = searches[k].stages
  /\ \A j, k \in SearchId :
       /\ Added(j, ns) /\ Added(k, ns)
       /\ searches'[j].node = searches'[k].node
       => j = k

Alike(rows, k0) ==
  /\ rows \in [SearchId -> Search]
  /\ \A k \in SearchId :
       /\ rows[k].status = searches[k].status /\ rows[k].node = searches[k].node
       /\ k # k0 => rows[k].stages = searches[k].stages

LEMMA TasksAreAdded ==
  ASSUME Typed, NEW ns \in SUBSET Node, NEW stages \in [Node -> 0 .. MaxStages],
         NEW rows, NEW k0, Alike(rows, k0), QueueTasks(ns, stages, rows)
  PROVE  Adds(ns, k0)
<1>1. rows \in [SearchId -> Search]
  BY DEF Alike
<1>2. /\ \A k \in SearchId :
           IF Added(k, ns)
           THEN k > LastSearch /\ searches'[k].status = "queued" /\ searches'[k].node \in ns
           ELSE searches'[k] = rows[k]
      /\ \A j, k \in SearchId :
           /\ Added(j, ns) /\ Added(k, ns)
           /\ searches'[j].node = searches'[k].node
           => j = k
  BY <1>1, QueueTasksAdds
<1>3. ASSUME NEW k \in SearchId, k > LastSearch PROVE searches[k].status = "absent"
  <2>1. LastSearch \in Int /\ k \in Int
    BY LastIds, TasksAssumption DEF SearchId
  <2>2. ~(k <= LastSearch)
    BY <1>3, <2>1
  <2>. QED BY <2>2, LastIds
<1>. QED BY <1>2, <1>3 DEF Adds, Alike

LEMMA AlikeRows ==
  ASSUME Typed
  PROVE  /\ Alike(searches, NoSearch)
         /\ \A k \in SearchId : Alike([searches EXCEPT ![k].stages = 0], k)
<1>1. searches \in [SearchId -> Search]
  BY DEF Typed
<1>2. Alike(searches, NoSearch)
  BY <1>1 DEF Alike
<1>3. ASSUME NEW k \in SearchId PROVE Alike([searches EXCEPT ![k].stages = 0], k)
  <2>. DEFINE r == [searches[k] EXCEPT !.stages = 0]
              rows == [searches EXCEPT ![k] = r]
  <2>1. r \in Search /\ r.status = searches[k].status /\ r.node = searches[k].node
    BY <1>1, TasksAssumption DEF Search
  <2>2. rows = [searches EXCEPT ![k].stages = 0]
    OBVIOUS
  <2>. HIDE DEF r
  <2>3. rows \in [SearchId -> Search]
    BY <1>1, <2>1
  <2>4. \A j \in SearchId : rows[j] = IF j = k THEN r ELSE searches[j]
    BY <1>1
  <2>. HIDE DEF rows
  <2>5. Alike(rows, k)
    BY <2>1, <2>3, <2>4 DEF Alike
  <2>. QED BY <2>2, <2>5
<1>. QED BY <1>2, <1>3

LEMMA StagesForTyped ==
  ASSUME NEW n, NEW stages \in 0 .. MaxStages
  PROVE  StagesFor(n, stages) \in 0 .. MaxStages
<1>. DEFINE left == IF stages = 0 THEN 0 ELSE stages - 1
<1>1. left \in 0 .. MaxStages /\ left + 1 \in Nat /\ MaxStages \in Nat /\ MaxStages >= 1
  BY TasksAssumption
<1>. HIDE DEF left
<1>2. ASSUME NEW a \in Nat, NEW b \in Nat PROVE Min({a, b}) \in {a, b} /\ Min({a, b}) <= a /\ Min({a, b}) <= b
  <2>1. \E x \in {a, b} : \A y \in {a, b} : x <= y
    OBVIOUS
  <2>. QED BY <2>1 DEF Min
<1>3. Min({MaxStages, left + 1}) \in 0 .. MaxStages /\ Min({left, 1}) \in 0 .. MaxStages
  <2>1. /\ Min({MaxStages, left + 1}) \in {MaxStages, left + 1}
        /\ Min({MaxStages, left + 1}) <= MaxStages
    BY <1>1, <1>2
  <2>2. Min({left, 1}) \in {left, 1}
    BY <1>1, <1>2
  <2>. QED BY <1>1, <2>1, <2>2
<1>4. StagesFor(n, stages) \in {Min({MaxStages, left + 1}), Min({left, 1}), left}
  BY DEF StagesFor, left
<1>. QED BY <1>1, <1>3, <1>4


-----------------------------------------------------------------------------
(* Steps that settle rows.                                                 *)
LEMMA StatesApart ==
  /\ \A s \in LiveStates : s # "absent" /\ s \notin TerminalStates
  /\ \A s \in TerminalStates : s # "absent"
  /\ {"queued", "running"} \subseteq LiveStates /\ {"done", "stopped", "failed"} \subseteq TerminalStates
BY DEF LiveStates, TerminalStates

LEMMA RowsStay == searches' = searches => RowsSettle
BY StatesApart DEF RowsSettle, Settles

LEMMA StatusSettles ==
  ASSUME NEW row \in Search, row.status \in LiveStates, NEW s \in LiveStates \cup TerminalStates
  PROVE  [row EXCEPT !.status = s] \in Search /\ Settles(row, [row EXCEPT !.status = s])
<1>1. [row EXCEPT !.status = s] \in Search
  BY DEF Search
<1>2. /\ [row EXCEPT !.status = s].status = s
      /\ [row EXCEPT !.status = s].node = row.node
  BY DEF Search
<1>. QED BY <1>1, <1>2, StatesApart DEF Settles

LEMMA StoppedSettles ==
  ASSUME NEW row \in Search, row.status \in LiveStates
  PROVE  LET next == [row EXCEPT !.status = "stopped", !.run = NoRun] IN
           next \in Search /\ Settles(row, next)
<1>. DEFINE next == [row EXCEPT !.status = "stopped", !.run = NoRun]
<1>1. next \in Search /\ next.status = "stopped"
  BY DEF Search, LiveStates, TerminalStates, NoRun
<1>. HIDE DEF next
<1>2. next \in Search /\ Settles(row, next)
  BY <1>1, StatesApart DEF Settles
<1>. QED BY <1>2 DEF next

LEMMA OneRowSettles ==
  ASSUME Typed, NEW k \in SearchId, NEW next \in Search, Settles(searches[k], next),
         searches' = [searches EXCEPT ![k] = next]
  PROVE  searches' \in [SearchId -> Search] /\ RowsSettle
<1>1. \A j \in SearchId : Settles(searches[j], searches[j])
  BY StatesApart DEF Settles
<1>2. \A j \in SearchId : searches'[j] = IF j = k THEN next ELSE searches[j]
  BY DEF Typed
<1>3. RowsSettle
  BY <1>1, <1>2 DEF RowsSettle
<1>. QED BY <1>3 DEF Typed

LEMMA OneStatusSettles ==
  ASSUME Typed, NEW k \in SearchId, Live(k), NEW s \in LiveStates \cup TerminalStates,
         searches' = [searches EXCEPT ![k].status = s]
  PROVE  searches' \in [SearchId -> Search] /\ RowsSettle
<1>. DEFINE next == [searches[k] EXCEPT !.status = s]
<1>1. searches[k] \in Search /\ searches[k].status \in LiveStates
  BY DEF Typed, Live
<1>2. next \in Search /\ Settles(searches[k], next)
  BY <1>1, StatusSettles
<1>3. searches' = [searches EXCEPT ![k] = next]
  OBVIOUS
<1>. HIDE DEF next
<1>. QED BY <1>2, <1>3, OneRowSettles

LEMMA CancelSettles ==
  ASSUME Typed, NEW k \in SearchId, Cancel(k)
  PROVE  searches' \in [SearchId -> Search] /\ RowsSettle
<1>. DEFINE next == [searches[k] EXCEPT !.status = "stopped", !.run = NoRun]
<1>1. searches[k] \in Search /\ searches[k].status \in LiveStates
  BY DEF Typed, Live, Cancel
<1>2. next \in Search /\ Settles(searches[k], next)
  BY <1>1, StoppedSettles
<1>3. searches' = [searches EXCEPT ![k] = next]
  BY DEF Cancel
<1>. HIDE DEF next
<1>. QED BY <1>2, <1>3, OneRowSettles

LEMMA DeleteSettles ==
  ASSUME Typed, NEW n \in Node, DeleteNode(n)
  PROVE  searches' \in [SearchId -> Search] /\ RowsSettle
<1>1. NoRow \in Search /\ NoRow.status = "absent"
  BY TasksAssumption DEF NoRow, Search, Root, Node, NoRun
<1>2. \A k \in SearchId : Settles(searches[k], searches[k]) /\ Settles(searches[k], NoRow)
  BY <1>1, StatesApart DEF Settles
<1>3. \A k \in SearchId : searches'[k] = NoRow \/ searches'[k] = searches[k]
  BY DEF DeleteNode
<1>4. searches' \in [SearchId -> Search]
  BY <1>1 DEF DeleteNode, Typed
<1>. QED BY <1>2, <1>3, <1>4 DEF RowsSettle

LEMMA ReleaseSettles ==
  ASSUME Typed, ReleaseTasks
  PROVE  searches' \in [SearchId -> Search] /\ RowsSettle
<1>. DEFINE next(k) == [searches[k] EXCEPT !.status = "stopped", !.run = NoRun]
<1>1. ASSUME NEW k \in SearchId, Live(k) PROVE next(k) \in Search /\ Settles(searches[k], next(k))
  <2>1. searches[k] \in Search /\ searches[k].status \in LiveStates
    BY <1>1 DEF Typed, Live
  <2>. QED BY <2>1, StoppedSettles
<1>2. searches' = [k \in SearchId |->
         IF k \in clearing.searches /\ Live(k) THEN next(k) ELSE searches[k]]
  BY DEF ReleaseTasks
<1>. HIDE DEF next
<1>3. \A k \in SearchId : Settles(searches[k], searches[k])
  BY StatesApart DEF Settles
<1>4. searches' \in [SearchId -> Search]
  BY <1>1, <1>2 DEF Typed
<1>5. RowsSettle
  BY <1>1, <1>2, <1>3 DEF RowsSettle
<1>. QED BY <1>4, <1>5

(* The second commits that do not expand.                                  *)
LEMMA ReturnsSettle ==
  ASSUME Typed, NEW c \in calls, MarkTaskRunning(c) \/ RequeueTask(c) \/ FailTask(c) \/ Absorb(c)
  PROVE  searches' \in [SearchId -> Search] /\ RowsSettle
<1>. DEFINE k == c.search
<1>1. k \in SearchId
  BY DEF MarkTaskRunning, RequeueTask, FailTask, Absorb, Typed, CallTyped
<1>2. CASE searches' = searches
  BY <1>2, RowsStay DEF Typed
<1>3. ASSUME searches' # searches
      PROVE  \E s \in LiveStates \cup TerminalStates :
               Live(k) /\ searches' = [searches EXCEPT ![k].status = s]
  <2>1. CASE MarkTaskRunning(c)
    BY <1>3, <2>1, StatesApart DEF MarkTaskRunning, Live
  <2>2. CASE RequeueTask(c)
    BY <1>3, <2>2, StatesApart DEF RequeueTask, Live
  <2>3. CASE FailTask(c)
    BY <1>3, <2>3, StatesApart DEF FailTask
  <2>4. CASE Absorb(c)
    BY <1>3, <2>4, StatesApart DEF Absorb, Live
  <2>. QED BY <2>1, <2>2, <2>3, <2>4
<1>. HIDE DEF k
<1>4. CASE searches' # searches
  BY <1>1, <1>3, <1>4, OneStatusSettles
<1>. QED BY <1>2, <1>4


-----------------------------------------------------------------------------
(* Steps that do not expand: no run and no search they did not find, and   *)
(* no call to expand.                                                      *)
RunsKeep ==
  /\ runs' \in [RunId -> Row]
  /\ \A i \in RunId : Present(i)' => Present(i)

CallsKeep == \A c \in calls' : c \in calls \/ (CallTyped(c) /\ c.op # "expand")

LEMMA RunsStay == runs \in [RunId -> Row] /\ runs' = runs => RunsKeep
BY DEF RunsKeep, Present

LEMMA OneRunKeeps ==
  ASSUME runs \in [RunId -> Row], NEW i \in RunId, Present(i), NEW next \in Row,
         runs' = [runs EXCEPT ![i] = next]
  PROVE  RunsKeep
<1>1. \A j \in RunId : runs'[j] = IF j = i THEN next ELSE runs[j]
  OBVIOUS
<1>. QED BY <1>1 DEF RunsKeep, Present

LEMMA TablesKeep ==
  ASSUME runs \in [RunId -> Row]
  PROVE  /\ \A ids : Deleting(ids) => RunsKeep
         /\ \A hosts, kept : RequeueStaleRuns(hosts, kept) => RunsKeep
<1>1. ASSUME TableAges PROVE \A i \in RunId : Present(i)' => Present(i)
  BY <1>1 DEF TableAges, Ages, Present
<1>. QED BY <1>1, QueueOperators, QueueAges DEF RunsKeep

LEMMA CallShape ==
  ASSUME NEW k \in SearchId, NEW op, op \notin {"queue", "expand"}, NEW i
  PROVE  /\ CallTyped(Call(op, k)) /\ Call(op, k).op # "expand"
         /\ LET c == [Call(op, k) EXCEPT !.run = i] IN CallTyped(c) /\ c.op # "expand"
BY TasksAssumption DEF CallTyped, Call, Root, Node

LEMMA WordIsNoExpansion == \A s : Told(s) \notin {"queue", "expand"}
BY DEF Told

LEMMA PresentIsCarried ==
  ASSUME Typed, NEW i \in RunId, runs[i].status \in {"queued", "running"}
  PROVE  Present(i) /\ carries[i] \in SearchId /\ runs[i] \in Row
BY DEF Typed, Present

LEMMA HeldIsCarried ==
  ASSUME Typed, NEW a \in held, Holds(a)
  PROVE  /\ a.run \in RunId /\ Present(a.run) /\ carries[a.run] \in SearchId
         /\ runs[a.run] \in Row
<1>1. a.run \in RunId /\ runs[a.run].status = "running"
  BY DEF Typed, Holds
<1>. QED BY <1>1, PresentIsCarried

Keeps ==
  /\ RunsKeep /\ CallsKeep
  /\ \A a \in held' : a.run \in RunId
  /\ UNCHANGED <<carries, asked>> /\ tree' \subseteq Node

LEMMA ClaimKeeps == ASSUME Typed, Claim PROVE Keeps
<1>1. PICK i \in RunId :
        /\ IsNextRun(i, {"runner"})
        /\ runs' = [runs EXCEPT ![i] = Claimed(@, FreshToken)]
        /\ held' = held \cup {[run |-> i, token |-> FreshToken]}
        /\ calls' = calls \cup {[Call("mark", carries[i]) EXCEPT !.run = i]}
  BY DEF Claim
<1>2. FreshToken \in Token
  BY DEF Claim, FreshToken, FreshTokens
<1>3. Present(i) /\ carries[i] \in SearchId /\ runs[i] \in Row
  BY <1>1, PresentIsCarried DEF IsNextRun, Claimable
<1>. DEFINE next == Claimed(runs[i], FreshToken)
<1>4. next \in Row
  BY <1>2, <1>3, RowOperators
<1>5. runs' = [runs EXCEPT ![i] = next]
  BY <1>1
<1>. HIDE DEF next
<1>6. RunsKeep
  BY <1>3, <1>4, <1>5, OneRunKeeps DEF Typed
<1>. DEFINE c == [Call("mark", carries[i]) EXCEPT !.run = i]
<1>7. CallTyped(c) /\ c.op # "expand"
  BY <1>3, CallShape
<1>8. calls' = calls \cup {c}
  BY <1>1
<1>. HIDE DEF c
<1>9. CallsKeep
  BY <1>7, <1>8 DEF CallsKeep
<1>10. \A a \in held' : a.run \in RunId
  BY <1>1 DEF Typed
<1>11. UNCHANGED <<carries, asked>> /\ tree' \subseteq Node
  BY DEF Claim, Typed, treeVars
<1>. QED BY <1>6, <1>9, <1>10, <1>11 DEF Keeps

(* What the three ends of an attempt have in common.                       *)
LEMMA EndKeeps ==
  ASSUME Typed, NEW a \in held, held' = held \ {a}, UNCHANGED <<carries, asked, tree>>,
         NEW next, NEW c,
         Holds(a) => next \in Row /\ CallTyped(c) /\ c.op # "expand",
         IF Holds(a) THEN runs' = [runs EXCEPT ![a.run] = next] /\ calls' = calls \cup {c}
                     ELSE UNCHANGED <<runs, calls>>
  PROVE  Keeps
<1>1. CASE Holds(a)
  <2>1. a.run \in RunId /\ Present(a.run)
    BY <1>1, HeldIsCarried
  <2>2. RunsKeep
    BY <1>1, <2>1, OneRunKeeps DEF Typed
  <2>3. CallsKeep
    BY <1>1 DEF CallsKeep
  <2>. QED BY <2>2, <2>3 DEF Keeps, Typed
<1>2. CASE ~Holds(a)
  <2>1. runs' = runs /\ calls' = calls
    BY <1>2
  <2>2. RunsKeep
    BY <2>1, RunsStay DEF Typed
  <2>. QED BY <2>1, <2>2 DEF Keeps, CallsKeep, Typed
<1>. QED BY <1>1, <1>2

LEMMA CompleteKeeps == ASSUME Typed, NEW a \in held, Complete(a) PROVE Keeps
<1>. DEFINE next == Completed(runs[a.run], runs[a.run], runs[a.run].work)
            c == [Call("absorb", carries[a.run]) EXCEPT !.run = a.run]
<1>1. ASSUME Holds(a) PROVE next \in Row /\ CallTyped(c) /\ c.op # "expand"
  <2>1. carries[a.run] \in SearchId /\ runs[a.run] \in Row
    BY <1>1, HeldIsCarried
  <2>2. runs[a.run].work \in Work \cup {NoWork}
    BY <2>1 DEF Row
  <2>. QED BY <2>1, <2>2, RowOperators, CallShape
<1>2. /\ held' = held \ {a} /\ UNCHANGED <<carries, asked, tree>>
      /\ IF Holds(a) THEN runs' = [runs EXCEPT ![a.run] = next] /\ calls' = calls \cup {c}
                     ELSE UNCHANGED <<runs, calls>>
  BY DEF Complete, treeVars
<1>. HIDE DEF next, c
<1>. QED BY <1>1, <1>2, EndKeeps

LEMMA FailKeeps ==
  ASSUME Typed, NEW a \in held, NEW retry \in BOOLEAN, Fail(a, retry) PROVE Keeps
<1>. DEFINE next == FailedRow(runs[a.run], runs[a.run], retry)
            c == Call(Told(next.status), carries[a.run])
<1>1. ASSUME Holds(a) PROVE next \in Row /\ CallTyped(c) /\ c.op # "expand"
  <2>1. carries[a.run] \in SearchId /\ runs[a.run] \in Row
    BY <1>1, HeldIsCarried
  <2>2. next \in Row
    BY <2>1, RowOperators
  <2>. HIDE DEF next
  <2>. QED BY <2>1, <2>2, WordIsNoExpansion, CallShape
<1>2. /\ held' = held \ {a} /\ UNCHANGED <<carries, asked, tree>>
      /\ IF Holds(a) THEN runs' = [runs EXCEPT ![a.run] = next] /\ calls' = calls \cup {c}
                     ELSE UNCHANGED <<runs, calls>>
  BY DEF Fail, treeVars
<1>. HIDE DEF next, c
<1>. QED BY <1>1, <1>2, EndKeeps

LEMMA AbandonKeeps == ASSUME Typed, NEW a \in held, Abandon(a) PROVE Keeps
<1>. DEFINE next == Abandoned(runs[a.run], runs[a.run])
            c == Call("requeue", carries[a.run])
<1>1. ASSUME Holds(a) PROVE next \in Row /\ CallTyped(c) /\ c.op # "expand"
  <2>1. carries[a.run] \in SearchId /\ runs[a.run] \in Row
    BY <1>1, HeldIsCarried
  <2>. QED BY <2>1, RowOperators, CallShape
<1>2. /\ held' = held \ {a} /\ UNCHANGED <<carries, asked, tree>>
      /\ IF Holds(a) THEN runs' = [runs EXCEPT ![a.run] = next] /\ calls' = calls \cup {c}
                     ELSE UNCHANGED <<runs, calls>>
  BY DEF Abandon, treeVars
<1>. HIDE DEF next, c
<1>. QED BY <1>1, <1>2, EndKeeps

LEMMA SweepKeeps == ASSUME Typed, Sweep PROVE Keeps
<1>1. RunsKeep
  BY TablesKeep DEF Sweep, Typed
<1>2. ASSUME NEW i \in RunId, Stale(i)
      PROVE  /\ CallTyped(Call(Told(Collected(runs[i]).status), carries[i]))
             /\ Call(Told(Collected(runs[i]).status), carries[i]).op # "expand"
  <2>1. carries[i] \in SearchId
    BY <1>2, PresentIsCarried DEF Stale
  <2>. QED BY <2>1, WordIsNoExpansion, CallShape
<1>3. ASSUME NEW c \in calls', c \notin calls
      PROVE  \E i \in RunId : Stale(i) /\ c = Call(Told(Collected(runs[i]).status), carries[i])
  BY <1>3 DEF Sweep
<1>4. CallsKeep
  BY <1>2, <1>3 DEF CallsKeep
<1>5. UNCHANGED <<carries, asked, held, tree>>
  BY DEF Sweep, treeVars
<1>. QED BY <1>1, <1>4, <1>5 DEF Keeps, Typed


LEMMA OtherRunsKeep ==
  ASSUME Typed,
         \/ \E k \in SearchId : Cancel(k)
         \/ \E n \in Node : AddNode(n) \/ DeleteNode(n)
         \/ \E n \in Node, m \in Marks : MarkNode(n, m)
         \/ ClearSelects \/ ClearDeletes \/ ClearGivesUp \/ ReleaseTasks \/ FinishGame
         \/ \E a \in held : Vanish(a)
         \/ Crash \/ \E i \in RunId : GoQuiet(i)
  PROVE  Keeps
<1>1. ASSUME RunsKeep, calls' \subseteq calls, held' \subseteq held, UNCHANGED <<carries, asked>>,
             tree' \subseteq Node
      PROVE  Keeps
  BY <1>1 DEF Keeps, CallsKeep, Typed
<1>2. runs \in [RunId -> Row] /\ tree \subseteq Node
  BY DEF Typed
<1>3. ASSUME NEW k \in SearchId, Cancel(k) PROVE Keeps
  <2>1. RunsKeep
    BY <1>2, <1>3, TablesKeep DEF Cancel
  <2>. QED BY <1>1, <1>2, <1>3, <2>1 DEF Cancel, treeVars
<1>4. ASSUME NEW n \in Node, AddNode(n) PROVE Keeps
  <2>1. RunsKeep
    BY <1>2, <1>4, RunsStay DEF AddNode
  <2>. QED BY <1>1, <1>2, <1>4, <2>1 DEF AddNode
<1>5. ASSUME NEW n \in Node, DeleteNode(n) PROVE Keeps
  <2>1. RunsKeep
    BY <1>2, <1>5, RunsStay DEF DeleteNode
  <2>. QED BY <1>1, <1>2, <1>5, <2>1 DEF DeleteNode
<1>6. ASSUME NEW n \in Node, NEW m \in Marks, MarkNode(n, m) PROVE Keeps
  <2>1. RunsKeep
    BY <1>2, <1>6, RunsStay DEF MarkNode
  <2>. QED BY <1>1, <1>2, <1>6, <2>1 DEF MarkNode
<1>7. CASE ClearSelects \/ ClearGivesUp \/ ReleaseTasks
  <2>1. RunsKeep
    BY <1>2, <1>7, RunsStay DEF ClearSelects, ClearGivesUp, ReleaseTasks
  <2>. QED BY <1>1, <1>2, <1>7, <2>1 DEF ClearSelects, ClearGivesUp, ReleaseTasks, treeVars
<1>8. CASE ClearDeletes
  <2>1. RunsKeep
    BY <1>2, <1>8, TablesKeep DEF ClearDeletes, ClearQueue
  <2>. QED BY <1>1, <1>2, <1>8, <2>1 DEF ClearDeletes, ClearQueue, treeVars
<1>9. CASE FinishGame
  <2>1. RunsKeep
    BY <1>2, <1>9, RunsStay DEF FinishGame
  <2>. QED BY <1>1, <1>2, <1>9, <2>1 DEF FinishGame
<1>10. ASSUME NEW a \in held, Vanish(a) PROVE Keeps
  <2>1. RunsKeep
    BY <1>2, <1>10, RunsStay DEF Vanish
  <2>. QED BY <1>1, <1>2, <1>10, <2>1 DEF Vanish, treeVars
<1>11. CASE Crash
  <2>1. RunsKeep
    BY <1>2, <1>11, RunsStay DEF Crash
  <2>. QED BY <1>1, <1>2, <1>11, <2>1 DEF Crash, treeVars
<1>12. ASSUME NEW i \in RunId, GoQuiet(i) PROVE Keeps
  <2>. DEFINE next == [runs[i] EXCEPT !.quiet = TRUE]
  <2>1. runs[i] \in Row /\ Present(i)
    BY <1>2, <1>12 DEF GoQuiet, Present
  <2>2. next \in Row
    BY <2>1 DEF Row
  <2>3. runs' = [runs EXCEPT ![i] = next]
    BY <1>12 DEF GoQuiet
  <2>. HIDE DEF next
  <2>4. RunsKeep
    BY <1>2, <2>1, <2>2, <2>3, OneRunKeeps
  <2>. QED BY <1>1, <1>2, <1>12, <2>4 DEF GoQuiet, treeVars
<1>. QED BY <1>3, <1>4, <1>5, <1>6, <1>7, <1>8, <1>9, <1>10, <1>11, <1>12

-----------------------------------------------------------------------------
(* The steps of which one does not add rows, in full.  An expansion that is *)
(* new is one its task, live before and done now, is owed.                 *)
Wanted(c) ==
  /\ Live(c.search) /\ searches'[c.search].status = "done"
  /\ searches'[c.search].stages = c.stages

CallsOwe ==
  /\ \A c \in calls' : CallTyped(c) /\ (c.op = "expand" => c \in calls \/ Wanted(c))
  /\ \A b, c \in calls' \ calls : b.op = "expand" /\ c.op = "expand" => b = c

Settling ==
  /\ searches' \in [SearchId -> Search] /\ RowsSettle
  /\ RunsKeep /\ CallsOwe
  /\ \A a \in held' : a.run \in RunId
  /\ UNCHANGED <<carries, asked>> /\ tree' \subseteq Node

LEMMA KeepsSettles ==
  ASSUME Typed, Keeps, searches' \in [SearchId -> Search], RowsSettle
  PROVE  Settling
<1>1. CallsOwe
  BY DEF Keeps, CallsKeep, CallsOwe, Typed
<1>. QED BY <1>1 DEF Keeps, Settling

LEMMA WorkSettles ==
  ASSUME Typed,
         \/ \E k \in SearchId : Cancel(k)
         \/ \E n \in Node : AddNode(n) \/ DeleteNode(n)
         \/ \E n \in Node, m \in Marks : MarkNode(n, m)
         \/ ClearSelects \/ ClearDeletes \/ ClearGivesUp \/ ReleaseTasks \/ FinishGame
         \/ Claim \/ \E a \in held : Ends(a) \/ Abandon(a) \/ Vanish(a)
         \/ Sweep \/ Crash \/ \E i \in RunId : GoQuiet(i)
  PROVE  Settling
<1>1. CASE Claim \/ (\E a \in held : Ends(a) \/ Abandon(a)) \/ Sweep
  <2>1. Keeps
    BY <1>1, ClaimKeeps, CompleteKeeps, FailKeeps, AbandonKeeps, SweepKeeps DEF Ends
  <2>2. searches' = searches
    BY <1>1 DEF Claim, Ends, Complete, Fail, Abandon, Sweep
  <2>. QED BY <2>1, <2>2, RowsStay, KeepsSettles DEF Typed
<1>2. CASE \/ \E n \in Node : AddNode(n)
           \/ \E n \in Node, m \in Marks : MarkNode(n, m)
           \/ ClearSelects \/ ClearDeletes \/ ClearGivesUp \/ FinishGame
           \/ \E a \in held : Vanish(a)
           \/ Crash \/ \E i \in RunId : GoQuiet(i)
  <2>1. Keeps
    BY <1>2, OtherRunsKeep
  <2>2. searches' = searches
    BY <1>2 DEF AddNode, MarkNode, ClearSelects, ClearDeletes, ClearGivesUp, FinishGame, Vanish,
                Crash, GoQuiet
  <2>. QED BY <2>1, <2>2, RowsStay, KeepsSettles DEF Typed
<1>3. CASE (\E k \in SearchId : Cancel(k)) \/ (\E n \in Node : DeleteNode(n)) \/ ReleaseTasks
  <2>1. Keeps
    BY <1>3, OtherRunsKeep
  <2>2. searches' \in [SearchId -> Search] /\ RowsSettle
    BY <1>3, CancelSettles, DeleteSettles, ReleaseSettles
  <2>. QED BY <2>1, <2>2, KeepsSettles
<1>. QED BY <1>1, <1>2, <1>3

LEMMA AbsorbSettles == ASSUME Typed, NEW c \in calls, Absorb(c) PROVE Settling
<1>. DEFINE k == c.search
            row == searches[k]
            new == [Call("expand", c.search) EXCEPT !.node = row.node, !.stages = row.stages]
<1>1. k \in SearchId /\ row \in Search
  BY DEF Typed, CallTyped, Absorb
<1>2. searches' \in [SearchId -> Search] /\ RowsSettle
  BY ReturnsSettle
<1>3. RunsKeep /\ UNCHANGED <<carries, asked, held, tree>>
  BY RunsStay DEF Absorb, Typed
<1>4. \/ calls' = calls \ {c}
      \/ /\ row.status \in LiveStates
         /\ searches' = [searches EXCEPT ![k].status = "done"]
         /\ calls' = (calls \ {c}) \cup {new}
  BY DEF Absorb
<1>5. CASE calls' = calls \ {c}
  BY <1>2, <1>3, <1>5 DEF Settling, CallsOwe, Typed
<1>6. CASE /\ row.status \in LiveStates
           /\ searches' = [searches EXCEPT ![k].status = "done"]
           /\ calls' = (calls \ {c}) \cup {new}
  <2>1. new.op = "expand" /\ new.search = k /\ new.node = row.node /\ new.stages = row.stages
    BY DEF Call
  <2>2. CallTyped(new)
    BY <1>1, <2>1 DEF CallTyped, Search
  <2>3. searches'[k].status = "done" /\ searches'[k].stages = row.stages
    BY <1>1, <1>6 DEF Typed, Search
  <2>. HIDE DEF new
  <2>4. Wanted(new)
    BY <1>6, <2>1, <2>3 DEF Wanted, Live
  <2>5. CallsOwe
    BY <1>6, <2>2, <2>4 DEF CallsOwe, Typed
  <2>. QED BY <1>2, <1>3, <2>5 DEF Settling, Typed
<1>. QED BY <1>4, <1>5, <1>6

LEMMA ReturnsSettling ==
  ASSUME Typed, NEW c \in calls, MarkTaskRunning(c) \/ RequeueTask(c) \/ FailTask(c)
  PROVE  Settling
<1>1. searches' \in [SearchId -> Search] /\ RowsSettle
  BY ReturnsSettle
<1>2. /\ calls' = calls \ {c} /\ UNCHANGED <<runs, carries, asked, held, tree>>
  BY DEF MarkTaskRunning, RequeueTask, FailTask, treeVars
<1>3. RunsKeep
  BY <1>2, RunsStay DEF Typed
<1>. QED BY <1>1, <1>2, <1>3 DEF Settling, CallsOwe, Typed


-----------------------------------------------------------------------------
(* The steps that add rows.                                                *)
RowsFor(k0) == IF k0 = NoSearch THEN searches ELSE [searches EXCEPT ![k0].stages = 0]

Free(ns) == \A n \in ns : ~Busy(n)

Queueing(ns, k0) ==
  /\ \E stages \in [Node -> 0 .. MaxStages] : QueueTasks(ns, stages, RowsFor(k0))
  /\ "gap" \notin Faults => open /\ Free(ns)
  /\ tree \subseteq tree' /\ tree' \subseteq Node /\ ns \subseteq tree'
  /\ held' = held /\ clearing' = clearing
  /\ calls' \subseteq calls /\ \A c \in calls \ calls' : c.op \in {"queue", "expand"}
  /\ k0 # NoSearch => \E b \in calls : b.op = "expand" /\ b.search = k0 /\ calls' = calls \ {b}

Adding == \E ns \in SUBSET Node, k0 \in SearchId \cup {NoSearch} : Queueing(ns, k0)

LEMMA ZeroIsNoSearch == NoSearch \notin SearchId
BY TasksAssumption DEF NoSearch, SearchId

LEMMA MayQueueFree == \A n : MayQueue(n) => open /\ ~Busy(n)
BY DEF MayQueue

LEMMA StagesTyped ==
  /\ [m \in Node |-> 0] \in [Node -> 0 .. MaxStages]
  /\ \A s \in 0 .. MaxStages : [m \in Node |-> s] \in [Node -> 0 .. MaxStages]
  /\ \A s \in 0 .. MaxStages : [m \in Node |-> StagesFor(m, s)] \in [Node -> 0 .. MaxStages]
BY StagesForTyped, TasksAssumption

LEMMA ExpandFromAdds ==
  ASSUME Typed, NEW n, NEW s \in 0 .. MaxStages, NEW rows, ExpandFrom(n, s, rows)
  PROVE  /\ \E ns \in SUBSET Node, stages \in [Node -> 0 .. MaxStages] :
              QueueTasks(ns, stages, rows) /\ Free(ns) /\ ns \subseteq tree'
         /\ tree \subseteq tree' /\ tree' \subseteq Node
<1>. DEFINE wanted == {m \in Children(n) : m \notin tree \/ mark[m] # "excluded"}
            ns == {m \in wanted : MayQueue(m)}
            stages == [m \in Node |-> StagesFor(m, s)]
<1>1. wanted \subseteq Node
  BY DEF Children
<1>2. tree' = tree \cup wanted /\ QueueTasks(ns, stages, rows)
  BY DEF ExpandFrom
<1>3. stages \in [Node -> 0 .. MaxStages]
  BY StagesTyped
<1>4. ns \in SUBSET Node /\ Free(ns) /\ ns \subseteq wanted
  BY <1>1, MayQueueFree DEF Free
<1>. HIDE DEF wanted, ns, stages
<1>5. tree \subseteq tree' /\ tree' \subseteq Node /\ ns \subseteq tree'
  BY <1>1, <1>2, <1>4 DEF Typed
<1>. QED BY <1>2, <1>3, <1>4, <1>5

LEMMA QueueTaskStep ==
  ASSUME Typed, NEW n \in Node, QueueTask(n) PROVE Settling \/ Adding
<1>1. CASE "gap" \in Faults
  <2>. DEFINE c == [Call("queue", NoSearch) EXCEPT !.node = n]
  <2>1. calls' = calls \cup {c} /\ UNCHANGED <<runs, asked, carries, searches, tree, held>>
    BY <1>1 DEF QueueTask, treeVars
  <2>2. CallTyped(c) /\ c.op # "expand"
    BY <1>1, TasksAssumption DEF CallTyped, Call
  <2>. HIDE DEF c
  <2>3. Keeps
    BY <2>1, <2>2, RunsStay DEF Keeps, CallsKeep, Typed
  <2>. QED BY <2>1, <2>3, RowsStay, KeepsSettles DEF Typed
<1>2. CASE "gap" \notin Faults
  <2>1. QueueTasks({n}, [m \in Node |-> 0], searches)
    BY <1>2 DEF QueueTask
  <2>2. calls' = calls /\ held' = held /\ clearing' = clearing /\ tree' = tree /\ n \in tree
    BY <1>2 DEF QueueTask, treeVars
  <2>3. open /\ Free({n})
    BY MayQueueFree DEF QueueTask, Free
  <2>4. Queueing({n}, NoSearch)
    <3>1. \E stages \in [Node -> 0 .. MaxStages] : QueueTasks({n}, stages, RowsFor(NoSearch))
      BY <2>1, StagesTyped DEF RowsFor
    <3>. QED BY <2>2, <2>3, <3>1 DEF Queueing, Typed
  <2>. QED BY <2>4 DEF Adding
<1>. QED BY <1>1, <1>2

LEMMA QueueCommitsStep ==
  ASSUME Typed, NEW c \in calls, QueueCommits(c) PROVE Settling \/ Adding
<1>1. /\ calls' = calls \ {c} /\ c.op = "queue"
      /\ held' = held /\ clearing' = clearing /\ tree' = tree
      /\ "gap" \in Faults /\ c.node \in Node
  BY DEF QueueCommits, treeVars, Typed, CallTyped
<1>2. CASE c.node \in tree /\ QueueTasks({c.node}, [m \in Node |-> 0], searches)
  <2>1. \E stages \in [Node -> 0 .. MaxStages] : QueueTasks({c.node}, stages, RowsFor(NoSearch))
    BY <1>2, StagesTyped DEF RowsFor
  <2>2. Queueing({c.node}, NoSearch)
    BY <1>1, <1>2, <2>1 DEF Queueing, Typed
  <2>. QED BY <1>1, <2>2 DEF Adding
<1>3. CASE UNCHANGED <<runs, paused, asked, carries, searches>>
  <2>1. Keeps
    BY <1>1, <1>3, RunsStay DEF Keeps, CallsKeep, Typed
  <2>. QED BY <1>3, <2>1, RowsStay, KeepsSettles DEF Typed
<1>. QED BY <1>2, <1>3 DEF QueueCommits

LEMMA ExpandStep ==
  ASSUME Typed, NEW n \in Node, NEW s \in 1 .. MaxStages, Expand(n, s) PROVE Adding
<1>1. s \in 0 .. MaxStages
  BY TasksAssumption
<1>2. open /\ calls' = calls /\ held' = held /\ clearing' = clearing
  BY DEF Expand
<1>3. /\ tree \subseteq tree' /\ tree' \subseteq Node
      /\ \E ns \in SUBSET Node, stages \in [Node -> 0 .. MaxStages] :
           QueueTasks(ns, stages, searches) /\ Free(ns) /\ ns \subseteq tree'
  <2>1. CASE n \in verdict
    <3>1. ExpandFrom(n, s, searches)
      BY <2>1 DEF Expand
    <3>. QED BY <1>1, <3>1, ExpandFromAdds
  <2>2. CASE n \notin verdict
    <3>1. QueueTasks({n}, [m \in Node |-> s], searches)
      BY <2>2 DEF Expand
    <3>2. Free({n}) /\ tree' = tree /\ n \in tree
      BY <2>2, MayQueueFree DEF Expand, Free, treeVars
    <3>. QED BY <1>1, <3>1, <3>2, StagesTyped DEF Typed
  <2>. QED BY <2>1, <2>2
<1>4. PICK ns \in SUBSET Node, stages \in [Node -> 0 .. MaxStages] :
        QueueTasks(ns, stages, searches) /\ Free(ns) /\ ns \subseteq tree'
  BY <1>3
<1>5. Queueing(ns, NoSearch)
  <2>1. RowsFor(NoSearch) = searches
    BY DEF RowsFor
  <2>2. \E st \in [Node -> 0 .. MaxStages] : QueueTasks(ns, st, RowsFor(NoSearch))
    BY <1>4, <2>1
  <2>. QED BY <1>2, <1>3, <1>4, <2>2 DEF Queueing
<1>. QED BY <1>5 DEF Adding

LEMMA RefreshStep ==
  ASSUME Typed, NEW n \in Node, NEW stale \in SUBSET Node, Refresh(n, stale) PROVE Adding
<1>1. /\ QueueTasks(stale, [m \in Node |-> 0], searches)
      /\ open /\ Free(stale) /\ stale \subseteq tree
      /\ tree' = tree /\ held' = held /\ calls' = calls /\ clearing' = clearing
  BY DEF Refresh, Free, Under, treeVars
<1>2. \E stages \in [Node -> 0 .. MaxStages] : QueueTasks(stale, stages, RowsFor(NoSearch))
  BY <1>1, StagesTyped DEF RowsFor
<1>3. Queueing(stale, NoSearch)
  BY <1>1, <1>2 DEF Queueing, Typed
<1>. QED BY <1>3 DEF Adding

LEMMA ExpandAfterStep ==
  ASSUME Typed, NEW c \in calls, ExpandAfter(c)
  PROVE  Adding \/ (Settling /\ UNCHANGED <<runs, carries, searches, tree>>)
<1>1. /\ c.op = "expand" /\ c.search \in SearchId /\ c.stages \in 0 .. MaxStages
      /\ calls' = calls \ {c} /\ held' = held /\ clearing' = clearing
  BY DEF ExpandAfter, Typed, CallTyped
<1>2. CASE open /\ ExpandFrom(c.node, c.stages, [searches EXCEPT ![c.search].stages = 0])
  <2>. DEFINE rows == [searches EXCEPT ![c.search].stages = 0]
  <2>1. rows = RowsFor(c.search)
    BY <1>1, ZeroIsNoSearch DEF RowsFor
  <2>2. ExpandFrom(c.node, c.stages, rows)
    BY <1>2
  <2>. HIDE DEF rows
  <2>3. PICK ns \in SUBSET Node :
          /\ \E stages \in [Node -> 0 .. MaxStages] : QueueTasks(ns, stages, rows)
          /\ Free(ns) /\ ns \subseteq tree'
    BY <1>1, <2>2, ExpandFromAdds
  <2>4. tree \subseteq tree' /\ tree' \subseteq Node
    BY <1>1, <2>2, ExpandFromAdds
  <2>5. Queueing(ns, c.search)
    BY <1>1, <1>2, <2>1, <2>3, <2>4 DEF Queueing
  <2>. QED BY <1>1, <2>5 DEF Adding
<1>3. CASE UNCHANGED <<runs, paused, asked, carries, searches, treeVars>>
  <2>1. Keeps
    BY <1>1, <1>3, RunsStay DEF Keeps, CallsKeep, Typed, treeVars
  <2>2. Settling
    BY <1>3, <2>1, RowsStay, KeepsSettles DEF Typed
  <2>. QED BY <1>3, <2>2 DEF treeVars
<1>. QED BY <1>2, <1>3 DEF ExpandAfter

(* Every step of the system is of one kind or the other.                   *)
LEMMA StepKinds == ASSUME Typed, Next PROVE Settling \/ Adding
<1>1. ASSUME NEW c \in calls, Returns(c) PROVE Settling \/ Adding
  BY <1>1, ReturnsSettling, AbsorbSettles, ExpandAfterStep, QueueCommitsStep DEF Returns
<1>2. ASSUME NEW n \in Node, QueueTask(n) PROVE Settling \/ Adding
  BY <1>2, QueueTaskStep
<1>3. ASSUME NEW n \in Node, NEW s \in 1 .. MaxStages, Expand(n, s) PROVE Adding
  BY <1>3, ExpandStep
<1>4. ASSUME NEW n \in Node, NEW stale \in SUBSET Node, Refresh(n, stale) PROVE Adding
  BY <1>4, RefreshStep
<1>5. CASE \/ \E k \in SearchId : Cancel(k)
           \/ \E n \in Node : AddNode(n) \/ DeleteNode(n)
           \/ \E n \in Node, m \in Marks : MarkNode(n, m)
           \/ ClearSelects \/ ClearDeletes \/ ClearGivesUp \/ ReleaseTasks \/ FinishGame
           \/ Claim \/ \E a \in held : Ends(a) \/ Abandon(a) \/ Vanish(a)
           \/ Sweep \/ Crash \/ \E i \in RunId : GoQuiet(i)
  BY <1>5, WorkSettles
<1>. QED BY <1>1, <1>2, <1>3, <1>4, <1>5, Zenon DEF Next


-----------------------------------------------------------------------------
(* The shape is kept.                                                      *)
LEMMA AddingRows ==
  ASSUME Typed, NEW ns \in SUBSET Node, NEW k0 \in SearchId \cup {NoSearch}, Queueing(ns, k0)
  PROVE  /\ Adds(ns, k0) /\ searches' \in [SearchId -> Search]
         /\ runs' \in [RunId -> Row] /\ asked' \in 0 .. MaxWorks
         /\ carries' \in [RunId -> SearchId \cup {NoSearch}]
         /\ \A i \in RunId : Present(i)' => carries'[i] \in SearchId
<1>1. PICK stages \in [Node -> 0 .. MaxStages] : QueueTasks(ns, stages, RowsFor(k0))
  BY DEF Queueing
<1>2. Alike(RowsFor(k0), k0)
  BY AlikeRows DEF RowsFor
<1>3. RowsFor(k0) \in [SearchId -> Search]
  BY <1>2 DEF Alike
<1>. QED BY <1>1, <1>2, <1>3, TasksAreAdded, QueueTasksAdds, QueueTasksCarries

LEMMA TypedInit == Init => Typed
<1>. SUFFICES ASSUME Init PROVE Typed
  OBVIOUS
<1>1. NoRow \in Search
  BY TasksAssumption DEF NoRow, Search, Root, Node, NoRun
<1>2. \A i \in RunId : ~Present(i)
  BY DEF Init, QueueInit, Present, Absent
<1>3. tree \subseteq Node
  BY TasksAssumption DEF Init, Root, Node
<1>. QED BY <1>1, <1>2, <1>3, AbsentIsRow, QueueAssumption DEF Init, QueueInit, Typed

LEMMA TypedStep == Typed /\ [Next]_vars => Typed'
<1>. SUFFICES ASSUME Typed, [Next]_vars PROVE Typed'
  OBVIOUS
<1>1. CASE Settling
  <2>1. \A i \in RunId : Present(i)' => carries'[i] \in SearchId
    BY <1>1 DEF Settling, RunsKeep, Typed
  <2>2. \A c \in calls' : CallTyped(c)
    BY <1>1 DEF Settling, CallsOwe
  <2>3. /\ runs' \in [RunId -> Row] /\ asked' \in 0 .. MaxWorks
        /\ carries' \in [RunId -> SearchId \cup {NoSearch}]
    BY <1>1 DEF Settling, RunsKeep, Typed
  <2>. QED BY <1>1, <2>1, <2>2, <2>3 DEF Settling, Typed, CallTyped
<1>2. CASE Adding
  <2>1. PICK ns \in SUBSET Node, k0 \in SearchId \cup {NoSearch} : Queueing(ns, k0)
    BY <1>2 DEF Adding
  <2>2. tree' \subseteq Node /\ held' = held /\ calls' \subseteq calls
    BY <2>1 DEF Queueing
  <2>3. \A c \in calls' : CallTyped(c)
    BY <2>2 DEF Typed
  <2>. QED BY <2>1, <2>2, <2>3, AddingRows DEF Typed, CallTyped
<1>3. CASE UNCHANGED vars
  BY <1>3 DEF Typed, CallTyped, vars, treeVars, Present
<1>. QED BY <1>1, <1>2, <1>3, StepKinds

(* Every run there is carries a task's id, every call under way and every  *)
(* attempt held speaks of an id a row can have, and the tree stays within  *)
(* its nodes, under every fault (queue_task, clear_queue, delete_node and  *)
(* finish_run's second call).                                              *)
THEOREM ShapeHolds == Spec => []Typed
BY TypedInit, TypedStep, PTL DEF Spec

-----------------------------------------------------------------------------
(* At most one live task on a node, for every tree, unless another call    *)
(* comes between queue_task's look for one and its insert: new tasks are   *)
(* on nodes apart that have none, and a row is never live again.           *)
THEOREM OneTaskPerNode ==
  ASSUME "gap" \notin Faults
  PROVE  Spec => []OneLiveTaskPerNode
<1>1. Init => OneLiveTaskPerNode
  BY DEF Init, OneLiveTaskPerNode, Live, NoRow, LiveStates
<1>2. ASSUME Typed, OneLiveTaskPerNode, [Next]_vars PROVE OneLiveTaskPerNode'
  <2>1. CASE Settling
    <3>1. \A k \in SearchId : Live(k)' => Live(k) /\ searches'[k].node = searches[k].node
      BY <2>1 DEF Settling, RowsSettle, Settles, Live
    <3>. QED BY <1>2, <3>1 DEF OneLiveTaskPerNode
  <2>2. CASE Adding
    <3>1. PICK ns \in SUBSET Node, k0 \in SearchId \cup {NoSearch} : Queueing(ns, k0)
      BY <2>2 DEF Adding
    <3>2. Adds(ns, k0)
      BY <1>2, <3>1, AddingRows
    <3>3. \A n \in ns : ~Busy(n)
      BY <3>1 DEF Queueing, Free
    <3>4. ASSUME NEW k \in SearchId, ~Added(k, ns), Live(k)'
          PROVE  Live(k) /\ searches'[k].node = searches[k].node
      BY <3>2, <3>4 DEF Adds, Live
    <3>5. ASSUME NEW j \in SearchId, NEW k \in SearchId, Added(j, ns), ~Added(k, ns), Live(k)'
          PROVE  searches'[j].node # searches'[k].node
      <4>1. searches'[j].node \in ns
        BY <3>2, <3>5 DEF Adds
      <4>2. Busy(searches'[k].node)
        BY <3>4, <3>5 DEF Busy
      <4>. QED BY <3>3, <4>1, <4>2
    <3>6. ASSUME NEW j \in SearchId, NEW k \in SearchId, Live(j)', Live(k)',
                 searches'[j].node = searches'[k].node
          PROVE  j = k
      <4>1. CASE Added(j, ns) /\ Added(k, ns)
        BY <3>2, <3>6, <4>1 DEF Adds
      <4>2. CASE ~Added(j, ns) /\ ~Added(k, ns)
        BY <1>2, <3>4, <3>6, <4>2 DEF OneLiveTaskPerNode
      <4>. QED BY <3>5, <3>6, <4>1, <4>2
    <3>. QED BY <3>6 DEF OneLiveTaskPerNode
  <2>3. CASE UNCHANGED vars
    BY <1>2, <2>3 DEF OneLiveTaskPerNode, Live, vars
  <2>. QED BY <1>2, <2>1, <2>2, <2>3, StepKinds
<1>. QED BY <1>1, <1>2, ShapeHolds, PTL DEF Spec

-----------------------------------------------------------------------------
(* A task that is over stays as it ended until its branch is deleted, under *)
(* every fault there is: no late answer, sweep, clear or new id changes it. *)
THEOREM EndedStays == Spec => EndedTaskStaysEnded
<1>. DEFINE Ended == \A k \in DOMAIN searches : searches[k].status \in TerminalStates =>
                       searches'[k].status \in {searches[k].status, "absent"}
<1>1. ASSUME Typed, [Next]_vars PROVE [Ended]_vars
  <2>0. DOMAIN searches = SearchId
    BY <1>1 DEF Typed
  <2>1. CASE Settling
    BY <2>0, <2>1 DEF Settling, RowsSettle, Settles
  <2>2. CASE Adding
    <3>1. PICK ns \in SUBSET Node, k0 \in SearchId \cup {NoSearch} : Queueing(ns, k0)
      BY <2>2 DEF Adding
    <3>2. Adds(ns, k0)
      BY <1>1, <3>1, AddingRows
    <3>. QED BY <2>0, <3>2, StatesApart DEF Adds
  <2>3. CASE UNCHANGED vars
    BY <2>3
  <2>. QED BY <1>1, <2>1, <2>2, <2>3, StepKinds
<1>. QED BY <1>1, ShapeHolds, PTL DEF Spec, EndedTaskStaysEnded

-----------------------------------------------------------------------------
(* Of the expansions under way no two are one task's.                      *)
OneExpansion ==
  \A b, c \in calls : b.op = "expand" /\ c.op = "expand" /\ b.search = c.search => b = c

Expansions == ExpandsWhatIsOwed /\ OneExpansion

LEMMA SettlingExpands ==
  ASSUME Typed, Expansions, Settling PROVE Expansions'
<1>1. ASSUME NEW c \in calls, c.op = "expand"
      PROVE  /\ c.search \in SearchId /\ ~Live(c.search)
             /\ \/ searches'[c.search].status = "absent"
                \/ /\ searches'[c.search].status = "done"
                   /\ searches'[c.search].stages = c.stages
  <2>1. c.search \in SearchId
    BY <1>1 DEF Typed, CallTyped
  <2>2. Settles(searches[c.search], searches'[c.search])
    BY <2>1 DEF Settling, RowsSettle
  <2>3. \/ searches[c.search].status = "absent"
        \/ searches[c.search].status = "done" /\ searches[c.search].stages = c.stages
    BY <1>1 DEF Expansions, ExpandsWhatIsOwed
  <2>. QED BY <2>1, <2>2, <2>3, StatesApart DEF Settles, Live
<1>2. ASSUME NEW c \in calls', c.op = "expand" PROVE c \in calls \/ Wanted(c)
  BY <1>2 DEF Settling, CallsOwe
<1>3. ExpandsWhatIsOwed'
  BY <1>1, <1>2 DEF ExpandsWhatIsOwed, Wanted
<1>4. ASSUME NEW b \in calls', NEW c \in calls', b.op = "expand", c.op = "expand",
             b.search = c.search
      PROVE  b = c
  <2>1. CASE b \in calls /\ c \in calls
    BY <1>4, <2>1 DEF Expansions, OneExpansion
  <2>2. CASE b \notin calls /\ c \notin calls
    BY <1>4, <2>2 DEF Settling, CallsOwe
  <2>3. CASE b \in calls /\ c \notin calls
    BY <1>1, <1>2, <1>4, <2>3 DEF Wanted
  <2>4. CASE b \notin calls /\ c \in calls
    BY <1>1, <1>2, <1>4, <2>4 DEF Wanted
  <2>. QED BY <2>1, <2>2, <2>3, <2>4
<1>5. OneExpansion'
  BY <1>4 DEF OneExpansion
<1>. QED BY <1>3, <1>5 DEF Expansions

LEMMA AddingExpands ==
  ASSUME "reuse" \notin Faults, Typed, Expansions, NEW ns \in SUBSET Node,
         NEW k0 \in SearchId \cup {NoSearch}, Queueing(ns, k0)
  PROVE  Expansions'
<1>1. Adds(ns, k0) /\ calls' \subseteq calls
  BY AddingRows DEF Queueing
<1>2. ASSUME NEW c \in calls', c.op = "expand"
      PROVE  /\ c \in calls /\ c.search \in SearchId /\ ~Added(c.search, ns)
             /\ c.search # k0
  <2>1. c \in calls /\ c.search \in SearchId
    BY <1>1, <1>2 DEF Typed, CallTyped
  <2>2. PICK stages \in [Node -> 0 .. MaxStages] : QueueTasks(ns, stages, RowsFor(k0))
    BY DEF Queueing
  <2>3. c.search <= LastSearch /\ LastSearch \in Nat
    BY <2>1, <2>2, RoomForTasks
  <2>4. ~(c.search > LastSearch)
    BY <2>1, <2>3, TasksAssumption DEF SearchId
  <2>5. ~Added(c.search, ns)
    BY <1>1, <2>1, <2>4 DEF Adds
  <2>6. ASSUME c.search = k0 PROVE FALSE
    <3>1. k0 # NoSearch
      BY <2>1, <2>6, ZeroIsNoSearch
    <3>2. PICK b \in calls : b.op = "expand" /\ b.search = k0 /\ calls' = calls \ {b}
      BY <3>1 DEF Queueing
    <3>3. b = c
      BY <1>2, <2>1, <2>6, <3>2 DEF Expansions, OneExpansion
    <3>. QED BY <1>2, <3>2, <3>3
  <2>. QED BY <2>1, <2>5, <2>6
<1>3. ASSUME NEW c \in calls', c.op = "expand"
      PROVE  \/ searches'[c.search].status = "absent"
             \/ searches'[c.search].status = "done" /\ searches'[c.search].stages = c.stages
  <2>1. /\ searches'[c.search].status = searches[c.search].status
        /\ searches'[c.search].stages = searches[c.search].stages
    BY <1>1, <1>2, <1>3 DEF Adds
  <2>. QED BY <1>2, <1>3, <2>1 DEF Expansions, ExpandsWhatIsOwed
<1>4. OneExpansion'
  BY <1>1 DEF Expansions, OneExpansion
<1>. QED BY <1>3, <1>4 DEF Expansions, ExpandsWhatIsOwed

(* Only a task that was absorbed while it was wanted expands its node, and *)
(* once, for every tree and whatever crashes, clears and deletions come    *)
(* between, as long as no request takes the id of a row somebody still     *)
(* speaks of.                                                              *)
THEOREM ExpansionsAreOwed ==
  ASSUME "reuse" \notin Faults
  PROVE  Spec => []ExpandsWhatIsOwed
<1>1. Init => Expansions
  BY DEF Init, Expansions, ExpandsWhatIsOwed, OneExpansion
<1>2. ASSUME Typed, Expansions, [Next]_vars PROVE Expansions'
  <2>1. CASE Settling
    BY <1>2, <2>1, SettlingExpands
  <2>2. CASE Adding
    BY <1>2, <2>2, AddingExpands DEF Adding
  <2>3. CASE UNCHANGED vars
    BY <1>2, <2>3 DEF Expansions, ExpandsWhatIsOwed, OneExpansion, vars
  <2>. QED BY <1>2, <2>1, <2>2, <2>3, StepKinds
<1>3. Expansions => ExpandsWhatIsOwed
  BY DEF Expansions
<1>. QED BY <1>1, <1>2, <1>3, ShapeHolds, PTL DEF Spec


-----------------------------------------------------------------------------
(* The tree of a finished game takes no node and no task, unless the game  *)
(* ends between queue_task's look at it and its insert.                    *)
LEMMA OpenTreeGrows == ASSUME Typed, Next PROVE open \/ tree' \subseteq tree
<1>1. ASSUME NEW c \in calls, Returns(c) PROVE open \/ tree' = tree
  BY <1>1 DEF Returns, MarkTaskRunning, RequeueTask, FailTask, Absorb, ExpandAfter, QueueCommits,
              treeVars
<1>2. ASSUME NEW n \in Node, QueueTask(n) \/ AddNode(n) \/ DeleteNode(n)
      PROVE  open \/ tree' = tree
  BY <1>2 DEF QueueTask, AddNode, DeleteNode, treeVars
<1>3. ASSUME NEW n \in Node, NEW s \in 1 .. MaxStages, Expand(n, s) PROVE open
  BY <1>3 DEF Expand
<1>4. ASSUME NEW n \in Node, NEW stale \in SUBSET Node, Refresh(n, stale) PROVE open
  BY <1>4 DEF Refresh
<1>5. CASE \/ \E k \in SearchId : Cancel(k)
           \/ \E n \in Node, m \in Marks : MarkNode(n, m)
           \/ ClearSelects \/ ClearDeletes \/ ClearGivesUp \/ ReleaseTasks \/ FinishGame
           \/ Claim \/ \E a \in held : Ends(a) \/ Abandon(a) \/ Vanish(a)
           \/ Sweep \/ Crash \/ \E i \in RunId : GoQuiet(i)
  <2>1. tree' = tree
    BY <1>5 DEF Cancel, MarkNode, ClearSelects, ClearDeletes, ClearGivesUp, ReleaseTasks, FinishGame,
                Claim, Ends, Complete, Fail, Abandon, Vanish, Sweep, Crash, GoQuiet, treeVars
  <2>. QED BY <2>1, Zenon
<1>. QED BY <1>1, <1>2, <1>3, <1>4, <1>5, Zenon DEF Next

(* A finished game's tree grows no node and gets no live task again,       *)
(* unless another call comes between two statements of one (queue_task,    *)
(* expand_node, _expand_from and add_node all look at the game first).     *)
THEOREM FinishedTreeStaysClosed ==
  ASSUME "gap" \notin Faults
  PROVE  Spec => FinishedTreeIsClosed
<1>. DEFINE Closed == ~open => tree' \subseteq tree /\ \A k \in DOMAIN searches : Live(k)' => Live(k)
<1>1. ASSUME Typed, [Next]_vars PROVE [Closed]_vars
  <2>0. DOMAIN searches = SearchId
    BY <1>1 DEF Typed
  <2>1. CASE Next
    <3>1. ~open => tree' \subseteq tree
      BY <1>1, <2>1, OpenTreeGrows
    <3>2. Adding => open
      BY DEF Adding, Queueing
    <3>3. Settling => \A k \in SearchId : Live(k)' => Live(k)
      BY DEF Settling, RowsSettle, Settles, Live
    <3>4. ~open => Settling
      BY <1>1, <2>1, <3>2, StepKinds
    <3>5. ~open => \A k \in SearchId : Live(k)' => Live(k)
      BY <3>3, <3>4
    <3>. QED BY <2>0, <3>1, <3>5
  <2>. QED BY <1>1, <2>1
<1>. QED BY <1>1, ShapeHolds, PTL DEF Spec, FinishedTreeIsClosed

-----------------------------------------------------------------------------
(* The two tables.  Who is still owed word, by what the word will be: that  *)
(* the run failed, that its answer is in, that it is queued again, and that *)
(* the clear deleted it.                                                    *)
OwedFailure == {k \in SearchId : \E c \in calls : c.op = "fail" /\ c.search = k}
OwedAnswer == {k \in SearchId : \E c \in calls : c.op = "absorb" /\ c.search = k}
OwedRequeue == {k \in SearchId : \E c \in calls : c.op = "requeue" /\ c.search = k}
OwedRelease == {k \in SearchId : clearing.stage = "deleted" /\ k \in clearing.searches}

(* A live task has a run that names it; it is owed word of that run's end   *)
(* exactly when the run has ended, and shows a run that waits as running    *)
(* only while word of that is on its way.                                   *)
TaskInHand(k) ==
  LET i == searches[k].run IN
    /\ i \in RunId /\ carries[i] = k /\ searches[k].node \in tree
    /\ k \in OwedFailure <=> runs[i].status = "failed"
    /\ k \in OwedAnswer <=> runs[i].status = "done"
    /\ k \in OwedRelease <=> runs[i].status = "absent"
    /\ runs[i].status = "queued" /\ searches[k].status = "running" => k \in OwedRequeue

TasksInHand == \A k \in SearchId : Live(k) => TaskInHand(k)

(* A run that waits or is worked on is a live task's.                       *)
Alive(i) == runs[i].status \in {"queued", "running"}

RunsInHand ==
  \A i \in RunId : Alive(i) => Live(carries[i]) /\ searches[carries[i]].run = i

(* As long as a claim has not told its task, its attempt is held.           *)
MarkInHand(c) ==
  /\ c.run \in RunId /\ carries[c.run] = c.search
  /\ runs[c.run].status = "running" /\ ~runs[c.run].quiet
  /\ \E a \in held : a.run = c.run /\ Holds(a)

MarksInHand == \A c \in calls : c.op = "mark" => MarkInHand(c)

InHand == TasksInHand /\ RunsInHand /\ MarksInHand /\ clearing.stage \in {"no", "deleted"}

(* No second commit is lost, nothing comes between two statements of one    *)
(* call, and no id is used again that somebody still speaks of.             *)
Smooth == Faults \cap {"crash", "gap", "reuse"} = {}

LEMMA InHandAgrees == ASSUME Typed, InHand PROVE TablesAgree
<1>1. ASSUME NEW k \in SearchId, Live(k)
      PROVE  /\ Carried(k) \/ Owed(k)
             /\ searches[k].status = "running" =>
                  runs[searches[k].run].status = "running" \/ Owed(k)
  <2>. DEFINE i == searches[k].run
  <2>1. /\ i \in RunId /\ carries[i] = k
        /\ runs[i].status = "failed" => k \in OwedFailure
        /\ runs[i].status = "done" => k \in OwedAnswer
        /\ runs[i].status = "absent" => k \in OwedRelease
        /\ runs[i].status = "queued" /\ searches[k].status = "running" => k \in OwedRequeue
    BY <1>1 DEF InHand, TasksInHand, TaskInHand
  <2>2. runs[i].status \in Status
    BY <2>1 DEF Typed, Row
  <2>3. k \in OwedFailure \/ k \in OwedAnswer \/ k \in OwedRequeue \/ k \in OwedRelease => Owed(k)
    BY DEF OwedFailure, OwedAnswer, OwedRequeue, OwedRelease, Owed
  <2>4. i # NoRun
    BY <2>1, QueueAssumption DEF RunId, NoRun
  <2>. HIDE DEF i
  <2>5. \/ runs[i].status \in {"queued", "running"} \/ Owed(k)
    BY <2>1, <2>2, <2>3 DEF Status
  <2>6. Carried(k) \/ Owed(k)
    BY <2>1, <2>4, <2>5 DEF Carried, i
  <2>7. searches[k].status = "running" => runs[i].status = "running" \/ Owed(k)
    BY <2>1, <2>2, <2>3 DEF Status
  <2>. QED BY <2>6, <2>7 DEF i
<1>2. LiveTaskIsCarried
  BY <1>1 DEF LiveTaskIsCarried
<1>3. RunningTaskIsRun
  BY <1>1, StatesApart DEF RunningTaskIsRun, Live
<1>4. LiveRunHasTask
  <2>1. ASSUME NEW i \in RunId, Alive(i)
        PROVE  /\ carries[i] # NoSearch /\ Live(carries[i]) /\ searches[carries[i]].run = i
               /\ searches[carries[i]].node \in tree
    <3>1. carries[i] \in SearchId
      BY <2>1, PresentIsCarried DEF Alive
    <3>2. Live(carries[i]) /\ searches[carries[i]].run = i
      BY <2>1 DEF InHand, RunsInHand
    <3>. QED BY <3>1, <3>2, ZeroIsNoSearch DEF InHand, TasksInHand, TaskInHand
  <2>. QED BY <2>1 DEF LiveRunHasTask, Alive
<1>. QED BY <1>2, <1>3, <1>4 DEF TablesAgree

(* What becomes of what is owed when calls are added ...                    *)
LEMMA WordsAdded ==
  ASSUME NEW news, calls' = calls \cup news, clearing' = clearing
  PROVE  /\ \A k \in SearchId :
              /\ k \in OwedFailure' <=>
                   k \in OwedFailure \/ \E c \in news : c.op = "fail" /\ c.search = k
              /\ k \in OwedAnswer' <=>
                   k \in OwedAnswer \/ \E c \in news : c.op = "absorb" /\ c.search = k
              /\ k \in OwedRequeue' <=>
                   k \in OwedRequeue \/ \E c \in news : c.op = "requeue" /\ c.search = k
         /\ OwedRelease' = OwedRelease
<1>1. ASSUME NEW k \in SearchId
      PROVE  k \in OwedFailure' <=>
               k \in OwedFailure \/ \E c \in news : c.op = "fail" /\ c.search = k
  BY DEF OwedFailure
<1>2. ASSUME NEW k \in SearchId
      PROVE  k \in OwedAnswer' <=>
               k \in OwedAnswer \/ \E c \in news : c.op = "absorb" /\ c.search = k
  BY DEF OwedAnswer
<1>3. ASSUME NEW k \in SearchId
      PROVE  k \in OwedRequeue' <=>
               k \in OwedRequeue \/ \E c \in news : c.op = "requeue" /\ c.search = k
  BY DEF OwedRequeue
<1>4. OwedRelease' = OwedRelease
  BY DEF OwedRelease
<1>. QED BY <1>1, <1>2, <1>3, <1>4

LEMMA WordAdded ==
  ASSUME NEW c, calls' = calls \cup {c}, clearing' = clearing
  PROVE  /\ \A k \in SearchId :
              /\ k \in OwedFailure' <=> k \in OwedFailure \/ (c.op = "fail" /\ c.search = k)
              /\ k \in OwedAnswer' <=> k \in OwedAnswer \/ (c.op = "absorb" /\ c.search = k)
              /\ k \in OwedRequeue' <=> k \in OwedRequeue \/ (c.op = "requeue" /\ c.search = k)
         /\ OwedRelease' = OwedRelease
<1>. DEFINE news == {c}
<1>1. calls' = calls \cup news /\ \A d : d \in news <=> d = c
  OBVIOUS
<1>. HIDE DEF news
<1>. QED BY <1>1, WordsAdded

(* ... and when one returns.                                                *)
LEMMA WordReturns ==
  ASSUME NEW c, clearing' = clearing,
         \A d \in calls : d = c \/ d \in calls',
         \A d \in calls' : d \in calls \/ d.op = "expand"
  PROVE  /\ OwedFailure' \subseteq OwedFailure /\ OwedAnswer' \subseteq OwedAnswer
         /\ OwedRequeue' \subseteq OwedRequeue /\ OwedRelease' = OwedRelease
         /\ \A k \in SearchId :
              /\ k \in OwedFailure => k \in OwedFailure' \/ (c.op = "fail" /\ c.search = k)
              /\ k \in OwedAnswer => k \in OwedAnswer' \/ (c.op = "absorb" /\ c.search = k)
              /\ k \in OwedRequeue => k \in OwedRequeue' \/ (c.op = "requeue" /\ c.search = k)
<1>1. OwedFailure' \subseteq OwedFailure
  BY DEF OwedFailure
<1>2. OwedAnswer' \subseteq OwedAnswer
  BY DEF OwedAnswer
<1>3. OwedRequeue' \subseteq OwedRequeue
  BY DEF OwedRequeue
<1>4. OwedRelease' = OwedRelease
  BY DEF OwedRelease
<1>5. ASSUME NEW k \in SearchId, k \in OwedFailure
      PROVE  k \in OwedFailure' \/ (c.op = "fail" /\ c.search = k)
  BY <1>5 DEF OwedFailure
<1>6. ASSUME NEW k \in SearchId, k \in OwedAnswer
      PROVE  k \in OwedAnswer' \/ (c.op = "absorb" /\ c.search = k)
  BY <1>6 DEF OwedAnswer
<1>7. ASSUME NEW k \in SearchId, k \in OwedRequeue
      PROVE  k \in OwedRequeue' \/ (c.op = "requeue" /\ c.search = k)
  BY <1>7 DEF OwedRequeue
<1>. QED BY <1>1, <1>2, <1>3, <1>4, <1>5, <1>6, <1>7

(* Steps at the runs of I: each was alive, and word of what becomes of it   *)
(* is on its way to its task.                                               *)
RunsMove(I) ==
  /\ UNCHANGED <<carries, searches, tree>>
  /\ \A i \in RunId \ I : runs'[i].status = runs[i].status
  /\ \A i \in I :
       /\ Alive(i)
       /\ runs'[i].status = "failed" => carries[i] \in OwedFailure'
       /\ runs'[i].status = "done" => carries[i] \in OwedAnswer'
       /\ runs'[i].status = "absent" => carries[i] \in OwedRelease'
       /\ runs'[i].status = "queued" /\ runs[i].status = "running" => carries[i] \in OwedRequeue'
       /\ runs'[i].status = "queued" => runs[i].status = "running"
  /\ OwedFailure \subseteq OwedFailure' /\ OwedAnswer \subseteq OwedAnswer'
  /\ OwedRequeue \subseteq OwedRequeue' /\ OwedRelease \subseteq OwedRelease'
  /\ \A k \in SearchId :
       /\ k \in OwedFailure' =>
            k \in OwedFailure \/ \E i \in I : carries[i] = k /\ runs'[i].status = "failed"
       /\ k \in OwedAnswer' =>
            k \in OwedAnswer \/ \E i \in I : carries[i] = k /\ runs'[i].status = "done"
       /\ k \in OwedRelease' =>
            k \in OwedRelease \/ \E i \in I : carries[i] = k /\ runs'[i].status = "absent"

LEMMA RunsMoveInHand ==
  ASSUME Typed, TasksInHand, RunsInHand, NEW I \in SUBSET RunId, RunsMove(I)
  PROVE  TasksInHand' /\ RunsInHand'
<1>1. ASSUME NEW k \in SearchId, Live(k)' PROVE TaskInHand(k)'
  <2>. DEFINE i == searches[k].run
  <2>1. Live(k) /\ searches'[k] = searches[k] /\ carries' = carries /\ tree' = tree
    BY <1>1 DEF RunsMove, Live
  <2>2. TaskInHand(k)
    BY <2>1 DEF TasksInHand
  <2>3. i \in RunId /\ carries[i] = k /\ searches[k].node \in tree
    BY <2>2 DEF TaskInHand
  <2>4. ASSUME NEW j \in I, carries[j] = k PROVE j = i
    BY <2>4 DEF RunsInHand, RunsMove
  <2>. DEFINE was == runs[i].status
              is == runs'[i].status
  <2>5. /\ k \in OwedFailure <=> was = "failed"
        /\ k \in OwedAnswer <=> was = "done"
        /\ k \in OwedRelease <=> was = "absent"
        /\ was = "queued" /\ searches[k].status = "running" => k \in OwedRequeue
    BY <2>2 DEF TaskInHand
  <2>6. CASE i \in I
    <3>1. /\ was \in {"queued", "running"}
          /\ is = "failed" => k \in OwedFailure'
          /\ is = "done" => k \in OwedAnswer'
          /\ is = "absent" => k \in OwedRelease'
          /\ is = "queued" => k \in OwedRequeue'
      BY <2>3, <2>6 DEF RunsMove, Alive
    <3>2. k \notin OwedFailure /\ k \notin OwedAnswer /\ k \notin OwedRelease
      BY <2>5, <3>1
    <3>3. /\ k \in OwedFailure' => is = "failed"
          /\ k \in OwedAnswer' => is = "done"
          /\ k \in OwedRelease' => is = "absent"
      BY <2>4, <3>2 DEF RunsMove
    <3>. QED BY <2>1, <2>3, <3>1, <3>3 DEF TaskInHand
  <2>7. CASE i \notin I
    <3>1. is = was
      BY <2>3, <2>7 DEF RunsMove
    <3>2. ~\E j \in I : carries[j] = k
      BY <2>4, <2>7
    <3>3. /\ k \in OwedFailure' <=> k \in OwedFailure
          /\ k \in OwedAnswer' <=> k \in OwedAnswer
          /\ k \in OwedRelease' <=> k \in OwedRelease
          /\ k \in OwedRequeue => k \in OwedRequeue'
      BY <3>2 DEF RunsMove
    <3>. QED BY <2>1, <2>3, <2>5, <3>1, <3>3 DEF TaskInHand
  <2>. QED BY <2>6, <2>7
<1>2. ASSUME NEW i \in RunId, Alive(i)'
      PROVE  Live(carries[i])' /\ searches'[carries[i]].run = i
  <2>1. Alive(i)
    BY <1>2 DEF RunsMove, Alive
  <2>2. searches' = searches /\ carries' = carries
    BY DEF RunsMove
  <2>. QED BY <2>1, <2>2 DEF RunsInHand, Live
<1>3. carries' = carries
  BY DEF RunsMove
<1>. QED BY <1>1, <1>2, <1>3 DEF TasksInHand, RunsInHand

(* Steps at the search rows: what stays live stays as much in hand, and     *)
(* what does not leaves no run alive.                                       *)
RowsMove ==
  /\ carries' = carries
  /\ \A k \in SearchId : Live(k)' =>
       /\ Live(k) /\ searches'[k].run = searches[k].run /\ searches'[k].node \in tree'
       /\ runs'[searches[k].run].status = runs[searches[k].run].status
       /\ k \in OwedFailure' <=> k \in OwedFailure
       /\ k \in OwedAnswer' <=> k \in OwedAnswer
       /\ k \in OwedRelease' <=> k \in OwedRelease
       /\ runs[searches[k].run].status = "queued" /\ searches'[k].status = "running" =>
            searches[k].status = "running" /\ (k \in OwedRequeue => k \in OwedRequeue')
  /\ \A i \in RunId : Alive(i)' => Alive(i) /\ Live(carries[i])'

LEMMA RowsMoveInHand ==
  ASSUME Typed, TasksInHand, RunsInHand, RowsMove
  PROVE  TasksInHand' /\ RunsInHand'
<1>1. ASSUME NEW k \in SearchId, Live(k)' PROVE TaskInHand(k)'
  <2>. DEFINE i == searches[k].run
  <2>1. Live(k) /\ searches'[k].run = i /\ searches'[k].node \in tree' /\ carries' = carries
    BY <1>1 DEF RowsMove
  <2>2. TaskInHand(k)
    BY <2>1 DEF TasksInHand
  <2>3. /\ runs'[i].status = runs[i].status
        /\ k \in OwedFailure' <=> k \in OwedFailure
        /\ k \in OwedAnswer' <=> k \in OwedAnswer
        /\ k \in OwedRelease' <=> k \in OwedRelease
        /\ runs[i].status = "queued" /\ searches'[k].status = "running" =>
             searches[k].status = "running" /\ (k \in OwedRequeue => k \in OwedRequeue')
    BY <1>1 DEF RowsMove
  <2>. QED BY <2>1, <2>2, <2>3 DEF TaskInHand
<1>2. ASSUME NEW i \in RunId, Alive(i)'
      PROVE  Live(carries[i])' /\ searches'[carries[i]].run = i
  <2>1. Alive(i) /\ Live(carries[i])' /\ carries[i] \in SearchId
    BY <1>2, PresentIsCarried DEF RowsMove, Alive
  <2>2. searches[carries[i]].run = i /\ carries' = carries
    BY <2>1 DEF RunsInHand, RowsMove
  <2>3. searches'[carries[i]].run = searches[carries[i]].run
    BY <2>1, <2>2 DEF RowsMove, Live
  <2>. QED BY <2>1, <2>2, <2>3
<1>3. carries' = carries
  BY DEF RowsMove
<1>. QED BY <1>1, <1>2, <1>3 DEF TasksInHand, RunsInHand

LEMMA MarksStay ==
  ASSUME MarksInHand,
         \A c \in calls' : c.op = "mark" =>
           /\ c \in calls /\ runs'[c.run] = runs[c.run] /\ carries'[c.run] = carries[c.run]
           /\ \A a \in held : a.run = c.run => a \in held'
  PROVE  MarksInHand'
<1>1. ASSUME NEW c \in calls', c.op = "mark" PROVE MarkInHand(c)'
  <2>1. /\ c \in calls /\ runs'[c.run] = runs[c.run] /\ carries'[c.run] = carries[c.run]
        /\ \A a \in held : a.run = c.run => a \in held'
    BY <1>1
  <2>2. PICK a \in held : a.run = c.run /\ Holds(a)
    BY <1>1, <2>1 DEF MarksInHand, MarkInHand
  <2>3. a \in held' /\ Holds(a)'
    BY <2>1, <2>2 DEF Holds
  <2>. QED BY <1>1, <2>1, <2>2, <2>3 DEF MarksInHand, MarkInHand
<1>. QED BY <1>1 DEF MarksInHand

-----------------------------------------------------------------------------
(* The workers' steps.                                                      *)
LEMMA TokenStatus ==
  ASSUME NEW row \in Row, row.status = "running"
  PROVE  /\ \A work : Completed(row, row, work).status = "done"
         /\ \A retry : FailedRow(row, row, retry).status \in {"queued", "failed"}
         /\ Abandoned(row, row).status = "queued"
         /\ Collected(row).status \in {"queued", "failed"}
<1>1. \A work : Completed(row, row, work).status = "done"
  BY DEF Completed, Assigned, Row
<1>2. \A retry : FailedRow(row, row, retry).status \in {"queued", "failed"}
  BY DEF FailedRow, Assigned, Row
<1>3. Abandoned(row, row).status = "queued"
  BY DEF Abandoned, Assigned, Row
<1>4. Collected(row).status \in {"queued", "failed"}
  BY DEF Collected, Row
<1>. QED BY <1>1, <1>2, <1>3, <1>4

LEMMA ClaimedStatus ==
  ASSUME NEW row \in Row, NEW t
  PROVE  /\ Claimed(row, t).status = "running" /\ ~Claimed(row, t).quiet
         /\ Claimed(row, t).token = t
BY DEF Claimed, Row

LEMMA ClaimInHand == ASSUME Typed, InHand, Claim PROVE InHand'
<1>1. PICK i \in RunId :
        /\ runs[i].status = "queued"
        /\ runs' = [runs EXCEPT ![i] = Claimed(@, FreshToken)]
        /\ held' = held \cup {[run |-> i, token |-> FreshToken]}
        /\ calls' = calls \cup {[Call("mark", carries[i]) EXCEPT !.run = i]}
  BY DEF Claim, IsNextRun, Claimable
<1>2. UNCHANGED <<carries, searches, tree, clearing>>
  BY DEF Claim, treeVars
<1>3. PICK c : c.op = "mark" /\ c.run = i /\ c.search = carries[i] /\ calls' = calls \cup {c}
  <2>. DEFINE c == [Call("mark", carries[i]) EXCEPT !.run = i]
  <2>1. c.op = "mark" /\ c.run = i /\ c.search = carries[i]
    BY DEF Call
  <2>. QED BY <1>1, <2>1
<1>4. runs[i] \in Row
  BY DEF Typed
<1>5. /\ runs'[i].status = "running" /\ ~runs'[i].quiet /\ runs'[i].token = FreshToken
      /\ \A j \in RunId : j # i => runs'[j] = runs[j]
  BY <1>1, <1>4, ClaimedStatus DEF Typed
<1>6. PICK a : a.run = i /\ a.token = runs'[i].token /\ held' = held \cup {a}
  BY <1>1, <1>5
<1>8. RunsMove({i})
  <2>1. /\ OwedFailure' = OwedFailure /\ OwedAnswer' = OwedAnswer /\ OwedRequeue' = OwedRequeue
        /\ OwedRelease' = OwedRelease
    <3>1. calls' = calls \cup {c} /\ clearing' = clearing
      BY <1>2, <1>3
    <3>2. \A k \in SearchId :
            /\ k \in OwedFailure' <=> k \in OwedFailure
            /\ k \in OwedAnswer' <=> k \in OwedAnswer
            /\ k \in OwedRequeue' <=> k \in OwedRequeue
      BY <1>3, <3>1, WordAdded
    <3>3. /\ OwedFailure \cup OwedAnswer \cup OwedRequeue \subseteq SearchId
          /\ OwedFailure' \cup OwedAnswer' \cup OwedRequeue' \subseteq SearchId
      BY DEF OwedFailure, OwedAnswer, OwedRequeue
    <3>4. OwedRelease' = OwedRelease
      BY <3>1, WordAdded
    <3>. QED BY <3>2, <3>3, <3>4
  <2>. QED BY <1>1, <1>2, <1>5, <2>1 DEF RunsMove, Alive
<1>9. TasksInHand' /\ RunsInHand'
  BY <1>8, RunsMoveInHand DEF InHand
<1>10. ASSUME NEW d \in calls', d.op = "mark" PROVE MarkInHand(d)'
  <2>1. CASE d \in calls
    <3>1. PICK b \in held : b.run = d.run /\ Holds(b)
      BY <1>10, <2>1 DEF InHand, MarksInHand, MarkInHand
    <3>2. d.run \in RunId /\ carries[d.run] = d.search /\ runs[d.run].status = "running" /\ ~runs[d.run].quiet
      BY <1>10, <2>1 DEF InHand, MarksInHand, MarkInHand
    <3>3. runs'[d.run] = runs[d.run]
      BY <1>1, <1>5, <3>2
    <3>4. b \in held' /\ Holds(b)'
      BY <1>6, <3>1, <3>3 DEF Holds
    <3>. QED BY <1>2, <3>1, <3>2, <3>3, <3>4 DEF MarkInHand
  <2>2. CASE d = c
    <3>1. a \in held' /\ a.run = d.run /\ Holds(a)'
      BY <1>3, <1>5, <1>6, <2>2 DEF Holds
    <3>. QED BY <1>2, <1>3, <1>5, <2>2, <3>1 DEF MarkInHand
  <2>. QED BY <1>3, <1>10, <2>1, <2>2
<1>. QED BY <1>2, <1>9, <1>10 DEF InHand, MarksInHand

(* What the ends of an attempt have in common: the run's next state, and    *)
(* the word that goes with it.                                              *)
WordOf(op, status) ==
  \/ op = "absorb" /\ status = "done"
  \/ op = "fail" /\ status = "failed"
  \/ op = "requeue" /\ status = "queued"

LEMMA EndInHand ==
  ASSUME Typed, InHand, NEW a \in held, Working(a), held' = held \ {a},
         UNCHANGED <<carries, searches, tree, clearing>>,
         NEW next, NEW c,
         Holds(a) => WordOf(c.op, next.status) /\ c.search = carries[a.run],
         IF Holds(a) THEN runs' = [runs EXCEPT ![a.run] = next] /\ calls' = calls \cup {c}
                     ELSE UNCHANGED <<runs, calls>>
  PROVE  InHand'
<1>. DEFINE i == a.run
<1>0. i \in RunId
  BY DEF Typed
<1>1. \A d \in calls : d.op = "mark" => d.run # i
  BY DEF Working
<1>2. \A d \in calls : d.op = "mark" => d.run \in RunId
  BY DEF InHand, MarksInHand, MarkInHand
<1>3. CASE Holds(a)
  <2>1. /\ runs' = [runs EXCEPT ![i] = next] /\ calls' = calls \cup {c}
        /\ WordOf(c.op, next.status) /\ c.search = carries[i] /\ runs[i].status = "running"
    BY <1>3 DEF Holds
  <2>2. runs'[i] = next /\ \A j \in RunId : j # i => runs'[j] = runs[j]
    BY <1>0, <2>1 DEF Typed
  <2>. HIDE DEF i
  <2>3. \A k \in SearchId :
          /\ k \in OwedFailure' <=> k \in OwedFailure \/ (c.op = "fail" /\ c.search = k)
          /\ k \in OwedAnswer' <=> k \in OwedAnswer \/ (c.op = "absorb" /\ c.search = k)
          /\ k \in OwedRequeue' <=> k \in OwedRequeue \/ (c.op = "requeue" /\ c.search = k)
    BY <2>1, WordAdded
  <2>4. OwedRelease' = OwedRelease
    BY <2>1, WordAdded
  <2>5. /\ OwedFailure \subseteq OwedFailure' /\ OwedAnswer \subseteq OwedAnswer'
        /\ OwedRequeue \subseteq OwedRequeue'
    BY <2>3 DEF OwedFailure, OwedAnswer, OwedRequeue
  <2>6. carries[i] \in SearchId
    BY <1>0, <2>1, PresentIsCarried
  <2>7. RunsMove({i})
    BY <1>0, <2>1, <2>2, <2>3, <2>4, <2>5, <2>6 DEF RunsMove, Alive, WordOf
  <2>8. TasksInHand' /\ RunsInHand'
    BY <1>0, <2>7, RunsMoveInHand DEF InHand
  <2>9. MarksInHand'
    <3>1. c.op # "mark"
      BY <2>1 DEF WordOf
    <3>2. \A d \in calls' : d.op = "mark" => d \in calls
      BY <2>1, <3>1
    <3>3. \A d \in calls : d.op = "mark" => runs'[d.run] = runs[d.run] /\ d.run # a.run
      BY <1>1, <1>2, <2>2 DEF i
    <3>. QED BY <3>2, <3>3, MarksStay DEF InHand
  <2>. QED BY <2>8, <2>9 DEF InHand
<1>4. CASE ~Holds(a)
  <2>1. runs' = runs /\ calls' = calls
    BY <1>4
  <2>2. TasksInHand' /\ RunsInHand'
    BY <2>1 DEF InHand, TasksInHand, RunsInHand, TaskInHand, Alive, Live, OwedFailure, OwedAnswer,
                OwedRequeue, OwedRelease
  <2>3. MarksInHand'
    BY <1>1, <2>1, MarksStay DEF InHand
  <2>. QED BY <2>2, <2>3 DEF InHand
<1>. QED BY <1>3, <1>4

LEMMA HeldRow ==
  ASSUME Typed, NEW a \in held, Holds(a)
  PROVE  runs[a.run] \in Row /\ runs[a.run].status = "running"
BY HeldIsCarried DEF Holds

LEMMA CompleteInHand == ASSUME Typed, InHand, NEW a \in held, Complete(a) PROVE InHand'
<1>. DEFINE next == Completed(runs[a.run], runs[a.run], runs[a.run].work)
            c == [Call("absorb", carries[a.run]) EXCEPT !.run = a.run]
<1>1. Holds(a) => WordOf(c.op, next.status) /\ c.search = carries[a.run]
  BY HeldRow, TokenStatus DEF WordOf, Call
<1>2. /\ Working(a) /\ held' = held \ {a} /\ UNCHANGED <<carries, searches, tree, clearing>>
      /\ IF Holds(a) THEN runs' = [runs EXCEPT ![a.run] = next] /\ calls' = calls \cup {c}
                     ELSE UNCHANGED <<runs, calls>>
  BY DEF Complete, treeVars
<1>. HIDE DEF next, c
<1>. QED BY <1>1, <1>2, EndInHand

LEMMA FailInHand ==
  ASSUME Typed, InHand, NEW a \in held, NEW retry \in BOOLEAN, Fail(a, retry) PROVE InHand'
<1>. DEFINE next == FailedRow(runs[a.run], runs[a.run], retry)
            c == Call(Told(next.status), carries[a.run])
<1>1. Holds(a) => WordOf(c.op, next.status) /\ c.search = carries[a.run]
  <2>1. Holds(a) => next.status \in {"queued", "failed"}
    BY HeldRow, TokenStatus
  <2>. HIDE DEF next
  <2>. QED BY <2>1 DEF WordOf, Call, Told
<1>2. /\ Working(a) /\ held' = held \ {a} /\ UNCHANGED <<carries, searches, tree, clearing>>
      /\ IF Holds(a) THEN runs' = [runs EXCEPT ![a.run] = next] /\ calls' = calls \cup {c}
                     ELSE UNCHANGED <<runs, calls>>
  BY DEF Fail, treeVars
<1>. HIDE DEF next, c
<1>. QED BY <1>1, <1>2, EndInHand

LEMMA AbandonInHand == ASSUME Typed, InHand, NEW a \in held, Abandon(a) PROVE InHand'
<1>. DEFINE next == Abandoned(runs[a.run], runs[a.run])
            c == Call("requeue", carries[a.run])
<1>1. Holds(a) => WordOf(c.op, next.status) /\ c.search = carries[a.run]
  BY HeldRow, TokenStatus DEF WordOf, Call
<1>2. /\ Working(a) /\ held' = held \ {a} /\ UNCHANGED <<carries, searches, tree, clearing>>
      /\ IF Holds(a) THEN runs' = [runs EXCEPT ![a.run] = next] /\ calls' = calls \cup {c}
                     ELSE UNCHANGED <<runs, calls>>
  BY DEF Abandon, treeVars
<1>. HIDE DEF next, c
<1>. QED BY <1>1, <1>2, EndInHand

LEMMA SweepInHand == ASSUME Typed, InHand, Sweep PROVE InHand'
<1>. DEFINE I == {j \in RunId : Stale(j)}
            call(i) == Call(Told(Collected(runs[i]).status), carries[i])
            news == {call(i) : i \in I}
<1>1. UNCHANGED <<carries, searches, tree, held, clearing>> /\ calls' = calls \cup news
  BY DEF Sweep, treeVars
<1>2. ASSUME NEW i \in RunId
      PROVE  IF i \in I THEN runs'[i] = Collected(runs[i]) ELSE runs'[i] = runs[i]
  <2>1. runs'[i] = IF Stale(i) /\ runs[i].host \in Host /\ i \notin {} THEN Collected(runs[i])
                                                                      ELSE runs[i]
    BY DEF Sweep, RequeueStaleRuns
  <2>2. runs[i].host \in Host
    BY DEF Typed, Row
  <2>. QED BY <2>1, <2>2
<1>3. ASSUME NEW i \in I
      PROVE  /\ i \in RunId /\ runs[i].status = "running" /\ runs[i].quiet
             /\ runs'[i].status \in {"queued", "failed"}
             /\ call(i).op = Told(runs'[i].status) /\ call(i).search = carries[i]
             /\ carries[i] \in SearchId /\ call(i) \in news
  <2>1. i \in RunId /\ runs[i].status = "running" /\ runs[i].quiet /\ runs[i] \in Row
    BY DEF Stale, Typed
  <2>2. runs'[i] = Collected(runs[i])
    BY <1>2, <2>1
  <2>3. carries[i] \in SearchId
    BY <2>1, PresentIsCarried
  <2>. QED BY <2>1, <2>2, <2>3, TokenStatus DEF Call
<1>4. \A c \in news : \E i \in I : c = call(i)
  OBVIOUS
<1>5. ASSUME NEW i \in RunId, i \notin I PROVE runs'[i] = runs[i]
  BY <1>2, <1>5
<1>. HIDE DEF I, call, news
<1>6. /\ \A k \in SearchId :
           /\ k \in OwedFailure' <=> k \in OwedFailure \/ \E c \in news : c.op = "fail" /\ c.search = k
           /\ k \in OwedAnswer' <=> k \in OwedAnswer \/ \E c \in news : c.op = "absorb" /\ c.search = k
           /\ k \in OwedRequeue' <=>
                k \in OwedRequeue \/ \E c \in news : c.op = "requeue" /\ c.search = k
      /\ OwedRelease' = OwedRelease
  BY <1>1, WordsAdded
<1>7. \A c \in news : c.op \in {"fail", "requeue"}
  BY <1>3, <1>4 DEF Told
<1>8. RunsMove(I)
  <2>1. I \subseteq RunId
    BY <1>3
  <2>2. \A i \in RunId \ I : runs'[i].status = runs[i].status
    BY <1>5
  <2>3. ASSUME NEW i \in I
        PROVE  /\ Alive(i) /\ runs[i].status = "running"
               /\ runs'[i].status = "failed" => carries[i] \in OwedFailure'
               /\ runs'[i].status = "queued" => carries[i] \in OwedRequeue'
               /\ runs'[i].status \notin {"done", "absent"}
    BY <1>3, <1>6 DEF Alive, Told
  <2>4. /\ OwedFailure \subseteq OwedFailure' /\ OwedAnswer \subseteq OwedAnswer'
        /\ OwedRequeue \subseteq OwedRequeue' /\ OwedRelease \subseteq OwedRelease'
    BY <1>6 DEF OwedFailure, OwedAnswer, OwedRequeue
  <2>5. ASSUME NEW k \in SearchId
        PROVE  /\ k \in OwedFailure' =>
                    k \in OwedFailure \/ \E i \in I : carries[i] = k /\ runs'[i].status = "failed"
               /\ k \in OwedAnswer' => k \in OwedAnswer
    BY <1>3, <1>4, <1>6, <1>7 DEF Told
  <2>6. UNCHANGED <<carries, searches, tree>>
    BY <1>1
  <2>. QED BY <1>6, <2>1, <2>2, <2>3, <2>4, <2>5, <2>6 DEF RunsMove
<1>9. TasksInHand' /\ RunsInHand'
  <2>1. I \in SUBSET RunId
    BY <1>3
  <2>. QED BY <1>8, <2>1, RunsMoveInHand DEF InHand
<1>10. MarksInHand'
  <2>1. ASSUME NEW c \in calls', c.op = "mark"
        PROVE  c \in calls /\ runs'[c.run] = runs[c.run]
    <3>1. c \in calls
      BY <1>1, <1>7, <2>1
    <3>2. c.run \in RunId /\ ~runs[c.run].quiet
      BY <2>1, <3>1 DEF InHand, MarksInHand, MarkInHand
    <3>. QED BY <1>3, <1>5, <3>1, <3>2
  <2>. QED BY <1>1, <2>1, MarksStay DEF InHand
<1>. QED BY <1>1, <1>9, <1>10 DEF InHand

LEMMA GoQuietInHand == ASSUME Typed, InHand, NEW i \in RunId, GoQuiet(i) PROVE InHand'
<1>1. /\ UNCHANGED <<carries, searches, tree, held, calls, clearing>>
      /\ runs' = [runs EXCEPT ![i].quiet = TRUE]
      /\ ~\E a \in held : Holds(a) /\ a.run = i
  BY DEF GoQuiet, treeVars
<1>2. runs[i] \in Row /\ runs \in [RunId -> Row]
  BY DEF Typed
<1>3. /\ \A j \in RunId : runs'[j].status = runs[j].status
      /\ \A j \in RunId : j # i => runs'[j] = runs[j]
  BY <1>1, <1>2 DEF Row
<1>4. /\ OwedFailure' = OwedFailure /\ OwedAnswer' = OwedAnswer /\ OwedRequeue' = OwedRequeue
      /\ OwedRelease' = OwedRelease
  BY <1>1 DEF OwedFailure, OwedAnswer, OwedRequeue, OwedRelease
<1>5. RunsMove({})
  BY <1>1, <1>3, <1>4 DEF RunsMove
<1>6. TasksInHand' /\ RunsInHand'
  BY <1>5, RunsMoveInHand DEF InHand
<1>7. \A c \in calls : c.op = "mark" => c.run \in RunId /\ c.run # i
  BY <1>1 DEF InHand, MarksInHand, MarkInHand
<1>8. MarksInHand'
  BY <1>1, <1>3, <1>7, MarksStay DEF InHand
<1>. QED BY <1>1, <1>6, <1>8 DEF InHand

(* The clear, which reads and deletes in one where nothing comes between.   *)
LEMMA ClearInHand == ASSUME Smooth, Typed, InHand, ClearDeletes PROVE InHand'
<1>. DEFINE I == {i \in RunId : runs[i].status = "queued"}
<1>1. /\ clearing.stage = "no" /\ clearing' = [stage |-> "deleted", searches |-> QueuedTasks]
      /\ runs' = [i \in RunId |-> IF i \in I THEN Absent ELSE runs[i]]
      /\ UNCHANGED <<carries, searches, tree, held, calls>>
  BY DEF ClearDeletes, ClearQueue, Deleting, InHand, treeVars
<1>2. /\ clearing'.stage = "deleted"
      /\ \A k : k \in clearing'.searches <=> \E i \in I : carries[i] = k
  BY <1>1 DEF QueuedTasks
<1>3. /\ OwedFailure' = OwedFailure /\ OwedAnswer' = OwedAnswer /\ OwedRequeue' = OwedRequeue
  BY <1>1 DEF OwedFailure, OwedAnswer, OwedRequeue
<1>4. \A k \in SearchId : k \in OwedRelease' <=> \E i \in I : carries[i] = k
  BY <1>2 DEF OwedRelease
<1>5. OwedRelease = {}
  BY <1>1 DEF OwedRelease
<1>6. \A i \in RunId : IF i \in I THEN runs'[i].status = "absent" ELSE runs'[i] = runs[i]
  BY <1>1 DEF Absent
<1>7. \A i \in I : i \in RunId /\ runs[i].status = "queued" /\ carries[i] \in SearchId
  BY PresentIsCarried
<1>. HIDE DEF I
<1>8. RunsMove(I)
  <2>1. \A i \in I : Alive(i) /\ runs'[i].status = "absent" /\ carries[i] \in OwedRelease'
    BY <1>4, <1>6, <1>7 DEF Alive
  <2>2. \A i \in RunId \ I : runs'[i].status = runs[i].status
    BY <1>6
  <2>3. \A k \in SearchId : k \in OwedRelease' => \E i \in I : carries[i] = k /\ runs'[i].status = "absent"
    BY <1>4, <2>1
  <2>. QED BY <1>1, <1>3, <1>5, <2>1, <2>2, <2>3 DEF RunsMove
<1>9. TasksInHand' /\ RunsInHand'
  <2>1. I \in SUBSET RunId
    BY <1>7
  <2>. QED BY <1>8, <2>1, RunsMoveInHand DEF InHand
<1>10. MarksInHand'
  <2>1. \A c \in calls : c.op = "mark" => c.run \in RunId /\ runs[c.run].status = "running"
    BY DEF InHand, MarksInHand, MarkInHand
  <2>2. \A c \in calls : c.op = "mark" => runs'[c.run] = runs[c.run]
    BY <1>6, <1>7, <2>1
  <2>. QED BY <1>1, <2>2, MarksStay DEF InHand
<1>. QED BY <1>2, <1>9, <1>10 DEF InHand

-----------------------------------------------------------------------------
(* The steps at the search rows.                                            *)
LEMMA CancelInHand == ASSUME Typed, InHand, NEW k \in SearchId, Cancel(k) PROVE InHand'
<1>. DEFINE i == searches[k].run
<1>1. /\ Live(k) /\ (i # NoRun /\ Present(i) => runs[i].status = "queued")
      /\ runs' = [j \in RunId |-> IF j \in {i} THEN Absent ELSE runs[j]]
      /\ searches' = [searches EXCEPT ![k].status = "stopped", ![k].run = NoRun]
      /\ UNCHANGED <<tree, carries, held, calls, clearing>>
  BY DEF Cancel, Deleting, treeVars
<1>2. TaskInHand(k)
  BY <1>1 DEF InHand, TasksInHand
<1>3. i \in RunId /\ carries[i] = k /\ i # NoRun /\ runs[i].status \in {"absent", "queued"}
  <2>1. i \in RunId /\ carries[i] = k
    BY <1>2 DEF TaskInHand
  <2>. QED BY <1>1, <2>1, QueueAssumption DEF RunId, NoRun, Present
<1>4. /\ runs'[i].status = "absent"
      /\ \A j \in RunId : j # i => runs'[j] = runs[j]
  BY <1>1, <1>3 DEF Absent
<1>5. /\ \A h \in SearchId : h # k => searches'[h] = searches[h]
      /\ searches'[k].status = "stopped"
  BY <1>1 DEF Typed, Search
<1>. HIDE DEF i
<1>6. /\ OwedFailure' = OwedFailure /\ OwedAnswer' = OwedAnswer /\ OwedRequeue' = OwedRequeue
      /\ OwedRelease' = OwedRelease
  BY <1>1 DEF OwedFailure, OwedAnswer, OwedRequeue, OwedRelease
<1>7. ASSUME NEW h \in SearchId, Live(h)'
      PROVE  /\ Live(h) /\ searches'[h] = searches[h] /\ searches[h].node \in tree'
             /\ runs'[searches[h].run] = runs[searches[h].run]
  <2>1. h # k
    BY <1>5, <1>7, StatesApart DEF Live
  <2>2. Live(h) /\ searches'[h] = searches[h]
    BY <1>5, <1>7, <2>1 DEF Live
  <2>3. searches[h].run \in RunId /\ carries[searches[h].run] = h /\ searches[h].node \in tree
    BY <2>2 DEF InHand, TasksInHand, TaskInHand
  <2>. QED BY <1>1, <1>3, <1>4, <2>1, <2>2, <2>3
<1>8. ASSUME NEW j \in RunId, Alive(j)' PROVE Alive(j) /\ Live(carries[j])'
  <2>1. j # i /\ Alive(j)
    BY <1>4, <1>8 DEF Alive
  <2>2. carries[j] \in SearchId /\ Live(carries[j]) /\ searches[carries[j]].run = j
    BY <2>1, PresentIsCarried DEF InHand, RunsInHand, Alive
  <2>3. carries[j] # k
    BY <2>1, <2>2 DEF i
  <2>. QED BY <1>1, <1>5, <2>1, <2>2, <2>3 DEF Live
<1>9. RowsMove
  BY <1>1, <1>6, <1>7, <1>8 DEF RowsMove
<1>10. TasksInHand' /\ RunsInHand'
  BY <1>9, RowsMoveInHand DEF InHand
<1>11. MarksInHand'
  <2>1. \A c \in calls : c.op = "mark" => c.run \in RunId /\ runs[c.run].status = "running"
    BY DEF InHand, MarksInHand, MarkInHand
  <2>2. \A c \in calls : c.op = "mark" => runs'[c.run] = runs[c.run]
    BY <1>3, <1>4, <2>1
  <2>. QED BY <1>1, <2>2, MarksStay DEF InHand
<1>. QED BY <1>1, <1>10, <1>11 DEF InHand

LEMMA DeleteInHand == ASSUME Typed, InHand, NEW n \in Node, DeleteNode(n) PROVE InHand'
<1>1. /\ \A m \in Under(n) : ~Busy(m)
      /\ tree' = tree \ Under(n)
      /\ searches' = [k \in SearchId |-> IF searches[k].node \in Under(n) THEN NoRow ELSE searches[k]]
      /\ UNCHANGED <<runs, carries, held, calls, clearing>>
  BY DEF DeleteNode
<1>2. /\ OwedFailure' = OwedFailure /\ OwedAnswer' = OwedAnswer /\ OwedRequeue' = OwedRequeue
      /\ OwedRelease' = OwedRelease
  BY <1>1 DEF OwedFailure, OwedAnswer, OwedRequeue, OwedRelease
<1>3. ASSUME NEW k \in SearchId, Live(k)
      PROVE  searches'[k] = searches[k] /\ searches[k].node \in tree'
  <2>1. searches[k].node \in tree
    BY <1>3 DEF InHand, TasksInHand, TaskInHand
  <2>2. searches[k].node \notin Under(n)
    BY <1>1, <1>3 DEF Busy
  <2>. QED BY <1>1, <2>1, <2>2
<1>4. ASSUME NEW k \in SearchId, Live(k)' PROVE Live(k)
  <2>1. NoRow.status \notin LiveStates
    BY DEF NoRow, LiveStates
  <2>. QED BY <1>1, <1>4, <2>1 DEF Live
<1>5. ASSUME NEW j \in RunId, Alive(j)' PROVE Alive(j) /\ Live(carries[j])'
  <2>1. Alive(j)
    BY <1>1, <1>5 DEF Alive
  <2>2. carries[j] \in SearchId /\ Live(carries[j])
    BY <2>1, PresentIsCarried DEF InHand, RunsInHand, Alive
  <2>. QED BY <1>1, <1>3, <2>1, <2>2 DEF Live
<1>6. RowsMove
  BY <1>1, <1>2, <1>3, <1>4, <1>5 DEF RowsMove
<1>7. TasksInHand' /\ RunsInHand'
  BY <1>6, RowsMoveInHand DEF InHand
<1>8. MarksInHand'
  BY <1>1, MarksStay DEF InHand
<1>. QED BY <1>1, <1>7, <1>8 DEF InHand

LEMMA ReleaseInHand == ASSUME Typed, InHand, ReleaseTasks PROVE InHand'
<1>1. /\ clearing.stage = "deleted"
      /\ clearing' = [stage |-> "no", searches |-> {}]
      /\ searches' = [k \in SearchId |->
           IF k \in clearing.searches /\ Live(k)
           THEN [searches[k] EXCEPT !.status = "stopped", !.run = NoRun] ELSE searches[k]]
      /\ UNCHANGED <<runs, tree, carries, held, calls>>
  BY DEF ReleaseTasks, treeVars
<1>2. /\ OwedFailure' = OwedFailure /\ OwedAnswer' = OwedAnswer /\ OwedRequeue' = OwedRequeue
  BY <1>1 DEF OwedFailure, OwedAnswer, OwedRequeue
<1>3. OwedRelease' = {} /\ \A k \in SearchId : k \in OwedRelease <=> k \in clearing.searches
  BY <1>1 DEF OwedRelease
<1>4. ASSUME NEW k \in SearchId
      PROVE  /\ k \in OwedRelease /\ Live(k) => ~Live(k)'
             /\ ~(k \in OwedRelease /\ Live(k)) => searches'[k] = searches[k]
  <2>1. searches[k] \in Search
    BY DEF Typed
  <2>2. CASE k \in OwedRelease /\ Live(k)
    <3>1. searches'[k].status = "stopped"
      BY <1>1, <1>3, <2>1, <2>2 DEF Search
    <3>. QED BY <2>2, <3>1, StatesApart DEF Live
  <2>3. CASE ~(k \in OwedRelease /\ Live(k))
    BY <1>1, <1>3, <2>3
  <2>. QED BY <2>2, <2>3
<1>5. ASSUME NEW k \in SearchId, Live(k)'
      PROVE  Live(k) /\ k \notin OwedRelease /\ searches'[k] = searches[k] /\ searches[k].node \in tree
  <2>1. searches'[k] = searches[k]
    BY <1>4, <1>5
  <2>2. Live(k)
    BY <1>5, <2>1 DEF Live
  <2>. QED BY <1>4, <1>5, <2>1, <2>2 DEF InHand, TasksInHand, TaskInHand
<1>6. ASSUME NEW j \in RunId, Alive(j)' PROVE Alive(j) /\ Live(carries[j])'
  <2>1. Alive(j)
    BY <1>1, <1>6 DEF Alive
  <2>2. carries[j] \in SearchId /\ Live(carries[j]) /\ searches[carries[j]].run = j
    BY <2>1, PresentIsCarried DEF InHand, RunsInHand, Alive
  <2>3. carries[j] \notin OwedRelease
    BY <2>1, <2>2 DEF InHand, TasksInHand, TaskInHand, Alive
  <2>. QED BY <1>1, <1>4, <2>1, <2>2, <2>3 DEF Live
<1>7. RowsMove
  BY <1>1, <1>2, <1>3, <1>5, <1>6 DEF RowsMove
<1>8. TasksInHand' /\ RunsInHand'
  BY <1>7, RowsMoveInHand DEF InHand
<1>9. MarksInHand'
  BY <1>1, MarksStay DEF InHand
<1>. QED BY <1>1, <1>8, <1>9 DEF InHand

(* A second commit: what it makes of its task's row, and what is then no    *)
(* longer owed.                                                             *)
LEMMA ReturnInHand ==
  ASSUME Typed, InHand, NEW c \in calls, c.search \in SearchId,
         UNCHANGED <<runs, carries, tree, held, clearing>>,
         \A d \in calls : d = c \/ d \in calls',
         \A d \in calls' : d \in calls \/ d.op = "expand",
         \A k \in SearchId : k # c.search => searches'[k] = searches[k],
         LET row == searches[c.search]
             next == searches'[c.search] IN
           \/ next = row
           \/ /\ row.status \in LiveStates /\ next.run = row.run /\ next.node = row.node
              /\ \/ c.op = "mark" /\ next.status = "running"
                 \/ c.op = "requeue" /\ next.status = "queued"
                 \/ c.op \in {"fail", "absorb"} /\ next.status \notin LiveStates,
         c.op \in {"fail", "absorb"} => ~Live(c.search)',
         c.op = "requeue" => searches'[c.search].status # "running"
  PROVE  InHand'
<1>. DEFINE h == c.search
<1>1. \A d \in calls' : d.op = "mark" => d \in calls
  OBVIOUS
<1>2. MarksInHand'
  BY <1>1, MarksStay DEF InHand
<1>3. /\ OwedFailure' \subseteq OwedFailure /\ OwedAnswer' \subseteq OwedAnswer
      /\ OwedRequeue' \subseteq OwedRequeue /\ OwedRelease' = OwedRelease
      /\ \A k \in SearchId :
           /\ k \in OwedFailure => k \in OwedFailure' \/ (c.op = "fail" /\ c.search = k)
           /\ k \in OwedAnswer => k \in OwedAnswer' \/ (c.op = "absorb" /\ c.search = k)
           /\ k \in OwedRequeue => k \in OwedRequeue' \/ (c.op = "requeue" /\ c.search = k)
  BY WordReturns
<1>4. ASSUME NEW k \in SearchId, Live(k)' PROVE Live(k) /\ searches'[k].run = searches[k].run
                                                /\ searches'[k].node \in tree'
  <2>1. Live(k) /\ searches'[k].run = searches[k].run /\ searches'[k].node = searches[k].node
    BY <1>4 DEF Live
  <2>. QED BY <2>1 DEF InHand, TasksInHand, TaskInHand
<1>5. ASSUME NEW k \in SearchId, Live(k)'
      PROVE  /\ k \in OwedFailure' <=> k \in OwedFailure
             /\ k \in OwedAnswer' <=> k \in OwedAnswer
             /\ k \in OwedRelease' <=> k \in OwedRelease
  BY <1>3, <1>5
<1>6. ASSUME NEW k \in SearchId, Live(k)', runs[searches[k].run].status = "queued",
             searches'[k].status = "running"
      PROVE  searches[k].status = "running" /\ (k \in OwedRequeue => k \in OwedRequeue')
  <2>1. c.op = "mark" => runs[searches[h].run].status = "running" \/ ~Live(h)
    <3>1. ASSUME c.op = "mark"
          PROVE  c.run \in RunId /\ carries[c.run] = h /\ runs[c.run].status = "running"
      BY <3>1 DEF InHand, MarksInHand, MarkInHand
    <3>. QED BY <3>1 DEF InHand, RunsInHand, Alive
  <2>2. searches[k].status = "running"
    <3>1. CASE k # h
      BY <1>6, <3>1
    <3>2. CASE k = h
      BY <1>4, <1>6, <2>1, <3>2, StatesApart
    <3>. QED BY <3>1, <3>2
  <2>3. c.op = "requeue" => c.search # k
    BY <1>6
  <2>. QED BY <1>3, <2>2, <2>3
<1>7. ASSUME NEW j \in RunId, Alive(j)' PROVE Alive(j) /\ Live(carries[j])'
  <2>1. Alive(j)
    BY <1>7 DEF Alive
  <2>2. carries[j] \in SearchId /\ Live(carries[j]) /\ searches[carries[j]].run = j
    BY <2>1, PresentIsCarried DEF InHand, RunsInHand, Alive
  <2>3. carries[j] = h => c.op \notin {"fail", "absorb"}
    <3>1. carries[j] \notin OwedFailure /\ carries[j] \notin OwedAnswer
      BY <2>1, <2>2 DEF InHand, TasksInHand, TaskInHand, Alive
    <3>2. /\ c.op = "fail" => h \in OwedFailure
          /\ c.op = "absorb" => h \in OwedAnswer
      BY DEF OwedFailure, OwedAnswer
    <3>. QED BY <3>1, <3>2
  <2>4. Live(carries[j])'
    <3>1. searches'[carries[j]].status \in LiveStates
      BY <2>2, <2>3, StatesApart DEF Live
    <3>. QED BY <3>1 DEF Live
  <2>. QED BY <2>1, <2>4
<1>8. RowsMove
  BY <1>4, <1>5, <1>6, <1>7 DEF RowsMove
<1>9. TasksInHand' /\ RunsInHand'
  BY <1>8, RowsMoveInHand DEF InHand
<1>. QED BY <1>2, <1>9 DEF InHand

LEMMA CommitsInHand ==
  ASSUME Typed, InHand, NEW c \in calls,
         MarkTaskRunning(c) \/ RequeueTask(c) \/ FailTask(c) \/ Absorb(c)
  PROVE  InHand'
<1>. DEFINE k == c.search
            row == searches[k]
            next == searches'[k]
<1>1. c.op \in {"mark", "requeue", "fail", "absorb"}
  BY DEF MarkTaskRunning, RequeueTask, FailTask, Absorb
<1>2. k \in SearchId /\ row \in Search /\ searches \in [SearchId -> Search]
  BY <1>1 DEF Typed, CallTyped
<1>3. UNCHANGED <<runs, carries, tree, held, clearing>>
  BY DEF MarkTaskRunning, RequeueTask, FailTask, Absorb, treeVars
<1>4. \/ calls' = calls \ {c}
      \/ \E d : d.op = "expand" /\ calls' = (calls \ {c}) \cup {d}
  <2>. DEFINE d == [Call("expand", c.search) EXCEPT !.node = row.node, !.stages = row.stages]
  <2>1. d.op = "expand"
    BY DEF Call
  <2>2. calls' = calls \ {c} \/ calls' = (calls \ {c}) \cup {d}
    BY DEF MarkTaskRunning, RequeueTask, FailTask, Absorb
  <2>. HIDE DEF d
  <2>. QED BY <2>1, <2>2
<1>5. /\ \A d \in calls : d = c \/ d \in calls'
      /\ \A d \in calls' : d \in calls \/ d.op = "expand"
  BY <1>4
<1>6. \E s \in {"queued", "running", "done", "failed"} :
        \/ searches' = searches
        \/ /\ row.status \in LiveStates /\ searches' = [searches EXCEPT ![k].status = s]
           /\ \/ c.op = "mark" /\ s = "running"
              \/ c.op = "requeue" /\ s = "queued"
              \/ c.op \in {"fail", "absorb"} /\ s \in {"done", "failed"}
  <2>1. CASE MarkTaskRunning(c)
    BY <2>1, StatesApart DEF MarkTaskRunning
  <2>2. CASE RequeueTask(c)
    BY <2>2, StatesApart DEF RequeueTask
  <2>3. CASE FailTask(c)
    BY <2>3 DEF FailTask, Live
  <2>4. CASE Absorb(c)
    BY <2>4 DEF Absorb
  <2>. QED BY <2>1, <2>2, <2>3, <2>4
<1>7. /\ \A j \in SearchId : j # k => searches'[j] = searches[j]
      /\ \/ next = row
         \/ /\ row.status \in LiveStates /\ next.run = row.run /\ next.node = row.node
            /\ \/ c.op = "mark" /\ next.status = "running"
               \/ c.op = "requeue" /\ next.status = "queued"
               \/ c.op \in {"fail", "absorb"} /\ next.status \notin LiveStates
  <2>1. CASE searches' = searches
    BY <2>1
  <2>2. ASSUME NEW s, searches' = [searches EXCEPT ![k].status = s]
        PROVE  /\ \A j \in SearchId : j # k => searches'[j] = searches[j]
               /\ next.run = row.run /\ next.node = row.node /\ next.status = s
    BY <1>2, <2>2 DEF Search
  <2>3. {"done", "failed"} \cap LiveStates = {}
    BY DEF LiveStates
  <2>4. CASE searches' # searches
    BY <1>6, <2>2, <2>3, <2>4
  <2>. QED BY <2>1, <2>4
<1>8. c.op \in {"fail", "absorb"} => ~Live(k)'
  <2>1. ASSUME FailTask(c) PROVE next.status \notin LiveStates
    BY <1>2, <2>1 DEF FailTask, Live, LiveStates, Search
  <2>2. ASSUME Absorb(c) PROVE next.status \notin LiveStates
    <3>1. CASE row.status \in LiveStates
      <4>1. searches' = [searches EXCEPT ![k].status = "done"]
        BY <2>2, <3>1, StatesApart DEF Absorb
      <4>. QED BY <1>2, <4>1 DEF LiveStates, Search
    <3>2. CASE row.status \notin LiveStates
      <4>1. searches' = searches
        BY <2>2, <3>2 DEF Absorb
      <4>. QED BY <3>2, <4>1
    <3>. QED BY <3>1, <3>2
  <2>3. c.op \in {"fail", "absorb"} => FailTask(c) \/ Absorb(c)
    BY DEF MarkTaskRunning, RequeueTask
  <2>4. c.op \in {"fail", "absorb"} => next.status \notin LiveStates
    BY <2>1, <2>2, <2>3
  <2>5. c' = c
    OBVIOUS
  <2>. QED BY <2>4 DEF Live
<1>9. c.op = "requeue" => next.status # "running"
  <2>1. c.op = "requeue" => RequeueTask(c)
    BY DEF MarkTaskRunning, FailTask, Absorb
  <2>2. ASSUME RequeueTask(c) PROVE next.status # "running"
    BY <1>2, <2>2 DEF RequeueTask, Search
  <2>. QED BY <2>1, <2>2
<1>. QED BY <1>2, <1>3, <1>5, <1>7, <1>8, <1>9, ReturnInHand

(* Steps that leave both tables alone.                                      *)
LEMMA TablesStay ==
  ASSUME Typed, InHand, UNCHANGED <<runs, searches, carries, clearing>>, tree \subseteq tree',
         \A d \in calls : d.op # "expand" => d \in calls',
         calls' \subseteq calls,
         \A a \in held : (\E d \in calls : d.op = "mark" /\ d.run = a.run) => a \in held'
  PROVE  InHand'
<1>1. /\ OwedFailure' = OwedFailure /\ OwedAnswer' = OwedAnswer /\ OwedRequeue' = OwedRequeue
      /\ OwedRelease' = OwedRelease
  BY DEF OwedFailure, OwedAnswer, OwedRequeue, OwedRelease
<1>2. RowsMove
  <2>1. \A k \in SearchId : Live(k)' => Live(k) /\ searches[k].node \in tree'
    BY DEF InHand, TasksInHand, TaskInHand, Live
  <2>2. \A j \in RunId : Alive(j)' => Alive(j) /\ Live(carries[j])'
    BY DEF InHand, RunsInHand, Alive, Live
  <2>. QED BY <1>1, <2>1, <2>2 DEF RowsMove
<1>3. TasksInHand' /\ RunsInHand'
  BY <1>2, RowsMoveInHand DEF InHand
<1>4. MarksInHand'
  BY MarksStay DEF InHand
<1>. QED BY <1>3, <1>4 DEF InHand

-----------------------------------------------------------------------------
(* The steps that add tasks.  The pair of rows of one task name each other: *)
(* both ids are as far past the last of their table.                        *)
Fresh(i, ns) == \E n \in ns : i = LastRun + Place(n, ns)

LEMMA PairsAreNamed ==
  ASSUME Typed, NEW ns \in SUBSET Node, NEW stages \in [Node -> 0 .. MaxStages],
         NEW rows \in [SearchId -> Search], QueueTasks(ns, stages, rows)
  PROVE  /\ \A i \in RunId :
              IF Fresh(i, ns)
              THEN /\ i > LastRun /\ runs'[i].status = "queued"
                   /\ carries'[i] = LastSearch + (i - LastRun) /\ Added(carries'[i], ns)
                   /\ carries'[i] \in SearchId
              ELSE runs'[i] = runs[i] /\ carries'[i] = carries[i]
         /\ \A k \in SearchId : Added(k, ns) =>
              /\ searches'[k].run \in RunId /\ Fresh(searches'[k].run, ns)
              /\ searches'[k].run = LastRun + (k - LastSearch)
<1>1. /\ LastRun \in Nat /\ LastSearch \in Nat
      /\ LastRun + Cardinality(ns) <= MaxRuns
      /\ LastSearch + Cardinality(ns) <= MaxSearches
  BY RoomForTasks
<1>2. /\ Cardinality(ns) \in Nat
      /\ \A n \in ns : Place(n, ns) \in 1 .. Cardinality(ns)
  BY Places
<1>3. MaxRuns \in Nat /\ MaxSearches \in Nat
  BY QueueAssumption, TasksAssumption
<1>4. ASSUME NEW i \in RunId, Fresh(i, ns)
      PROVE  /\ i > LastRun /\ Added(LastSearch + (i - LastRun), ns)
             /\ LastSearch + (i - LastRun) \in SearchId
  <2>1. PICK n \in ns : i = LastRun + Place(n, ns)
    BY <1>4 DEF Fresh
  <2>. DEFINE p == Place(n, ns)
  <2>2. p \in 1 .. Cardinality(ns) /\ i = LastRun + p
    BY <1>2, <2>1
  <2>3. Added(LastSearch + p, ns)
    BY DEF Added
  <2>. HIDE DEF p
  <2>4. i - LastRun = p /\ i > LastRun /\ LastSearch + p \in SearchId
    BY <1>1, <1>2, <1>3, <2>2 DEF SearchId
  <2>. QED BY <2>3, <2>4
<1>5. ASSUME NEW i \in RunId
      PROVE  IF Fresh(i, ns)
             THEN runs'[i].status = "queued" /\ carries'[i] = LastSearch + (i - LastRun)
             ELSE runs'[i] = runs[i] /\ carries'[i] = carries[i]
  <2>. DEFINE new == [Absent EXCEPT !.work = asked + (i - LastRun), !.kind = "asked",
                                    !.host = "runner", !.status = "queued"]
  <2>1. /\ runs'[i] = IF Fresh(i, ns) THEN new ELSE runs[i]
        /\ carries'[i] = IF Fresh(i, ns) THEN LastSearch + (i - LastRun) ELSE carries[i]
    BY DEF QueueTasks, Fresh
  <2>2. new.status = "queued"
    BY DEF Absent
  <2>. HIDE DEF new
  <2>. QED BY <2>1, <2>2
<1>6. ASSUME NEW k \in SearchId, Added(k, ns)
      PROVE  /\ searches'[k].run \in RunId /\ Fresh(searches'[k].run, ns)
             /\ searches'[k].run = LastRun + (k - LastSearch)
  <2>. DEFINE m == CHOOSE m \in ns : k = LastSearch + Place(m, ns)
  <2>1. m \in ns /\ k = LastSearch + Place(m, ns)
    BY <1>6 DEF Added
  <2>2. searches'[k] = [status |-> "queued", node |-> m, run |-> LastRun + Place(m, ns),
                        stages |-> stages[m]]
    BY <1>6 DEF QueueTasks, Added
  <2>. HIDE DEF m
  <2>3. searches'[k].run = LastRun + Place(m, ns)
    BY <2>2
  <2>. DEFINE p == Place(m, ns)
  <2>4. p \in 1 .. Cardinality(ns) /\ k = LastSearch + p /\ searches'[k].run = LastRun + p
    BY <1>2, <2>1, <2>3
  <2>5. Fresh(searches'[k].run, ns)
    BY <2>1, <2>3 DEF Fresh
  <2>. HIDE DEF p
  <2>6. LastRun + p \in RunId /\ k - LastSearch = p
    BY <1>1, <1>2, <1>3, <2>4 DEF RunId
  <2>. QED BY <2>4, <2>5, <2>6
<1>7. ASSUME NEW i \in RunId, Fresh(i, ns)
      PROVE  /\ i > LastRun /\ runs'[i].status = "queued"
             /\ carries'[i] = LastSearch + (i - LastRun) /\ Added(carries'[i], ns)
             /\ carries'[i] \in SearchId
  BY <1>4, <1>5, <1>7, Zenon
<1>. QED BY <1>5, <1>6, <1>7

LEMMA IdsAreSpoken ==
  ASSUME Smooth, NEW ns, NEW stages, NEW rows, QueueTasks(ns, stages, rows)
  PROVE  /\ \A k \in SearchId : Live(k) => searches[k].run <= LastRun
         /\ \A c \in calls : c.search <= LastSearch
         /\ \A k \in clearing.searches : k <= LastSearch
<1>1. Room(ns) /\ "reuse" \notin Faults
  BY DEF QueueTasks, Smooth
<1>. QED BY <1>1 DEF Room

LEMMA AddingInHand ==
  ASSUME Smooth, Typed, InHand, NEW ns \in SUBSET Node, NEW k0 \in SearchId \cup {NoSearch},
         Queueing(ns, k0)
  PROVE  InHand'
<1>1. PICK stages \in [Node -> 0 .. MaxStages] : QueueTasks(ns, stages, RowsFor(k0))
  BY DEF Queueing
<1>. DEFINE rows == RowsFor(k0)
<1>2. /\ rows \in [SearchId -> Search]
      /\ \A k \in SearchId : /\ rows[k].status = searches[k].status /\ rows[k].node = searches[k].node
                             /\ rows[k].run = searches[k].run
  <2>1. Alike(rows, k0)
    BY AlikeRows DEF RowsFor
  <2>2. \A k \in SearchId : rows[k].run = searches[k].run
    BY DEF RowsFor, Typed, Search
  <2>. QED BY <2>1, <2>2 DEF Alike
<1>3. QueueTasks(ns, stages, rows)
  BY <1>1
<1>. HIDE DEF rows
<1>4. /\ LastRun \in Nat /\ LastSearch \in Nat
  BY <1>3, RoomForTasks
<1>5. /\ \A k \in SearchId : Live(k) => searches[k].run <= LastRun
      /\ \A c \in calls : c.search <= LastSearch
      /\ \A k \in clearing.searches : k <= LastSearch
  BY <1>3, IdsAreSpoken
<1>6. \A k \in SearchId :
        IF Added(k, ns)
        THEN k > LastSearch /\ searches'[k].status = "queued" /\ searches'[k].node \in ns
        ELSE searches'[k] = rows[k]
  BY <1>2, <1>3, QueueTasksAdds
<1>7. /\ \A i \in RunId :
           IF Fresh(i, ns)
           THEN /\ i > LastRun /\ runs'[i].status = "queued"
                /\ carries'[i] = LastSearch + (i - LastRun) /\ Added(carries'[i], ns)
                /\ carries'[i] \in SearchId
           ELSE runs'[i] = runs[i] /\ carries'[i] = carries[i]
      /\ \A k \in SearchId : Added(k, ns) =>
           /\ searches'[k].run \in RunId /\ Fresh(searches'[k].run, ns)
           /\ searches'[k].run = LastRun + (k - LastSearch)
  BY <1>2, <1>3, PairsAreNamed
<1>8. /\ tree \subseteq tree' /\ ns \subseteq tree' /\ held' = held /\ clearing' = clearing
      /\ calls' \subseteq calls /\ \A c \in calls \ calls' : c.op \in {"queue", "expand"}
  BY DEF Queueing
<1>9. /\ OwedFailure' = OwedFailure /\ OwedAnswer' = OwedAnswer /\ OwedRequeue' = OwedRequeue
      /\ OwedRelease' = OwedRelease
  <2>1. \A c \in calls : c.op \in {"fail", "absorb", "requeue"} => c \in calls'
    BY <1>8
  <2>2. OwedFailure' = OwedFailure
    BY <1>8, <2>1 DEF OwedFailure
  <2>3. OwedAnswer' = OwedAnswer
    BY <1>8, <2>1 DEF OwedAnswer
  <2>4. OwedRequeue' = OwedRequeue
    BY <1>8, <2>1 DEF OwedRequeue
  <2>5. OwedRelease' = OwedRelease
    BY <1>8 DEF OwedRelease
  <2>. QED BY <2>2, <2>3, <2>4, <2>5
<1>10. ASSUME NEW k \in SearchId, Added(k, ns)
       PROVE  k \notin OwedFailure /\ k \notin OwedAnswer /\ k \notin OwedRelease
  <2>1. k > LastSearch /\ k \in Nat
    BY <1>6, <1>10 DEF SearchId
  <2>2. ~(k <= LastSearch)
    BY <1>4, <2>1
  <2>. QED BY <1>5, <2>2 DEF OwedFailure, OwedAnswer, OwedRelease
<1>11. ASSUME NEW k \in SearchId, ~Added(k, ns)
       PROVE  /\ searches'[k].status = searches[k].status /\ searches'[k].run = searches[k].run
              /\ searches'[k].node = searches[k].node
  BY <1>2, <1>6, <1>11
<1>12. ASSUME NEW i \in RunId, i <= LastRun PROVE ~Fresh(i, ns)
  <2>1. i \in Nat
    BY DEF RunId
  <2>. QED BY <1>4, <1>7, <1>12, <2>1
<1>13. ASSUME NEW k \in SearchId, Added(k, ns) PROVE TaskInHand(k)'
  <2>. DEFINE i == searches'[k].run
  <2>1. /\ i \in RunId /\ Fresh(i, ns) /\ i = LastRun + (k - LastSearch)
        /\ runs'[i].status = "queued" /\ carries'[i] = LastSearch + (i - LastRun)
    BY <1>7, <1>13
  <2>2. carries'[i] = k
    <3>1. k \in Nat /\ i \in Nat
      BY <2>1 DEF SearchId, RunId
    <3>. QED BY <1>4, <2>1, <3>1
  <2>3. searches'[k].status = "queued" /\ searches'[k].node \in tree'
    BY <1>6, <1>8, <1>13
  <2>. QED BY <1>9, <1>10, <1>13, <2>1, <2>2, <2>3 DEF TaskInHand
<1>14. ASSUME NEW k \in SearchId, ~Added(k, ns), Live(k)' PROVE TaskInHand(k)'
  <2>. DEFINE i == searches[k].run
  <2>1. Live(k)
    BY <1>11, <1>14 DEF Live
  <2>2. TaskInHand(k) /\ i <= LastRun
    BY <1>5, <2>1 DEF InHand, TasksInHand
  <2>3. i \in RunId
    BY <2>2 DEF TaskInHand
  <2>4. runs'[i] = runs[i] /\ carries'[i] = carries[i]
    BY <1>7, <1>12, <2>2, <2>3
  <2>. QED BY <1>8, <1>9, <1>11, <1>14, <2>2, <2>4 DEF TaskInHand
<1>15. ASSUME NEW i \in RunId, Alive(i)'
       PROVE  Live(carries[i])' /\ searches'[carries'[i]].run = i
  <2>1. CASE Fresh(i, ns)
    <3>. DEFINE k == carries'[i]
    <3>1. k \in SearchId /\ Added(k, ns) /\ k = LastSearch + (i - LastRun)
      BY <1>7, <2>1
    <3>2. searches'[k].status = "queued" /\ searches'[k].run = LastRun + (k - LastSearch)
      BY <1>6, <1>7, <3>1
    <3>3. searches'[k].run = i
      <4>1. k \in Nat /\ i \in Nat
        BY <3>1 DEF SearchId, RunId
      <4>. QED BY <1>4, <3>1, <3>2, <4>1
    <3>. QED BY <3>2, <3>3, StatesApart DEF Live
  <2>2. CASE ~Fresh(i, ns)
    <3>1. runs'[i] = runs[i] /\ carries'[i] = carries[i]
      BY <1>7, <2>2
    <3>2. Alive(i)
      BY <1>15, <3>1 DEF Alive
    <3>3. carries[i] \in SearchId /\ Live(carries[i]) /\ searches[carries[i]].run = i
      BY <3>2, PresentIsCarried DEF InHand, RunsInHand, Alive
    <3>4. ~Added(carries[i], ns)
      <4>1. carries[i] <= LastSearch
        BY <3>3, LastIds, StatesApart DEF Live
      <4>2. carries[i] \in Nat
        BY <3>3 DEF SearchId
      <4>3. Added(carries[i], ns) => carries[i] > LastSearch
        BY <1>6, <3>3
      <4>. QED BY <1>4, <4>1, <4>2, <4>3
    <3>. QED BY <1>11, <3>1, <3>3, <3>4 DEF Live
  <2>. QED BY <2>1, <2>2
<1>16. ASSUME NEW c \in calls', c.op = "mark"
       PROVE  c \in calls /\ runs'[c.run] = runs[c.run] /\ carries'[c.run] = carries[c.run]
  <2>1. c \in calls
    BY <1>8
  <2>2. c.run \in RunId /\ runs[c.run].status = "running"
    BY <1>16, <2>1 DEF InHand, MarksInHand, MarkInHand
  <2>3. c.run <= LastRun
    BY <2>2, LastIds DEF Present
  <2>. QED BY <1>7, <1>12, <2>1, <2>2, <2>3
<1>17. MarksInHand'
  BY <1>8, <1>16, MarksStay DEF InHand
<1>18. TasksInHand'
  BY <1>13, <1>14 DEF TasksInHand
<1>19. RunsInHand'
  BY <1>15 DEF RunsInHand
<1>. QED BY <1>8, <1>17, <1>18, <1>19 DEF InHand

LEMMA QuietInHand ==
  ASSUME Typed, InHand,
         \/ \E n \in Node : AddNode(n)
         \/ \E n \in Node, m \in Marks : MarkNode(n, m)
         \/ FinishGame \/ \E a \in held : Vanish(a)
  PROVE  InHand'
<1>1. CASE \/ \E n \in Node : AddNode(n)
           \/ \E n \in Node, m \in Marks : MarkNode(n, m)
           \/ FinishGame
  <2>1. UNCHANGED <<runs, searches, carries, held, calls, clearing>> /\ tree \subseteq tree'
    BY <1>1 DEF AddNode, MarkNode, FinishGame
  <2>. QED BY <2>1, TablesStay
<1>2. ASSUME NEW a \in held, Vanish(a) PROVE InHand'
  <2>1. /\ UNCHANGED <<runs, searches, carries, tree, calls, clearing>> /\ held' = held \ {a}
        /\ ~\E c \in calls : c.op = "mark" /\ c.run = a.run
    BY <1>2 DEF Vanish, Working, treeVars
  <2>2. \A b \in held : (\E d \in calls : d.op = "mark" /\ d.run = b.run) => b \in held'
    BY <2>1
  <2>. QED BY <2>1, <2>2, TablesStay
<1>. QED BY <1>1, <1>2

LEMMA OwnerInHand ==
  ASSUME Smooth, Typed, InHand,
         \/ \E n \in Node : QueueTask(n)
         \/ \E n \in Node, s \in 1 .. MaxStages : Expand(n, s)
         \/ \E n \in Node, stale \in SUBSET Node : Refresh(n, stale)
         \/ \E c \in calls : ExpandAfter(c)
         \/ \E c \in calls : QueueCommits(c)
  PROVE  InHand'
<1>1. Adding => InHand'
  BY AddingInHand DEF Adding
<1>2. "gap" \notin Faults
  BY DEF Smooth
<1>3. ASSUME NEW n \in Node, QueueTask(n) PROVE InHand'
  <2>1. QueueTasks({n}, [m \in Node |-> 0], searches) /\ open /\ n \in tree /\ ~Busy(n)
    BY <1>2, <1>3 DEF QueueTask, MayQueue
  <2>2. calls' = calls /\ held' = held /\ clearing' = clearing /\ tree' = tree
    BY <1>2, <1>3 DEF QueueTask, treeVars
  <2>3. \E stages \in [Node -> 0 .. MaxStages] : QueueTasks({n}, stages, RowsFor(NoSearch))
    BY <2>1, StagesTyped DEF RowsFor
  <2>4. Queueing({n}, NoSearch)
    BY <2>1, <2>2, <2>3 DEF Queueing, Free, Typed
  <2>. QED BY <1>1, <2>4 DEF Adding
<1>4. ASSUME NEW n \in Node, NEW s \in 1 .. MaxStages, Expand(n, s) PROVE InHand'
  BY <1>1, <1>4, ExpandStep
<1>5. ASSUME NEW n \in Node, NEW stale \in SUBSET Node, Refresh(n, stale) PROVE InHand'
  BY <1>1, <1>5, RefreshStep
<1>6. ASSUME NEW c \in calls, ExpandAfter(c) PROVE InHand'
  <2>1. CASE UNCHANGED <<runs, carries, searches, tree>>
    <3>1. /\ calls' = calls \ {c} /\ c.op = "expand" /\ held' = held /\ clearing' = clearing
      BY <1>6 DEF ExpandAfter
    <3>. QED BY <2>1, <3>1, TablesStay
  <2>. QED BY <1>1, <1>6, <2>1, ExpandAfterStep
<1>7. ASSUME NEW c \in calls, QueueCommits(c) PROVE InHand'
  BY <1>2, <1>7 DEF QueueCommits, Typed, CallTyped
<1>. QED BY <1>3, <1>4, <1>5, <1>6, <1>7

LEMMA InHandStep == ASSUME Smooth, Typed, InHand, [Next]_vars PROVE InHand'
<1>1. CASE \/ \E n \in Node : QueueTask(n)
           \/ \E n \in Node, s \in 1 .. MaxStages : Expand(n, s)
           \/ \E n \in Node, stale \in SUBSET Node : Refresh(n, stale)
           \/ \E c \in calls : ExpandAfter(c)
           \/ \E c \in calls : QueueCommits(c)
  BY <1>1, OwnerInHand
<1>2. CASE \E c \in calls : MarkTaskRunning(c) \/ RequeueTask(c) \/ FailTask(c) \/ Absorb(c)
  BY <1>2, CommitsInHand
<1>3. CASE Claim \/ \E a \in held : Ends(a) \/ Abandon(a)
  BY <1>3, ClaimInHand, CompleteInHand, FailInHand, AbandonInHand DEF Ends
<1>4. CASE Sweep \/ \E i \in RunId : GoQuiet(i)
  BY <1>4, SweepInHand, GoQuietInHand
<1>5. CASE (\E k \in SearchId : Cancel(k)) \/ (\E n \in Node : DeleteNode(n))
           \/ ReleaseTasks \/ ClearDeletes
  BY <1>5, CancelInHand, DeleteInHand, ReleaseInHand, ClearInHand
<1>6. CASE \/ \E n \in Node : AddNode(n)
           \/ \E n \in Node, m \in Marks : MarkNode(n, m)
           \/ FinishGame \/ \E a \in held : Vanish(a)
  BY <1>6, QuietInHand
<1>7. ~(ClearSelects \/ ClearGivesUp \/ Crash)
  BY DEF ClearSelects, ClearGivesUp, Crash, Smooth, InHand
<1>8. CASE UNCHANGED vars
  <2>1. UNCHANGED <<runs, searches, carries, held, calls, clearing>> /\ tree' = tree
    BY <1>8 DEF vars, treeVars
  <2>. QED BY <2>1, TablesStay
<1>9. CASE Next
  BY <1>1, <1>2, <1>3, <1>4, <1>5, <1>6, <1>7, <1>9, Zenon DEF Next, Returns
<1>. QED BY <1>8, <1>9

(* The tree's table and the queue's say the same of every task, for every   *)
(* tree, table and number of attempts and workers: a live task has a run    *)
(* that names it or is owed word of its end, one shown as running has a     *)
(* worker at it or is owed word, and no run waits or is worked on for a     *)
(* task nobody wants; unless a second commit is lost in a crash, another    *)
(* call comes between two statements of one, or an id is used again that    *)
(* somebody still speaks of (claim_next_run, finish_run, requeue_stale_runs,*)
(* clear_queue, and mark_task_running, absorb_run and release_tasks after   *)
(* them).                                                                   *)
THEOREM TheTablesAgree ==
  ASSUME Smooth
  PROVE  Spec => []TablesAgree
<1>1. Init => InHand
  <2>. SUFFICES ASSUME Init PROVE InHand
    OBVIOUS
  <2>1. \A k \in SearchId : ~Live(k)
    BY DEF Init, Live, NoRow, LiveStates
  <2>2. \A i \in RunId : ~Alive(i)
    BY DEF Init, QueueInit, Alive, Absent
  <2>. QED BY <2>1, <2>2 DEF InHand, TasksInHand, RunsInHand, MarksInHand, Init
<1>2. Typed /\ InHand /\ [Next]_vars => InHand'
  BY InHandStep
<1>3. Typed /\ InHand => TablesAgree
  BY InHandAgrees
<1>. QED BY <1>1, <1>2, <1>3, ShapeHolds, PTL DEF Spec
=============================================================================
