--------------------------- MODULE RunnerGateway ---------------------------
(***************************************************************************)
(* The server's end of a remote runner (backend/workers/runner_gateway.py  *)
(* and the socket route that calls it) and the runner's own end            *)
(* (backend/runners/client.py), over a link that loses what it carries     *)
(* when it breaks.                                                         *)
(*                                                                         *)
(* One runner, which dials again and again: a row names an engine and an   *)
(* engine one runner, so runners do not meet.  The server's loop serves    *)
(* several links of it at once, the one it believes in and older ones it   *)
(* has not noticed are gone, and its database calls run on four threads.   *)
(* A call reads the row and then writes it by id: two steps, which the     *)
(* fault "gap" lets other calls come between.                              *)
(* Progress frames inside the heartbeat's throttle change nothing and are  *)
(* left out; so are acks and the runner's word that it stopped, which only *)
(* start a dispatch round, and such a round may start at any time here.    *)
(***************************************************************************)
EXTENDS RunQueue, FiniteSetsExt, SequencesExt

CONSTANTS
  MaxLinks,    \* bound: how often the runner dials; the last link stays
  Slots,       \* what the runner may hold at once
  MaxBoards,   \* bound: streams ever opened
  MaxFrames,   \* bound: frames under way on a link, to the runner
  Faults       \* of FaultNames

FaultNames == {"break", "overlap", "deaf", "slow", "cancel", "restart", "reuse", "gap"}

ASSUME GatewayAssumption ==
  /\ MaxLinks \in Nat /\ Slots \in Nat \ {0} /\ MaxBoards \in Nat /\ MaxFrames \in Nat \ {0}
  /\ Faults \subseteq FaultNames

Link == 1 .. MaxLinks
NoLink == 0

Attempt == [run : RunId, token : Token]
Job == [token : Token \cup {NoToken}, work : Work \cup {NoWork}]
NoJob == [token |-> NoToken, work |-> NoWork]
Free == [i \in RunId |-> NoToken]   \* nothing on any slot

VARIABLES
  wire,      \* each link, as the network has it
  up, down,  \* the frames under way on it, to the server and to the runner
  current,   \* _states: the link whose state is the runner's
  serving,   \* how far the route that serves a link has got
  hello,     \* what its attach has heard, inherited and decided
  held,      \* state.runs of each link: the attempt on a run's slot
  boards,    \* state.streams of each link, how many
  opened,    \* how many streams were ever opened
  socket,    \* the answer each link's handler is at
  pump,      \* the dispatch round under way on each link
  handing,   \* _hand_back of each link
  lock,      \* _runner_lock: the task that has it and those that wait for it
  listed,    \* the runner's row: connected, its engines enabled
  db,        \* database calls under way
  preempts,  \* attempts a board has pushed off, whose _preempt is not done
  releases,  \* attempts a sweep has collected and not yet taken off the slot
  told,      \* ids whose cancel is on its way to the loop
  jobs,      \* the runner: _runs
  sink       \* the runner: the link it talks on

network == <<wire, up, down>>
routes == <<serving, hello, socket, pump, handing, lock>>
tasks == <<db, preempts, releases, told>>
runner == <<jobs, sink>>
streams == <<boards, opened>>
state == <<held, streams>>
vars == <<runs, paused, asked, network, current, state, routes, listed, tasks, runner>>

-----------------------------------------------------------------------------
(* What the loop knows, and what a link's state has room for.              *)

OnSlots(l) == {[run |-> i, token |-> held[l][i]] : i \in {j \in RunId : held[l][j] # NoToken}}

FreeSlots(l) == Slots - Cardinality(OnSlots(l)) - boards[l]

NoPump == [stage |-> "off", run |-> 1, token |-> NoToken, work |-> NoWork]

Idle == [run |-> 1, token |-> NoToken]

NoHello == [reported |-> {}, known |-> {}, resumed |-> Free, cancelled |-> {}]

Holds(row, token) == row.status = "running" /\ row.token = token

(* Every token that something still speaks of; a claim draws another.      *)
FrameTokens(frames) ==
  {f.token : f \in {g \in Range(frames) : g.type \in {"dispatch", "progress", "answer"}}}
  \cup UNION {{a.token : a \in f.active} : f \in {g \in Range(frames) : g.type = "hello"}}

FreshTokens ==
  Token \ ({runs[i].token : i \in RunId} \cup {jobs[i].token : i \in RunId}
           \cup {a.token : a \in preempts} \cup {r.token : r \in releases}
           \cup {c.token : c \in db}
           \cup UNION {Range(held[l]) \cup FrameTokens(up[l]) \cup FrameTokens(down[l])
                       \cup {pump[l].token, socket[l].token} \cup Range(hello[l].resumed)
                       \cup {a.token : a \in hello[l].known \cup hello[l].reported} : l \in Link})
FreshToken == CHOOSE t \in FreshTokens : TRUE

-----------------------------------------------------------------------------
(* Database calls.  `by` awaits the call; `seen` is the row it has read.   *)

Call(by, op, a) == [by |-> by, op |-> op, run |-> a.run, token |-> a.token,
                    work |-> NoWork, seen |-> Absent]

Abandons(by, as) == {Call(by, "abandon", a) : a \in as}

Awaited(by) == \E c \in db : c.by = by

Written(row, seen, c) ==
  CASE c.op = "complete" -> Completed(row, seen, c.work)
    [] c.op = "retry" -> FailedRow(row, seen, TRUE)
    [] c.op = "fatal" -> FailedRow(row, seen, FALSE)
    [] c.op = "abandon" -> Abandoned(row, seen)

CallRunsAnyway(c) ==   \* mutant: the row's status and token are not compared
  /\ "gap" \notin Faults
  /\ c \in db /\ db' = db \ {c}
  /\ runs' = IF Present(c.run) THEN [runs EXCEPT ![c.run] = Written(@, @, c)] ELSE runs
  /\ UNCHANGED <<paused, asked, network, current, state, routes, listed,
                 preempts, releases, told, runner>>

(* guard_attempt, and _abandon_held's own question: a row that is not      *)
(* running under the token the call names is left alone.                   *)
CallRuns(c) ==
  /\ "gap" \notin Faults
  /\ c \in db /\ db' = db \ {c}
  /\ runs' = IF Holds(runs[c.run], c.token)
             THEN [runs EXCEPT ![c.run] = Written(@, @, c)] ELSE runs
  /\ UNCHANGED <<paused, asked, network, current, state, routes, listed,
                 preempts, releases, told, runner>>

(* The same in its two steps.  A row that went meanwhile is an error, and  *)
(* the handler of an answer then does not take the attempt off its slot.   *)
CallReads(c) ==
  /\ "gap" \in Faults
  /\ c \in db /\ c.seen = Absent
  /\ db' = IF Holds(runs[c.run], c.token)
           THEN (db \ {c}) \cup {[c EXCEPT !.seen = runs[c.run]]} ELSE db \ {c}
  /\ UNCHANGED <<runs, paused, asked, network, current, state, routes, listed,
                 preempts, releases, told, runner>>

CallWrites(c) ==
  /\ c \in db /\ c.seen # Absent
  /\ db' = db \ {c}
  /\ \/ /\ Present(c.run)
        /\ runs' = [runs EXCEPT ![c.run] = Written(@, c.seen, c)]
        /\ UNCHANGED socket
     \/ /\ ~Present(c.run)
        /\ socket' = IF c.by[1] = "socket" THEN [socket EXCEPT ![c.by[2]] = Idle] ELSE socket
        /\ UNCHANGED runs
  /\ UNCHANGED <<paused, asked, network, current, state, serving, hello, pump,
                 handing, lock, listed, preempts, releases, told, runner>>

-----------------------------------------------------------------------------
(* The link.  What is sent on a broken one goes nowhere; what was under    *)
(* way to the server may still arrive, up to some frame.  A send waits     *)
(* while MaxFrames are under way, as it does on a socket that is full.     *)

Sent(l, frame) ==
  /\ Len(down[l]) < MaxFrames
  /\ down' = IF wire[l] = "up" THEN [down EXCEPT ![l] = Append(@, frame)] ELSE down

Cut(l) ==
  /\ wire' = [wire EXCEPT ![l] = "broken"]
  /\ down' = [down EXCEPT ![l] = <<>>]
  /\ \E n \in 0 .. Len(up[l]) : up' = [up EXCEPT ![l] = SubSeq(@, 1, n)]

LinkBreaks(l) ==
  /\ "break" \in Faults /\ l # MaxLinks
  /\ wire[l] = "up"
  /\ Cut(l)
  /\ UNCHANGED <<runs, paused, asked, current, state, routes, listed, tasks, runner>>

-----------------------------------------------------------------------------
(* attach: a hello takes the runner over from the link it had.  Closing    *)
(* that one is awaited; without one, the way to the lock has no pause.     *)

Attaching == {"closing", "waiting", "reconciling"}

AttachBegins(l) ==
  /\ serving[l] = "none" /\ up[l] # <<>>
  /\ "overlap" \notin Faults => \A k \in Link : serving[k] \notin Attaching /\ (k < l /\ serving[k] = "none" => up[k] = <<>>)
  /\ hello' = [hello EXCEPT ![l] =
       [NoHello EXCEPT !.reported = Head(up[l]).active,
                       !.known = IF current = NoLink THEN {} ELSE OnSlots(current)]]
  /\ current' = NoLink
  /\ \/ /\ current = NoLink
        /\ serving' = [serving EXCEPT ![l] = "waiting"]
        /\ lock' = Append(lock, <<"attach", l>>)
        /\ up' = [up EXCEPT ![l] = Tail(@)]
        /\ UNCHANGED <<wire, down, held>>
     \/ /\ current # NoLink
        /\ serving' = [serving EXCEPT ![l] = "closing"]
        /\ \E n \in 0 .. Len(up[current]) :
             up' = [up EXCEPT ![l] = Tail(@), ![current] = SubSeq(@, 1, n)]
        /\ wire' = [wire EXCEPT ![current] = "broken"]
        /\ down' = [down EXCEPT ![current] = <<>>]
        /\ held' = [held EXCEPT ![current] = Free]
        /\ UNCHANGED lock
  /\ UNCHANGED <<runs, paused, asked, streams, socket, pump, handing, listed, tasks, runner>>

AttachQueues(l) ==
  /\ serving[l] = "closing"
  /\ serving' = [serving EXCEPT ![l] = "waiting"]
  /\ lock' = Append(lock, <<"attach", l>>)
  /\ UNCHANGED <<runs, paused, asked, network, current, state, hello, socket, pump, handing,
                 listed, tasks, runner>>

AttachForgets(l) ==   \* mutant: what the runner lost is not put back
  /\ serving[l] = "waiting" /\ Head(lock) = <<"attach", l>>
  /\ listed' = TRUE
  /\ LET resumed == {a \in hello[l].reported : Holds(runs[a.run], a.token)}
         ids == {a.run : a \in resumed} IN
       hello' = [hello EXCEPT ![l].cancelled = {a.run : a \in hello[l].reported \ resumed},
            ![l].known = {},
            ![l].resumed = [i \in RunId |->
               IF i \in ids THEN (CHOOSE a \in resumed : a.run = i).token ELSE NoToken]]
  /\ serving' = [serving EXCEPT ![l] = "reconciling"]
  /\ UNCHANGED <<runs, paused, asked, network, current, state, socket, pump, handing, lock,
                 db, preempts, releases, told, runner>>

(* _register and _reconcile, under the runner's lock: what it still holds  *)
(* resumes, what it lost is put back, what moved on it is told to drop.    *)
AttachReconciles(l) ==
  /\ serving[l] = "waiting" /\ Head(lock) = <<"attach", l>>
  /\ listed' = TRUE
  /\ LET h == hello[l]
         resumed == {a \in h.reported : Holds(runs[a.run], a.token)}
         ids == {a.run : a \in resumed} IN
       /\ hello' = [hello EXCEPT ![l].cancelled = {a.run : a \in h.reported \ resumed},
            ![l].resumed = [i \in RunId |->
               IF i \in ids THEN (CHOOSE a \in resumed : a.run = i).token ELSE NoToken]]
       /\ db' = db \cup Abandons(<<"attach", l>>, {a \in h.known : a.run \notin ids})
  /\ serving' = [serving EXCEPT ![l] = "reconciling"]
  /\ UNCHANGED <<runs, paused, asked, network, current, state, socket, pump, handing, lock,
                 preempts, releases, told, runner>>

(* The state is installed and the welcome goes out; if the link will not   *)
(* take it, the state is dropped again.                                    *)
AttachInstalls(l) ==
  /\ serving[l] = "reconciling" /\ ~Awaited(<<"attach", l>>)
  /\ lock' = Tail(lock)
  /\ held' = [held EXCEPT ![l] = hello[l].resumed]
  /\ hello' = [hello EXCEPT ![l] = NoHello]
  /\ \/ /\ current' = l
        /\ serving' = [serving EXCEPT ![l] = "serving"]
        /\ Sent(l, [type |-> "welcome", cancelled |-> hello[l].cancelled])
        /\ UNCHANGED handing
     \/ /\ wire[l] = "broken"
        /\ current' = NoLink
        /\ serving' = [serving EXCEPT ![l] = "gone"]
        /\ handing' = [handing EXCEPT ![l] = "settling"]
        /\ UNCHANGED down
  /\ UNCHANGED <<runs, paused, asked, wire, up, streams, socket, pump, listed, tasks, runner>>

-----------------------------------------------------------------------------
(* detach: by the route when its socket ends, or by the keepalive.         *)

Dropped(l) ==
  /\ current' = IF current = l THEN NoLink ELSE current
  /\ handing' = IF current = l THEN [handing EXCEPT ![l] = "settling"] ELSE handing

RouteEndsQuietly(l) ==   \* mutant: the gateway is not told
  /\ serving[l] = "serving" /\ wire[l] = "broken" /\ up[l] = <<>> /\ socket[l] = Idle
  /\ serving' = [serving EXCEPT ![l] = "gone"]
  /\ UNCHANGED <<runs, paused, asked, network, current, state, hello, socket, pump, handing,
                 lock, listed, tasks, runner>>

RouteEnds(l) ==
  /\ serving[l] = "serving" /\ wire[l] = "broken" /\ up[l] = <<>> /\ socket[l] = Idle
  /\ serving' = [serving EXCEPT ![l] = "gone"]
  /\ Dropped(l)
  /\ UNCHANGED <<runs, paused, asked, network, state, hello, socket, pump, lock, listed,
                 tasks, runner>>

(* Two pings unanswered.  The link is closed, if it still was one.         *)
BeatDetaches(l) ==
  /\ current = l
  /\ wire[l] = "broken" \/ ("deaf" \in Faults /\ l # MaxLinks)
  /\ Dropped(l)
  /\ IF wire[l] = "up" THEN Cut(l) ELSE UNCHANGED network
  /\ UNCHANGED <<runs, paused, asked, state, serving, hello, socket, pump, lock, listed,
                 tasks, runner>>

(* _hand_back: the round on the link is waited for, five seconds at most...*)
HandBackQueues(l) ==
  /\ handing[l] = "settling"
  /\ pump[l].stage = "off" \/ "slow" \in Faults
  /\ lock' = Append(lock, <<"handback", l>>)
  /\ handing' = [handing EXCEPT ![l] = "waiting"]
  /\ UNCHANGED <<runs, paused, asked, network, current, state, serving, hello, socket, pump,
                 listed, tasks, runner>>

HandBackBlind(l) ==   \* mutant: no look at whether there is a newer link
  /\ handing[l] = "waiting" /\ Head(lock) = <<"handback", l>>
  /\ handing' = [handing EXCEPT ![l] = "writing"]
  /\ listed' = FALSE
  /\ db' = db \cup Abandons(<<"handback", l>>, OnSlots(l))
  /\ UNCHANGED <<runs, paused, asked, network, current, state, serving, hello, socket,
                 pump, lock, preempts, releases, told, runner>>

(* ... then, under the lock, a newer link keeps the row, and the runs it   *)
(* said it holds.                                                          *)
HandBack(l) ==
  /\ handing[l] = "waiting" /\ Head(lock) = <<"handback", l>>
  /\ handing' = [handing EXCEPT ![l] = "writing"]
  /\ listed' = (listed /\ current # NoLink)
  /\ db' = db \cup Abandons(<<"handback", l>>,
       {a \in OnSlots(l) : current = NoLink \/ held[current][a.run] = NoToken})
  /\ UNCHANGED <<runs, paused, asked, network, current, state, serving, hello, socket,
                 pump, lock, preempts, releases, told, runner>>

HandedBack(l) ==
  /\ handing[l] = "writing" /\ ~Awaited(<<"handback", l>>)
  /\ lock' = Tail(lock)
  /\ handing' = [handing EXCEPT ![l] = "done"]
  /\ held' = [held EXCEPT ![l] = Free]
  /\ UNCHANGED <<runs, paused, asked, network, current, streams, serving, hello, socket, pump,
                 listed, tasks, runner>>

-----------------------------------------------------------------------------
(* A dispatch round.  The claim is awaited: what was read before it, the   *)
(* room and whose turn it is, is looked at again after it.                 *)

(* A round that began while the link was the runner's may still claim for  *)
(* it when it has been dropped or replaced.                                *)
MayClaim(l) ==
  /\ pump[l].stage = "off" /\ FreeSlots(l) > 0
  /\ current = l \/ handing[l] = "settling" \/ (current # l /\ serving[l] = "serving")

(* _claim, whose call also ends a run it can make no plan of.              *)
PumpClaims(l) ==
  /\ MayClaim(l) /\ listed /\ FreshTokens # {}
  /\ \E i \in RunId :
       /\ IsNextRun(i, {"runner", "browser"})
       /\ \/ /\ runs' = [runs EXCEPT ![i] = Claimed(@, FreshToken)]
             /\ pump' = [pump EXCEPT ![l] = [stage |-> "claimed", run |-> i,
                                             token |-> FreshToken, work |-> runs[i].work]]
          \/ /\ LET row == Claimed(runs[i], FreshToken) IN
                  runs' = [runs EXCEPT ![i] = FailedRow(row, row, FALSE)]
             /\ UNCHANGED pump
  /\ UNCHANGED <<paused, asked, network, current, state, serving, hello, socket,
                 handing, lock, listed, tasks, runner>>

PumpReturns(l) ==
  /\ pump' = [pump EXCEPT ![l].stage = "returning"]
  /\ db' = db \cup Abandons(<<"pump", l>>, {[run |-> pump[l].run, token |-> pump[l].token]})
  /\ UNCHANGED <<held, down>>

PumpPlacesUnasked(l) ==   \* mutant: the room is not looked at again after the await
  /\ pump[l].stage = "claimed"
  /\ \/ /\ current # l
        /\ PumpReturns(l)
     \/ /\ current = l
        /\ held' = [held EXCEPT ![l][pump[l].run] = pump[l].token]
        /\ pump' = [pump EXCEPT ![l] = NoPump]
        /\ Sent(l, [type |-> "dispatch", run |-> pump[l].run, token |-> pump[l].token,
                    work |-> pump[l].work])
        /\ UNCHANGED db
  /\ UNCHANGED <<runs, paused, asked, wire, up, current, streams, serving, hello, socket,
                 handing, lock, listed, preempts, releases, told, runner>>

PumpPlaces(l) ==
  /\ pump[l].stage = "claimed"
  /\ \/ /\ FreeSlots(l) <= 0 \/ current # l
        /\ PumpReturns(l)
     \/ /\ FreeSlots(l) > 0 /\ current = l
        /\ held' = [held EXCEPT ![l][pump[l].run] = pump[l].token]
        /\ pump' = [pump EXCEPT ![l] = NoPump]
        /\ Sent(l, [type |-> "dispatch", run |-> pump[l].run, token |-> pump[l].token,
                    work |-> pump[l].work])
        /\ UNCHANGED db
     \/ /\ current = l /\ wire[l] = "broken"   \* the send fails
        /\ PumpReturns(l)
  /\ UNCHANGED <<runs, paused, asked, wire, up, current, streams, serving, hello, socket,
                 handing, lock, listed, preempts, releases, told, runner>>

PumpReturned(l) ==
  /\ pump[l].stage = "returning" /\ ~Awaited(<<"pump", l>>)
  /\ pump' = [pump EXCEPT ![l] = NoPump]
  /\ UNCHANGED <<runs, paused, asked, network, current, state, serving, hello, socket,
                 handing, lock, listed, tasks, runner>>

-----------------------------------------------------------------------------
(* Taking an attempt off its slot, by its token.                           *)

Forgotten(a) ==
  IF current # NoLink /\ held[current][a.run] = a.token
  THEN [held EXCEPT ![current][a.run] = NoToken] ELSE held

ReleaseAny(l, a) ==   \* mutant: no look at which attempt is on the slot
  held' = Forgotten(a) /\ Sent(l, [type |-> "cancel", run |-> a.run])

(* _release.  The runner is told by id, so a newer attempt must not be on  *)
(* the slot: it would be the one to stop.                                  *)
Release(l, a) ==
  IF held[l][a.run] \notin {NoToken, a.token} THEN UNCHANGED <<held, down>>
  ELSE held' = Forgotten(a) /\ Sent(l, [type |-> "cancel", run |-> a.run])

TakeProgressBeats(l) ==   \* mutant: a runner at a run it lost is not told to drop it
  /\ serving[l] = "serving" /\ socket[l] = Idle
  /\ up[l] # <<>> /\ Head(up[l]).type = "progress"
  /\ up' = [up EXCEPT ![l] = Tail(@)]
  /\ LET a == Head(up[l]) IN
       IF Holds(runs[a.run], a.token) THEN HeartbeatRuns({a.run}) ELSE UNCHANGED runs
  /\ UNCHANGED <<paused, asked, wire, down, current, state, routes, listed, tasks, runner>>

TakeProgress(l) ==
  /\ serving[l] = "serving" /\ socket[l] = Idle
  /\ up[l] # <<>> /\ Head(up[l]).type = "progress"
  /\ up' = [up EXCEPT ![l] = Tail(@)]
  /\ LET a == Head(up[l]) IN
       \/ /\ Holds(runs[a.run], a.token)
          /\ HeartbeatRuns({a.run})
          /\ UNCHANGED <<held, down>>
       \/ /\ ~Holds(runs[a.run], a.token) /\ current # NoLink
          /\ Release(current, a)
          /\ UNCHANGED runs
       \/ /\ ~Holds(runs[a.run], a.token) /\ current = NoLink
          /\ UNCHANGED <<runs, held, down>>
  /\ UNCHANGED <<paused, asked, wire, current, streams, routes, listed, tasks, runner>>

(* run_complete and run_failed: the result is stored or refused, and then  *)
(* the attempt is off its slot, whatever became of it.                     *)
TakeAnswer(l) ==
  /\ serving[l] = "serving" /\ socket[l] = Idle
  /\ up[l] # <<>> /\ Head(up[l]).type = "answer"
  /\ LET f == Head(up[l])
         a == [run |-> f.run, token |-> f.token] IN
       /\ socket' = [socket EXCEPT ![l] = a]
       /\ db' = db \cup {[Call(<<"socket", l>>, f.ends, a) EXCEPT !.work = f.work]}
  /\ up' = [up EXCEPT ![l] = Tail(@)]
  /\ UNCHANGED <<runs, paused, asked, wire, down, current, state, serving, hello, pump,
                 handing, lock, listed, preempts, releases, told, runner>>

Answered(l) ==
  /\ socket[l] # Idle /\ ~Awaited(<<"socket", l>>)
  /\ held' = Forgotten(socket[l])
  /\ socket' = [socket EXCEPT ![l] = Idle]
  /\ UNCHANGED <<runs, paused, asked, network, current, streams, serving, hello, pump, handing,
                 lock, listed, tasks, runner>>

(* The gateway's sweep.  Which attempts it collects is read before it.     *)
Sweep ==
  /\ \E i \in RunId : Stale(i)
  /\ RequeueStaleRuns(Host, {})
  /\ releases' = releases \cup
       {[link |-> current, run |-> i, token |-> held[current][i]] :
          i \in {j \in RunId : Stale(j) /\ current # NoLink /\ held[current][j] # NoToken}}
  /\ UNCHANGED <<paused, asked, network, current, state, routes, listed, db, preempts,
                 told, runner>>

SweepReleases(r) ==
  /\ r \in releases
  /\ releases' = releases \ {r}
  /\ Release(r.link, [run |-> r.run, token |-> r.token])
  /\ UNCHANGED <<runs, paused, asked, wire, up, current, streams, routes, listed, db, preempts,
                 told, runner>>

-----------------------------------------------------------------------------
(* Boards.  One that finds no free slot takes a run's, which goes back.    *)

ReserveSlot ==
  /\ current # NoLink /\ opened < MaxBoards
  /\ opened' = opened + 1
  /\ boards' = [boards EXCEPT ![current] = @ + 1]
  /\ \/ /\ FreeSlots(current) > 0
        /\ UNCHANGED <<held, db, preempts>>
     \/ /\ FreeSlots(current) <= 0
        /\ \E a \in OnSlots(current) :
             /\ held' = [held EXCEPT ![current][a.run] = NoToken]
             /\ preempts' = preempts \cup {a}
             /\ db' = db \cup Abandons(<<"preempt", a>>, {a})
  /\ UNCHANGED <<runs, paused, asked, network, current, routes, listed, releases, told, runner>>

ReleaseSlot ==
  /\ current # NoLink /\ boards[current] > 0
  /\ boards' = [boards EXCEPT ![current] = @ - 1]
  /\ UNCHANGED opened
  /\ UNCHANGED <<runs, paused, asked, network, current, held, routes, listed, tasks, runner>>

Preempted(a) ==
  /\ a \in preempts /\ ~Awaited(<<"preempt", a>>)
  /\ preempts' = preempts \ {a}
  /\ IF current # NoLink THEN Sent(current, [type |-> "cancel", run |-> a.run])
                         ELSE UNCHANGED down
  /\ UNCHANGED <<runs, paused, asked, wire, up, current, state, routes, listed, db,
                 releases, told, runner>>

-----------------------------------------------------------------------------
(* The owner.                                                              *)

Spoken(i) ==
  \/ jobs[i] # NoJob \/ i \in told
  \/ \E c \in db : c.run = i
  \/ \E a \in preempts \cup releases : a.run = i
  \/ \E l \in Link :
       \/ held[l][i] # NoToken
       \/ pump[l].token # NoToken /\ pump[l].run = i
       \/ socket[l].token # NoToken /\ socket[l].run = i
       \/ \E f \in Range(up[l]) \cup Range(down[l]) :
            \/ f.type \in {"dispatch", "cancel", "progress", "answer"} /\ f.run = i
            \/ f.type = "hello" /\ \E a \in f.active : a.run = i
            \/ f.type = "welcome" /\ i \in f.cancelled
       \/ \E a \in hello[l].known \cup hello[l].reported : a.run = i

Ask(host) ==
  /\ "reuse" \notin Faults => \A i \in RunId : IsNewId(i) => ~Spoken(i)
  /\ RequestAnalysis("asked", host)
  /\ UNCHANGED <<network, current, state, routes, listed, tasks, runner>>

(* The cancel route: the row goes, and the loop is told its id.            *)
CancelRun(i) ==
  /\ "cancel" \in Faults
  /\ runs[i].status \in {"queued", "running"}
  /\ Deleting({i})
  /\ told' = told \cup {i}
  /\ UNCHANGED <<paused, asked, network, current, state, routes, listed, db, preempts,
                 releases, runner>>

Cancelled(i) ==
  /\ i \in told
  /\ told' = told \ {i}
  /\ IF current # NoLink /\ held[current][i] # NoToken
     THEN Release(current, [run |-> i, token |-> held[current][i]])
     ELSE UNCHANGED <<held, down>>
  /\ UNCHANGED <<runs, paused, asked, wire, up, current, streams, routes, listed, db, preempts,
                 releases, runner>>

-----------------------------------------------------------------------------
(* The runner.  Its jobs outlive its links.                                *)

Active == {[run |-> i, token |-> jobs[i].token] : i \in {j \in RunId : jobs[j] # NoJob}}

Dial(l) ==
  /\ sink = NoLink
  /\ wire[l] = "unused" /\ (l > 1 => wire[l - 1] # "unused")
  /\ wire' = [wire EXCEPT ![l] = "up"]
  /\ sink' = l
  /\ up' = [up EXCEPT ![l] = <<[type |-> "hello", active |-> Active]>>]
  /\ UNCHANGED <<runs, paused, asked, down, current, state, routes, listed, tasks, jobs>>

HangUp ==
  /\ sink # NoLink /\ wire[sink] = "broken"
  /\ sink' = NoLink
  /\ UNCHANGED <<runs, paused, asked, network, current, state, routes, listed, tasks, jobs>>

Hear ==
  /\ sink # NoLink /\ down[sink] # <<>>
  /\ down' = [down EXCEPT ![sink] = Tail(@)]
  /\ LET f == Head(down[sink]) IN
       \/ /\ f.type = "welcome"
          /\ jobs' = [i \in RunId |-> IF i \in f.cancelled THEN NoJob ELSE jobs[i]]
       \/ /\ f.type = "cancel"
          /\ jobs' = [jobs EXCEPT ![f.run] = NoJob]
       \/ /\ f.type = "dispatch" /\ jobs[f.run] = NoJob
          /\ jobs' = [jobs EXCEPT ![f.run] = [token |-> f.token, work |-> f.work]]
       \/ /\ f.type = "dispatch" /\ jobs[f.run] # NoJob
          /\ UNCHANGED jobs
  /\ UNCHANGED <<runs, paused, asked, wire, up, current, state, routes, listed, tasks, sink>>

Says(frame) ==
  up' = IF sink # NoLink /\ wire[sink] = "up" THEN [up EXCEPT ![sink] = Append(@, frame)] ELSE up

(* A job's end is reported on the link there is, or on none.               *)
JobEnds(i, ends) ==
  /\ jobs[i] # NoJob
  /\ Says([type |-> "answer", run |-> i, token |-> jobs[i].token, work |-> jobs[i].work,
           ends |-> ends])
  /\ jobs' = [jobs EXCEPT ![i] = NoJob]
  /\ UNCHANGED <<runs, paused, asked, wire, down, current, state, routes, listed, tasks,
                 sink>>

Report(i) ==
  /\ jobs[i] # NoJob /\ sink # NoLink
  /\ \A f \in Range(up[sink]) : f.type # "progress"
  /\ Says([type |-> "progress", run |-> i, token |-> jobs[i].token])
  /\ UNCHANGED <<runs, paused, asked, wire, down, current, state, routes, listed, tasks,
                 runner>>

-----------------------------------------------------------------------------
(* Time and crashes.                                                       *)

(* A run the runner is searching, on the link the server believes in, is   *)
(* beaten often enough; so is one that was handed over a moment ago.       *)
Attended(i) ==
  \/ \E l \in Link : pump[l].stage = "claimed" /\ pump[l].run = i
  \/ /\ current # NoLink /\ sink = current /\ wire[current] = "up"
     /\ \/ jobs[i].token = runs[i].token
        \/ \E f \in Range(down[current]) : f.type = "dispatch" /\ f.token = runs[i].token

GoQuiet(i) ==
  /\ runs[i].status = "running" /\ ~runs[i].quiet /\ ~Attended(i)
  /\ runs' = [runs EXCEPT ![i].quiet = TRUE]
  /\ UNCHANGED <<paused, asked, network, current, state, routes, listed, tasks, runner>>

(* The server's process dies and comes back: nothing of it but the table   *)
(* is left, and its start collects what is stale.                          *)
Restart ==
  /\ "restart" \in Faults
  /\ \E l \in Link : wire[l] # "unused" /\ serving[l] # "gone"
  /\ wire' = [l \in Link |-> IF wire[l] = "up" THEN "broken" ELSE wire[l]]
  /\ up' = [l \in Link |-> <<>>] /\ down' = [l \in Link |-> <<>>]
  /\ current' = NoLink
  /\ serving' = [l \in Link |-> IF wire[l] = "unused" THEN "none" ELSE "gone"]
  /\ hello' = [l \in Link |-> NoHello]
  /\ held' = [l \in Link |-> Free]
  /\ boards' = [l \in Link |-> 0]
  /\ UNCHANGED opened
  /\ socket' = [l \in Link |-> Idle]
  /\ pump' = [l \in Link |-> NoPump]
  /\ handing' = [l \in Link |-> "no"]
  /\ lock' = <<>> /\ listed' = FALSE
  /\ db' = {} /\ preempts' = {} /\ releases' = {} /\ told' = {}
  /\ RequeueStaleRuns(Host, {})
  /\ UNCHANGED <<paused, asked, runner>>

-----------------------------------------------------------------------------

Init ==
  /\ QueueInit
  /\ wire = [l \in Link |-> "unused"]
  /\ up = [l \in Link |-> <<>>] /\ down = [l \in Link |-> <<>>]
  /\ current = NoLink
  /\ serving = [l \in Link |-> "none"]
  /\ hello = [l \in Link |-> NoHello]
  /\ held = [l \in Link |-> Free]
  /\ boards = [l \in Link |-> 0]
  /\ opened = 0
  /\ socket = [l \in Link |-> Idle]
  /\ pump = [l \in Link |-> NoPump]
  /\ handing = [l \in Link |-> "no"]
  /\ lock = <<>> /\ listed = FALSE
  /\ db = {} /\ preempts = {} /\ releases = {} /\ told = {}
  /\ jobs = [i \in RunId |-> NoJob]
  /\ sink = NoLink

(* The coroutine that serves a link; the one that hands its runs back; the *)
(* dispatch rounds.                                                        *)
Route(l) ==
  \/ AttachBegins(l) \/ AttachQueues(l) \/ AttachReconciles(l) \/ AttachInstalls(l)
  \/ TakeProgress(l) \/ TakeAnswer(l) \/ Answered(l) \/ RouteEnds(l)

HandsBack(l) == HandBackQueues(l) \/ HandBack(l) \/ HandedBack(l)

PumpGoesOn(l) == PumpPlaces(l) \/ PumpReturned(l)

Ends == {"complete", "retry", "fatal"}

Next ==
  \/ \E l \in Link : Route(l) \/ HandsBack(l) \/ PumpClaims(l) \/ PumpGoesOn(l)
  \/ \E l \in Link : BeatDetaches(l) \/ LinkBreaks(l) \/ Dial(l)
  \/ \E c \in db : CallRuns(c) \/ CallReads(c) \/ CallWrites(c)
  \/ \E a \in preempts : Preempted(a)
  \/ \E r \in releases : SweepReleases(r)
  \/ \E i \in RunId : CancelRun(i) \/ Cancelled(i) \/ Report(i) \/ GoQuiet(i)
  \/ \E i \in RunId, ends \in Ends : JobEnds(i, ends)
  \/ \E host \in AskedHosts : Ask(host)
  \/ Sweep \/ ReserveSlot \/ ReleaseSlot \/ HangUp \/ Hear \/ Restart

Spec == Init /\ [][Next]_vars

-----------------------------------------------------------------------------
(* What must hold.                                                         *)

(* Every variable stays within its type, and only a link that attached     *)
(* believes it is the runner's.                                            *)
TypeOK ==
  /\ QueueTypeOK
  /\ wire \in [Link -> {"unused", "up", "broken"}]
  /\ current \in Link \cup {NoLink} /\ sink \in Link \cup {NoLink}
  /\ serving \in [Link -> {"none", "closing", "waiting", "reconciling", "serving", "gone"}]
  /\ held \in [Link -> [RunId -> Token \cup {NoToken}]]
  /\ boards \in [Link -> 0 .. MaxBoards] /\ opened \in 0 .. MaxBoards
  /\ handing \in [Link -> {"no", "settling", "waiting", "writing", "done"}]
  /\ listed \in BOOLEAN
  /\ jobs \in [RunId -> Job]
  /\ preempts \subseteq Attempt /\ told \subseteq RunId
  /\ current # NoLink => serving[current] = "serving"

(* A link never holds more than the runner has slots for, whatever came    *)
(* while a claim was on its way back.                                      *)
SlotsHold == \A l \in Link : Cardinality(OnSlots(l)) + boards[l] <= Slots

(* A runner the server serves is one the database lists: no disconnection  *)
(* of an older link is written over the registration of the newer one.     *)
ServedIsListed == current # NoLink => listed

(* What a finished run stores was searched for the request it stands for.  *)
NoForeignEvals == \A i \in DOMAIN runs : runs[i].status = "done" => runs[i].evals = runs[i].work

(* A finished run stays finished.                                          *)
DoneIsFinal ==
  [][\A i \in RunId : runs[i].status = "done" => runs'[i].status = "done"]_vars

(* An attempt that is under way is in some hand of the gateway's: on a     *)
(* slot, in a round, in an attach or a hand-back.  No disconnection,       *)
(* reconnection, preemption or late answer drops one, to be found by the   *)
(* sweep alone; only the end of the process does.                          *)
InHand(a) ==
  \/ \E l \in Link :
       \/ (current = l \/ handing[l] \in {"settling", "waiting"}) /\ a \in OnSlots(l)
       \/ pump[l].stage = "claimed" /\ pump[l].run = a.run /\ pump[l].token = a.token
       \/ a \in hello[l].known \/ hello[l].resumed[a.run] = a.token
  \/ \E c \in db : c.run = a.run /\ c.token = a.token

RunningIsInHand ==
  \A i \in RunId : runs[i].status = "running" => InHand([run |-> i, token |-> runs[i].token])

(* The attempt the runner will be at when it hears the k-th frame.         *)
JobAt(l, i, k) ==
  LET sent == {n \in 1 .. k - 1 : down[l][n].type = "dispatch" /\ down[l][n].run = i} IN
    IF jobs[i] # NoJob \/ sent = {} THEN jobs[i].token ELSE down[l][Min(sent)].token

(* A run_cancel carries an id and no attempt; still none is ever under way *)
(* that would stop the attempt which holds the run's slot.                 *)
CancelSparesHeld ==
  \A l \in Link : \A k \in 1 .. Len(down[l]) :
    down[l][k].type = "cancel" /\ held[l][down[l][k].run] # NoToken =>
      JobAt(l, down[l][k].run, k) # held[l][down[l][k].run]

-----------------------------------------------------------------------------
(* Progress.  The loop runs what is ready and database calls end; the      *)
(* sweep comes round; the runner hears what it is sent, reports, and dials *)
(* again when it has hung up; a board is closed at some time.  Links need  *)
(* not break, and nobody need cancel.                                      *)

Fairness ==
  /\ \A l \in Link :
       /\ WF_vars(Route(l)) /\ WF_vars(HandsBack(l))
       /\ SF_vars(PumpClaims(l)) /\ WF_vars(PumpGoesOn(l)) /\ WF_vars(Dial(l))
  /\ \A i \in RunId : WF_vars(Cancelled(i)) /\ WF_vars(Report(i)) /\ WF_vars(GoQuiet(i))
  /\ WF_vars(\E c \in db : CallRuns(c))
  /\ WF_vars(\E a \in preempts : Preempted(a)) /\ WF_vars(\E r \in releases : SweepReleases(r))
  /\ WF_vars(Sweep) /\ WF_vars(ReleaseSlot) /\ WF_vars(HangUp) /\ WF_vars(Hear)

(* The runner is at an attempt the row no longer runs under.               *)
Stray(i) == jobs[i] # NoJob /\ ~Holds(runs[i], jobs[i].token)

(* A search ends when its plan says so.  Of a stray one nothing is assumed. *)
SearchesEnd ==
  \A i \in RunId : WF_vars(~Stray(i) /\ \E ends \in Ends : JobEnds(i, ends))

FairSpec == Spec /\ Fairness /\ SearchesEnd

(* Every request is settled or withdrawn, whatever links broke under it.   *)
RunsSettle ==
  \A q \in Work : asked >= q ~>
    \A i \in RunId : runs[i].work = q => runs[i].status \in {"done", "failed"}

(* Requests are bounded, so that all of them are over in the end; nothing  *)
(* of an attempt that is over then stays behind.  No slot is lost to one.  *)
SlotsComeFree ==
  []<>(\A l \in Link, i \in RunId : held[l][i] # NoToken => Holds(runs[i], held[l][i]))

(* A search nobody wants any more is stopped, by a cancel, by what the     *)
(* next progress is told, or by the welcome of the next link.              *)
StraysStop == []<>(\A i \in RunId : ~Stray(i))
=============================================================================
