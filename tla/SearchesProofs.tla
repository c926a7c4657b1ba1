---------------------------- MODULE SearchesProofs ----------------------------
(* The theorems of LocalSearches: a queued search is being started and one  *)
(* that says running has a task, for any number of searches, slots, verbs   *)
(* and restarts and under every fault; every kept process has one owner, no *)
(* more searches hold slots than there are, and what has ended stays ended. *)
EXTENDS LocalSearches, FiniteSetTheorems, TLAPS

-----------------------------------------------------------------------------
(* The shape of the state.                                                 *)
Stretch == [pc : Points, pausing : BOOLEAN, closing : BOOLEAN, relaunch : BOOLEAN,
            stop : {"unarmed", "armed", "set"}, held : BOOLEAN,
            hand : {None, "own", "pooled"}, slotted : BOOLEAN]

Statuses == LiveStates \cup TerminalStates
Words == {None, "go", "no", "trouble", "ok", "moved"} \cup Statuses
Calls == [by : {"run"},
          fn : {"context", "state", "flush", "running", "parked", "finished"},
          arg : {None, "cold", "warm"} \cup TerminalStates]
Answers == [by : {"run"}, echo : {None} \cup Statuses, answer : Words]

(* A task is at a point where it waits for the database exactly when its   *)
(* call is in the line, on the database thread or answered, and the call   *)
(* is that point's.                                                        *)
Waits == {"context", "state", "marking", "flushing", "parking", "finishing", "failing"}

Suits(pc, c) ==
  \/ pc \in {"context", "state"} /\ c.fn = pc
  \/ pc = "marking" /\ c.fn = "running"
  \/ pc = "flushing" /\ c.fn = "flush"
  \/ pc = "parking" /\ c.fn = "parked"
  \/ pc \in {"finishing", "failing"} /\ c.fn = "finished" /\ c.arg \in TerminalStates

(* What the row says once the call is answered.                            *)
Fits(pc, answer, status) ==
  /\ answer # None
  /\ pc = "context" => answer \in {"go", "no", "trouble"}
  /\ pc = "marking" => answer \in {"running", "moved"}
  /\ pc = "parking" => status # "running" /\ answer \notin {"go", "trouble"}
  /\ pc \in {"finishing", "failing"} => status \in TerminalStates /\ answer \in TerminalStates

Quiet(s) == calls[s] = <<>> /\ out[s] = <<>> /\ back[s] = None
Asking(s) ==
  /\ out[s] = <<>> /\ back[s] = None
  /\ \E c : calls[s] = <<c>> /\ c.by = "run" /\ Suits(run[s].pc, c)
Answering(s) ==
  /\ calls[s] = <<>> /\ back[s] = None
  /\ \E o : out[s] = <<o>> /\ o.by = "run" /\ Fits(run[s].pc, o.answer, row[s].status)
Heeding(s) ==
  /\ calls[s] = <<>> /\ out[s] = <<>>
  /\ Fits(run[s].pc, back[s], row[s].status)

Talks(s) ==
  \/ run[s].pc \notin Waits /\ Quiet(s)
  \/ run[s].pc \in Waits /\ (Asking(s) \/ Answering(s) \/ Heeding(s))

(* Nobody speaks of a search that was never started, and news of its end   *)
(* is true.                                                                *)
NewsIsTrue(s) ==
  /\ Running(s) \/ said[s] # None \/ feed[s] # <<>> => row[s].status # None
  /\ \A status \in TerminalStates : Coming(s, status) => Is(s, TerminalStates)
  /\ svc = "up" /\ Running(s) /\ run[s].closing => Is(s, TerminalStates)
  /\ svc = "down" => ~Running(s)

(* Where the task is while its row says that it runs.                      *)
Driven(s) ==
  svc = "up" /\ Is(s, {"running"}) =>
    \/ run[s].pc \in {"marking", "searching", "flushing", "quitting"}
    \/ run[s].pc \in {"parking", "finishing", "failing"} /\ calls[s] # <<>>

(* What a task is about to learn that makes it start the search, or ask.   *)
Sees(s) ==
  /\ run[s].pc \in {"context", "marking", "parking", "finishing", "failing"}
  /\ \/ calls[s] # <<>>
     \/ \E o : out[s] = <<o>> /\ o.answer \in {"go", "queued", "trouble"}
     \/ back[s] \in {"go", "queued", "trouble"}

Started(s) ==
  svc = "up" /\ Is(s, {"queued"}) =>
    \/ Coming(s, "queued")
    \/ Running(s) /\ (run[s].relaunch \/ run[s].pc \in {"new", "queueing"} \/ Sees(s))

RowInv(s) == Talks(s) /\ NewsIsTrue(s) /\ Driven(s) /\ Started(s)

-----------------------------------------------------------------------------
(* Sequences: what is in one that something is put behind or taken off.    *)
Has(q, x) == \E i \in DOMAIN q : q[i] = x
HasEcho(q, x) == \E i \in DOMAIN q : q[i].echo = x

LEMMA ComingIs ==
  \A s, x : Coming(s, x) <=> said[s] = x \/ Has(feed[s], x) \/ HasEcho(out[s], x)
BY DEF Coming, Has, HasEcho

LEMMA HasAppend ==
  ASSUME NEW S, NEW q \in Seq(S), NEW e \in S, NEW x
  PROVE  Has(Append(q, e), x) <=> Has(q, x) \/ e = x
<1>. DEFINE p == Append(q, e)
<1>1. /\ Len(q) \in Nat /\ DOMAIN q = 1 .. Len(q) /\ DOMAIN p = 1 .. (Len(q) + 1)
      /\ \A i \in 1 .. Len(q) : p[i] = q[i]
      /\ p[Len(q) + 1] = e
  OBVIOUS
<1>. HIDE DEF p
<1>2. Has(p, x) <=> Has(q, x) \/ e = x
  BY <1>1 DEF Has
<1>. QED BY <1>2 DEF p

LEMMA HasTail ==
  ASSUME NEW S, NEW q \in Seq(S), q # <<>>, NEW x
  PROVE  /\ Tail(q) \in Seq(S) /\ Head(q) \in S
         /\ Has(Tail(q), x) => Has(q, x)
         /\ Has(q, x) => Head(q) = x \/ Has(Tail(q), x)
         /\ Has(q, Head(q))
<1>. DEFINE p == Tail(q)
<1>1. /\ Len(q) \in Nat /\ Len(q) >= 1 /\ DOMAIN q = 1 .. Len(q)
      /\ DOMAIN p = 1 .. (Len(q) - 1)
      /\ \A i \in 1 .. (Len(q) - 1) : p[i] = q[i + 1]
      /\ Head(q) = q[1] /\ p \in Seq(S) /\ Head(q) \in S
  OBVIOUS
<1>. HIDE DEF p
<1>2. Has(p, x) => Has(q, x)
  BY <1>1 DEF Has
<1>3. ASSUME NEW i \in 1 .. Len(q), q[i] = x, i # 1 PROVE Has(p, x)
  <2>1. i - 1 \in 1 .. (Len(q) - 1) /\ (i - 1) + 1 = i
    BY <1>1, <1>3
  <2>. QED BY <1>1, <1>3, <2>1 DEF Has
<1>4. Has(q, x) => Head(q) = x \/ Has(p, x)
  BY <1>1, <1>3 DEF Has
<1>5. Has(q, Head(q))
  BY <1>1 DEF Has
<1>. QED BY <1>1, <1>2, <1>4, <1>5 DEF p

LEMMA HasNothing == \A x : ~Has(<<>>, x) /\ ~HasEcho(<<>>, x)
BY DEF Has, HasEcho

LEMMA HasOne == \A o, x : HasEcho(<<o>>, x) <=> o.echo = x
BY DEF HasEcho

LEMMA One ==
  ASSUME NEW S, NEW e \in S
  PROVE  /\ <<e>> \in Seq(S) /\ <<e>> # <<>> /\ Head(<<e>>) = e /\ Tail(<<e>>) = <<>>
         /\ Append(<<>>, e) = <<e>>
<1>1. <<e>> \in Seq(S) /\ <<e>> # <<>> /\ Head(<<e>>) = e
  OBVIOUS
<1>2. Append(<<>>, e) = <<e>>
  OBVIOUS
<1>3. Tail(<<e>>) = <<>>
  OBVIOUS
<1>. QED BY <1>1, <1>2, <1>3

LEMMA TheOne == ASSUME NEW S, NEW e, <<e>> \in Seq(S) PROVE e \in S
<1>. DEFINE q == <<e>>
<1>1. q[1] = e /\ Len(q) = 1
  OBVIOUS
<1>2. q \in Seq(S)
  OBVIOUS
<1>. HIDE DEF q
<1>3. q[1] \in S
  BY <1>1, <1>2
<1>. QED BY <1>1, <1>3

-----------------------------------------------------------------------------
(* The rows and the tasks that ask about them.  What one search does       *)
(* leaves the others where they were.                                      *)
RowsTyped ==
  /\ row \in [Searches -> Rows]
  /\ said \in [Searches -> {None} \cup Statuses]
  /\ feed \in [Searches -> Seq(Statuses)]
  /\ calls \in [Searches -> Seq(Calls)]
  /\ out \in [Searches -> Seq(Answers)]
  /\ back \in [Searches -> Words]
  /\ run \in [Searches -> {NoRun} \cup Stretch]
  /\ svc \in {"up", "closing", "down"}

RowSame(t) ==
  /\ row'[t] = row[t] /\ said'[t] = said[t] /\ feed'[t] = feed[t] /\ calls'[t] = calls[t]
  /\ out'[t] = out[t] /\ back'[t] = back[t] /\ run'[t] = run[t]

Local(s) == svc' = svc /\ \A t \in Searches \ {s} : RowSame(t)

LEMMA RowElsewhere ==
  ASSUME NEW t \in Searches, RowSame(t), svc' = svc, RowInv(t) PROVE RowInv(t)'
<1>1. Talks(t)'
  BY DEF RowInv, RowSame, Talks, Quiet, Asking, Answering, Heeding
<1>2. NewsIsTrue(t)'
  BY DEF RowInv, RowSame, NewsIsTrue, Running, Coming, Is
<1>3. Driven(t)'
  BY DEF RowInv, RowSame, Driven, Is
<1>4. Started(t)'
  BY DEF RowInv, RowSame, Started, Sees, Running, Coming, Is
<1>. QED BY <1>1, <1>2, <1>3, <1>4 DEF RowInv

LEMMA Constants ==
  /\ Statuses = {"queued", "running", "paused", "done", "stopped", "failed"}
  /\ TerminalStates = {"done", "stopped", "failed"}
  /\ None = "none" /\ None \in Words /\ Statuses \subseteq Words
  /\ NoRun \notin Stretch /\ NoRun.pc = "gone"
  /\ \A r \in Stretch : r.pc \in Points
<1>1. /\ Statuses = {"queued", "running", "paused", "done", "stopped", "failed"}
      /\ TerminalStates = {"done", "stopped", "failed"}
  BY DEF Statuses, LiveStates, TerminalStates
<1>2. None = "none" /\ None \in Words /\ Statuses \subseteq Words
  BY DEF None, Words
<1>3. NoRun.pc = "gone" /\ "gone" \notin Points
  BY DEF NoRun, Points
<1>4. \A r \in Stretch : r.pc \in Points
  BY DEF Stretch
<1>5. NoRun \notin Stretch
  BY <1>3, <1>4
<1>. QED BY <1>1, <1>2, <1>3, <1>4, <1>5

LEMMA Stretches ==
  ASSUME RowsTyped, NEW s \in Searches
  PROVE  /\ Running(s) <=> run[s] \in Stretch
         /\ run[s].pc # "gone" => run[s] \in Stretch
         /\ ~Running(s) => run[s].pc = "gone"
<1>1. run[s] = NoRun \/ run[s] \in Stretch
  BY DEF RowsTyped
<1>. QED BY <1>1, Constants DEF Running

(* A task that asks: it waits at the point its call belongs to.            *)
LEMMA TaskAsks ==
  ASSUME RowsTyped, NEW s \in Searches, RowInv(s), calls[s] = <<>>, out[s] = <<>>,
         NEW r \in Stretch, NEW fn, NEW arg, Asks(s, r, fn, arg),
         Call("run", fn, arg) \in Calls,
         Running(s), r.pc \in Waits, Suits(r.pc, Call("run", fn, arg)),
         r.closing = run[s].closing,
         svc = "up" /\ Is(s, {"running"}) => r.pc \notin {"context", "state"},
         svc = "up" /\ Is(s, {"queued"}) =>
           Coming(s, "queued") \/ r.relaunch
             \/ r.pc \in {"context", "marking", "parking", "finishing", "failing"}
  PROVE  RowsTyped' /\ RowInv(s)' /\ Local(s)
<1>. DEFINE c == Call("run", fn, arg)
<1>1. c \in Calls /\ c.by = "run"
  BY DEF Call
<1>2. /\ run' = [run EXCEPT ![s] = r]
      /\ calls' = [calls EXCEPT ![s] = Append(@, c)]
      /\ back' = [back EXCEPT ![s] = None]
      /\ UNCHANGED <<row, said, feed, out, svc>>
  BY DEF Asks, Becomes, Submits
<1>3. Suits(r.pc, c)
  OBVIOUS
<1>. HIDE DEF c
<1>4. Append(calls[s], c) = <<c>> /\ <<c>> # <<>>
      /\ <<c>> \in Seq(Calls)
  BY <1>1, One
<1>5. calls' = [calls EXCEPT ![s] = <<c>>]
  BY <1>2, <1>4
<1>6. RowsTyped'
  BY <1>2, <1>4, <1>5, Constants DEF RowsTyped
<1>7. /\ run'[s] = r /\ calls'[s] = <<c>> /\ back'[s] = None /\ out'[s] = <<>>
      /\ row'[s] = row[s] /\ said'[s] = said[s] /\ feed'[s] = feed[s] /\ svc' = svc
  BY <1>2, <1>5 DEF RowsTyped
<1>8. Local(s)
  BY <1>2, <1>5 DEF RowsTyped, Local, RowSame
<1>9. Talks(s)'
  BY <1>1, <1>3, <1>7 DEF Talks, Asking
<1>10. NewsIsTrue(s)'
  <2>1. run[s] # NoRun /\ run'[s] # NoRun
    BY <1>7, Constants DEF Running
  <2>. QED BY <1>7, <2>1 DEF RowInv, NewsIsTrue, Running, Coming, Is
<1>11. Driven(s)'
  <2>1. r.pc \in {"marking", "flushing"} \/ r.pc \in {"parking", "finishing", "failing"}
          \/ r.pc \in {"context", "state"}
    BY DEF Waits
  <2>. QED BY <1>4, <1>7, <2>1 DEF Driven, Is
<1>12. Started(s)'
  <2>1. run'[s] # NoRun
    BY <1>7, Constants
  <2>. QED BY <1>4, <1>7, <2>1 DEF Started, Sees, Running, Coming, Is
<1>. QED BY <1>6, <1>8, <1>9, <1>10, <1>11, <1>12 DEF RowInv

(* A task that goes on to something else, or ends.                         *)
LEMMA TaskGoes ==
  ASSUME RowsTyped, NEW s \in Searches, RowInv(s), calls[s] = <<>>, out[s] = <<>>,
         NEW r \in {NoRun} \cup Stretch, Goes(s, r), Running(s), r.pc \notin Waits,
         r \in Stretch => r.closing = run[s].closing \/ ~r.closing,
         svc = "up" /\ Is(s, {"running"}) => r.pc \in {"searching", "quitting"},
         svc = "up" /\ Is(s, {"queued"}) =>
           Coming(s, "queued") \/ (r \in Stretch /\ (r.relaunch \/ r.pc \in {"new", "queueing"})),
         svc = "down" => r = NoRun
  PROVE  RowsTyped' /\ RowInv(s)' /\ Local(s)
<1>1. /\ run' = [run EXCEPT ![s] = r]
      /\ back' = [back EXCEPT ![s] = None]
      /\ UNCHANGED <<row, said, feed, calls, out, svc>>
  BY DEF Goes, Becomes
<1>2. RowsTyped'
  BY <1>1, Constants DEF RowsTyped
<1>3. /\ run'[s] = r /\ calls'[s] = <<>> /\ back'[s] = None /\ out'[s] = <<>>
      /\ row'[s] = row[s] /\ said'[s] = said[s] /\ feed'[s] = feed[s] /\ out'[s] = out[s]
      /\ svc' = svc
  BY <1>1 DEF RowsTyped
<1>4. Local(s)
  BY <1>1 DEF RowsTyped, Local, RowSame
<1>5. Talks(s)'
  BY <1>3 DEF Talks, Quiet
<1>6. NewsIsTrue(s)'
  <2>1. Running(s)' => r \in Stretch
    BY <1>3, Constants DEF Running
  <2>. QED BY <1>3, <2>1, Constants DEF RowInv, NewsIsTrue, Running, Coming, Is
<1>7. Driven(s)'
  BY <1>3 DEF Driven, Is
<1>8. Started(s)'
  <2>1. r \in Stretch => Running(s)'
    BY <1>3, Constants DEF Running
  <2>. QED BY <1>3, <2>1 DEF Started, Coming, Is
<1>. QED BY <1>2, <1>4, <1>5, <1>6, <1>7, <1>8 DEF RowInv

-----------------------------------------------------------------------------
(* Where a task is, and what it has been answered there.                   *)
LEMMA AtPoint ==
  ASSUME RowsTyped, NEW s \in Searches, RowInv(s), NEW pc \in Points, At(s, pc)
  PROVE  /\ run[s] \in Stretch /\ Running(s) /\ svc # "down" /\ run[s].pc = pc
         /\ pc \notin Waits => Quiet(s)
<1>1. run[s].pc = pc /\ svc # "down"
  BY DEF At
<1>2. pc # "gone"
  BY DEF Points
<1>3. run[s] \in Stretch /\ Running(s)
  BY <1>1, <1>2, Stretches
<1>4. pc \notin Waits => Quiet(s)
  BY <1>1 DEF RowInv, Talks
<1>. QED BY <1>1, <1>3, <1>4

LEMMA IsAnswered ==
  ASSUME RowsTyped, NEW s \in Searches, RowInv(s), NEW pc \in Waits, Answered(s, pc)
  PROVE  /\ run[s] \in Stretch /\ Running(s) /\ svc # "down" /\ run[s].pc = pc
         /\ calls[s] = <<>> /\ out[s] = <<>>
         /\ Fits(pc, back[s], row[s].status)
<1>1. At(s, pc) /\ back[s] # None /\ pc \in Points
  BY DEF Answered, Waits, Points
<1>2. run[s] \in Stretch /\ Running(s) /\ svc # "down" /\ run[s].pc = pc
  BY <1>1, AtPoint
<1>3. Heeding(s)
  BY <1>1, <1>2 DEF RowInv, Talks, Asking, Answering
<1>. QED BY <1>2, <1>3 DEF Heeding

LEMMA Steps ==
  ASSUME NEW r \in Stretch, NEW pc \in Points
  PROVE  /\ [r EXCEPT !.pc = pc] \in Stretch
         /\ [r EXCEPT !.pc = pc].pc = pc
         /\ [r EXCEPT !.pc = pc].closing = r.closing
         /\ [r EXCEPT !.pc = pc].relaunch = r.relaunch
BY DEF Stretch

LEMMA Asked ==
  /\ Call("run", "context", None) \in Calls /\ Call("run", "state", None) \in Calls
  /\ Call("run", "flush", None) \in Calls /\ Call("run", "running", None) \in Calls
  /\ \A arg \in {"cold", "warm"} : Call("run", "parked", arg) \in Calls
  /\ \A arg \in TerminalStates : Call("run", "finished", arg) \in Calls
  /\ \A by, fn, arg : Call(by, fn, arg).fn = fn /\ Call(by, fn, arg).arg = arg
BY DEF Call, Calls

LEMMA AllSuit ==
  /\ Suits("context", Call("run", "context", None)) /\ Suits("state", Call("run", "state", None))
  /\ Suits("marking", Call("run", "running", None)) /\ Suits("flushing", Call("run", "flush", None))
  /\ \A arg : Suits("parking", Call("run", "parked", arg))
  /\ \A arg \in TerminalStates : /\ Suits("finishing", Call("run", "finished", arg))
                                 /\ Suits("failing", Call("run", "finished", arg))
BY Asked DEF Suits

LEMMA RowBegin ==
  ASSUME RowsTyped, NEW s \in Searches, RowInv(s), Begin(s)
  PROVE  RowsTyped' /\ RowInv(s)' /\ Local(s)
<1>. DEFINE own == s \in parked
            r == [run[s] EXCEPT !.pc = "context", !.held = own,
                                !.hand = IF own THEN "own" ELSE None]
<1>1. At(s, "new") /\ Asks(s, r, "context", None)
  BY DEF Begin
<1>2. run[s] \in Stretch /\ Running(s) /\ Quiet(s) /\ run[s].pc = "new"
  BY <1>1, AtPoint DEF Points, Waits
<1>3. r \in Stretch /\ r.pc = "context" /\ r.closing = run[s].closing
  <2>1. own \in BOOLEAN
    OBVIOUS
  <2>2. (IF own THEN "own" ELSE None) \in {None, "own", "pooled"}
    OBVIOUS
  <2>. QED BY <1>2, <2>1, <2>2 DEF Stretch, Points
<1>. HIDE DEF r
<1>4. svc = "up" => ~Is(s, {"running"})
  BY <1>2 DEF RowInv, Driven
<1>. QED BY <1>1, <1>2, <1>3, <1>4, TaskAsks, Asked, AllSuit DEF Quiet, Waits

LEMMA RowGotContext ==
  ASSUME RowsTyped, NEW s \in Searches, RowInv(s), GotContext(s)
  PROVE  RowsTyped' /\ RowInv(s)' /\ Local(s)
<1>1. Answered(s, "context")
  BY DEF GotContext
<1>2. /\ run[s] \in Stretch /\ Running(s) /\ svc # "down" /\ run[s].pc = "context"
      /\ calls[s] = <<>> /\ out[s] = <<>>
  BY <1>1, IsAnswered DEF Waits
<1>3. svc = "up" => ~Is(s, {"running"})
  BY <1>2 DEF RowInv, Driven
<1>4. CASE back[s] = "go" /\ Goes(s, [run[s] EXCEPT !.pc = "queueing"])
  <2>. DEFINE r == [run[s] EXCEPT !.pc = "queueing"]
  <2>1. r \in Stretch /\ r.pc = "queueing" /\ r.closing = run[s].closing
    BY <1>2, Steps DEF Points
  <2>. HIDE DEF r
  <2>2. Goes(s, r)
    BY <1>4 DEF r
  <2>. QED BY <1>2, <1>3, <2>1, <2>2, TaskGoes DEF Waits
<1>5. CASE back[s] = "no" /\ Asks(s, [run[s] EXCEPT !.pc = "state"], "state", None)
  <2>. DEFINE r == [run[s] EXCEPT !.pc = "state"]
  <2>1. /\ r \in Stretch /\ r.pc = "state" /\ r.closing = run[s].closing
        /\ r.relaunch = run[s].relaunch
    BY <1>2, Steps DEF Points
  <2>. HIDE DEF r
  <2>2. Asks(s, r, "state", None)
    BY <1>5 DEF r
  <2>3. svc = "up" /\ Is(s, {"queued"}) => Coming(s, "queued") \/ r.relaunch
    BY <1>2, <1>5, <2>1 DEF RowInv, Started, Sees
  <2>. QED BY <1>2, <1>3, <2>1, <2>2, <2>3, TaskAsks, Asked, AllSuit DEF Waits
<1>6. CASE back[s] = "trouble" /\ Asks(s, [run[s] EXCEPT !.pc = "failing"], "finished", "failed")
  <2>. DEFINE r == [run[s] EXCEPT !.pc = "failing"]
  <2>1. r \in Stretch /\ r.pc = "failing" /\ r.closing = run[s].closing
    BY <1>2, Steps DEF Points
  <2>. HIDE DEF r
  <2>2. Asks(s, r, "finished", "failed")
    BY <1>6 DEF r
  <2>3. "failed" \in TerminalStates
    BY DEF TerminalStates
  <2>. QED BY <1>2, <1>3, <2>1, <2>2, <2>3, TaskAsks, Asked, AllSuit DEF Waits
<1>. QED BY <1>4, <1>5, <1>6 DEF GotContext

LEMMA RowGotState ==
  ASSUME RowsTyped, NEW s \in Searches, RowInv(s), GotState(s)
  PROVE  RowsTyped' /\ RowInv(s)' /\ Local(s)
<1>. DEFINE keep == run[s].held /\ back[s] = "paused"
            r == [run[s] EXCEPT !.pc = "ending", !.held = @ /\ ~keep]
<1>1. Answered(s, "state") /\ Goes(s, r)
  BY DEF GotState
<1>2. /\ run[s] \in Stretch /\ Running(s) /\ svc # "down" /\ run[s].pc = "state"
      /\ calls[s] = <<>> /\ out[s] = <<>>
  BY <1>1, IsAnswered DEF Waits
<1>3. /\ r \in Stretch /\ r.pc = "ending" /\ r.closing = run[s].closing
      /\ r.relaunch = run[s].relaunch
  <2>1. (run[s].held /\ ~keep) \in BOOLEAN
    OBVIOUS
  <2>. QED BY <1>2, <2>1 DEF Stretch, Points
<1>. HIDE DEF r
<1>4. svc = "up" => ~Is(s, {"running"})
  BY <1>2 DEF RowInv, Driven
<1>5. svc = "up" /\ Is(s, {"queued"}) => Coming(s, "queued") \/ r.relaunch
  BY <1>2, <1>3 DEF RowInv, Started, Sees
<1>. QED BY <1>1, <1>2, <1>3, <1>4, <1>5, TaskGoes DEF Waits

LEMMA RowParks ==
  ASSUME RowsTyped, NEW s \in Searches, RowInv(s), Running(s), run[s] \in Stretch,
         calls[s] = <<>>, out[s] = <<>>,
         NEW r \in Stretch, r.closing = run[s].closing, NEW pooled, Parks(s, r, pooled)
  PROVE  RowsTyped' /\ RowInv(s)' /\ Local(s)
<1>. DEFINE p == [r EXCEPT !.pc = "parking", !.held = FALSE]
            arg == IF r.hand = None THEN "cold" ELSE "warm"
<1>1. Asks(s, p, "parked", arg)
  BY DEF Parks
<1>2. arg \in {"cold", "warm"}
  OBVIOUS
<1>3. p \in Stretch /\ p.pc = "parking" /\ p.closing = r.closing
  BY DEF Stretch, Points
<1>. HIDE DEF p, arg
<1>. QED BY <1>1, <1>2, <1>3, TaskAsks, Asked, AllSuit DEF Waits

LEMMA RowTakeSlot ==
  ASSUME RowsTyped, NEW s \in Searches, RowInv(s), TakeSlot(s)
  PROVE  RowsTyped' /\ RowInv(s)' /\ Local(s)
<1>. DEFINE r == [run[s] EXCEPT !.slotted = TRUE]
            left == [r EXCEPT !.pc = "ending", !.slotted = FALSE]
            marking == [r EXCEPT !.pc = "marking", !.stop = "armed",
                                 !.hand = IF @ = None THEN "pooled" ELSE @]
<1>1. At(s, "queueing")
  BY DEF TakeSlot
<1>2. run[s] \in Stretch /\ Running(s) /\ svc # "down" /\ Quiet(s) /\ run[s].pc = "queueing"
  BY <1>1, AtPoint DEF Points, Waits
<1>3. svc = "up" => ~Is(s, {"running"})
  BY <1>2 DEF RowInv, Driven
<1>4. r \in Stretch /\ r.closing = run[s].closing
  BY <1>2 DEF Stretch
<1>5. /\ left \in Stretch /\ left.pc = "ending" /\ left.closing = run[s].closing
  BY <1>2 DEF Stretch, Points
<1>6. /\ marking \in Stretch /\ marking.pc = "marking" /\ marking.closing = run[s].closing
  BY <1>2 DEF Stretch, Points
<1>7. \/ r.closing /\ Goes(s, left)
      \/ Parks(s, r, FALSE)
      \/ Asks(s, marking, "running", None)
  BY DEF TakeSlot
<1>. HIDE DEF r, left, marking
<1>8. CASE r.closing /\ Goes(s, left)
  <2>1. svc = "up" => row[s].status \in {"done", "stopped", "failed"}
    BY <1>2, <1>4, <1>8, Constants DEF RowInv, NewsIsTrue, Is
  <2>2. svc = "up" => ~Is(s, {"queued"})
    BY <2>1 DEF Is
  <2>. QED BY <1>2, <1>3, <1>5, <1>8, <2>2, TaskGoes DEF Quiet, Waits
<1>9. CASE Parks(s, r, FALSE)
  BY <1>2, <1>4, <1>9, RowParks DEF Quiet
<1>10. CASE Asks(s, marking, "running", None)
  BY <1>2, <1>3, <1>6, <1>10, TaskAsks, Asked, AllSuit DEF Quiet, Waits
<1>. QED BY <1>7, <1>8, <1>9, <1>10

LEMMA RowNoEngine ==
  ASSUME RowsTyped, NEW s \in Searches, RowInv(s), NoEngine(s)
  PROVE  RowsTyped' /\ RowInv(s)' /\ Local(s)
<1>. DEFINE r == [run[s] EXCEPT !.pc = "failing"]
<1>1. At(s, "queueing") /\ Asks(s, r, "finished", "failed")
  BY DEF NoEngine
<1>2. run[s] \in Stretch /\ Running(s) /\ Quiet(s) /\ run[s].pc = "queueing"
  BY <1>1, AtPoint DEF Points, Waits
<1>3. r \in Stretch /\ r.pc = "failing" /\ r.closing = run[s].closing
  BY <1>2, Steps DEF Points
<1>. HIDE DEF r
<1>4. "failed" \in TerminalStates
  BY DEF TerminalStates
<1>. QED BY <1>1, <1>2, <1>3, <1>4, TaskAsks, Asked, AllSuit DEF Quiet, Waits

LEMMA RowMarked ==
  ASSUME RowsTyped, NEW s \in Searches, RowInv(s), Marked(s)
  PROVE  RowsTyped' /\ RowInv(s)' /\ Local(s)
<1>. DEFINE stop == IF run[s].pausing \/ run[s].closing THEN "set" ELSE run[s].stop
            r == [run[s] EXCEPT !.pc = "searching", !.stop = stop]
<1>1. Answered(s, "marking") /\ Goes(s, r)
  BY DEF Marked
<1>2. /\ run[s] \in Stretch /\ Running(s) /\ svc # "down" /\ run[s].pc = "marking"
      /\ calls[s] = <<>> /\ out[s] = <<>>
      /\ Fits("marking", back[s], row[s].status)
  BY <1>1, IsAnswered DEF Waits
<1>3. /\ r \in Stretch /\ r.pc = "searching" /\ r.closing = run[s].closing
      /\ r.relaunch = run[s].relaunch
  <2>1. stop \in {"unarmed", "armed", "set"}
    BY <1>2 DEF Stretch
  <2>. HIDE DEF stop
  <2>. QED BY <1>2, <2>1 DEF Stretch, Points
<1>. HIDE DEF r
<1>4. svc = "up" /\ Is(s, {"queued"}) => Coming(s, "queued") \/ r.relaunch
  BY <1>2, <1>3 DEF RowInv, Started, Sees, Fits
<1>. QED BY <1>1, <1>2, <1>3, <1>4, TaskGoes DEF Waits

LEMMA RowLimitReached ==
  ASSUME RowsTyped, NEW s \in Searches, RowInv(s), LimitReached(s)
  PROVE  RowsTyped' /\ RowInv(s)' /\ Local(s)
<1>. DEFINE r == [run[s] EXCEPT !.stop = "set"]
<1>1. At(s, "searching") /\ Becomes(s, r) /\ UNCHANGED rowVars
  BY DEF LimitReached
<1>2. run[s] \in Stretch /\ Running(s) /\ svc # "down" /\ Quiet(s) /\ run[s].pc = "searching"
  BY <1>1, AtPoint DEF Points, Waits
<1>3. /\ r \in Stretch /\ r.pc = "searching" /\ r.closing = run[s].closing
      /\ r.relaunch = run[s].relaunch
  BY <1>2 DEF Stretch, Points
<1>. HIDE DEF r
<1>4. back = [back EXCEPT ![s] = None]
  BY <1>2 DEF Quiet, RowsTyped
<1>5. Goes(s, r)
  BY <1>1, <1>4 DEF Goes, rowVars
<1>6. svc = "up" /\ Is(s, {"queued"}) => Coming(s, "queued") \/ r.relaunch
  BY <1>2, <1>3 DEF RowInv, Started, Sees
<1>. QED BY <1>2, <1>3, <1>5, <1>6, TaskGoes DEF Quiet, Waits

LEMMA RowEngineStops ==
  ASSUME RowsTyped, NEW s \in Searches, RowInv(s), EngineStops(s) \/ EngineFails(s)
  PROVE  RowsTyped' /\ RowInv(s)' /\ Local(s)
<1>. DEFINE r == [run[s] EXCEPT !.pc = "flushing"]
            f == [run[s] EXCEPT !.pc = "failing", !.slotted = FALSE]
<1>1. /\ At(s, "searching")
      /\ Asks(s, r, "flush", None) \/ Asks(s, f, "finished", "failed")
  BY DEF EngineStops, EngineFails
<1>2. run[s] \in Stretch /\ Running(s) /\ Quiet(s) /\ run[s].pc = "searching"
  BY <1>1, AtPoint DEF Points, Waits
<1>3. /\ r \in Stretch /\ r.pc = "flushing" /\ r.closing = run[s].closing
      /\ r.relaunch = run[s].relaunch
  BY <1>2, Steps DEF Points
<1>4. f \in Stretch /\ f.pc = "failing" /\ f.closing = run[s].closing
  BY <1>2 DEF Stretch, Points
<1>. HIDE DEF r, f
<1>5. svc = "up" /\ Is(s, {"queued"}) => Coming(s, "queued") \/ r.relaunch
  BY <1>2, <1>3 DEF RowInv, Started, Sees
<1>6. "failed" \in TerminalStates
  BY DEF TerminalStates
<1>7. CASE Asks(s, r, "flush", None)
  BY <1>2, <1>3, <1>5, <1>7, TaskAsks, Asked, AllSuit DEF Quiet, Waits
<1>8. CASE Asks(s, f, "finished", "failed")
  BY <1>2, <1>4, <1>6, <1>8, TaskAsks, Asked, AllSuit DEF Quiet, Waits
<1>. QED BY <1>1, <1>7, <1>8

LEMMA RowFlushed ==
  ASSUME RowsTyped, NEW s \in Searches, RowInv(s), Flushed(s)
  PROVE  RowsTyped' /\ RowInv(s)' /\ Local(s)
<1>. DEFINE left == [run[s] EXCEPT !.pc = "ending", !.slotted = FALSE]
            quitting == [run[s] EXCEPT !.pc = "quitting", !.held = FALSE]
            finishing == [run[s] EXCEPT !.pc = "finishing"]
<1>1. /\ Answered(s, "flushing")
      /\ \/ svc # "up" /\ Goes(s, left)
         \/ Parks(s, run[s], run[s].hand = "pooled")
         \/ Goes(s, quitting)
         \/ Asks(s, finishing, "finished", Outcome(run[s]))
  BY DEF Flushed
<1>2. /\ run[s] \in Stretch /\ Running(s) /\ svc # "down" /\ run[s].pc = "flushing"
      /\ calls[s] = <<>> /\ out[s] = <<>>
  BY <1>1, IsAnswered DEF Waits
<1>3. left \in Stretch /\ left.pc = "ending" /\ left.closing = run[s].closing
  BY <1>2 DEF Stretch, Points
<1>4. /\ quitting \in Stretch /\ quitting.pc = "quitting" /\ quitting.closing = run[s].closing
      /\ quitting.relaunch = run[s].relaunch
  BY <1>2 DEF Stretch, Points
<1>5. finishing \in Stretch /\ finishing.pc = "finishing" /\ finishing.closing = run[s].closing
  BY <1>2, Steps DEF Points
<1>. HIDE DEF left, quitting, finishing
<1>6. CASE svc # "up" /\ Goes(s, left)
  BY <1>2, <1>3, <1>6, TaskGoes DEF Waits
<1>7. CASE Parks(s, run[s], run[s].hand = "pooled")
  BY <1>2, <1>7, RowParks
<1>8. CASE Goes(s, quitting)
  <2>1. svc = "up" /\ Is(s, {"queued"}) => Coming(s, "queued") \/ quitting.relaunch
    BY <1>2, <1>4 DEF RowInv, Started, Sees
  <2>. QED BY <1>2, <1>4, <1>8, <2>1, TaskGoes DEF Waits
<1>9. CASE Asks(s, finishing, "finished", Outcome(run[s]))
  <2>1. Outcome(run[s]) \in TerminalStates
    BY DEF Outcome, TerminalStates
  <2>. QED BY <1>2, <1>5, <1>9, <2>1, TaskAsks, Asked, AllSuit DEF Waits
<1>. QED BY <1>1, <1>6, <1>7, <1>8, <1>9

LEMMA RowOwnClosed ==
  ASSUME RowsTyped, NEW s \in Searches, RowInv(s), OwnClosed(s)
  PROVE  RowsTyped' /\ RowInv(s)' /\ Local(s)
<1>. DEFINE r == [run[s] EXCEPT !.pc = "finishing"]
<1>1. At(s, "quitting") /\ Asks(s, r, "finished", Outcome(run[s]))
  BY DEF OwnClosed
<1>2. run[s] \in Stretch /\ Running(s) /\ Quiet(s) /\ run[s].pc = "quitting"
  BY <1>1, AtPoint DEF Points, Waits
<1>3. r \in Stretch /\ r.pc = "finishing" /\ r.closing = run[s].closing
  BY <1>2, Steps DEF Points
<1>. HIDE DEF r
<1>4. Outcome(run[s]) \in TerminalStates
  BY DEF Outcome, TerminalStates
<1>. QED BY <1>1, <1>2, <1>3, <1>4, TaskAsks, Asked, AllSuit DEF Quiet, Waits

LEMMA RowParked ==
  ASSUME RowsTyped, NEW s \in Searches, RowInv(s), Parked(s)
  PROVE  RowsTyped' /\ RowInv(s)' /\ Local(s)
<1>. DEFINE again == run[s].relaunch \/ back[s] = "queued"
            r == [run[s] EXCEPT !.pc = "ending", !.slotted = FALSE, !.relaunch = again]
<1>1. Answered(s, "parking") /\ Goes(s, r)
  BY DEF Parked
<1>2. /\ run[s] \in Stretch /\ Running(s) /\ svc # "down" /\ run[s].pc = "parking"
      /\ calls[s] = <<>> /\ out[s] = <<>>
      /\ Fits("parking", back[s], row[s].status)
  BY <1>1, IsAnswered DEF Waits
<1>3. r \in Stretch /\ r.pc = "ending" /\ r.closing = run[s].closing /\ r.relaunch = again
  <2>1. again \in BOOLEAN
    OBVIOUS
  <2>. HIDE DEF again
  <2>. QED BY <1>2, <2>1 DEF Stretch, Points
<1>. HIDE DEF r
<1>4. svc = "up" => ~Is(s, {"running"})
  BY <1>2 DEF Fits, Is
<1>5. svc = "up" /\ Is(s, {"queued"}) =>
        Coming(s, "queued") \/ run[s].relaunch \/ back[s] = "queued"
  BY <1>2 DEF RowInv, Started, Sees, Fits
<1>6. svc = "up" /\ Is(s, {"queued"}) => Coming(s, "queued") \/ r.relaunch
  BY <1>3, <1>5
<1>. QED BY <1>1, <1>2, <1>3, <1>4, <1>6, TaskGoes DEF Waits

LEMMA RowFinished ==
  ASSUME RowsTyped, NEW s \in Searches, RowInv(s), Finished(s)
  PROVE  RowsTyped' /\ RowInv(s)' /\ Local(s)
<1>. DEFINE r == [run[s] EXCEPT !.pc = "ending", !.slotted = FALSE]
<1>1. PICK pc \in {"finishing", "failing"} : Answered(s, pc) /\ Goes(s, r)
  BY DEF Finished
<1>2. /\ run[s] \in Stretch /\ Running(s) /\ svc # "down" /\ run[s].pc = pc
      /\ calls[s] = <<>> /\ out[s] = <<>>
      /\ Fits(pc, back[s], row[s].status)
  BY <1>1, IsAnswered DEF Waits
<1>3. r \in Stretch /\ r.pc = "ending" /\ r.closing = run[s].closing
  BY <1>2 DEF Stretch, Points
<1>. HIDE DEF r
<1>4. ~Is(s, {"running"}) /\ ~Is(s, {"queued"})
  BY <1>2, Constants DEF Fits, Is
<1>. QED BY <1>1, <1>2, <1>3, <1>4, TaskGoes DEF Waits

LEMMA RowEnd ==
  ASSUME RowsTyped, NEW s \in Searches, RowInv(s), End(s)
  PROVE  RowsTyped' /\ RowInv(s)' /\ Local(s)
<1>. DEFINE r == IF run[s].relaunch /\ svc = "up" THEN Fresh ELSE NoRun
<1>1. At(s, "ending") /\ Becomes(s, r) /\ UNCHANGED rowVars
  BY DEF End
<1>2. run[s] \in Stretch /\ Running(s) /\ svc # "down" /\ Quiet(s) /\ run[s].pc = "ending"
  BY <1>1, AtPoint DEF Points, Waits
<1>3. Fresh \in Stretch /\ Fresh.pc = "new" /\ ~Fresh.closing
  BY DEF Fresh, Stretch, Points
<1>4. r = Fresh \/ (r = NoRun /\ ~(run[s].relaunch /\ svc = "up"))
  OBVIOUS
<1>. HIDE DEF r
<1>5. back = [back EXCEPT ![s] = None]
  BY <1>2 DEF Quiet, RowsTyped
<1>6. Goes(s, r)
  BY <1>1, <1>5 DEF Goes, rowVars
<1>7. svc = "up" => ~Is(s, {"running"})
  BY <1>2 DEF RowInv, Driven
<1>8. svc = "up" /\ Is(s, {"queued"}) => Coming(s, "queued") \/ run[s].relaunch
  BY <1>2 DEF RowInv, Started, Sees
<1>9. r \in {NoRun} \cup Stretch /\ r.pc \notin Waits
  BY <1>3, <1>4, Constants DEF Waits
<1>. QED BY <1>2, <1>3, <1>4, <1>6, <1>7, <1>8, <1>9, TaskGoes, Constants DEF Quiet

LEMMA RowTask ==
  ASSUME RowsTyped, NEW s \in Searches, RowInv(s), Task(s)
  PROVE  RowsTyped' /\ RowInv(s)' /\ Local(s)
BY RowBegin, RowGotContext, RowGotState, RowTakeSlot, RowNoEngine, RowMarked,
   RowLimitReached, RowEngineStops, RowFlushed, RowOwnClosed, RowParked, RowFinished,
   RowEnd DEF Task

-----------------------------------------------------------------------------
(* What the service leaves, tells and answers, for a row that was started  *)
(* and a call that belongs to the point its task waits at.                 *)
LEMMA ServeIs ==
  ASSUME NEW r \in Rows, r.status # None, NEW pc \in Waits, NEW c \in Calls, Suits(pc, c)
  PROVE  /\ Serve(r, c).row \in Rows /\ Serve(r, c).row.status # None
         /\ r.status \in TerminalStates => Serve(r, c).row.status = r.status
         /\ Serve(r, c).echo \in {None, Serve(r, c).row.status}
         /\ Serve(r, c).answer \in Words
         /\ Fits(pc, Serve(r, c).answer, Serve(r, c).row.status)
         /\ Serve(r, c).answer = "go" => pc = "context"
         /\ Serve(r, c).row.status = "running" =>
              \/ pc \in {"marking", "flushing"}
              \/ pc \in {"context", "state"} /\ r.status = "running"
         /\ Serve(r, c).row.status = "queued" =>
              \/ Serve(r, c).echo = "queued"
              \/ r.status = "queued" /\ pc \in {"state", "flushing"}
              \/ r.status = "queued" /\ pc = "context" /\ Serve(r, c).answer = "go"
<1>1. r.status \in Statuses /\ r.warm \in BOOLEAN
  BY DEF Rows, Statuses
<1>2. r.status \in Words /\ None \in Words /\ {"go", "no", "ok", "moved", "running"} \subseteq Words
  BY <1>1, Constants DEF Words
<1>3. CASE pc = "context" /\ c.fn = "context"
  <2>1. Serve(r, c) = [row |-> r, echo |-> None, answer |-> IF r.status = "queued" THEN "go" ELSE "no"]
    BY <1>3 DEF Serve, Served, SearchContext
  <2>. QED BY <1>1, <1>2, <1>3, <2>1, Constants DEF Fits
<1>4. CASE pc = "state" /\ c.fn = "state"
  <2>1. Serve(r, c) = [row |-> r, echo |-> None, answer |-> r.status]
    BY <1>4 DEF Serve, Served, SearchState
  <2>. QED BY <1>1, <1>2, <1>4, <2>1, Constants DEF Fits
<1>5. CASE pc = "flushing" /\ c.fn = "flush"
  <2>1. Serve(r, c) = [row |-> r, echo |-> None, answer |-> "ok"]
    BY <1>5 DEF Serve, Served, Checkpoint
  <2>. QED BY <1>1, <1>2, <1>5, <2>1, Constants DEF Fits
<1>6. CASE pc = "marking" /\ c.fn = "running"
  <2>1. Serve(r, c) = MarkRunning(r)
    BY <1>6 DEF Serve
  <2>2. CASE r.status \in TerminalStates
    <3>1. Serve(r, c) = [row |-> r, echo |-> None, answer |-> "moved"]
      BY <2>1, <2>2 DEF MarkRunning, Served
    <3>. QED BY <1>1, <1>2, <1>6, <2>2, <3>1, Constants DEF Fits
  <2>3. CASE r.status \notin TerminalStates
    <3>1. Serve(r, c) = [row |-> [status |-> "running", warm |-> FALSE], echo |-> "running",
                         answer |-> "running"]
      BY <2>1, <2>3 DEF MarkRunning, Served
    <3>2. [status |-> "running", warm |-> FALSE] \in Rows
      BY DEF Rows, LiveStates
    <3>. QED BY <1>2, <1>6, <2>3, <3>1, <3>2, Constants DEF Fits
  <2>. QED BY <2>2, <2>3
<1>7. CASE pc = "parking" /\ c.fn = "parked"
  <2>. DEFINE warm == c.arg = "warm"
              status == IF r.status = "queued" THEN "queued" ELSE "paused"
  <2>1. Serve(r, c) = MarkParked(r, warm)
    BY <1>7 DEF Serve
  <2>2. CASE r.status \in TerminalStates
    <3>1. Serve(r, c) = [row |-> r, echo |-> None, answer |-> "moved"]
      BY <2>1, <2>2 DEF MarkParked, Served
    <3>. QED BY <1>1, <1>2, <1>7, <2>2, <3>1, Constants DEF Fits
  <2>3. CASE r.status \notin TerminalStates
    <3>1. Serve(r, c) = [row |-> [status |-> status, warm |-> warm], echo |-> status,
                         answer |-> status]
      BY <2>1, <2>3 DEF MarkParked, Served
    <3>2. warm \in BOOLEAN /\ status \in {"queued", "paused"}
      OBVIOUS
    <3>. HIDE DEF warm, status
    <3>3. [status |-> status, warm |-> warm] \in Rows
      BY <3>2 DEF Rows, LiveStates
    <3>4. status \in Words /\ status # None /\ status \notin {"running", "go", "trouble"}
      BY <3>2, Constants DEF Words
    <3>. QED BY <1>7, <2>3, <3>1, <3>3, <3>4, Constants DEF Fits
  <2>. QED BY <2>2, <2>3
<1>8. CASE pc \in {"finishing", "failing"} /\ c.fn = "finished" /\ c.arg \in TerminalStates
  <2>. DEFINE status == IF r.status \in TerminalStates THEN r.status ELSE c.arg
  <2>1. Serve(r, c) = [row |-> [status |-> status, warm |-> FALSE], echo |-> status,
                       answer |-> status]
    BY <1>8 DEF Serve, MarkFinished, Served
  <2>2. status \in TerminalStates /\ (r.status \in TerminalStates => status = r.status)
    BY <1>8
  <2>. HIDE DEF status
  <2>3. [status |-> status, warm |-> FALSE] \in Rows
    BY <2>2 DEF Rows
  <2>4. status \in Words /\ status # None /\ status \notin {"running", "queued", "go"}
    BY <2>2, Constants DEF Words
  <2>. QED BY <1>8, <2>1, <2>2, <2>3, <2>4, Constants DEF Fits
<1>. QED BY <1>3, <1>4, <1>5, <1>6, <1>7, <1>8 DEF Suits

(* The database thread takes a call and commits it.                        *)
LEMMA RowDbRun ==
  ASSUME RowsTyped, NEW s \in Searches, RowInv(s), DbRun(s), UNCHANGED run
  PROVE  /\ RowsTyped' /\ RowInv(s)' /\ Local(s)
         /\ Is(s, TerminalStates) => row'[s].status = row[s].status
<1>1. calls[s] # <<>>
  BY DEF DbRun
<1>2. run[s].pc \in Waits /\ Asking(s)
  BY <1>1 DEF RowInv, Talks, Quiet, Answering, Heeding
<1>3. out[s] = <<>> /\ back[s] = None
  BY <1>2 DEF Asking
<1>4. PICK c : calls[s] = <<c>> /\ c.by = "run" /\ Suits(run[s].pc, c)
  BY <1>2 DEF Asking
<1>5. c \in Calls
  <2>1. <<c>> \in Seq(Calls)
    BY <1>4 DEF RowsTyped
  <2>. QED BY <2>1, TheOne
<1>6. Running(s) /\ row[s] \in Rows /\ row[s].status # None
  <2>1. run[s].pc # "gone"
    BY <1>2 DEF Waits
  <2>2. Running(s)
    BY <2>1, Stretches
  <2>. QED BY <2>2 DEF RowsTyped, RowInv, NewsIsTrue
<1>. DEFINE served == Serve(row[s], c)
<1>7. Head(calls[s]) = c /\ Tail(calls[s]) = <<>>
  BY <1>4, <1>5, One
<1>8. PICK answer \in {served.answer} \cup
                        (IF served.answer = "go" /\ "trouble" \in Faults THEN {"trouble"} ELSE {}) :
        out' = [out EXCEPT ![s] = <<[by |-> c.by, echo |-> served.echo, answer |-> answer]>>]
  BY <1>7 DEF DbRun
<1>9. /\ row' = [row EXCEPT ![s] = served.row] /\ calls' = [calls EXCEPT ![s] = <<>>]
      /\ UNCHANGED <<said, feed, back, svc>>
  BY <1>7 DEF DbRun
<1>10. /\ served.row \in Rows /\ served.row.status # None
       /\ row[s].status \in TerminalStates => served.row.status = row[s].status
       /\ served.echo \in {None, served.row.status}
       /\ served.answer \in Words
       /\ Fits(run[s].pc, served.answer, served.row.status)
       /\ served.answer = "go" => run[s].pc = "context"
       /\ served.row.status = "running" =>
            \/ run[s].pc \in {"marking", "flushing"}
            \/ run[s].pc \in {"context", "state"} /\ row[s].status = "running"
       /\ served.row.status = "queued" =>
            \/ served.echo = "queued"
            \/ row[s].status = "queued" /\ run[s].pc \in {"state", "flushing"}
            \/ row[s].status = "queued" /\ run[s].pc = "context" /\ served.answer = "go"
  BY <1>2, <1>4, <1>5, <1>6, ServeIs
<1>. HIDE DEF served
<1>. DEFINE o == [by |-> c.by, echo |-> served.echo, answer |-> answer]
<1>11. answer = served.answer \/ (answer = "trouble" /\ served.answer = "go")
  BY <1>8
<1>12. answer \in Words /\ Fits(run[s].pc, answer, served.row.status)
  <2>1. CASE answer = "trouble" /\ served.answer = "go"
    <3>1. run[s].pc = "context" /\ answer # None /\ answer \in Words
      BY <1>10, <2>1, Constants DEF Words
    <3>. QED BY <2>1, <3>1 DEF Fits
  <2>. QED BY <1>10, <1>11, <2>1
<1>13. served.row.status \in Statuses
  BY <1>10 DEF Rows, Statuses
<1>14. o \in Answers /\ o.by = "run" /\ o.echo = served.echo /\ o.answer = answer
  BY <1>4, <1>10, <1>12, <1>13 DEF Answers
<1>15. out' = [out EXCEPT ![s] = <<o>>]
  BY <1>8
<1>. HIDE DEF o
<1>16. <<o>> \in Seq(Answers)
  BY <1>14, One
<1>17. RowsTyped'
  BY <1>9, <1>10, <1>15, <1>16 DEF RowsTyped
<1>18. /\ row'[s] = served.row /\ calls'[s] = <<>> /\ out'[s] = <<o>> /\ back'[s] = None
       /\ said'[s] = said[s] /\ feed'[s] = feed[s] /\ run'[s] = run[s] /\ svc' = svc
  BY <1>3, <1>9, <1>15 DEF RowsTyped
<1>19. Local(s)
  BY <1>9, <1>15 DEF RowsTyped, Local, RowSame
<1>20. Talks(s)'
  BY <1>2, <1>12, <1>14, <1>18 DEF Talks, Answering
<1>21. \A x : Coming(s, x)' <=> said[s] = x \/ Has(feed[s], x) \/ o.echo = x
  BY <1>18, HasOne, ComingIs DEF Coming, Has, HasEcho
<1>22. \A x : Coming(s, x) <=> said[s] = x \/ Has(feed[s], x)
  BY <1>3, HasNothing, ComingIs
<1>23. NewsIsTrue(s)'
  <2>1. Running(s)' = Running(s)
    BY <1>18 DEF Running
  <2>2. ASSUME NEW x \in TerminalStates, Coming(s, x)' PROVE Is(s, TerminalStates)'
    <3>1. Coming(s, x) \/ x = served.row.status
      BY <1>10, <1>14, <1>21, <1>22, <2>2, Constants
    <3>. QED BY <1>10, <1>18, <3>1 DEF RowInv, NewsIsTrue, Is
  <2>3. svc' = "up" /\ Running(s)' /\ run'[s].closing => Is(s, TerminalStates)'
    BY <1>10, <1>18, <2>1 DEF RowInv, NewsIsTrue, Is
  <2>. QED BY <1>10, <1>18, <2>1, <2>2, <2>3 DEF RowInv, NewsIsTrue
<1>24. Driven(s)'
  <2>1. svc = "up" /\ row[s].status = "running" => run[s].pc \notin {"context", "state"}
    BY DEF RowInv, Driven, Is
  <2>. QED BY <1>10, <1>18, <2>1 DEF Driven, Is
<1>25. Started(s)'
  <2>1. CASE o.echo = "queued"
    BY <1>21, <2>1 DEF Started
  <2>2. CASE row[s].status = "queued" /\ run[s].pc \in {"state", "flushing"}
    <3>1. svc = "up" => Coming(s, "queued") \/ run[s].relaunch
      BY <2>2 DEF RowInv, Started, Sees, Is
    <3>. QED BY <1>6, <1>18, <1>21, <1>22, <3>1 DEF Started, Running
  <2>3. CASE run[s].pc = "context" /\ served.answer = "go"
    <3>1. answer \in {"go", "queued", "trouble"}
      BY <1>11, <2>3
    <3>2. Sees(s)'
      BY <1>14, <1>18, <2>3, <3>1 DEF Sees
    <3>. QED BY <1>6, <1>18, <3>2 DEF Started, Running
  <2>4. CASE served.row.status # "queued"
    BY <1>18, <2>4 DEF Started, Is
  <2>. QED BY <1>10, <1>14, <2>1, <2>2, <2>3, <2>4
<1>26. Is(s, TerminalStates) => row'[s].status = row[s].status
  BY <1>10, <1>18 DEF Is
<1>. QED BY <1>17, <1>19, <1>20, <1>23, <1>24, <1>25, <1>26 DEF RowInv

(* The database thread's answer, and the event of what it wrote.           *)
LEMMA RowDbReturn ==
  ASSUME RowsTyped, NEW s \in Searches, RowInv(s), DbReturn(s), UNCHANGED run
  PROVE  RowsTyped' /\ RowInv(s)' /\ Local(s)
<1>1. out[s] # <<>>
  BY DEF DbReturn
<1>2. run[s].pc \in Waits /\ Answering(s)
  BY <1>1 DEF RowInv, Talks, Quiet, Asking, Heeding
<1>3. calls[s] = <<>> /\ back[s] = None
  BY <1>2 DEF Answering
<1>4. PICK o : out[s] = <<o>> /\ o.by = "run" /\ Fits(run[s].pc, o.answer, row[s].status)
  BY <1>2 DEF Answering
<1>5. o \in Answers
  <2>1. <<o>> \in Seq(Answers)
    BY <1>4 DEF RowsTyped
  <2>. QED BY <2>1, TheOne
<1>6. Running(s)
  <2>1. run[s].pc # "gone"
    BY <1>2 DEF Waits
  <2>. QED BY <2>1, Stretches
<1>7. Head(out[s]) = o
  BY <1>4, <1>5, One
<1>. DEFINE heard == IF o.echo = None THEN feed[s] ELSE Append(feed[s], o.echo)
<1>8. /\ feed' = [feed EXCEPT ![s] = heard] /\ back' = [back EXCEPT ![s] = o.answer]
      /\ out' = [out EXCEPT ![s] = <<>>]
      /\ UNCHANGED <<row, said, calls, svc>>
  BY <1>4, <1>7 DEF DbReturn
<1>9. feed[s] \in Seq(Statuses) /\ o.echo \in {None} \cup Statuses /\ o.answer \in Words
  BY <1>5 DEF RowsTyped, Answers
<1>10. heard \in Seq(Statuses)
  BY <1>9
<1>11. \A x : x # None => (Has(heard, x) <=> Has(feed[s], x) \/ o.echo = x)
  <2>1. CASE o.echo = None
    BY <2>1
  <2>2. CASE o.echo # None
    BY <1>9, <2>2, HasAppend
  <2>. QED BY <2>1, <2>2
<1>. HIDE DEF heard
<1>12. <<>> \in Seq(Answers)
  OBVIOUS
<1>13. RowsTyped'
  BY <1>8, <1>9, <1>10, <1>12 DEF RowsTyped
<1>14. /\ row'[s] = row[s] /\ calls'[s] = <<>> /\ out'[s] = <<>> /\ back'[s] = o.answer
       /\ said'[s] = said[s] /\ feed'[s] = heard /\ run'[s] = run[s] /\ svc' = svc
  BY <1>3, <1>8 DEF RowsTyped
<1>15. Local(s)
  BY <1>8 DEF RowsTyped, Local, RowSame
<1>16. Talks(s)'
  BY <1>2, <1>4, <1>14 DEF Talks, Heeding
<1>17. \A x : Coming(s, x)' <=> said[s] = x \/ Has(heard, x)
  BY <1>14, HasNothing DEF Coming, Has, HasEcho
<1>18. \A x : Coming(s, x) <=> said[s] = x \/ Has(feed[s], x) \/ o.echo = x
  BY <1>4, HasOne, ComingIs
<1>19. \A x : x # None => (Coming(s, x)' <=> Coming(s, x))
  BY <1>11, <1>17, <1>18
<1>20. NewsIsTrue(s)'
  <2>1. Running(s)' = Running(s)
    BY <1>14 DEF Running
  <2>2. \A x \in TerminalStates : Coming(s, x)' <=> Coming(s, x)
    BY <1>19, Constants
  <2>. QED BY <1>6, <1>14, <2>1, <2>2 DEF RowInv, NewsIsTrue, Is
<1>21. Driven(s)'
  BY <1>3, <1>14 DEF RowInv, Driven, Is
<1>22. Started(s)'
  <2>1. CASE Sees(s)
    <3>1. Sees(s)'
      BY <1>3, <1>4, <1>14, <2>1, Constants DEF Sees
    <3>. QED BY <1>6, <1>14, <3>1 DEF Started, Running
  <2>2. CASE ~Sees(s)
    <3>1. Running(s)' = Running(s) /\ (Coming(s, "queued")' <=> Coming(s, "queued"))
      BY <1>14, <1>19, Constants DEF Running
    <3>. QED BY <1>14, <2>2, <3>1 DEF RowInv, Started, Is
  <2>. QED BY <2>1, <2>2
<1>. QED BY <1>13, <1>15, <1>16, <1>20, <1>21, <1>22 DEF RowInv

LEMMA RowAnnounce ==
  ASSUME RowsTyped, NEW s \in Searches, RowInv(s), Announce(s), UNCHANGED run
  PROVE  RowsTyped' /\ RowInv(s)' /\ Local(s)
<1>1. /\ said[s] # None /\ feed' = [feed EXCEPT ![s] = Append(@, said[s])]
      /\ said' = [said EXCEPT ![s] = None] /\ UNCHANGED <<row, calls, out, back, svc>>
  BY DEF Announce
<1>2. said[s] \in Statuses /\ feed[s] \in Seq(Statuses)
  BY <1>1 DEF RowsTyped
<1>. DEFINE heard == Append(feed[s], said[s])
<1>3. heard \in Seq(Statuses)
  BY <1>2
<1>4. \A x : Has(heard, x) <=> Has(feed[s], x) \/ said[s] = x
  BY <1>2, HasAppend
<1>5. feed' = [feed EXCEPT ![s] = heard]
  BY <1>1
<1>. HIDE DEF heard
<1>6. RowsTyped'
  BY <1>1, <1>3, <1>5 DEF RowsTyped
<1>7. /\ row'[s] = row[s] /\ calls'[s] = calls[s] /\ out'[s] = out[s] /\ back'[s] = back[s]
      /\ said'[s] = None /\ feed'[s] = heard /\ run'[s] = run[s] /\ svc' = svc
  BY <1>1, <1>5 DEF RowsTyped
<1>8. Local(s)
  BY <1>1, <1>5 DEF RowsTyped, Local, RowSame
<1>9. Talks(s)'
  BY <1>7 DEF RowInv, Talks, Quiet, Asking, Answering, Heeding
<1>10. \A x : x # None => (Coming(s, x)' <=> Coming(s, x))
  <2>1. \A x : Coming(s, x)' <=> None = x \/ Has(heard, x) \/ HasEcho(out[s], x)
    BY <1>7 DEF Coming, Has, HasEcho
  <2>. QED BY <1>4, <2>1, ComingIs
<1>11. NewsIsTrue(s)'
  <2>1. Running(s)' = Running(s)
    BY <1>7 DEF Running
  <2>2. \A x \in TerminalStates : Coming(s, x)' <=> Coming(s, x)
    BY <1>10, Constants
  <2>. QED BY <1>1, <1>7, <2>1, <2>2 DEF RowInv, NewsIsTrue, Is
<1>12. Driven(s)'
  BY <1>7 DEF RowInv, Driven, Is
<1>13. Started(s)'
  <2>1. Running(s)' = Running(s) /\ (Coming(s, "queued")' <=> Coming(s, "queued"))
    BY <1>7, <1>10, Constants DEF Running
  <2>2. Sees(s)' = Sees(s)
    BY <1>7 DEF Sees
  <2>. QED BY <1>7, <2>1, <2>2 DEF RowInv, Started, Is
<1>. QED BY <1>6, <1>8, <1>9, <1>11, <1>12, <1>13 DEF RowInv

LEMMA RowHub ==
  ASSUME RowsTyped, NEW s \in Searches, RowInv(s), Hub(s), UNCHANGED run
  PROVE  /\ RowsTyped' /\ RowInv(s)' /\ Local(s)
         /\ Is(s, TerminalStates) => row'[s].status = row[s].status
<1>1. CASE DbRun(s)
  BY <1>1, RowDbRun
<1>2. CASE DbReturn(s)
  <2>1. row' = row
    BY <1>2 DEF DbReturn
  <2>. QED BY <1>2, <2>1, RowDbReturn
<1>3. CASE Announce(s)
  <2>1. row' = row
    BY <1>3 DEF Announce
  <2>. QED BY <1>3, <2>1, RowAnnounce
<1>. QED BY <1>1, <1>2, <1>3 DEF Hub

-----------------------------------------------------------------------------
(* What the loop hears: the head of the feed is gone, the task may be told. *)
LEMMA HeardIs ==
  ASSUME RowsTyped, NEW s \in Searches, NEW status, Hears(s, status), Heard(s)
  PROVE  /\ feed' = [feed EXCEPT ![s] = Tail(@)] /\ feed'[s] \in Seq(Statuses)
         /\ feed' \in [Searches -> Seq(Statuses)]
         /\ \A t \in Searches \ {s} : feed'[t] = feed[t]
         /\ feed[s] # <<>> /\ Has(feed[s], status)
         /\ \A x : Has(feed'[s], x) => Has(feed[s], x)
         /\ \A x : x # status /\ Has(feed[s], x) => Has(feed'[s], x)
<1>1. feed[s] # <<>> /\ Head(feed[s]) = status /\ feed[s] \in Seq(Statuses)
  BY DEF Hears, RowsTyped
<1>2. feed' = [feed EXCEPT ![s] = Tail(@)]
  BY DEF Heard
<1>. DEFINE rest == Tail(feed[s])
<1>3. /\ rest \in Seq(Statuses)
      /\ \A x : Has(rest, x) => Has(feed[s], x)
      /\ \A x : Has(feed[s], x) => Head(feed[s]) = x \/ Has(rest, x)
      /\ Has(feed[s], Head(feed[s]))
  BY <1>1, HasTail
<1>4. feed' = [feed EXCEPT ![s] = rest]
  BY <1>2
<1>. HIDE DEF rest
<1>5. /\ feed'[s] = rest /\ \A t \in Searches \ {s} : feed'[t] = feed[t]
      /\ feed' \in [Searches -> Seq(Statuses)]
  BY <1>3, <1>4 DEF RowsTyped
<1>. QED BY <1>1, <1>2, <1>3, <1>5

\* The task as it is after it was told: where it is, it stays.
LEMMA RowTold ==
  ASSUME RowsTyped, NEW s \in Searches, RowInv(s), NEW status, Hears(s, status), Heard(s),
         UNCHANGED <<row, said, calls, out, back, svc>>,
         NEW r \in {NoRun} \cup Stretch, run' = [run EXCEPT ![s] = r],
         \/ r.pc = run[s].pc /\ (r \in Stretch <=> Running(s))
         \/ svc = "up" /\ ~Running(s) /\ r = Fresh,
         r \in Stretch => r.closing = run[s].closing \/ ~r.closing \/ Is(s, TerminalStates),
         svc = "up" /\ Is(s, {"queued"}) =>
           \/ r \in Stretch /\ r.pc = "new"
           \/ r \in Stretch /\ r.relaunch
           \/ status # "queued" /\ r \in Stretch /\ r.relaunch = run[s].relaunch
           \/ status # "queued" /\ r = NoRun
  PROVE  RowsTyped' /\ RowInv(s)' /\ Local(s)
<1>1. /\ feed[s] # <<>> /\ Has(feed[s], status)
      /\ feed' \in [Searches -> Seq(Statuses)]
      /\ \A t \in Searches \ {s} : feed'[t] = feed[t]
      /\ \A x : Has(feed'[s], x) => Has(feed[s], x)
      /\ \A x : x # status /\ Has(feed[s], x) => Has(feed'[s], x)
  BY HeardIs
<1>2. RowsTyped'
  BY <1>1 DEF RowsTyped
<1>3. /\ row'[s] = row[s] /\ calls'[s] = calls[s] /\ out'[s] = out[s] /\ back'[s] = back[s]
      /\ said'[s] = said[s] /\ run'[s] = r /\ svc' = svc
  BY DEF RowsTyped
<1>4. Local(s)
  BY <1>1 DEF RowsTyped, Local, RowSame
<1>5. /\ \A x : Coming(s, x)' => Coming(s, x)
      /\ \A x : x # status /\ Coming(s, x) => Coming(s, x)'
  <2>1. \A x : Coming(s, x)' <=> said[s] = x \/ Has(feed'[s], x) \/ HasEcho(out[s], x)
    BY <1>3 DEF Coming, Has, HasEcho
  <2>. QED BY <1>1, <2>1, ComingIs
<1>6. Fresh.pc = "new" /\ ~Fresh.closing /\ "new" \notin Waits /\ "gone" \notin Waits
  BY DEF Fresh, Waits
<1>7. Talks(s)'
  <2>1. CASE r.pc = run[s].pc
    BY <1>3, <2>1 DEF RowInv, Talks, Quiet, Asking, Answering, Heeding
  <2>2. CASE ~Running(s) /\ r = Fresh
    <3>1. Quiet(s)
      BY <1>6, <2>2, Stretches DEF RowInv, Talks
    <3>. QED BY <1>3, <1>6, <2>2, <3>1 DEF Talks, Quiet
  <2>. QED BY <2>1, <2>2
<1>8. Running(s)' <=> r \in Stretch
  BY <1>3, Constants DEF Running
<1>9. NewsIsTrue(s)'
  <2>1. row'[s].status # None
    BY <1>1, <1>3 DEF RowInv, NewsIsTrue
  <2>2. \A x \in TerminalStates : Coming(s, x)' => Is(s, TerminalStates)'
    BY <1>3, <1>5 DEF RowInv, NewsIsTrue, Is
  <2>3. svc' = "up" /\ Running(s)' /\ run'[s].closing => Is(s, TerminalStates)'
    <3>1. CASE r.pc = run[s].pc /\ (r \in Stretch <=> Running(s))
      BY <1>3, <1>8, <3>1 DEF RowInv, NewsIsTrue, Is
    <3>2. CASE r = Fresh
      BY <1>3, <1>6, <3>2
    <3>. QED BY <3>1, <3>2
  <2>4. svc' = "down" => ~Running(s)'
    BY <1>3, <1>8 DEF RowInv, NewsIsTrue
  <2>. QED BY <2>1, <2>2, <2>3, <2>4 DEF NewsIsTrue
<1>10. Driven(s)'
  <2>1. CASE r.pc = run[s].pc
    BY <1>3, <2>1 DEF RowInv, Driven, Is
  <2>2. CASE svc = "up" /\ ~Running(s) /\ r = Fresh
    <3>1. ~Is(s, {"running"})
      BY <2>2, Stretches DEF RowInv, Driven
    <3>. QED BY <1>3, <3>1 DEF Driven, Is
  <2>. QED BY <2>1, <2>2
<1>11. Started(s)'
  <2>1. CASE r.pc = run[s].pc /\ (r \in Stretch <=> Running(s))
    <3>1. Sees(s)' = Sees(s)
      BY <1>3, <2>1 DEF Sees
    <3>2. CASE svc = "up" /\ Is(s, {"queued"})
      <4>1. CASE r \in Stretch /\ (r.pc = "new" \/ r.relaunch)
        BY <1>3, <1>8, <4>1 DEF Started
      <4>2. CASE status # "queued" /\ r \in Stretch /\ r.relaunch = run[s].relaunch
        <5>1. Coming(s, "queued") => Coming(s, "queued")'
          BY <1>5, <4>2
        <5>. QED BY <1>3, <1>8, <2>1, <3>1, <3>2, <4>2, <5>1 DEF RowInv, Started
      <4>3. CASE status # "queued" /\ r = NoRun
        <5>1. Coming(s, "queued") => Coming(s, "queued")'
          BY <1>5, <4>3
        <5>. QED BY <2>1, <3>2, <4>3, <5>1, Constants DEF RowInv, Started
      <4>. QED BY <3>2, <4>1, <4>2, <4>3
    <3>3. CASE ~(svc = "up" /\ Is(s, {"queued"}))
      BY <1>3, <3>3 DEF Started, Is
    <3>. QED BY <3>2, <3>3
  <2>2. CASE svc = "up" /\ ~Running(s) /\ r = Fresh
    <3>1. r \in Stretch
      BY <2>2 DEF Fresh, Stretch, Points
    <3>. QED BY <1>3, <1>6, <1>8, <2>2, <3>1 DEF Started
  <2>. QED BY <2>1, <2>2
<1>. QED BY <1>2, <1>4, <1>7, <1>9, <1>10, <1>11 DEF RowInv

LEMMA RowReact ==
  ASSUME RowsTyped, NEW s \in Searches, RowInv(s), React(s)
  PROVE  RowsTyped' /\ RowInv(s)' /\ Local(s) /\ row' = row
<1>. DEFINE r == run'[s]
<1>1. run[s] \in {NoRun} \cup Stretch /\ run = [run EXCEPT ![s] = run[s]]
  BY DEF RowsTyped
<1>2. run[s] \in Stretch => StopSet(run[s]) \in {"unarmed", "armed", "set"}
  BY DEF Stretch, StopSet
<1>3. Running(s) <=> run[s] \in Stretch
  BY Stretches
<1>4. CASE ReactQueued(s)
  <2>1. /\ Hears(s, "queued") /\ Heard(s) /\ UNCHANGED <<row, said, calls, out, back, svc>>
    BY <1>4 DEF ReactQueued
  <2>2. CASE svc # "up"
    <3>1. run' = [run EXCEPT ![s] = run[s]]
      BY <1>1, <1>4, <2>2 DEF ReactQueued
    <3>. QED BY <1>1, <1>3, <2>1, <2>2, <3>1, RowTold
  <2>3. CASE svc = "up" /\ Running(s)
    <3>. DEFINE told == [run[s] EXCEPT !.relaunch = TRUE]
    <3>1. run' = [run EXCEPT ![s] = told]
      BY <1>4, <2>3 DEF ReactQueued, Becomes
    <3>2. /\ told \in Stretch /\ told.pc = run[s].pc /\ told.closing = run[s].closing
          /\ told.relaunch
      BY <1>3, <2>3 DEF Stretch
    <3>. HIDE DEF told
    <3>. QED BY <1>3, <2>1, <2>3, <3>1, <3>2, RowTold
  <2>4. CASE svc = "up" /\ ~Running(s)
    <3>1. run' = [run EXCEPT ![s] = Fresh]
      BY <1>4, <2>4 DEF ReactQueued, Becomes
    <3>2. Fresh \in Stretch /\ Fresh.pc = "new" /\ ~Fresh.closing
      BY DEF Fresh, Stretch, Points
    <3>. QED BY <2>1, <2>4, <3>1, <3>2, RowTold
  <2>. QED BY <2>1, <2>2, <2>3, <2>4
<1>5. CASE ReactPaused(s)
  <2>1. /\ Hears(s, "paused") /\ Heard(s) /\ UNCHANGED <<row, said, calls, out, back, svc>>
    BY <1>5 DEF ReactPaused
  <2>2. CASE svc = "up" /\ Running(s)
    <3>. DEFINE told == [run[s] EXCEPT !.pausing = TRUE, !.stop = StopSet(run[s])]
    <3>1. run' = [run EXCEPT ![s] = told]
      BY <1>5, <2>2 DEF ReactPaused, Becomes
    <3>2. /\ told \in Stretch /\ told.pc = run[s].pc /\ told.closing = run[s].closing
          /\ told.relaunch = run[s].relaunch
      BY <1>2, <1>3, <2>2 DEF Stretch
    <3>. HIDE DEF told
    <3>3. /\ told \in {NoRun} \cup Stretch /\ (told \in Stretch <=> Running(s))
          /\ "paused" # "queued" /\ told \in Stretch /\ told.relaunch = run[s].relaunch
      BY <2>2, <3>2
    <3>. QED BY <2>1, <3>1, <3>2, <3>3, RowTold
  <2>3. CASE ~(svc = "up" /\ Running(s))
    <3>1. run' = [run EXCEPT ![s] = run[s]]
      BY <1>1, <1>5, <2>3 DEF ReactPaused
    <3>2. /\ "paused" # "queued"
          /\ (run[s] \in Stretch /\ run[s].relaunch = run[s].relaunch) \/ run[s] = NoRun
      BY <1>1
    <3>. QED BY <1>1, <1>3, <2>1, <3>1, <3>2, RowTold
  <2>. QED BY <2>1, <2>2, <2>3
<1>6. CASE ReactEnded(s)
  <2>1. PICK status \in TerminalStates : Hears(s, status)
    BY <1>6 DEF ReactEnded
  <2>2. Heard(s) /\ UNCHANGED <<row, said, calls, out, back, svc>>
    BY <1>6 DEF ReactEnded
  <2>3. Has(feed[s], status) /\ status # "queued"
    BY <2>1, <2>2, HeardIs, Constants
  <2>4. Is(s, TerminalStates)
    BY <2>1, <2>3, ComingIs DEF RowInv, NewsIsTrue
  <2>5. ~Is(s, {"queued"})
    BY <2>4, Constants DEF Is
  <2>6. CASE svc = "up" /\ Running(s)
    <3>. DEFINE told == [run[s] EXCEPT !.closing = TRUE, !.relaunch = FALSE,
                                       !.stop = StopSet(run[s])]
    <3>1. run' = [run EXCEPT ![s] = told]
      BY <1>6, <2>6 DEF ReactEnded, Becomes
    <3>2. told \in Stretch /\ told.pc = run[s].pc
      BY <1>2, <1>3, <2>6 DEF Stretch
    <3>. HIDE DEF told
    <3>. QED BY <1>3, <2>1, <2>2, <2>4, <2>5, <2>6, <3>1, <3>2, RowTold
  <2>7. CASE ~(svc = "up" /\ Running(s))
    <3>1. run' = [run EXCEPT ![s] = run[s]]
      BY <1>1, <1>6, <2>7 DEF ReactEnded
    <3>. QED BY <1>1, <1>3, <2>1, <2>2, <2>4, <2>5, <3>1, RowTold
  <2>. QED BY <2>2, <2>6, <2>7
<1>7. CASE ReactRunning(s)
  <2>1. /\ Hears(s, "running") /\ Heard(s)
        /\ UNCHANGED <<row, said, calls, out, back, svc>>
        /\ run' = [run EXCEPT ![s] = run[s]]
    BY <1>1, <1>7 DEF ReactRunning
  <2>2. /\ "running" # "queued"
        /\ (run[s] \in Stretch /\ run[s].relaunch = run[s].relaunch) \/ run[s] = NoRun
    BY <1>1
  <2>. QED BY <1>1, <1>3, <2>1, <2>2, RowTold
<1>. QED BY <1>4, <1>5, <1>6, <1>7 DEF React

-----------------------------------------------------------------------------
(* The owner's verbs: a live row, or one not there yet, moves.             *)
LEMMA RowCommit ==
  ASSUME RowsTyped, \A t \in Searches : RowInv(t), NEW S \in SUBSET Searches,
         NEW to \in {"queued", "paused", "stopped"}, Commit(S, to), UNCHANGED run,
         \A s \in S : Ask(s) /\ row[s].status \notin TerminalStates
  PROVE  /\ RowsTyped' /\ \A t \in Searches : RowInv(t)'
         /\ \A t \in Searches : Is(t, TerminalStates) => row'[t].status = row[t].status
<1>1. /\ row' = [s \in Searches |->
                   IF s \in S THEN [status |-> to,
                                    warm |-> to \notin TerminalStates /\ row[s].warm]
                   ELSE row[s]]
      /\ said' = [s \in Searches |-> IF s \in S THEN to ELSE said[s]]
      /\ UNCHANGED <<feed, calls, out, back, svc>>
  BY DEF Commit
<1>2. to \in Statuses /\ to # None /\ to # "running" /\ to \in {None} \cup LiveStates \cup TerminalStates
  BY Constants DEF Statuses
<1>3. \A w \in BOOLEAN : [status |-> to, warm |-> w] \in Rows
  BY <1>2 DEF Rows
<1>4. \A s \in S : (to \notin TerminalStates /\ row[s].warm) \in BOOLEAN
  OBVIOUS
<1>5. row' \in [Searches -> Rows]
  <2>1. ASSUME NEW s \in Searches PROVE row'[s] \in Rows
    <3>1. CASE s \in S
      <4>1. row'[s] = [status |-> to, warm |-> to \notin TerminalStates /\ row[s].warm]
        BY <1>1, <3>1
      <4>. QED BY <1>3, <1>4, <3>1, <4>1
    <3>2. CASE s \notin S
      BY <1>1, <3>2 DEF RowsTyped
    <3>. QED BY <3>1, <3>2
  <2>2. row' = [s \in Searches |-> row'[s]]
    BY <1>1
  <2>. QED BY <2>1, <2>2
<1>6. said' \in [Searches -> {None} \cup Statuses]
  BY <1>1, <1>2 DEF RowsTyped
<1>7. RowsTyped'
  BY <1>1, <1>5, <1>6 DEF RowsTyped
<1>8. \A s \in S : /\ row'[s].status = to /\ said'[s] = to /\ said[s] = None /\ svc = "up"
                   /\ row[s].status \notin TerminalStates
  BY <1>1 DEF Ask
<1>9. \A s \in Searches : s \notin S => row'[s] = row[s] /\ said'[s] = said[s]
  BY <1>1
<1>10. ASSUME NEW s \in Searches, s \in S PROVE RowInv(s)'
  <2>1. /\ row'[s].status = to /\ said'[s] = to /\ said[s] = None /\ svc = "up" /\ svc' = "up"
        /\ feed'[s] = feed[s] /\ calls'[s] = calls[s] /\ out'[s] = out[s] /\ back'[s] = back[s]
        /\ run'[s] = run[s] /\ row[s].status \notin TerminalStates
    BY <1>1, <1>8, <1>10
  <2>2. Talks(s)'
    <3>1. \A answer : Fits(run[s].pc, answer, row[s].status) => Fits(run[s].pc, answer, to)
      BY <1>2, <2>1 DEF Fits
    <3>. QED BY <2>1, <3>1 DEF RowInv, Talks, Quiet, Asking, Answering, Heeding
  <2>3. \A x \in TerminalStates : Coming(s, x)' => to = x
    <3>1. \A x : Coming(s, x)' <=> to = x \/ Has(feed[s], x) \/ HasEcho(out[s], x)
      BY <2>1 DEF Coming, Has, HasEcho
    <3>2. \A x \in TerminalStates : ~Coming(s, x)
      BY <2>1 DEF RowInv, NewsIsTrue, Is
    <3>. QED BY <3>1, <3>2, ComingIs
  <2>4. NewsIsTrue(s)'
    <3>1. Running(s)' = Running(s)
      BY <2>1 DEF Running
    <3>2. ~(Running(s) /\ run[s].closing)
      BY <2>1 DEF RowInv, NewsIsTrue, Is
    <3>. QED BY <1>2, <2>1, <2>3, <3>1, <3>2 DEF NewsIsTrue, Is
  <2>5. Driven(s)'
    BY <1>2, <2>1 DEF Driven, Is
  <2>6. Started(s)'
    BY <2>1 DEF Started, Coming, Is
  <2>. QED BY <2>2, <2>4, <2>5, <2>6 DEF RowInv
<1>11. ASSUME NEW s \in Searches, s \notin S PROVE RowInv(s)'
  <2>1. RowSame(s) /\ svc' = svc
    BY <1>1, <1>9, <1>11 DEF RowSame
  <2>. QED BY <2>1, RowElsewhere
<1>12. \A t \in Searches : Is(t, TerminalStates) => row'[t].status = row[t].status
  BY <1>8, <1>9 DEF Is
<1>. QED BY <1>7, <1>10, <1>11, <1>12

LEMMA RowOwner ==
  ASSUME RowsTyped, \A t \in Searches : RowInv(t), Owner, UNCHANGED run
  PROVE  /\ RowsTyped' /\ \A t \in Searches : RowInv(t)'
         /\ \A t \in Searches : Is(t, TerminalStates) => row'[t].status = row[t].status
<1>1. \E S \in SUBSET Searches, to \in {"queued", "paused", "stopped"} :
        Commit(S, to) /\ \A s \in S : Ask(s) /\ row[s].status \notin TerminalStates
  <2>1. \A s \in Searches : Is(s, {None}) \/ Is(s, {"queued", "running"}) \/ Is(s, {"paused"})
                              \/ Is(s, LiveStates) => row[s].status \notin TerminalStates
    BY Constants DEF Is, LiveStates
  <2>2. CASE \E s \in Searches : StartSearch(s) \/ PauseSearch(s)
                                   \/ ResumeSearch(s) \/ StopSearch(s)
    <3>1. PICK s \in Searches : StartSearch(s) \/ PauseSearch(s)
                                   \/ ResumeSearch(s) \/ StopSearch(s)
      BY <2>2
    <3>2. \E to \in {"queued", "paused", "stopped"} :
            Commit({s}, to) /\ Ask(s) /\ row[s].status \notin TerminalStates
      BY <2>1, <3>1 DEF StartSearch, PauseSearch, ResumeSearch, StopSearch
    <3>3. {s} \in SUBSET Searches
      OBVIOUS
    <3>. QED BY <3>2, <3>3
  <2>3. CASE PauseAll
    <3>. DEFINE S == {s \in Searches : Is(s, {"queued", "running"})}
    <3>1. Commit(S, "paused") /\ \A s \in S : Ask(s)
      BY <2>3 DEF PauseAll
    <3>2. S \in SUBSET Searches /\ \A s \in S : row[s].status \notin TerminalStates
      BY <2>1
    <3>. HIDE DEF S
    <3>. QED BY <3>1, <3>2
  <2>4. CASE ResumeAll
    <3>. DEFINE S == {s \in Searches : Is(s, {"paused"})}
    <3>1. Commit(S, "queued") /\ \A s \in S : Ask(s)
      BY <2>4 DEF ResumeAll
    <3>2. S \in SUBSET Searches /\ \A s \in S : row[s].status \notin TerminalStates
      BY <2>1
    <3>. HIDE DEF S
    <3>. QED BY <3>1, <3>2
  <2>. QED BY <2>2, <2>3, <2>4 DEF Owner
<1>. QED BY <1>1, RowCommit

-----------------------------------------------------------------------------
(* The process goes down and comes back.                                   *)
LEMMA RowShutdown ==
  ASSUME RowsTyped, \A t \in Searches : RowInv(t), Shutdown
  PROVE  RowsTyped' /\ row' = row /\ \A t \in Searches : RowInv(t)'
<1>1. /\ run' = [s \in Searches |->
                   IF Running(s) THEN [run[s] EXCEPT !.closing = TRUE, !.stop = StopSet(run[s])]
                   ELSE NoRun]
      /\ svc = "up" /\ svc' = "closing" /\ UNCHANGED <<row, said, feed, calls, out, back>>
  BY DEF Shutdown
<1>2. ASSUME NEW s \in Searches
      PROVE  /\ run'[s] \in {NoRun} \cup Stretch /\ run'[s].pc = run[s].pc
             /\ run'[s] # NoRun => Running(s)
  <2>1. CASE Running(s)
    <3>. DEFINE told == [run[s] EXCEPT !.closing = TRUE, !.stop = StopSet(run[s])]
    <3>1. run[s] \in Stretch
      BY <2>1, Stretches
    <3>2. StopSet(run[s]) \in {"unarmed", "armed", "set"}
      BY <3>1 DEF Stretch, StopSet
    <3>3. told \in Stretch /\ told.pc = run[s].pc
      BY <3>1, <3>2 DEF Stretch
    <3>4. run'[s] = told
      BY <1>1, <2>1
    <3>. QED BY <2>1, <3>3, <3>4
  <2>2. CASE ~Running(s)
    BY <1>1, <2>2, Stretches, Constants
  <2>. QED BY <2>1, <2>2
<1>3. run' \in [Searches -> {NoRun} \cup Stretch]
  <2>1. run' = [s \in Searches |-> run'[s]]
    BY <1>1
  <2>. QED BY <1>2, <2>1
<1>4. RowsTyped'
  BY <1>1, <1>3 DEF RowsTyped
<1>5. ASSUME NEW s \in Searches PROVE RowInv(s)'
  <2>1. RowInv(s)
    OBVIOUS
  <2>2. Talks(s)'
    BY <1>1, <1>2, <2>1 DEF RowInv, Talks, Quiet, Asking, Answering, Heeding
  <2>3. NewsIsTrue(s)'
    BY <1>1, <1>2, <2>1 DEF RowInv, NewsIsTrue, Running, Coming, Is
  <2>4. Driven(s)' /\ Started(s)'
    BY <1>1 DEF Driven, Started
  <2>. QED BY <2>2, <2>3, <2>4 DEF RowInv
<1>. QED BY <1>1, <1>4, <1>5

LEMMA RowEnds ==
  ASSUME RowsTyped, Ends, run' \in [Searches -> {NoRun} \cup Stretch],
         \A s \in Searches : run'[s] = NoRun
  PROVE  RowsTyped' /\ row' = row /\ \A t \in Searches : RowInv(t)'
<1>1. /\ svc' = "down" /\ row' = row
      /\ said' = [s \in Searches |-> None] /\ feed' = [s \in Searches |-> <<>>]
      /\ calls' = [s \in Searches |-> <<>>] /\ out' = [s \in Searches |-> <<>>]
      /\ back' = [s \in Searches |-> None]
  BY DEF Ends
<1>2. <<>> \in Seq(Statuses) /\ <<>> \in Seq(Calls) /\ <<>> \in Seq(Answers) /\ None \in Words
  BY Constants
<1>3. RowsTyped'
  BY <1>1, <1>2 DEF RowsTyped
<1>4. ASSUME NEW s \in Searches PROVE RowInv(s)'
  <2>1. /\ said'[s] = None /\ feed'[s] = <<>> /\ calls'[s] = <<>> /\ out'[s] = <<>>
        /\ back'[s] = None /\ run'[s] = NoRun
    BY <1>1
  <2>2. Talks(s)'
    BY <2>1, Constants DEF Talks, Quiet, Waits
  <2>3. \A x \in TerminalStates : ~Coming(s, x)'
    BY <2>1, Constants DEF Coming
  <2>4. NewsIsTrue(s)'
    BY <2>1, <2>3 DEF NewsIsTrue, Running
  <2>5. Driven(s)' /\ Started(s)'
    BY <1>1 DEF Driven, Started
  <2>. QED BY <2>2, <2>4, <2>5 DEF RowInv
<1>. QED BY <1>1, <1>3, <1>4

LEMMA RecoveredIs ==
  ASSUME NEW r \in Rows, NEW gone \in BOOLEAN
  PROVE  /\ Recovered(r, gone) \in Rows
         /\ Recovered(r, gone).status # "running"
         /\ r.status # None => Recovered(r, gone).status # None
         /\ r.status \in TerminalStates => Recovered(r, gone).status = r.status
<1>. DEFINE status == IF r.status = "paused" \/ gone THEN "paused" ELSE "queued"
<1>1. CASE r.status \in LiveStates
  <2>1. Recovered(r, gone) = [status |-> status, warm |-> FALSE]
    BY <1>1 DEF Recovered
  <2>2. status \in {"paused", "queued"}
    OBVIOUS
  <2>. HIDE DEF status
  <2>3. r.status \notin TerminalStates
    BY <1>1 DEF LiveStates, TerminalStates
  <2>. QED BY <2>1, <2>2, <2>3, Constants DEF Rows, LiveStates
<1>2. CASE r.status \notin LiveStates
  BY <1>2 DEF Recovered, LiveStates
<1>. QED BY <1>1, <1>2

LEMMA RowBoot ==
  ASSUME RowsTyped, \A t \in Searches : RowInv(t), Boot
  PROVE  /\ RowsTyped' /\ \A t \in Searches : RowInv(t)'
         /\ \A t \in Searches : Is(t, TerminalStates) => row'[t].status = row[t].status
<1>1. /\ svc = "down" /\ svc' = "up" /\ UNCHANGED <<said, feed, calls, out, back>>
      /\ run' = [s \in Searches |-> IF row'[s].status = "queued" THEN Fresh ELSE NoRun]
  BY DEF Boot, Boots
<1>2. PICK gone \in SUBSET Searches : row' = [s \in Searches |-> Recovered(row[s], s \in gone)]
  BY DEF Boot, Boots
<1>3. ASSUME NEW s \in Searches
      PROVE  /\ row'[s] \in Rows /\ row'[s].status # "running"
             /\ row[s].status # None => row'[s].status # None
             /\ row[s].status \in TerminalStates => row'[s].status = row[s].status
  <2>. DEFINE away == s \in gone
  <2>1. row'[s] = Recovered(row[s], away) /\ row[s] \in Rows
    BY <1>2 DEF RowsTyped
  <2>2. away \in BOOLEAN
    OBVIOUS
  <2>. HIDE DEF away
  <2>. QED BY <2>1, <2>2, RecoveredIs
<1>4. row' \in [Searches -> Rows]
  <2>1. row' = [s \in Searches |-> row'[s]]
    BY <1>2
  <2>. QED BY <1>3, <2>1
<1>5. Fresh \in Stretch /\ Fresh.pc = "new" /\ ~Fresh.closing /\ "new" \notin Waits /\ "gone" \notin Waits
  BY DEF Fresh, Stretch, Points, Waits
<1>6. run' \in [Searches -> {NoRun} \cup Stretch]
  BY <1>1, <1>5
<1>7. RowsTyped'
  BY <1>1, <1>4, <1>6 DEF RowsTyped
<1>8. ASSUME NEW s \in Searches PROVE RowInv(s)'
  <2>1. RowInv(s) /\ ~Running(s)
    BY <1>1 DEF RowInv, NewsIsTrue
  <2>2. Quiet(s)
    BY <1>5, <2>1, Stretches DEF RowInv, Talks
  <2>3. /\ run'[s] = IF row'[s].status = "queued" THEN Fresh ELSE NoRun
        /\ run'[s] # NoRun => row'[s].status = "queued" /\ run'[s] = Fresh
    BY <1>1
  <2>4. run'[s].pc \notin Waits
    BY <1>5, <2>3, Constants
  <2>5. Talks(s)'
    BY <1>1, <2>2, <2>4 DEF Talks, Quiet
  <2>6. \A x : Coming(s, x)' <=> Coming(s, x)
    BY <1>1 DEF Coming
  <2>7. NewsIsTrue(s)'
    <3>1. Running(s)' \/ said'[s] # None \/ feed'[s] # <<>> => row'[s].status # None
      BY <1>1, <1>3, <2>1, <2>3, Constants DEF RowInv, NewsIsTrue, Running
    <3>2. \A x \in TerminalStates : Coming(s, x)' => Is(s, TerminalStates)'
      BY <1>3, <2>1, <2>6 DEF RowInv, NewsIsTrue, Is
    <3>3. Running(s)' => ~run'[s].closing
      BY <1>5, <2>3 DEF Running
    <3>. QED BY <1>1, <3>1, <3>2, <3>3 DEF NewsIsTrue
  <2>8. Driven(s)'
    BY <1>3 DEF Driven, Is
  <2>9. Started(s)'
    <3>1. row'[s].status = "queued" => Running(s)' /\ run'[s].pc = "new"
      BY <1>5, <2>3, Constants DEF Running
    <3>. QED BY <3>1 DEF Started, Is
  <2>. QED BY <2>5, <2>7, <2>8, <2>9 DEF RowInv
<1>9. \A t \in Searches : Is(t, TerminalStates) => row'[t].status = row[t].status
  BY <1>3 DEF Is
<1>. QED BY <1>7, <1>8, <1>9

-----------------------------------------------------------------------------
RowsHold == RowsTyped /\ \A s \in Searches : RowInv(s)
EndedStay == \A s \in Searches : Is(s, TerminalStates) => row'[s].status = row[s].status

LEMMA RowsAtFirst == Init => RowsHold
<1>. SUFFICES ASSUME Init PROVE RowsHold
  OBVIOUS
<1>1. /\ row = [s \in Searches |-> [status |-> None, warm |-> FALSE]]
      /\ said = [s \in Searches |-> None] /\ feed = [s \in Searches |-> <<>>]
      /\ calls = [s \in Searches |-> <<>>] /\ out = [s \in Searches |-> <<>>]
      /\ back = [s \in Searches |-> None] /\ run = [s \in Searches |-> NoRun] /\ svc = "up"
  BY DEF Init, RowsInit
<1>2. <<>> \in Seq(Statuses) /\ <<>> \in Seq(Calls) /\ <<>> \in Seq(Answers) /\ None \in Words
  BY Constants
<1>3. [status |-> None, warm |-> FALSE] \in Rows
  BY DEF Rows
<1>4. RowsTyped
  BY <1>1, <1>2, <1>3 DEF RowsTyped
<1>5. ASSUME NEW s \in Searches PROVE RowInv(s)
  <2>1. /\ said[s] = None /\ feed[s] = <<>> /\ calls[s] = <<>> /\ out[s] = <<>>
        /\ back[s] = None /\ run[s] = NoRun /\ row[s].status = None
    BY <1>1
  <2>2. Talks(s)
    BY <2>1, Constants DEF Talks, Quiet, Waits
  <2>3. \A x \in TerminalStates : ~Coming(s, x)
    BY <2>1, Constants DEF Coming
  <2>4. NewsIsTrue(s)
    BY <2>1, <2>3 DEF NewsIsTrue, Running
  <2>5. Driven(s) /\ Started(s)
    BY <2>1, Constants DEF Driven, Started, Is
  <2>. QED BY <2>2, <2>4, <2>5 DEF RowInv
<1>. QED BY <1>4, <1>5 DEF RowsHold

LEMMA RowsStep == RowsHold /\ [Next]_vars => RowsHold' /\ EndedStay
<1>. SUFFICES ASSUME RowsHold, [Next]_vars PROVE RowsHold' /\ EndedStay
  OBVIOUS
<1>1. RowsTyped /\ \A s \in Searches : RowInv(s)
  BY DEF RowsHold
<1>2. ASSUME NEW s \in Searches, RowsTyped', RowInv(s)', Local(s),
             Is(s, TerminalStates) => row'[s].status = row[s].status
      PROVE  RowsHold' /\ EndedStay
  <2>1. ASSUME NEW t \in Searches, t # s
        PROVE  RowInv(t)' /\ row'[t] = row[t]
    <3>1. RowSame(t) /\ svc' = svc
      BY <1>2, <2>1 DEF Local
    <3>2. RowInv(t)'
      BY <1>1, <3>1, RowElsewhere
    <3>. QED BY <3>1, <3>2 DEF RowSame
  <2>2. RowsHold'
    BY <1>2, <2>1 DEF RowsHold
  <2>3. EndedStay
    BY <1>2, <2>1 DEF EndedStay
  <2>. QED BY <2>2, <2>3
<1>3. ASSUME row' = row PROVE EndedStay
  BY <1>3 DEF EndedStay
<1>4. CASE UNCHANGED <<rowVars, run>>
  <2>1. ASSUME NEW t \in Searches PROVE RowInv(t)'
    <3>1. RowSame(t) /\ svc' = svc
      BY <1>4 DEF RowSame, rowVars
    <3>. QED BY <1>1, <3>1, RowElsewhere
  <2>2. RowsTyped'
    BY <1>1, <1>4 DEF RowsTyped, rowVars
  <2>3. row' = row
    BY <1>4 DEF rowVars
  <2>. QED BY <1>3, <2>1, <2>2, <2>3 DEF RowsHold
<1>5. CASE Owner /\ UNCHANGED run
  BY <1>1, <1>5, RowOwner DEF RowsHold, EndedStay
<1>6. ASSUME NEW s \in Searches, Hub(s), UNCHANGED run PROVE RowsHold' /\ EndedStay
  <2>1. RowsTyped' /\ RowInv(s)' /\ Local(s) /\ (Is(s, TerminalStates) => row'[s].status = row[s].status)
    BY <1>1, <1>6, RowHub
  <2>. QED BY <1>2, <2>1
<1>7. ASSUME NEW s \in Searches, React(s) PROVE RowsHold' /\ EndedStay
  <2>1. RowsTyped' /\ RowInv(s)' /\ Local(s) /\ row' = row
    BY <1>1, <1>7, RowReact
  <2>. QED BY <1>2, <2>1
<1>8. ASSUME NEW s \in Searches, Task(s) PROVE RowsHold' /\ EndedStay
  <2>1. RowsTyped' /\ RowInv(s)' /\ Local(s)
    BY <1>1, <1>8, RowTask
  <2>2. row' = row
    BY <1>8 DEF Task, Begin, GotContext, GotState, TakeSlot, NoEngine, Marked, LimitReached,
                EngineStops, EngineFails, Flushed, OwnClosed, Parked, Finished, End,
                Asks, Goes, Parks, rowVars
  <2>. QED BY <1>2, <2>1, <2>2
<1>9. CASE Shutdown
  BY <1>1, <1>3, <1>9, RowShutdown DEF RowsHold
<1>10. CASE ShutDown \/ Crash
  <2>1. Ends /\ run' \in [Searches -> {NoRun} \cup Stretch] /\ \A s \in Searches : run'[s] = NoRun
    BY <1>1, <1>10 DEF ShutDown, Crash, Running, RowsTyped
  <2>. QED BY <1>1, <1>3, <2>1, RowEnds DEF RowsHold
<1>11. CASE Boot
  BY <1>1, <1>11, RowBoot DEF RowsHold, EndedStay
<1>12. ASSUME NEW s \in Searches, QuitParked(s) \/ Closed(s) PROVE UNCHANGED <<rowVars, run>>
  BY <1>12 DEF QuitParked, Closed
<1>13. CASE Next
  <2>1. \/ Owner /\ UNCHANGED run
        \/ \E s \in Searches : \/ Hub(s) /\ UNCHANGED run
                               \/ React(s) \/ QuitParked(s) \/ Closed(s) \/ Task(s)
        \/ Shutdown \/ ShutDown \/ Crash \/ Boot
    BY <1>13 DEF Next
  <2>. QED BY <1>4, <1>5, <1>6, <1>7, <1>8, <1>9, <1>10, <1>11, <1>12, <2>1, Zenon
<1>14. CASE UNCHANGED vars
  BY <1>4, <1>14 DEF vars
<1>. QED BY <1>13, <1>14

LEMMA RowsAlways == Spec => []RowsHold
<1>1. RowsHold /\ [Next]_vars => RowsHold'
  BY RowsStep
<1>. QED BY <1>1, RowsAtFirst, PTL DEF Spec

LEMMA StartedAndDriven == RowsHold => QueuedIsStarted /\ RunningIsDriven
<1>. SUFFICES ASSUME RowsHold, NEW s \in Searches, svc = "up"
              PROVE  /\ Is(s, {"running"}) => Running(s)
                     /\ Is(s, {"queued"}) =>
                          \/ Coming(s, "queued")
                          \/ Running(s) /\ (run[s].relaunch \/ WillSee(s)
                                              \/ run[s].pc \in {"new", "queueing"})
  BY DEF QueuedIsStarted, RunningIsDriven
<1>1. RowsTyped /\ RowInv(s)
  BY DEF RowsHold
<1>2. Is(s, {"running"}) => Running(s)
  BY <1>1, Stretches DEF RowInv, Driven
<1>3. ASSUME Sees(s) PROVE WillSee(s)
  <2>1. run[s].pc \in Waits /\ run[s].pc # "state"
    BY <1>3 DEF Sees, Waits
  <2>2. CASE calls[s] # <<>>
    <3>1. Asking(s)
      BY <1>1, <2>1, <2>2 DEF RowInv, Talks, Answering, Heeding
    <3>2. PICK c : calls[s] = <<c>> /\ c.by = "run" /\ Suits(run[s].pc, c)
      BY <3>1 DEF Asking
    <3>3. c.fn # "state"
      BY <1>3, <3>2 DEF Suits, Sees
    <3>4. 1 \in DOMAIN calls[s] /\ calls[s][1] = c
      BY <3>2
    <3>. QED BY <3>2, <3>3, <3>4 DEF WillSee
  <2>3. CASE calls[s] = <<>> /\ out[s] # <<>>
    <3>1. Answering(s)
      BY <1>1, <2>1, <2>3 DEF RowInv, Talks, Asking, Heeding
    <3>2. PICK o : out[s] = <<o>> /\ o.by = "run"
      BY <3>1 DEF Answering
    <3>3. back[s] = None
      BY <3>1 DEF Answering
    <3>4. o.answer \in {"go", "queued", "trouble"}
      <4>1. back[s] \notin {"go", "queued", "trouble"}
        BY <3>3, Constants
      <4>2. PICK p : out[s] = <<p>> /\ p.answer \in {"go", "queued", "trouble"}
        BY <1>3, <2>3, <4>1 DEF Sees
      <4>3. p = out[s][1] /\ o = out[s][1]
        BY <3>2, <4>2
      <4>. QED BY <4>2, <4>3
    <3>5. 1 \in DOMAIN out[s] /\ out[s][1] = o
      BY <3>2
    <3>. QED BY <3>2, <3>4, <3>5 DEF WillSee
  <2>4. CASE calls[s] = <<>> /\ out[s] = <<>>
    BY <1>3, <2>4 DEF Sees, WillSee
  <2>. QED BY <2>2, <2>3, <2>4
<1>. QED BY <1>1, <1>2, <1>3 DEF RowInv, Started

(* For any number of searches and requests, and under every fault: a queued *)
(* search is never one nobody restarts, because its launch is on its way,   *)
(* a task will still read the row, or the one that is leaving launches it   *)
(* again (_react, _serve, _park and mark_parked together).                  *)
THEOREM QueuedStarts == Spec => []QueuedIsStarted
BY RowsAlways, StartedAndDriven, PTL

(* A row that says `running` has a task of this process behind it.         *)
THEOREM RunningDrives == Spec => []RunningIsDriven
BY RowsAlways, StartedAndDriven, PTL

(* Nothing the worker writes after the owner's stop, and nothing a restart *)
(* makes of the row, moves a search that has ended.                        *)
THEOREM EndedForGood == Spec => EndedStaysEnded
<1>1. EndedStay => [EndedStay]_row
  OBVIOUS
<1>2. RowsHold /\ [Next]_vars => [EndedStay]_row
  BY RowsStep, <1>1
<1>3. EndedStaysEnded <=> [][EndedStay]_row
  BY DEF EndedStaysEnded, EndedStay
<1>. QED BY <1>2, <1>3, RowsAlways, PTL DEF Spec

-----------------------------------------------------------------------------
(* The processes.  What a task drives is its own, taken out of the         *)
(* dictionary, or the pool's; what it holds is not in the dictionary too.  *)
Kept(s) == IF s \in parked THEN 1 ELSE 0
Drives(r) == IF r # NoRun /\ (r.held \/ r.pc = "quitting") THEN 1 ELSE 0

Handed(r, kept) ==
  r # NoRun =>
    /\ r.pc \in {"new", "parking", "quitting", "finishing"} => ~r.held
    /\ r.pc \in {"context", "state", "queueing", "marking", "searching", "flushing"} =>
         (r.held <=> r.hand = "own")
    /\ r.pc \in {"marking", "searching", "flushing"} => r.hand # None
    /\ r.pc \in {"context", "state", "queueing"} => r.hand # "pooled"
    /\ r.held \/ r.pc \notin {"new", "parking", "ending"} => kept = 0

HasSlot(r) == r # NoRun /\ r.pc \in {"marking", "searching", "flushing"} => r.slotted

Whole(r, kept, closing, living) ==
  Handed(r, kept) /\ HasSlot(r) /\ living = closing + kept + Drives(r)
EngineInv(s) == Whole(run[s], Kept(s), closers[s], alive[s])

EnginesTyped ==
  /\ parked \subseteq Searches
  /\ closers \in [Searches -> Nat] /\ alive \in [Searches -> Int]
  /\ run \in [Searches -> {NoRun} \cup Stretch]

Holds(s) == Running(s) /\ run[s].slotted
EnginesHold == EnginesTyped /\ \A s \in Searches : EngineInv(s)

\* What a step about one search leaves behind: that search's processes are
\* accounted for, the others' are as they were, and no slot was taken.
LEMMA EngineStep ==
  ASSUME EnginesHold, NEW s \in Searches,
         NEW r \in {NoRun} \cup Stretch, run' = [run EXCEPT ![s] = r],
         NEW c \in Nat, closers' = [closers EXCEPT ![s] = c],
         NEW a \in Int, alive' = [alive EXCEPT ![s] = a],
         parked' \subseteq Searches, \A t \in Searches \ {s} : t \in parked' <=> t \in parked,
         Whole(r, Kept(s)', c, a)
  PROVE  /\ EnginesHold'
         /\ \A t \in Searches \ {s} : Holds(t)' => Holds(t)
         /\ (r # NoRun => ~r.slotted \/ Holds(s)) => (Holds(s)' => Holds(s))
<1>1. EnginesTyped'
  BY DEF EnginesHold, EnginesTyped
<1>2. /\ run'[s] = r /\ closers'[s] = c /\ alive'[s] = a
      /\ \A t \in Searches \ {s} : run'[t] = run[t] /\ closers'[t] = closers[t] /\ alive'[t] = alive[t]
  BY DEF EnginesHold, EnginesTyped
<1>3. EngineInv(s)'
  BY <1>2 DEF EngineInv
<1>4. ASSUME NEW t \in Searches \ {s} PROVE EngineInv(t)'
  <2>1. Kept(t)' = Kept(t)
    BY <1>4 DEF Kept
  <2>. QED BY <1>2, <1>4, <2>1 DEF EnginesHold, EngineInv
<1>5. \A t \in Searches \ {s} : Holds(t)' => Holds(t)
  BY <1>2 DEF Holds, Running
<1>6. (r # NoRun => ~r.slotted \/ Holds(s)) => (Holds(s)' => Holds(s))
  BY <1>2 DEF Holds, Running
<1>7. \A t \in Searches : EngineInv(t)'
  BY <1>3, <1>4
<1>. QED BY <1>1, <1>5, <1>6, <1>7 DEF EnginesHold

\* ... of a step that moves the task alone.
LEMMA TaskStep ==
  ASSUME EnginesHold, NEW s \in Searches,
         NEW r \in {NoRun} \cup Stretch, run' = [run EXCEPT ![s] = r],
         UNCHANGED <<parked, closers, alive>>, Whole(r, Kept(s), closers[s], alive[s])
  PROVE  /\ EnginesHold'
         /\ \A t \in Searches \ {s} : Holds(t)' => Holds(t)
         /\ (r # NoRun => ~r.slotted \/ Holds(s)) => (Holds(s)' => Holds(s))
<1>1. closers[s] \in Nat /\ alive[s] \in Int
  BY DEF EnginesHold, EnginesTyped
<1>2. closers' = [closers EXCEPT ![s] = closers[s]] /\ alive' = [alive EXCEPT ![s] = alive[s]]
  BY DEF EnginesHold, EnginesTyped
<1>3. parked' \subseteq Searches /\ Kept(s)' = Kept(s)
  BY DEF EnginesHold, EnginesTyped, Kept
<1>4. \A t \in Searches \ {s} : t \in parked' <=> t \in parked
  OBVIOUS
<1>5. Whole(r, Kept(s)', closers[s], alive[s])
  BY <1>3
<1>. QED BY <1>1, <1>2, <1>3, <1>4, <1>5, EngineStep

LEMMA EngineAt ==
  ASSUME EnginesHold, NEW s \in Searches, NEW pc \in Points, At(s, pc)
  PROVE  /\ run[s] \in Stretch /\ run[s] # NoRun /\ run[s].pc = pc
         /\ closers[s] \in Nat /\ alive[s] \in Int /\ Kept(s) \in {0, 1}
         /\ Whole(run[s], Kept(s), closers[s], alive[s])
         /\ parked \subseteq Searches
<1>1. run[s] # NoRun /\ run[s].pc = pc
  BY Constants DEF At, Points
<1>. QED BY <1>1 DEF EnginesHold, EnginesTyped, EngineInv, Kept

Same(s) == \A t \in Searches \ {s} : Holds(t)' => Holds(t)

LEMMA EngineBegin ==
  ASSUME EnginesHold, NEW s \in Searches, Begin(s)
  PROVE  EnginesHold' /\ Same(s) /\ (Holds(s)' => Holds(s))
<1>1. /\ run[s] \in Stretch /\ run[s] # NoRun /\ run[s].pc = "new"
      /\ closers[s] \in Nat /\ alive[s] \in Int
      /\ Whole(run[s], Kept(s), closers[s], alive[s])
      /\ parked \subseteq Searches
  BY EngineAt DEF Begin, Points
<1>2. parked' = parked \ {s} /\ closers' = closers /\ alive' = alive
  BY DEF Begin
<1>3. /\ parked' \subseteq Searches /\ Kept(s)' = 0
      /\ \A t \in Searches \ {s} : t \in parked' <=> t \in parked
  BY <1>1, <1>2 DEF Kept
<1>4. /\ closers' = [closers EXCEPT ![s] = closers[s]] /\ alive' = [alive EXCEPT ![s] = alive[s]]
  BY <1>2 DEF EnginesHold, EnginesTyped
<1>5. PICK r \in Stretch :
        /\ run' = [run EXCEPT ![s] = r] /\ r.pc = "context" /\ r.slotted = run[s].slotted
        /\ r.hand # "pooled" /\ (r.held <=> r.hand = "own")
        /\ Drives(r) = Kept(s)
  <2>1. CASE s \in parked
    <3>. DEFINE r == [run[s] EXCEPT !.pc = "context", !.held = TRUE, !.hand = "own"]
    <3>1. run' = [run EXCEPT ![s] = r]
      BY <2>1 DEF Begin, Asks, Becomes
    <3>2. /\ r \in Stretch /\ r.pc = "context" /\ r.held /\ r.hand = "own"
          /\ r.slotted = run[s].slotted
      BY <1>1 DEF Stretch, Points
    <3>. HIDE DEF r
    <3>3. Drives(r) = Kept(s)
      BY <2>1, <3>2, Constants DEF Drives, Kept
    <3>. QED BY <3>1, <3>2, <3>3
  <2>2. CASE s \notin parked
    <3>. DEFINE r == [run[s] EXCEPT !.pc = "context", !.held = FALSE, !.hand = None]
    <3>1. run' = [run EXCEPT ![s] = r]
      <4>1. (s \in parked) = FALSE
        BY <2>2
      <4>2. run' = [run EXCEPT ![s] =
                      [run[s] EXCEPT !.pc = "context", !.held = s \in parked,
                                     !.hand = IF s \in parked THEN "own" ELSE None]]
        BY DEF Begin, Asks, Becomes
      <4>. QED BY <4>1, <4>2
    <3>2. /\ r \in Stretch /\ r.pc = "context" /\ ~r.held /\ r.hand = None
          /\ r.slotted = run[s].slotted
      BY <1>1 DEF Stretch, Points
    <3>. HIDE DEF r
    <3>3. Drives(r) = Kept(s)
      BY <2>2, <3>2 DEF Drives, Kept
    <3>. QED BY <3>1, <3>2, <3>3, Constants
  <2>. QED
    BY <2>1, <2>2
<1>7. r # NoRun
  BY Constants
<1>8. Drives(run[s]) = 0 /\ Drives(r) = Kept(s)
  <2>1. ~run[s].held
    BY <1>1 DEF Whole, Handed
  <2>2. Drives(run[s]) = 0
    BY <1>1, <2>1 DEF Drives
  <2>3. Drives(r) = Kept(s)
    BY <1>5
  <2>. QED BY <2>2, <2>3
<1>9. Handed(r, 0) /\ HasSlot(r)
  BY <1>5 DEF Handed, HasSlot
<1>10. Whole(r, 0, closers[s], alive[s])
  <2>1. alive[s] = closers[s] + Kept(s) + 0
    BY <1>1, <1>8 DEF Whole
  <2>2. Kept(s) \in {0, 1}
    BY DEF Kept
  <2>3. alive[s] = closers[s] + 0 + Drives(r)
    BY <1>1, <1>8, <2>1, <2>2
  <2>. QED BY <1>9, <2>3 DEF Whole
<1>11. r # NoRun => ~r.slotted \/ Holds(s)
  BY <1>1, <1>5 DEF Holds, Running
<1>. QED BY <1>1, <1>3, <1>4, <1>5, <1>10, <1>11, EngineStep DEF Same

\* A step of the task alone that goes on to `r` with the same process in hand.
LEMMA EngineGoes ==
  ASSUME EnginesHold, NEW s \in Searches, NEW pc \in Points, At(s, pc),
         NEW r \in Stretch, run' = [run EXCEPT ![s] = r],
         UNCHANGED <<parked, closers, alive>>,
         Handed(r, Kept(s)), HasSlot(r), Drives(r) = Drives(run[s])
  PROVE  EnginesHold' /\ Same(s) /\ ((r.slotted => run[s].slotted) => (Holds(s)' => Holds(s)))
<1>1. run[s] # NoRun /\ Whole(run[s], Kept(s), closers[s], alive[s])
  BY EngineAt
<1>2. Whole(r, Kept(s), closers[s], alive[s])
  BY <1>1 DEF Whole
<1>3. Holds(s) <=> run[s].slotted
  BY <1>1 DEF Holds, Running
<1>. QED BY <1>2, <1>3, TaskStep DEF Same

\* ... keeping what it holds and drives, or leaving the pool's process.
LEMMA EngineKeeps ==
  ASSUME EnginesHold, NEW s \in Searches, NEW pc \in Points \ {"quitting"}, At(s, pc),
         NEW r \in Stretch, run' = [run EXCEPT ![s] = r],
         UNCHANGED <<parked, closers, alive>>,
         r.held = run[s].held, r.slotted => run[s].slotted,
         \/ /\ pc = "context" /\ r.pc \in {"queueing", "state", "failing"} /\ r.hand = run[s].hand
         \/ /\ pc \in {"queueing", "searching", "flushing"} /\ r.pc \in {"failing", "ending"}
         \/ /\ pc = "marking" /\ r.pc = "searching" /\ r.hand = run[s].hand
            /\ r.slotted = run[s].slotted
         \/ /\ pc = "searching" /\ r.pc \in {"searching", "flushing"} /\ r.hand = run[s].hand
            /\ r.slotted = run[s].slotted
         \/ /\ pc = "flushing" /\ r.pc = "finishing" /\ run[s].hand = "pooled"
         \/ /\ pc \in {"parking", "finishing", "failing"} /\ r.pc = "ending"
  PROVE  EnginesHold' /\ Same(s) /\ (Holds(s)' => Holds(s))
<1>1. /\ run[s] \in Stretch /\ run[s] # NoRun /\ run[s].pc = pc
      /\ Handed(run[s], Kept(s)) /\ HasSlot(run[s])
  BY EngineAt DEF Whole
<1>2. r # NoRun /\ r.pc # "quitting" /\ pc # "quitting"
  BY Constants
<1>3. Drives(r) = Drives(run[s])
  BY <1>1, <1>2 DEF Drives
<1>4. HasSlot(r)
  BY <1>1 DEF HasSlot
<1>5. Handed(r, Kept(s))
  BY <1>1, Constants DEF Handed
<1>6. pc \in Points
  OBVIOUS
<1>. QED BY <1>3, <1>4, <1>5, <1>6, EngineGoes

LEMMA EngineLeaves ==
  ASSUME EnginesHold, NEW s \in Searches,
         \/ GotContext(s) \/ NoEngine(s) \/ Marked(s) \/ LimitReached(s)
         \/ EngineStops(s) \/ EngineFails(s) \/ Parked(s) \/ Finished(s)
  PROVE  EnginesHold' /\ Same(s) /\ (Holds(s)' => Holds(s))
<1>0. UNCHANGED <<parked, closers, alive>>
  BY DEF GotContext, NoEngine, Marked, LimitReached, EngineStops, EngineFails, Parked,
         Finished, engineVars
<1>. DEFINE To(pc) == [run[s] EXCEPT !.pc = pc]
            Away(pc) == [run[s] EXCEPT !.pc = pc, !.slotted = FALSE]
<1>1. ASSUME NEW from \in Points, At(s, from), NEW pc \in Points
      PROVE  /\ run[s] \in Stretch /\ run[s].pc = from
             /\ To(pc) \in Stretch /\ To(pc).pc = pc /\ To(pc).held = run[s].held
             /\ To(pc).hand = run[s].hand /\ To(pc).slotted = run[s].slotted
             /\ Away(pc) \in Stretch /\ Away(pc).pc = pc /\ Away(pc).held = run[s].held
             /\ ~Away(pc).slotted
  <2>1. run[s] \in Stretch /\ run[s].pc = from
    BY <1>1, EngineAt
  <2>. QED BY <2>1 DEF Stretch
<1>2. CASE GotContext(s)
  <2>1. At(s, "context") /\ \E pc \in {"queueing", "state", "failing"} : run' = [run EXCEPT ![s] = To(pc)]
    BY <1>2 DEF GotContext, Answered, Goes, Asks, Becomes
  <2>2. PICK pc \in {"queueing", "state", "failing"} : run' = [run EXCEPT ![s] = To(pc)]
    BY <2>1
  <2>3. pc \in Points /\ "context" \in Points \ {"quitting"}
    BY DEF Points
  <2>. DEFINE r == To(pc)
  <2>4. /\ r \in Stretch /\ r.pc = pc /\ r.held = run[s].held /\ r.hand = run[s].hand
        /\ r.slotted = run[s].slotted
    BY <1>1, <2>1, <2>3
  <2>5. run' = [run EXCEPT ![s] = r]
    BY <2>2
  <2>. HIDE DEF r
  <2>. QED BY <1>0, <2>1, <2>3, <2>4, <2>5, EngineKeeps
<1>3. CASE NoEngine(s)
  <2>. DEFINE r == To("failing")
  <2>1. At(s, "queueing") /\ run' = [run EXCEPT ![s] = r]
    BY <1>3 DEF NoEngine, Asks, Becomes
  <2>2. "failing" \in Points /\ "queueing" \in Points \ {"quitting"}
    BY DEF Points
  <2>3. r \in Stretch /\ r.pc = "failing" /\ r.held = run[s].held /\ r.slotted = run[s].slotted
    BY <1>1, <2>1, <2>2
  <2>. HIDE DEF r
  <2>. QED BY <1>0, <2>1, <2>2, <2>3, EngineKeeps
<1>4. CASE Marked(s)
  <2>. DEFINE stop == IF run[s].pausing \/ run[s].closing THEN "set" ELSE run[s].stop
              r == [run[s] EXCEPT !.pc = "searching", !.stop = stop]
  <2>1. At(s, "marking") /\ run' = [run EXCEPT ![s] = r]
    BY <1>4 DEF Marked, Answered, Goes, Becomes
  <2>2. "searching" \in Points /\ "marking" \in Points \ {"quitting"}
    BY DEF Points
  <2>3. run[s] \in Stretch /\ stop \in {"unarmed", "armed", "set"}
    BY <2>1, <2>2, EngineAt DEF Stretch
  <2>. HIDE DEF stop
  <2>4. /\ r \in Stretch /\ r.pc = "searching" /\ r.held = run[s].held
        /\ r.hand = run[s].hand /\ r.slotted = run[s].slotted
    BY <2>2, <2>3 DEF Stretch
  <2>. HIDE DEF r
  <2>. QED BY <1>0, <2>1, <2>2, <2>4, EngineKeeps
<1>5. CASE LimitReached(s)
  <2>. DEFINE r == [run[s] EXCEPT !.stop = "set"]
  <2>1. At(s, "searching") /\ run' = [run EXCEPT ![s] = r]
    BY <1>5 DEF LimitReached, Becomes
  <2>2. "searching" \in Points \ {"quitting"}
    BY DEF Points
  <2>3. run[s] \in Stretch /\ run[s].pc = "searching"
    BY <2>1, <2>2, EngineAt
  <2>4. /\ r \in Stretch /\ r.pc = "searching" /\ r.held = run[s].held
        /\ r.hand = run[s].hand /\ r.slotted = run[s].slotted
    BY <2>2, <2>3 DEF Stretch
  <2>. HIDE DEF r
  <2>. QED BY <1>0, <2>1, <2>2, <2>4, EngineKeeps
<1>6. CASE EngineStops(s)
  <2>. DEFINE r == To("flushing")
  <2>1. At(s, "searching") /\ run' = [run EXCEPT ![s] = r]
    BY <1>6 DEF EngineStops, Asks, Becomes
  <2>2. "flushing" \in Points /\ "searching" \in Points \ {"quitting"}
    BY DEF Points
  <2>3. /\ r \in Stretch /\ r.pc = "flushing" /\ r.held = run[s].held /\ r.hand = run[s].hand
        /\ r.slotted = run[s].slotted
    BY <1>1, <2>1, <2>2
  <2>. HIDE DEF r
  <2>. QED BY <1>0, <2>1, <2>2, <2>3, EngineKeeps
<1>7. CASE EngineFails(s)
  <2>. DEFINE r == Away("failing")
  <2>1. At(s, "searching") /\ run' = [run EXCEPT ![s] = r]
    BY <1>7 DEF EngineFails, Asks, Becomes
  <2>2. "failing" \in Points /\ "searching" \in Points \ {"quitting"}
    BY DEF Points
  <2>3. r \in Stretch /\ r.pc = "failing" /\ r.held = run[s].held /\ ~r.slotted
    BY <1>1, <2>1, <2>2
  <2>. HIDE DEF r
  <2>. QED BY <1>0, <2>1, <2>2, <2>3, EngineKeeps
<1>8. CASE Parked(s)
  <2>. DEFINE again == run[s].relaunch \/ back[s] = "queued"
              r == [run[s] EXCEPT !.pc = "ending", !.slotted = FALSE, !.relaunch = again]
  <2>1. At(s, "parking") /\ run' = [run EXCEPT ![s] = r]
    BY <1>8 DEF Parked, Answered, Goes, Becomes
  <2>2. "ending" \in Points /\ "parking" \in Points \ {"quitting"}
    BY DEF Points
  <2>3. run[s] \in Stretch /\ again \in BOOLEAN
    BY <2>1, <2>2, EngineAt
  <2>. HIDE DEF again
  <2>4. r \in Stretch /\ r.pc = "ending" /\ r.held = run[s].held /\ ~r.slotted
    BY <2>2, <2>3 DEF Stretch
  <2>. HIDE DEF r
  <2>. QED BY <1>0, <2>1, <2>2, <2>4, EngineKeeps
<1>9. CASE Finished(s)
  <2>. DEFINE r == Away("ending")
  <2>1. PICK pc \in {"finishing", "failing"} : At(s, pc)
    BY <1>9 DEF Finished, Answered
  <2>2. run' = [run EXCEPT ![s] = r]
    BY <1>9 DEF Finished, Goes, Becomes
  <2>3. "ending" \in Points /\ pc \in Points \ {"quitting"}
    BY DEF Points
  <2>4. r \in Stretch /\ r.pc = "ending" /\ r.held = run[s].held /\ ~r.slotted
    BY <1>1, <2>1, <2>3
  <2>. HIDE DEF r
  <2>. QED BY <1>0, <2>1, <2>2, <2>3, <2>4, EngineKeeps
<1>. QED BY <1>2, <1>3, <1>4, <1>5, <1>6, <1>7, <1>8, <1>9

\* What was held goes into the dictionary.
LEMMA EngineShelves ==
  ASSUME EnginesHold, NEW s \in Searches, NEW pc \in Points \ {"quitting"}, At(s, pc),
         NEW r \in Stretch, run' = [run EXCEPT ![s] = r], r.pc \in {"parking", "ending"}, ~r.held,
         parked' = parked \cup {s}, Kept(s) = 0, closers' = closers,
         NEW a \in Int, alive' = [alive EXCEPT ![s] = a],
         a = alive[s] + (1 - Drives(run[s])), r.slotted => run[s].slotted
  PROVE  EnginesHold' /\ Same(s) /\ (Holds(s)' => Holds(s))
<1>1. /\ run[s] \in Stretch /\ run[s] # NoRun /\ run[s].pc = pc
      /\ Whole(run[s], Kept(s), closers[s], alive[s])
      /\ closers[s] \in Nat /\ alive[s] \in Int /\ parked \subseteq Searches
  BY EngineAt
<1>2. /\ parked' \subseteq Searches /\ Kept(s)' = 1
      /\ \A t \in Searches \ {s} : t \in parked' <=> t \in parked
  BY <1>1 DEF Kept
<1>3. closers' = [closers EXCEPT ![s] = closers[s]]
  BY DEF EnginesHold, EnginesTyped
<1>4. Drives(r) = 0 /\ Drives(run[s]) \in {0, 1}
  BY Constants DEF Drives
<1>5. Handed(r, 1) /\ HasSlot(r)
  BY DEF Handed, HasSlot
<1>6. a = closers[s] + 1 + Drives(r)
  <2>1. alive[s] = closers[s] + 0 + Drives(run[s])
    BY <1>1 DEF Whole
  <2>. QED BY <1>1, <1>4, <2>1
<1>7. Whole(r, Kept(s)', closers[s], a)
  BY <1>2, <1>5, <1>6 DEF Whole
<1>8. r # NoRun => ~r.slotted \/ Holds(s)
  BY <1>1 DEF Holds, Running
<1>. QED BY <1>1, <1>2, <1>3, <1>7, <1>8, EngineStep DEF Same

LEMMA EngineGotState ==
  ASSUME EnginesHold, NEW s \in Searches, GotState(s)
  PROVE  EnginesHold' /\ Same(s) /\ (Holds(s)' => Holds(s))
<1>1. At(s, "state") /\ "state" \in Points \ {"quitting"} /\ "ending" \in Points
  BY DEF GotState, Answered, Points
<1>2. /\ run[s] \in Stretch /\ run[s] # NoRun /\ run[s].pc = "state" /\ alive[s] \in Int
      /\ Handed(run[s], Kept(s)) /\ Kept(s) \in {0, 1}
  BY <1>1, EngineAt DEF Whole
<1>3. Kept(s) = 0
  BY <1>2 DEF Handed
<1>4. CASE run[s].held /\ back[s] = "paused"
  <2>. DEFINE r == [run[s] EXCEPT !.pc = "ending", !.held = FALSE]
  <2>1. run' = [run EXCEPT ![s] = r]
    <3>1. (run[s].held /\ ~(run[s].held /\ back[s] = "paused")) = FALSE
      BY <1>4
    <3>2. run' = [run EXCEPT ![s] = [run[s] EXCEPT !.pc = "ending",
                    !.held = run[s].held /\ ~(run[s].held /\ back[s] = "paused")]]
      BY DEF GotState, Goes, Becomes
    <3>. QED BY <3>1, <3>2
  <2>2. /\ r \in Stretch /\ r.pc = "ending" /\ ~r.held /\ r.slotted = run[s].slotted
    BY <1>1, <1>2 DEF Stretch
  <2>. HIDE DEF r
  <2>3. parked' = parked \cup {s} /\ closers' = closers /\ alive' = alive
    BY <1>4 DEF GotState
  <2>4. Drives(run[s]) = 1 /\ alive[s] = alive[s] + (1 - Drives(run[s]))
    BY <1>2, <1>4 DEF Drives
  <2>5. alive' = [alive EXCEPT ![s] = alive[s]]
    BY <2>3 DEF EnginesHold, EnginesTyped
  <2>. QED BY <1>1, <1>2, <1>3, <2>1, <2>2, <2>3, <2>4, <2>5, EngineShelves
<1>5. CASE ~(run[s].held /\ back[s] = "paused")
  <2>. DEFINE r == [run[s] EXCEPT !.pc = "ending", !.held = run[s].held]
  <2>1. run' = [run EXCEPT ![s] = r]
    <3>1. run[s].held \in BOOLEAN
      BY <1>2 DEF Stretch
    <3>2. (run[s].held /\ ~(run[s].held /\ back[s] = "paused")) = run[s].held
      BY <1>5, <3>1
    <3>3. run' = [run EXCEPT ![s] = [run[s] EXCEPT !.pc = "ending",
                    !.held = run[s].held /\ ~(run[s].held /\ back[s] = "paused")]]
      BY DEF GotState, Goes, Becomes
    <3>. QED BY <3>2, <3>3
  <2>2. /\ r \in Stretch /\ r.pc = "ending" /\ r.held = run[s].held
        /\ r.slotted = run[s].slotted
    BY <1>1, <1>2 DEF Stretch
  <2>. HIDE DEF r
  <2>3. UNCHANGED <<parked, closers, alive>>
    BY <1>5 DEF GotState
  <2>4. Drives(r) = Drives(run[s])
    BY <1>2, <2>2, Constants DEF Drives
  <2>5. Handed(r, Kept(s)) /\ HasSlot(r)
    BY <1>3, <2>2 DEF Handed, HasSlot
  <2>. QED BY <1>1, <2>1, <2>2, <2>3, <2>4, <2>5, EngineGoes
<1>. QED BY <1>4, <1>5

\* _park, with a process of the task's own or of the pool's, or with none.
LEMMA EngineParks ==
  ASSUME EnginesHold, NEW s \in Searches, NEW pc \in {"queueing", "flushing"}, At(s, pc),
         NEW q \in Stretch, q.hand = run[s].hand,
         NEW r \in Stretch, run' = [run EXCEPT ![s] = r], r.pc = "parking", ~r.held,
         NEW pooled \in BOOLEAN, pooled <=> run[s].hand = "pooled",
         parked' = (IF q.hand = None THEN parked ELSE parked \cup {s}),
         alive' = [alive EXCEPT ![s] = IF pooled THEN alive[s] + 1 ELSE alive[s]],
         closers' = closers
  PROVE  EnginesHold' /\ Same(s) /\ ((r.slotted => run[s].slotted) => (Holds(s)' => Holds(s)))
<1>1. /\ run[s] \in Stretch /\ run[s] # NoRun /\ run[s].pc = pc /\ alive[s] \in Int
      /\ closers[s] \in Nat /\ Whole(run[s], Kept(s), closers[s], alive[s])
      /\ Kept(s) \in {0, 1} /\ parked \subseteq Searches
  BY EngineAt DEF Points
<1>2. Kept(s) = 0 /\ (run[s].held <=> run[s].hand = "own")
  BY <1>1 DEF Whole, Handed
<1>3. run[s].hand \in {None, "own", "pooled"}
  BY <1>1 DEF Stretch
<1>4. alive[s] = closers[s] + Drives(run[s])
  <2>1. Drives(run[s]) \in {0, 1}
    BY DEF Drives
  <2>. QED BY <1>1, <1>2, <2>1 DEF Whole
<1>5. closers' = [closers EXCEPT ![s] = closers[s]]
  BY DEF EnginesHold, EnginesTyped
<1>6. Drives(r) = 0 /\ r # NoRun
  BY Constants DEF Drives
<1>7. (r.slotted => run[s].slotted) => (r # NoRun => ~r.slotted \/ Holds(s))
  BY <1>1 DEF Holds, Running
<1>8. CASE run[s].hand = None
  <2>1. parked' = parked /\ alive' = [alive EXCEPT ![s] = alive[s]]
    BY <1>8, Constants
  <2>2. Drives(run[s]) = 0
    BY <1>1, <1>2, <1>8, Constants DEF Drives
  <2>3. alive[s] = closers[s] + 0 + Drives(r)
    BY <1>1, <1>4, <1>6, <2>2
  <2>4. Kept(s)' = 0 /\ parked' \subseteq Searches /\ \A t \in Searches \ {s} : t \in parked' <=> t \in parked
    BY <1>1, <1>2, <2>1 DEF Kept
  <2>5. Whole(r, Kept(s)', closers[s], alive[s])
    BY <2>3, <2>4 DEF Whole, Handed, HasSlot
  <2>6. /\ EnginesHold' /\ \A t \in Searches \ {s} : Holds(t)' => Holds(t)
        /\ (r # NoRun => ~r.slotted \/ Holds(s)) => (Holds(s)' => Holds(s))
    BY <1>1, <1>5, <2>1, <2>4, <2>5, EngineStep
  <2>. QED BY <1>7, <2>6, Zenon DEF Same
<1>9. CASE run[s].hand # None
  <2>. DEFINE a == IF pooled THEN alive[s] + 1 ELSE alive[s]
  <2>1. /\ parked' = parked \cup {s}
        /\ parked' \subseteq Searches /\ \A t \in Searches \ {s} : t \in parked' <=> t \in parked
        /\ Kept(s)' = 1
    BY <1>1, <1>9 DEF Kept
  <2>2. alive' = [alive EXCEPT ![s] = a] /\ a \in Int
    BY <1>1
  <2>3. Drives(run[s]) = IF pooled THEN 0 ELSE 1
    BY <1>1, <1>2, <1>3, <1>9 DEF Drives
  <2>4. a = closers[s] + 1 + Drives(r)
    BY <1>1, <1>4, <1>6, <2>3
  <2>. HIDE DEF a
  <2>5. Whole(r, Kept(s)', closers[s], a)
    BY <2>1, <2>4 DEF Whole, Handed, HasSlot
  <2>6. /\ EnginesHold' /\ \A t \in Searches \ {s} : Holds(t)' => Holds(t)
        /\ (r # NoRun => ~r.slotted \/ Holds(s)) => (Holds(s)' => Holds(s))
    BY <1>1, <1>5, <2>1, <2>2, <2>5, EngineStep
  <2>. QED BY <1>7, <2>6, Zenon DEF Same
<1>. QED BY <1>8, <1>9

LEMMA EngineTakeSlot ==
  ASSUME EnginesHold, NEW s \in Searches, TakeSlot(s)
  PROVE  EnginesHold' /\ Same(s)
<1>. DEFINE q == [run[s] EXCEPT !.slotted = TRUE]
            left == [q EXCEPT !.pc = "ending", !.slotted = FALSE]
            parking == [q EXCEPT !.pc = "parking", !.held = FALSE]
            marking == [q EXCEPT !.pc = "marking", !.stop = "armed",
                                 !.hand = IF @ = None THEN "pooled" ELSE @]
<1>1. At(s, "queueing") /\ "queueing" \in Points \ {"quitting"}
  BY DEF TakeSlot, Points
<1>2. /\ run[s] \in Stretch /\ run[s] # NoRun /\ run[s].pc = "queueing" /\ alive[s] \in Int
      /\ Handed(run[s], Kept(s)) /\ Kept(s) \in {0, 1}
  BY <1>1, EngineAt DEF Whole
<1>3. /\ run[s].held <=> run[s].hand = "own"
      /\ run[s].hand # "pooled" /\ Kept(s) = 0
      /\ run[s].hand \in {None, "own", "pooled"}
  BY <1>2 DEF Handed, Stretch
<1>4. q \in Stretch /\ q.hand = run[s].hand /\ q.slotted
  BY <1>2 DEF Stretch
<1>5. left \in Stretch /\ left.pc = "ending" /\ left.held = run[s].held /\ ~left.slotted
  BY <1>2 DEF Stretch, Points
<1>6. parking \in Stretch /\ parking.pc = "parking" /\ ~parking.held
  BY <1>2 DEF Stretch, Points
<1>7. /\ marking \in Stretch /\ marking.pc = "marking" /\ marking.held = run[s].held
      /\ marking.hand = (IF run[s].hand = None THEN "pooled" ELSE run[s].hand)
      /\ marking.slotted
  BY <1>2 DEF Stretch, Points
<1>8. \/ run' = [run EXCEPT ![s] = left] /\ UNCHANGED <<parked, closers, alive>>
      \/ Parks(s, q, FALSE)
      \/ run' = [run EXCEPT ![s] = marking] /\ UNCHANGED <<parked, closers, alive>>
  BY DEF TakeSlot, Goes, Asks, Becomes, engineVars
<1>9. Parks(s, q, FALSE) =>
        /\ run' = [run EXCEPT ![s] = parking] /\ closers' = closers
        /\ parked' = (IF q.hand = None THEN parked ELSE parked \cup {s})
        /\ alive' = [alive EXCEPT ![s] = IF FALSE THEN alive[s] + 1 ELSE alive[s]]
  BY DEF Parks, Asks, Becomes
<1>. HIDE DEF q, left, parking, marking
<1>10. CASE run' = [run EXCEPT ![s] = left] /\ UNCHANGED <<parked, closers, alive>>
  BY <1>1, <1>5, <1>10, EngineKeeps
<1>11. CASE Parks(s, q, FALSE)
  <2>1. FALSE <=> run[s].hand = "pooled"
    BY <1>3
  <2>. QED BY <1>1, <1>4, <1>6, <1>9, <1>11, <2>1, EngineParks
<1>12. CASE run' = [run EXCEPT ![s] = marking] /\ UNCHANGED <<parked, closers, alive>>
  <2>1. Drives(marking) = Drives(run[s])
    BY <1>2, <1>7, Constants DEF Drives
  <2>2. Handed(marking, Kept(s)) /\ HasSlot(marking)
    BY <1>3, <1>7, Constants DEF Handed, HasSlot
  <2>. QED BY <1>1, <1>7, <1>12, <2>1, <2>2, EngineGoes
<1>. QED BY <1>8, <1>10, <1>11, <1>12

LEMMA EngineFlushed ==
  ASSUME EnginesHold, NEW s \in Searches, Flushed(s)
  PROVE  EnginesHold' /\ Same(s) /\ (Holds(s)' => Holds(s))
<1>. DEFINE left == [run[s] EXCEPT !.pc = "ending", !.slotted = FALSE]
            parking == [run[s] EXCEPT !.pc = "parking", !.held = FALSE]
            quitting == [run[s] EXCEPT !.pc = "quitting", !.held = FALSE]
            finishing == [run[s] EXCEPT !.pc = "finishing"]
            pooled == run[s].hand = "pooled"
<1>1. At(s, "flushing") /\ "flushing" \in Points \ {"quitting"}
  BY DEF Flushed, Answered, Points
<1>2. /\ run[s] \in Stretch /\ run[s] # NoRun /\ run[s].pc = "flushing" /\ alive[s] \in Int
      /\ Handed(run[s], Kept(s)) /\ HasSlot(run[s]) /\ Kept(s) \in {0, 1}
  BY <1>1, EngineAt DEF Whole
<1>3. (run[s].held <=> run[s].hand = "own") /\ Kept(s) = 0
  BY <1>2 DEF Handed
<1>4. left \in Stretch /\ left.pc = "ending" /\ left.held = run[s].held /\ ~left.slotted
  BY <1>2 DEF Stretch, Points
<1>5. /\ parking \in Stretch /\ parking.pc = "parking" /\ ~parking.held
      /\ parking.slotted = run[s].slotted
  BY <1>2 DEF Stretch, Points
<1>6. /\ quitting \in Stretch /\ quitting.pc = "quitting" /\ ~quitting.held
      /\ quitting.slotted = run[s].slotted
  BY <1>2 DEF Stretch, Points
<1>7. /\ finishing \in Stretch /\ finishing.pc = "finishing" /\ finishing.held = run[s].held
      /\ finishing.slotted = run[s].slotted
  BY <1>2 DEF Stretch, Points
<1>8. \/ run' = [run EXCEPT ![s] = left] /\ UNCHANGED <<parked, closers, alive>>
      \/ Parks(s, run[s], pooled)
      \/ /\ run' = [run EXCEPT ![s] = quitting] /\ UNCHANGED <<parked, closers, alive>>
         /\ run[s].hand = "own"
      \/ /\ run' = [run EXCEPT ![s] = finishing] /\ UNCHANGED <<parked, closers, alive>>
         /\ run[s].hand = "pooled"
  BY DEF Flushed, Goes, Asks, Becomes, engineVars
<1>9. Parks(s, run[s], pooled) =>
        /\ run' = [run EXCEPT ![s] = parking] /\ closers' = closers
        /\ parked' = (IF run[s].hand = None THEN parked ELSE parked \cup {s})
        /\ alive' = [alive EXCEPT ![s] = IF pooled THEN alive[s] + 1 ELSE alive[s]]
  BY DEF Parks, Asks, Becomes
<1>10. pooled \in BOOLEAN /\ (pooled <=> run[s].hand = "pooled")
  OBVIOUS
<1>. HIDE DEF left, parking, quitting, finishing, pooled
<1>11. CASE run' = [run EXCEPT ![s] = left] /\ UNCHANGED <<parked, closers, alive>>
  BY <1>1, <1>4, <1>11, EngineKeeps
<1>12. CASE Parks(s, run[s], pooled)
  BY <1>1, <1>2, <1>5, <1>9, <1>10, <1>12, EngineParks
<1>13. CASE /\ run' = [run EXCEPT ![s] = quitting] /\ UNCHANGED <<parked, closers, alive>>
            /\ run[s].hand = "own"
  <2>1. Drives(quitting) = Drives(run[s])
    BY <1>2, <1>3, <1>6, <1>13, Constants DEF Drives
  <2>2. Handed(quitting, Kept(s)) /\ HasSlot(quitting)
    BY <1>3, <1>6 DEF Handed, HasSlot
  <2>. QED BY <1>1, <1>6, <1>13, <2>1, <2>2, EngineGoes
<1>14. CASE /\ run' = [run EXCEPT ![s] = finishing] /\ UNCHANGED <<parked, closers, alive>>
            /\ run[s].hand = "pooled"
  BY <1>1, <1>7, <1>14, EngineKeeps
<1>. QED BY <1>8, <1>11, <1>12, <1>13, <1>14

LEMMA EngineOwnClosed ==
  ASSUME EnginesHold, NEW s \in Searches, OwnClosed(s)
  PROVE  EnginesHold' /\ Same(s) /\ (Holds(s)' => Holds(s))
<1>. DEFINE r == [run[s] EXCEPT !.pc = "finishing"]
<1>1. At(s, "quitting") /\ "quitting" \in Points /\ "finishing" \in Points
  BY DEF OwnClosed, Points
<1>2. /\ run[s] \in Stretch /\ run[s] # NoRun /\ run[s].pc = "quitting"
      /\ alive[s] \in Int /\ closers[s] \in Nat /\ Kept(s) \in {0, 1} /\ parked \subseteq Searches
      /\ Whole(run[s], Kept(s), closers[s], alive[s])
  BY <1>1, EngineAt
<1>3. /\ run' = [run EXCEPT ![s] = r] /\ alive' = [alive EXCEPT ![s] = @ - 1]
      /\ parked' = parked /\ closers' = closers
  BY DEF OwnClosed, Asks, Becomes
<1>4. r \in Stretch /\ r.pc = "finishing" /\ r.held = run[s].held /\ r.slotted = run[s].slotted
  BY <1>1, <1>2, Steps DEF Stretch
<1>. HIDE DEF r
<1>5. ~run[s].held /\ Kept(s) = 0 /\ Kept(s)' = 0
  BY <1>2, <1>3 DEF Whole, Handed, Kept
<1>6. Drives(run[s]) = 1 /\ Drives(r) = 0
  BY <1>2, <1>4, <1>5 DEF Drives
<1>. DEFINE a == alive[s] - 1
<1>7. a \in Int /\ a = closers[s] + 0 + Drives(r)
  <2>1. alive[s] = closers[s] + 0 + 1
    BY <1>2, <1>5, <1>6 DEF Whole
  <2>. QED BY <1>2, <1>6, <2>1
<1>8. alive' = [alive EXCEPT ![s] = a] /\ closers' = [closers EXCEPT ![s] = closers[s]]
  BY <1>3 DEF EnginesHold, EnginesTyped
<1>. HIDE DEF a
<1>9. Whole(r, Kept(s)', closers[s], a)
  BY <1>4, <1>5, <1>7 DEF Whole, Handed, HasSlot
<1>10. parked' \subseteq Searches /\ \A t \in Searches \ {s} : t \in parked' <=> t \in parked
  BY <1>2, <1>3
<1>11. r # NoRun => ~r.slotted \/ Holds(s)
  BY <1>2, <1>4 DEF Holds, Running
<1>. QED BY <1>2, <1>3, <1>4, <1>7, <1>8, <1>9, <1>10, <1>11, EngineStep DEF Same

LEMMA EngineEnd ==
  ASSUME EnginesHold, NEW s \in Searches, End(s)
  PROVE  EnginesHold' /\ Same(s) /\ (Holds(s)' => Holds(s))
<1>. DEFINE r == IF run[s].relaunch /\ svc = "up" THEN Fresh ELSE NoRun
            c == IF run[s].held THEN closers[s] + 1 ELSE closers[s]
<1>1. At(s, "ending") /\ "ending" \in Points
  BY DEF End, Points
<1>2. /\ run[s] \in Stretch /\ run[s] # NoRun /\ run[s].pc = "ending"
      /\ alive[s] \in Int /\ closers[s] \in Nat /\ Kept(s) \in {0, 1} /\ parked \subseteq Searches
      /\ Whole(run[s], Kept(s), closers[s], alive[s])
  BY <1>1, EngineAt
<1>3. /\ run' = [run EXCEPT ![s] = r] /\ closers' = [closers EXCEPT ![s] = c]
      /\ alive' = alive /\ parked' = parked
  BY DEF End, Becomes
<1>4. /\ Fresh \in Stretch /\ Fresh.pc = "new" /\ ~Fresh.held /\ ~Fresh.slotted
  BY DEF Fresh, Stretch, Points
<1>5. r \in {NoRun, Fresh}
  OBVIOUS
<1>. HIDE DEF r
<1>6. /\ r \in {NoRun} \cup Stretch /\ Drives(r) = 0 /\ HasSlot(r) /\ Handed(r, Kept(s))
      /\ (r # NoRun => ~r.slotted \/ Holds(s))
  BY <1>4, <1>5 DEF Drives, HasSlot, Handed
<1>7. c \in Nat /\ c = closers[s] + Drives(run[s])
  BY <1>2 DEF Drives
<1>. HIDE DEF c
<1>8. Kept(s)' = Kept(s)
  BY <1>3 DEF Kept
<1>9. alive[s] = c + Kept(s) + Drives(r)
  <2>1. Drives(run[s]) \in {0, 1}
    BY DEF Drives
  <2>. QED BY <1>2, <1>6, <1>7, <2>1 DEF Whole
<1>10. Whole(r, Kept(s)', c, alive[s])
  BY <1>6, <1>8, <1>9 DEF Whole
<1>11. alive' = [alive EXCEPT ![s] = alive[s]]
  BY <1>3 DEF EnginesHold, EnginesTyped
<1>12. parked' \subseteq Searches /\ \A t \in Searches \ {s} : t \in parked' <=> t \in parked
  BY <1>2, <1>3
<1>. QED BY <1>2, <1>3, <1>6, <1>7, <1>10, <1>11, <1>12, EngineStep DEF Same

LEMMA EngineReact ==
  ASSUME EnginesHold, NEW s \in Searches, React(s)
  PROVE  EnginesHold' /\ Same(s) /\ (Holds(s)' => Holds(s))
<1>1. UNCHANGED <<parked, closers, alive>>
  BY DEF React, ReactQueued, ReactPaused, ReactEnded, ReactRunning, engineVars
<1>2. EngineInv(s) /\ run[s] \in {NoRun} \cup Stretch
  BY DEF EnginesHold, EnginesTyped
<1>3. run[s] # NoRun => StopSet(run[s]) \in {"unarmed", "armed", "set"}
  BY <1>2 DEF Stretch, StopSet
<1>. DEFINE again == [run[s] EXCEPT !.relaunch = TRUE]
            pausing == [run[s] EXCEPT !.pausing = TRUE, !.stop = StopSet(run[s])]
            closing == [run[s] EXCEPT !.closing = TRUE, !.relaunch = FALSE,
                                      !.stop = StopSet(run[s])]
<1>4. \/ run' = run
      \/ ~Running(s) /\ run' = [run EXCEPT ![s] = Fresh]
      \/ Running(s) /\ \E r \in {again, pausing, closing} : run' = [run EXCEPT ![s] = r]
  BY DEF React, ReactQueued, ReactPaused, ReactEnded, ReactRunning, Becomes
<1>5. ASSUME Running(s), NEW r \in {again, pausing, closing}
      PROVE  /\ r \in Stretch /\ r.pc = run[s].pc /\ r.held = run[s].held
             /\ r.hand = run[s].hand /\ r.slotted = run[s].slotted
  BY <1>2, <1>3, <1>5 DEF Stretch, Running
<1>. HIDE DEF again, pausing, closing
<1>6. CASE run' = run
  <2>1. run' = [run EXCEPT ![s] = run[s]]
    BY <1>6 DEF EnginesHold, EnginesTyped
  <2>2. run[s] # NoRun => ~run[s].slotted \/ Holds(s)
    BY DEF Holds, Running
  <2>. QED BY <1>1, <1>2, <2>1, <2>2, TaskStep DEF EngineInv, Same
<1>7. CASE ~Running(s) /\ run' = [run EXCEPT ![s] = Fresh]
  <2>1. /\ Fresh \in Stretch /\ Fresh.pc = "new" /\ ~Fresh.held /\ ~Fresh.slotted
    BY DEF Fresh, Stretch, Points
  <2>2. Drives(Fresh) = 0 /\ Drives(run[s]) = 0 /\ Handed(Fresh, Kept(s)) /\ HasSlot(Fresh)
    BY <1>7, <2>1 DEF Drives, Handed, HasSlot, Running
  <2>3. Whole(Fresh, Kept(s), closers[s], alive[s])
    BY <1>2, <2>2 DEF EngineInv, Whole
  <2>. QED BY <1>1, <1>7, <2>1, <2>3, TaskStep DEF Same
<1>8. CASE Running(s) /\ \E r \in {again, pausing, closing} : run' = [run EXCEPT ![s] = r]
  <2>1. PICK r \in {again, pausing, closing} : run' = [run EXCEPT ![s] = r]
    BY <1>8
  <2>2. /\ r \in Stretch /\ r.pc = run[s].pc /\ r.held = run[s].held
        /\ r.hand = run[s].hand /\ r.slotted = run[s].slotted
    BY <1>5, <1>8
  <2>3. run[s] # NoRun /\ r # NoRun
    BY <1>8, <2>2, Constants DEF Running
  <2>4. Drives(r) = Drives(run[s])
    BY <2>2, <2>3 DEF Drives
  <2>5. Handed(r, Kept(s)) /\ HasSlot(r)
    BY <1>2, <2>2, <2>3 DEF EngineInv, Whole, Handed, HasSlot
  <2>6. Whole(r, Kept(s), closers[s], alive[s])
    BY <1>2, <2>4, <2>5 DEF EngineInv, Whole
  <2>7. r # NoRun => ~r.slotted \/ Holds(s)
    BY <1>8, <2>2 DEF Holds
  <2>. QED BY <1>1, <2>1, <2>2, <2>6, <2>7, TaskStep DEF Same
<1>. QED BY <1>4, <1>6, <1>7, <1>8

LEMMA EngineQuits ==
  ASSUME EnginesHold, NEW s \in Searches, QuitParked(s) \/ Closed(s)
  PROVE  EnginesHold' /\ \A t \in Searches : Holds(t)' => Holds(t)
<1>1. run' = run
  BY DEF QuitParked, Closed
<1>2. /\ EngineInv(s) /\ parked \subseteq Searches /\ Kept(s) \in {0, 1}
      /\ closers[s] \in Nat /\ alive[s] \in Int /\ run[s] \in {NoRun} \cup Stretch
  BY DEF EnginesHold, EnginesTyped, Kept
<1>3. run' = [run EXCEPT ![s] = run[s]]
  BY <1>1 DEF EnginesHold, EnginesTyped
<1>4. \A t \in Searches : Holds(t)' => Holds(t)
  BY <1>1 DEF Holds, Running
<1>5. CASE QuitParked(s)
  <2>. DEFINE c == closers[s] + Kept(s)
  <2>1. parked' = parked \ {s} /\ alive' = [alive EXCEPT ![s] = alive[s]]
    BY <1>5 DEF QuitParked, EnginesHold, EnginesTyped
  <2>2. Kept(s)' = 0 /\ parked' \subseteq Searches
        /\ \A t \in Searches \ {s} : t \in parked' <=> t \in parked
    BY <1>2, <2>1 DEF Kept
  <2>3. c \in Nat
    BY <1>2
  <2>4. closers' = [closers EXCEPT ![s] = c]
    <3>1. (IF s \in parked THEN closers[s] + 1 ELSE closers[s]) = c
      BY <1>2 DEF Kept
    <3>2. closers' = [closers EXCEPT ![s] = IF s \in parked THEN closers[s] + 1 ELSE closers[s]]
      BY <1>5 DEF QuitParked
    <3>. QED BY <3>1, <3>2
  <2>5. Whole(run[s], 0, c, alive[s])
    <3>1. Handed(run[s], 0) /\ HasSlot(run[s])
      BY <1>2 DEF EngineInv, Whole, Handed
    <3>2. alive[s] = closers[s] + Kept(s) + Drives(run[s]) /\ Drives(run[s]) \in {0, 1}
      BY <1>2 DEF EngineInv, Whole, Drives
    <3>3. alive[s] = c + 0 + Drives(run[s])
      BY <1>2, <3>2
    <3>. QED BY <3>1, <3>3 DEF Whole
  <2>. HIDE DEF c
  <2>. QED BY <1>2, <1>3, <1>4, <2>1, <2>2, <2>3, <2>4, <2>5, EngineStep
<1>6. CASE Closed(s)
  <2>. DEFINE c == closers[s] - 1
              a == alive[s] - 1
  <2>1. parked' = parked /\ closers[s] > 0
        /\ closers' = [closers EXCEPT ![s] = c] /\ alive' = [alive EXCEPT ![s] = a]
    BY <1>6 DEF Closed
  <2>2. c \in Nat /\ a \in Int
    BY <1>2, <2>1
  <2>3. Kept(s)' = Kept(s) /\ parked' \subseteq Searches
        /\ \A t \in Searches \ {s} : t \in parked' <=> t \in parked
    BY <1>2, <2>1 DEF Kept
  <2>4. Whole(run[s], Kept(s), c, a)
    <3>1. alive[s] = closers[s] + Kept(s) + Drives(run[s]) /\ Drives(run[s]) \in {0, 1}
      BY <1>2 DEF EngineInv, Whole, Drives
    <3>2. a = c + Kept(s) + Drives(run[s])
      BY <1>2, <3>1
    <3>. QED BY <1>2, <3>2 DEF EngineInv, Whole
  <2>. HIDE DEF c, a
  <2>. QED BY <1>2, <1>3, <1>4, <2>1, <2>2, <2>3, <2>4, EngineStep
<1>. QED BY <1>5, <1>6

LEMMA EngineShutdown ==
  ASSUME EnginesHold, Shutdown
  PROVE  EnginesHold' /\ \A t \in Searches : Holds(t)' => Holds(t)
<1>1. /\ run' = [s \in Searches |->
                   IF Running(s) THEN [run[s] EXCEPT !.closing = TRUE, !.stop = StopSet(run[s])]
                   ELSE NoRun]
      /\ UNCHANGED <<parked, closers, alive>>
  BY DEF Shutdown, engineVars
<1>2. ASSUME NEW s \in Searches
      PROVE  /\ run'[s] \in {NoRun} \cup Stretch /\ EngineInv(s)' /\ (Holds(s)' => Holds(s))
  <2>1. EngineInv(s) /\ run[s] \in {NoRun} \cup Stretch
    BY DEF EnginesHold, EnginesTyped
  <2>2. Kept(s)' = Kept(s) /\ closers'[s] = closers[s] /\ alive'[s] = alive[s]
    BY <1>1 DEF Kept
  <2>3. CASE Running(s)
    <3>. DEFINE r == [run[s] EXCEPT !.closing = TRUE, !.stop = StopSet(run[s])]
    <3>1. run'[s] = r
      BY <1>1, <2>3
    <3>2. run[s] \in Stretch
      BY <2>1, <2>3 DEF Running
    <3>3. StopSet(run[s]) \in {"unarmed", "armed", "set"}
      BY <3>2 DEF Stretch, StopSet
    <3>4. /\ r \in Stretch /\ r.pc = run[s].pc /\ r.held = run[s].held
          /\ r.hand = run[s].hand /\ r.slotted = run[s].slotted
      BY <3>2, <3>3 DEF Stretch
    <3>. HIDE DEF r
    <3>5. run[s] # NoRun /\ r # NoRun
      BY <2>3, <3>4, Constants DEF Running
    <3>6. Drives(r) = Drives(run[s])
      BY <3>4, <3>5 DEF Drives
    <3>7. Handed(r, Kept(s)) /\ HasSlot(r)
      BY <2>1, <3>4, <3>5 DEF EngineInv, Whole, Handed, HasSlot
    <3>8. EngineInv(s)'
      BY <2>1, <2>2, <3>1, <3>6, <3>7 DEF EngineInv, Whole
    <3>. QED BY <2>3, <3>1, <3>4, <3>8 DEF Holds
  <2>4. CASE ~Running(s)
    <3>1. run'[s] = NoRun /\ run[s] = NoRun
      BY <1>1, <2>4 DEF Running
    <3>. QED BY <2>1, <2>2, <3>1 DEF EngineInv, Holds, Running
  <2>. QED BY <2>3, <2>4
<1>3. EnginesTyped'
  <2>1. run' = [s \in Searches |-> run'[s]]
    BY <1>1
  <2>2. run' \in [Searches -> {NoRun} \cup Stretch]
    BY <1>2, <2>1
  <2>. QED BY <1>1, <2>2 DEF EnginesHold, EnginesTyped
<1>. QED BY <1>2, <1>3 DEF EnginesHold

LEMMA NobodyDrives ==
  Drives(NoRun) = 0 /\ HasSlot(NoRun) /\ \A k : Handed(NoRun, k)
BY DEF Drives, HasSlot, Handed

LEMMA EngineEnds ==
  ASSUME EnginesHold, ShutDown \/ Crash
  PROVE  EnginesHold' /\ \A t \in Searches : Holds(t)' => Holds(t)
<1>1. parked' = {} /\ \A s \in Searches : run'[s] = NoRun
  BY DEF ShutDown, Crash, Running
<1>2. ASSUME NEW s \in Searches PROVE Kept(s)' = 0 /\ ~Holds(s)'
  BY <1>1 DEF Kept, Holds, Running
<1>3. CASE Crash
  <2>1. /\ closers' = [s \in Searches |-> 0] /\ alive' = [s \in Searches |-> 0]
        /\ run' = [s \in Searches |-> NoRun]
    BY <1>3 DEF Crash
  <2>2. EnginesTyped'
    BY <1>1, <2>1 DEF EnginesTyped
  <2>3. \A s \in Searches : EngineInv(s)'
    BY <1>1, <1>2, <2>1, NobodyDrives DEF EngineInv, Whole
  <2>. QED BY <1>2, <2>2, <2>3 DEF EnginesHold
<1>4. CASE ShutDown
  <2>1. /\ closers' = closers /\ run' = run
        /\ alive' = [s \in Searches |-> IF s \in parked THEN alive[s] - 1 ELSE alive[s]]
        /\ \A s \in Searches : ~Running(s) /\ closers[s] = 0
    BY <1>4 DEF ShutDown
  <2>2. alive' \in [Searches -> Int]
    BY <2>1 DEF EnginesHold, EnginesTyped
  <2>3. EnginesTyped'
    BY <1>1, <2>1, <2>2 DEF EnginesHold, EnginesTyped
  <2>4. ASSUME NEW s \in Searches PROVE EngineInv(s)'
    <3>1. run[s] = NoRun /\ closers[s] = 0 /\ EngineInv(s) /\ alive[s] \in Int
      BY <2>1 DEF Running, EnginesHold, EnginesTyped
    <3>2. alive[s] = Kept(s) /\ Kept(s) \in {0, 1}
      BY <3>1, NobodyDrives DEF EngineInv, Whole, Kept
    <3>3. alive'[s] = 0
      BY <2>1, <3>2 DEF Kept
    <3>4. closers'[s] = 0 /\ run'[s] = NoRun /\ Kept(s)' = 0
      BY <1>1, <1>2, <2>1, <3>1
    <3>. QED BY <3>3, <3>4, NobodyDrives DEF EngineInv, Whole
  <2>. QED BY <1>2, <2>3, <2>4 DEF EnginesHold
<1>. QED BY <1>3, <1>4

LEMMA EngineBoot ==
  ASSUME EnginesHold, RowsHold, Boot
  PROVE  EnginesHold' /\ \A t \in Searches : Holds(t)' => Holds(t)
<1>1. /\ run' = [s \in Searches |-> IF row'[s].status = "queued" THEN Fresh ELSE NoRun]
      /\ UNCHANGED <<parked, closers, alive>> /\ svc = "down"
  BY DEF Boot, Boots, engineVars
<1>2. /\ Fresh \in Stretch /\ Fresh.pc = "new" /\ ~Fresh.held /\ ~Fresh.slotted
  BY DEF Fresh, Stretch, Points
<1>3. Drives(Fresh) = 0 /\ HasSlot(Fresh) /\ \A k : Handed(Fresh, k)
  BY <1>2 DEF Drives, HasSlot, Handed
<1>4. EnginesTyped'
  BY <1>1, <1>2 DEF EnginesHold, EnginesTyped
<1>5. ASSUME NEW s \in Searches PROVE EngineInv(s)' /\ (Holds(s)' => Holds(s))
  <2>1. run[s] = NoRun
    BY <1>1 DEF RowsHold, RowInv, NewsIsTrue, Running
  <2>2. run'[s] \in {Fresh, NoRun}
    BY <1>1
  <2>3. Drives(run'[s]) = 0 /\ HasSlot(run'[s]) /\ (\A k : Handed(run'[s], k)) /\ ~Holds(s)'
    BY <1>2, <1>3, <2>2, NobodyDrives DEF Holds, Running
  <2>4. EngineInv(s) /\ Kept(s)' = Kept(s) /\ closers'[s] = closers[s] /\ alive'[s] = alive[s]
    BY <1>1 DEF EnginesHold, Kept
  <2>. QED BY <2>1, <2>3, <2>4, NobodyDrives DEF EngineInv, Whole
<1>. QED BY <1>4, <1>5 DEF EnginesHold

-----------------------------------------------------------------------------
LEMMA EnginesAtFirst == Init => EnginesHold /\ \A s \in Searches : ~Holds(s)
<1>. SUFFICES ASSUME Init PROVE EnginesHold /\ \A s \in Searches : ~Holds(s)
  OBVIOUS
<1>1. /\ parked = {} /\ closers = [s \in Searches |-> 0] /\ alive = [s \in Searches |-> 0]
      /\ run = [s \in Searches |-> NoRun]
  BY DEF Init, RowsInit
<1>2. EnginesTyped
  BY <1>1 DEF EnginesTyped
<1>3. \A s \in Searches : EngineInv(s)
  BY <1>1, NobodyDrives DEF EngineInv, Whole, Kept
<1>. QED BY <1>1, <1>2, <1>3 DEF EnginesHold, Holds, Running

(* Only one step takes a slot, and only while one is free.                 *)
Takes == \E s \in Searches : Cardinality(Slotted) < Slots /\ Same(s)
TakesNone == \A s \in Searches : Holds(s)' => Holds(s)

LEMMA EnginesStep ==
  EnginesHold /\ RowsHold /\ [Next]_vars => EnginesHold' /\ (TakesNone \/ Takes)
<1>. SUFFICES ASSUME EnginesHold, RowsHold, [Next]_vars
              PROVE  EnginesHold' /\ (TakesNone \/ Takes)
  OBVIOUS
<1>1. CASE UNCHANGED <<run, parked, closers, alive>>
  <2>1. EnginesHold'
    BY <1>1 DEF EnginesHold, EnginesTyped, EngineInv, Kept
  <2>2. TakesNone
    BY <1>1 DEF TakesNone, Holds, Running
  <2>. QED BY <2>1, <2>2
<1>2. ASSUME NEW s \in Searches, EnginesHold', Same(s), Holds(s)' => Holds(s)
      PROVE  EnginesHold' /\ TakesNone
  BY <1>2 DEF TakesNone, Same
<1>3. ASSUME NEW s \in Searches, Task(s) PROVE EnginesHold' /\ (TakesNone \/ Takes)
  <2>1. CASE TakeSlot(s)
    <3>1. Cardinality(Slotted) < Slots
      BY <2>1 DEF TakeSlot
    <3>. QED BY <2>1, <3>1, EngineTakeSlot DEF Takes
  <2>2. CASE \/ GotContext(s) \/ NoEngine(s) \/ Marked(s) \/ LimitReached(s)
             \/ EngineStops(s) \/ EngineFails(s) \/ Parked(s) \/ Finished(s)
    BY <1>2, <2>2, EngineLeaves
  <2>3. CASE Begin(s)
    BY <1>2, <2>3, EngineBegin
  <2>4. CASE GotState(s)
    BY <1>2, <2>4, EngineGotState
  <2>5. CASE Flushed(s)
    BY <1>2, <2>5, EngineFlushed
  <2>6. CASE OwnClosed(s)
    BY <1>2, <2>6, EngineOwnClosed
  <2>7. CASE End(s)
    BY <1>2, <2>7, EngineEnd
  <2>. QED BY <1>3, <2>1, <2>2, <2>3, <2>4, <2>5, <2>6, <2>7, Zenon DEF Task
<1>4. ASSUME NEW s \in Searches, React(s) PROVE EnginesHold' /\ TakesNone
  BY <1>2, <1>4, EngineReact
<1>5. ASSUME NEW s \in Searches, QuitParked(s) \/ Closed(s) PROVE EnginesHold' /\ TakesNone
  BY <1>5, EngineQuits DEF TakesNone
<1>6. CASE Shutdown
  BY <1>6, EngineShutdown DEF TakesNone
<1>7. CASE ShutDown \/ Crash
  BY <1>7, EngineEnds DEF TakesNone
<1>8. CASE Boot
  BY <1>8, EngineBoot DEF TakesNone
<1>9. CASE Next
  <2>1. \/ UNCHANGED <<run, parked, closers, alive>>
        \/ \E s \in Searches : React(s) \/ QuitParked(s) \/ Closed(s) \/ Task(s)
        \/ Shutdown \/ ShutDown \/ Crash \/ Boot
    BY <1>9 DEF Next, engineVars
  <2>. QED BY <1>1, <1>3, <1>4, <1>5, <1>6, <1>7, <1>8, <2>1, Zenon
<1>10. CASE UNCHANGED vars
  BY <1>1, <1>10 DEF vars
<1>. QED BY <1>9, <1>10

SlotsKept == Cardinality(Slotted) <= Slots

LEMMA SlottedIs ==
  /\ IsFiniteSet(Slotted) /\ Cardinality(Slotted) \in Nat
  /\ \A s : s \in Slotted <=> s \in Searches /\ Holds(s)
<1>1. Slotted \subseteq Searches /\ \A s : s \in Slotted <=> s \in Searches /\ Holds(s)
  BY DEF Slotted, Holds
<1>2. IsFiniteSet(Slotted)
  BY <1>1, FS_Subset, SearchRowsAssumption DEF SearchRowsAssumption
<1>. QED BY <1>1, <1>2, FS_CardinalityType

LEMMA SlotsStep ==
  ASSUME Slots \in Nat, SlotsKept, TakesNone \/ Takes
  PROVE  SlotsKept'
<1>. DEFINE before == Slotted
            after == Slotted'
<1>1. /\ IsFiniteSet(before) /\ Cardinality(before) \in Nat
      /\ \A s : s \in before <=> s \in Searches /\ Holds(s)
  BY SlottedIs
<1>2. Slotted' = {s \in Searches : Running(s)' /\ run'[s].slotted}
  BY DEF Slotted
<1>3. \A s : s \in after <=> s \in Searches /\ Holds(s)'
  BY <1>2 DEF Holds
<1>4. SlotsKept <=> Cardinality(before) <= Slots
  BY DEF SlotsKept
<1>5. SlotsKept' <=> Cardinality(after) <= Slots
  BY DEF SlotsKept
<1>6. Cardinality(Slotted) < Slots <=> Cardinality(before) < Slots
  OBVIOUS
<1>. HIDE DEF before, after
<1>7. CASE TakesNone
  <2>1. after \subseteq before
    BY <1>1, <1>3, <1>7 DEF TakesNone
  <2>2. Cardinality(after) <= Cardinality(before) /\ Cardinality(after) \in Nat
    BY <1>1, <2>1, FS_Subset, FS_CardinalityType
  <2>. QED BY <1>1, <1>4, <1>5, <2>2
<1>8. CASE Takes
  <2>1. PICK s \in Searches : Cardinality(before) < Slots /\ Same(s)
    BY <1>6, <1>8 DEF Takes
  <2>2. after \subseteq before \cup {s}
    BY <1>1, <1>3, <2>1 DEF Same
  <2>3. /\ IsFiniteSet(before \cup {s})
        /\ Cardinality(before \cup {s}) <= Cardinality(before) + 1
        /\ Cardinality(before \cup {s}) \in Nat
    <3>1. IsFiniteSet(before \cup {s})
          /\ Cardinality(before \cup {s}) =
               IF s \in before THEN Cardinality(before) ELSE Cardinality(before) + 1
      BY <1>1, FS_AddElement
    <3>. QED BY <1>1, <3>1
  <2>4. Cardinality(after) <= Cardinality(before \cup {s}) /\ Cardinality(after) \in Nat
    BY <2>2, <2>3, FS_Subset, FS_CardinalityType
  <2>. QED BY <1>1, <1>5, <2>1, <2>3, <2>4
<1>. QED BY <1>7, <1>8

LEMMA SlotsAtFirst ==
  ASSUME Slots \in Nat, \A s \in Searches : ~Holds(s)
  PROVE  SlotsKept
<1>1. Slotted = {}
  BY SlottedIs
<1>2. Cardinality(Slotted) = 0
  BY <1>1, FS_EmptySet
<1>. QED BY <1>2 DEF SlotsKept

LEMMA EnginesAlways == Spec => []EnginesHold
<1>1. EnginesHold /\ RowsHold /\ [Next]_vars => EnginesHold'
  BY EnginesStep
<1>2. Init => EnginesHold
  BY EnginesAtFirst
<1>. QED BY <1>1, <1>2, RowsAlways, PTL DEF Spec

LEMMA OwnersKnown == EnginesHold => EveryProcessHasAnOwner
<1>. SUFFICES ASSUME EnginesHold, NEW s \in Searches
              PROVE  alive[s] = closers[s] + (IF s \in parked THEN 1 ELSE 0)
                       + (IF Running(s) /\ (run[s].held \/ run[s].pc = "quitting") THEN 1 ELSE 0)
  BY DEF EveryProcessHasAnOwner
<1>. QED BY DEF EnginesHold, EngineInv, Whole, Kept, Drives, Running

(* A process of a search outside the pool is the parked dictionary's, the  *)
(* task's that took it back, or a close's under way, and never nobody's or *)
(* two's (_park, _drive, _quit_parked, _close, stop()).                    *)
THEOREM ProcessesAreOwned == Spec => []EveryProcessHasAnOwner
BY EnginesAlways, OwnersKnown, PTL

(* For any number of permits: no more searches hold one than there are,    *)
(* and a search at its engine holds one.                                   *)
THEOREM SlotsAreHeld == SlotsAssumption => (Spec => []SearchingHoldsASlot)
<1>. SUFFICES ASSUME SlotsAssumption PROVE Spec => []SearchingHoldsASlot
  OBVIOUS
<1>1. Slots \in Nat
  BY DEF SlotsAssumption
<1>2. Init => SlotsKept
  BY <1>1, EnginesAtFirst, SlotsAtFirst
<1>3. SlotsKept /\ EnginesHold /\ RowsHold /\ [Next]_vars => SlotsKept'
  BY <1>1, EnginesStep, SlotsStep
<1>4. SlotsKept /\ EnginesHold => SearchingHoldsASlot
  BY DEF SearchingHoldsASlot, SlotsKept, EnginesHold, EngineInv, Whole, HasSlot, Running
<1>. QED BY <1>2, <1>3, <1>4, RowsAlways, EnginesAlways, PTL DEF Spec
=============================================================================
