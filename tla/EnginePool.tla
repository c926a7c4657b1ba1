---------------------------- MODULE EnginePool ----------------------------
(***************************************************************************)
(* The pool of warm engine processes that every consumer of an engine in   *)
(* one process goes through (backend/adapters/pool.py): a semaphore that   *)
(* caps how many engines work at once and that `resize` moves, and for     *)
(* each engine a group of slots, each at most one process behind a lock.   *)
(* All of it runs on one event loop: a step is what happens between two    *)
(* awaits.  Not here: close(), which the process calls on its way out.     *)
(***************************************************************************)
EXTENDS Integers, SequencesExt

CONSTANTS
  Caller,      \* tasks that use an engine
  Engine,      \* engine specs, by key
  Slot,        \* bound: slot objects around at once
  Nobody, Reaper, Withdrawer, NoEngine, NoSlot,
  FirstCap,    \* the cap the pool is made with
  MaxCap,      \* bound: the caps that are ever set
  Instances,   \* the processes each engine allows itself, 0 for no limit of its own
  Faults       \* which of FaultNames this instance has

FaultNames == {"raise", "cancel", "detach", "resize", "reap", "reserve"}

ASSUME PoolAssumption ==
  /\ IsFiniteSet(Caller)
  /\ FirstCap \in 1 .. MaxCap /\ MaxCap \in Nat
  /\ Instances \in [Engine -> Nat]
  /\ Nobody \notin Caller /\ Reaper \notin Caller /\ Withdrawer \notin Caller
  /\ Reaper # Nobody
  /\ NoEngine \notin Engine /\ NoSlot \notin Slot
  /\ Faults \subseteq FaultNames

VARIABLES
  cap,         \* concurrency
  permits,     \* the semaphore's value
  line,        \* its waiters that are still to be woken, first in first out
  admitted,    \* its waiters that are woken and have not run yet
  shrink,      \* _withdrawing, _withheld and the task that withdraws
  at,          \* where each caller is
  slots, free, \* each group's slots and the ones it has handed back
  status,      \* whose a slot is: its group's, given away, or a forgotten group's
  spec,        \* the engine a slot is for
  warm,        \* whether it holds a process
  holder, lockq,  \* its lock: who has it, and who waits for it
  reaper       \* the reaping task

semaphore == <<permits, line, admitted>>
groups == <<slots, free, status, spec>>
locks == <<holder, lockq>>
vars == <<cap, semaphore, shrink, at, groups, warm, locks, reaper>>

Least(a, b) == IF a < b THEN a ELSE b

Limit(e) == IF Instances[e] = 0 THEN cap ELSE Least(cap, Instances[e])

Inside == {"queued", "starting", "using", "closing", "reserved"}
Outside == [pc |-> "out", engine |-> NoEngine, slot |-> NoSlot]

Resting == [pc |-> "rest", engine |-> NoEngine, todo |-> <<>>]

Heads(n) == {line[k] : k \in 1 .. n}

-----------------------------------------------------------------------------
(* The semaphore (asyncio's): first come, first served.                    *)

MayPass == permits > 0 /\ line = <<>> /\ admitted = {}

Give(n) ==
  LET k == Least(n, Len(line)) IN
    /\ permits' = permits + n - k
    /\ admitted' = admitted \cup Heads(k)
    /\ line' = SubSeq(line, k + 1, Len(line))

(* A woken waiter runs: it wakes whoever came meanwhile and could pass.    *)
RunWoken(x) ==
  LET k == Least(permits, Len(line)) IN
    /\ x \in admitted
    /\ permits' = permits - k
    /\ admitted' = (admitted \ {x}) \cup Heads(k)
    /\ line' = SubSeq(line, k + 1, Len(line))

-----------------------------------------------------------------------------
(* A caller with its permit takes a slot of its engine's group and, if the *)
(* slot's lock is to be had, goes on to its process.                       *)

Fresh(s) ==
  /\ ~warm[s] /\ holder[s] = Nobody /\ lockq[s] = <<>>
  /\ \A e \in Engine : s \notin Range(slots[e]) \cup Range(free[e])
  /\ \A c \in Caller : at[c].slot # s

Locks(c, e, s) ==
  IF holder[s] = Nobody /\ lockq[s] = <<>>
  THEN /\ holder' = [holder EXCEPT ![s] = c]
       /\ at' = [at EXCEPT ![c] = [pc |-> IF warm[s] THEN "using" ELSE "starting",
                                   engine |-> e, slot |-> s]]
       /\ UNCHANGED lockq
  ELSE /\ lockq' = [lockq EXCEPT ![s] = Append(@, c)]
       /\ at' = [at EXCEPT ![c] = [pc |-> "queued", engine |-> e, slot |-> s]]
       /\ UNCHANGED holder

TakeSlotOver(c, e) ==   \* mutant: one process more than the limit
  \/ /\ free[e] # <<>>
     /\ free' = [free EXCEPT ![e] = Front(@)]
     /\ Locks(c, e, Last(free[e]))
     /\ UNCHANGED <<slots, status, spec>>
  \/ /\ free[e] = <<>> /\ Len(slots[e]) > Limit(e)
     /\ Locks(c, e, Head(slots[e]))
     /\ UNCHANGED groups
  \/ /\ free[e] = <<>> /\ Len(slots[e]) <= Limit(e)
     /\ \E s \in Slot :
          /\ Fresh(s)
          /\ slots' = [slots EXCEPT ![e] = Append(@, s)]
          /\ status' = [status EXCEPT ![s] = "group"]
          /\ spec' = [spec EXCEPT ![s] = e]
          /\ Locks(c, e, s)
     /\ UNCHANGED free

TakeSlot(c, e) ==
  \/ /\ free[e] # <<>>
     /\ free' = [free EXCEPT ![e] = Front(@)]
     /\ Locks(c, e, Last(free[e]))
     /\ UNCHANGED <<slots, status, spec>>
  \/ /\ free[e] = <<>> /\ Len(slots[e]) >= Limit(e)
     /\ Locks(c, e, Head(slots[e]))
     /\ UNCHANGED groups
  \/ /\ free[e] = <<>> /\ Len(slots[e]) < Limit(e)
     /\ \E s \in Slot :
          /\ Fresh(s)
          /\ slots' = [slots EXCEPT ![e] = Append(@, s)]
          /\ status' = [status EXCEPT ![s] = "group"]
          /\ spec' = [spec EXCEPT ![s] = e]
          /\ Locks(c, e, s)
     /\ UNCHANGED free

Enters(c, e) ==
  IF e = NoEngine
  THEN /\ at' = [at EXCEPT ![c] = [Outside EXCEPT !.pc = "reserved"]]
       /\ UNCHANGED <<groups, locks>>
  ELSE TakeSlot(c, e)

Acquire(c, e) ==
  /\ at[c].pc = "out"
  /\ e = NoEngine => "reserve" \in Faults
  /\ \/ MayPass /\ permits' = permits - 1 /\ Enters(c, e) /\ UNCHANGED <<line, admitted>>
     \/ /\ ~MayPass
        /\ line' = Append(line, c)
        /\ at' = [at EXCEPT ![c] = [Outside EXCEPT !.pc = "waiting", !.engine = e]]
        /\ UNCHANGED <<permits, admitted, groups, locks>>
  /\ UNCHANGED <<cap, shrink, warm, reaper>>

Admit(c) ==
  /\ RunWoken(c)
  /\ Enters(c, at[c].engine)
  /\ UNCHANGED <<cap, shrink, warm, reaper>>

LockSlot(c) ==
  /\ at[c].pc = "queued"
  /\ LET s == at[c].slot IN
       /\ holder[s] = Nobody /\ Head(lockq[s]) = c
       /\ holder' = [holder EXCEPT ![s] = c]
       /\ lockq' = [lockq EXCEPT ![s] = Tail(@)]
       /\ at' = [at EXCEPT ![c].pc = IF warm[s] THEN "using" ELSE "starting"]
  /\ UNCHANGED <<cap, semaphore, shrink, groups, warm, reaper>>

Start(c) ==
  /\ at[c].pc = "starting"
  /\ warm' = [warm EXCEPT ![at[c].slot] = TRUE]
  /\ at' = [at EXCEPT ![c].pc = "using"]
  /\ UNCHANGED <<cap, semaphore, shrink, groups, locks, reaper>>

(* Out again: the lock, the slot back to its group, the permit.            *)
Leaves(c) ==
  LET s == at[c].slot
      e == at[c].engine IN
    /\ holder' = [t \in Slot |-> IF holder[t] = c THEN Nobody ELSE holder[t]]
    /\ lockq' = [t \in Slot |-> RemoveFirst(lockq[t], c)]
    /\ free' = IF s # NoSlot /\ status[s] = "group" /\ s \notin Range(free[e])
               THEN [free EXCEPT ![e] = Append(@, s)] ELSE free
    /\ at' = [at EXCEPT ![c] = Outside]
    /\ Give(1)
    /\ UNCHANGED <<slots, status, spec>>

Finish(c) ==
  /\ at[c].pc \in {"using", "reserved"}
  /\ Leaves(c)
  /\ UNCHANGED <<cap, shrink, warm, reaper>>

(* What raised inside, a cancel included, drops the process first.         *)
Raise(c) ==
  /\ "raise" \in Faults
  /\ at[c].pc = "using"
  /\ IF warm[at[c].slot]
     THEN /\ at' = [at EXCEPT ![c].pc = "closing"]
          /\ UNCHANGED <<semaphore, groups, locks>>
     ELSE Leaves(c)
  /\ UNCHANGED <<cap, shrink, warm, reaper>>

Drop(c) ==
  /\ at[c].pc = "closing"
  /\ warm' = [warm EXCEPT ![at[c].slot] = FALSE]
  /\ Leaves(c)
  /\ UNCHANGED <<cap, shrink, reaper>>

(* Cancelled while it waits for the process to close: the slot keeps it.   *)
CancelDrop(c) ==
  /\ "cancel" \in Faults
  /\ at[c].pc = "closing"
  /\ Leaves(c)
  /\ UNCHANGED <<cap, shrink, warm, reaper>>

(* A start that fails, or whose caller is cancelled: what the thread then  *)
(* still starts is in no slot.                                             *)
StartFails(c) ==
  /\ {"raise", "cancel"} \cap Faults # {}
  /\ at[c].pc = "starting"
  /\ Leaves(c)
  /\ UNCHANGED <<cap, shrink, warm, reaper>>

CancelQueued(c) ==
  /\ "cancel" \in Faults
  /\ at[c].pc = "queued"
  /\ Leaves(c)
  /\ UNCHANGED <<cap, shrink, warm, reaper>>

(* A waiter that was woken and is cancelled before it runs passes it on.   *)
CancelWaiting(c) ==
  /\ "cancel" \in Faults
  /\ at[c].pc = "waiting"
  /\ at' = [at EXCEPT ![c] = Outside]
  /\ IF c \in admitted
     THEN LET k == Least(permits + 1, Len(line)) IN
            /\ permits' = permits + 1 - k
            /\ admitted' = (admitted \ {c}) \cup Heads(k)
            /\ line' = SubSeq(line, k + 1, Len(line))
     ELSE /\ \E k \in 1 .. Len(line) : line[k] = c /\ line' = RemoveAt(line, k)
          /\ UNCHANGED <<permits, admitted>>
  /\ UNCHANGED <<cap, shrink, groups, warm, locks, reaper>>

(* EnginePool.detach: the process is the caller's own from here on.        *)
Detach(c) ==
  /\ "detach" \in Faults
  /\ at[c].pc = "using"
  /\ LET s == at[c].slot
         e == at[c].engine IN
       /\ warm[s] /\ s \in Range(slots[e])
       /\ status' = [status EXCEPT ![s] = "given"]
       /\ warm' = [warm EXCEPT ![s] = FALSE]
       /\ slots' = [slots EXCEPT ![e] = RemoveFirst(@, s)]
       /\ free' = [free EXCEPT ![e] = RemoveFirst(@, s)]
  /\ UNCHANGED <<cap, semaphore, shrink, at, spec, locks, reaper>>

-----------------------------------------------------------------------------
(* Changing the cap.  Growing first calls off what a shrink still wants,   *)
(* then gives back what it holds, then mints.  Shrinking leaves it to a    *)
(* task that takes permits out as they come free.                          *)

ResizeMintsAll(n) ==   \* mutant: a grow that called a shrink off mints the whole difference
  /\ "resize" \in Faults
  /\ n # cap
  /\ cap' = n
  /\ IF n > cap
     THEN LET off == Least(n - cap, shrink.wanted)
              returned == Least(n - cap - off, shrink.withheld) IN
            /\ shrink' = [shrink EXCEPT !.wanted = @ - off, !.withheld = @ - returned]
            /\ Give(n - cap)
     ELSE /\ shrink' = [shrink EXCEPT !.wanted = @ + cap - n,
                                      !.task = IF @ = "off" THEN "due" ELSE @]
          /\ UNCHANGED semaphore
  /\ UNCHANGED <<at, groups, warm, locks, reaper>>

ResizeRestarts(n) ==   \* mutant: every shrink starts a task
  /\ "resize" \in Faults
  /\ n # cap
  /\ cap' = n
  /\ IF n > cap
     THEN LET off == Least(n - cap, shrink.wanted)
              returned == Least(n - cap - off, shrink.withheld) IN
            /\ shrink' = [shrink EXCEPT !.wanted = @ - off, !.withheld = @ - returned]
            /\ Give(n - cap - off)
     ELSE /\ shrink' = [shrink EXCEPT !.wanted = @ + cap - n,
                                      !.task = "due"]
          /\ UNCHANGED semaphore
  /\ UNCHANGED <<at, groups, warm, locks, reaper>>

Resize(n) ==
  /\ "resize" \in Faults
  /\ n # cap
  /\ cap' = n
  /\ IF n > cap
     THEN LET off == Least(n - cap, shrink.wanted)
              returned == Least(n - cap - off, shrink.withheld) IN
            /\ shrink' = [shrink EXCEPT !.wanted = @ - off, !.withheld = @ - returned]
            /\ Give(n - cap - off)
     ELSE /\ shrink' = [shrink EXCEPT !.wanted = @ + cap - n,
                                      !.task = IF @ = "off" THEN "due" ELSE @]
          /\ UNCHANGED semaphore
  /\ UNCHANGED <<at, groups, warm, locks, reaper>>

(* _withdraw: one round of its loop ...                                    *)
WithdrawOnce ==   \* mutant: one permit and it is done
  /\ shrink.task = "due"
  /\ \/ /\ shrink.wanted = 0
        /\ shrink' = [shrink EXCEPT !.task = "off"]
        /\ UNCHANGED semaphore
     \/ /\ shrink.wanted > 0 /\ MayPass
        /\ shrink' = [shrink EXCEPT !.wanted = @ - 1, !.withheld = @ + 1, !.task = "off"]
        /\ permits' = permits - 1
        /\ UNCHANGED <<line, admitted>>
     \/ /\ shrink.wanted > 0 /\ ~MayPass
        /\ shrink' = [shrink EXCEPT !.task = "waiting"]
        /\ line' = Append(line, Withdrawer)
        /\ UNCHANGED <<permits, admitted>>
  /\ UNCHANGED <<cap, at, groups, warm, locks, reaper>>

Withdraw ==
  /\ shrink.task = "due"
  /\ \/ /\ shrink.wanted = 0
        /\ shrink' = [shrink EXCEPT !.task = "off"]
        /\ UNCHANGED semaphore
     \/ /\ shrink.wanted > 0 /\ MayPass
        /\ shrink' = [shrink EXCEPT !.wanted = @ - 1, !.withheld = @ + 1]
        /\ permits' = permits - 1
        /\ UNCHANGED <<line, admitted>>
     \/ /\ shrink.wanted > 0 /\ ~MayPass
        /\ shrink' = [shrink EXCEPT !.task = "waiting"]
        /\ line' = Append(line, Withdrawer)
        /\ UNCHANGED <<permits, admitted>>
  /\ UNCHANGED <<cap, at, groups, warm, locks, reaper>>

(* ... and its waking, in a pool that may have been grown meanwhile.       *)
WithdrawWokenKeeps ==   \* mutant: the permit of a shrink called off is kept
  /\ IF shrink.wanted = 0
     THEN LET k == Least(permits, Len(line)) IN
            /\ Withdrawer \in admitted
            /\ permits' = permits - k
            /\ admitted' = (admitted \ {Withdrawer}) \cup Heads(k)
            /\ line' = SubSeq(line, k + 1, Len(line))
            /\ shrink' = [shrink EXCEPT !.task = "off"]
     ELSE /\ RunWoken(Withdrawer)
          /\ shrink' = [shrink EXCEPT !.wanted = @ - 1, !.withheld = @ + 1, !.task = "due"]
  /\ UNCHANGED <<cap, at, groups, warm, locks, reaper>>

WithdrawWoken ==
  /\ IF shrink.wanted = 0
     THEN LET k == Least(permits + 1, Len(line)) IN
            /\ Withdrawer \in admitted
            /\ permits' = permits + 1 - k
            /\ admitted' = (admitted \ {Withdrawer}) \cup Heads(k)
            /\ line' = SubSeq(line, k + 1, Len(line))
            /\ shrink' = [shrink EXCEPT !.task = "off"]
     ELSE /\ RunWoken(Withdrawer)
          /\ shrink' = [shrink EXCEPT !.wanted = @ - 1, !.withheld = @ + 1, !.task = "due"]
  /\ UNCHANGED <<cap, at, groups, warm, locks, reaper>>

-----------------------------------------------------------------------------
(* The reaper goes through what a group has idle, closes what has not been *)
(* used for ten minutes, then lets the group forget its cold slots.  It    *)
(* runs on over slots that are locked, cold or warm for less, and stops    *)
(* where it closes one or has to wait for a lock.  A group left without    *)
(* slots is itself forgotten, and whoever still is on its way to one of    *)
(* them hands it back to an object nobody sees.                            *)

(* The members of q that are in T, in their order.                         *)
Only(q, T) ==
  LET upTo[k \in 0 .. Len(q)] ==
        IF k = 0 THEN <<>>
        ELSE IF q[k] \in T THEN Append(upTo[k - 1], q[k]) ELSE upTo[k - 1]
  IN upTo[Len(q)]

Forgets(e, kept) ==
  status' = [s \in Slot |-> IF kept = <<>> /\ spec[s] = e /\ status[s] = "group"
                            THEN "forgotten" ELSE status[s]]

DropColdNow(e, hold, hot) ==   \* mutant: whatever is cold is forgotten, in use or not
  LET kept == Only(slots[e], {s \in Slot : hot[s]}) IN
    /\ slots' = [slots EXCEPT ![e] = kept]
    /\ free' = [free EXCEPT ![e] = Only(@, {s \in Slot : hot[s]})]
    /\ Forgets(e, kept)

DropCold(e, hold, hot) ==
  LET active == {s \in Slot : hot[s] \/ hold[s] # Nobody}
      kept == Only(slots[e], active \cup (Slot \ Range(free[e]))) IN
    /\ slots' = [slots EXCEPT ![e] = kept]
    /\ free' = [free EXCEPT ![e] = IF kept = <<>> THEN <<>> ELSE Only(@, active)]
    /\ Forgets(e, kept)

RunsOn(e, todo, hold, queue, hot) ==
  LET passes(s) == hold[s] # Nobody \/ queue[s] = <<>>
      stopsAt(s) == hold[s] = Nobody /\ (hot[s] \/ queue[s] # <<>>) IN
    /\ warm' = hot
    /\ \/ \E k \in 1 .. Len(todo) :
            LET s == todo[k] IN
              /\ \A i \in 1 .. k - 1 : passes(todo[i])
              /\ stopsAt(s)
              /\ reaper' = [pc |-> IF queue[s] = <<>> THEN "closing" ELSE "queued",
                            engine |-> e, todo |-> SubSeq(todo, k, Len(todo))]
              /\ holder' = IF queue[s] = <<>> THEN [hold EXCEPT ![s] = Reaper] ELSE hold
              /\ lockq' = IF queue[s] = <<>> THEN queue ELSE [queue EXCEPT ![s] = Append(@, Reaper)]
              /\ UNCHANGED <<slots, free, status>>
       \/ /\ \A i \in 1 .. Len(todo) : passes(todo[i])
          /\ reaper' = Resting
          /\ holder' = hold /\ lockq' = queue
          /\ DropCold(e, hold, hot)

Reap(e) ==
  /\ "reap" \in Faults
  /\ reaper.pc = "rest" /\ \E s \in Slot : spec[s] = e /\ status[s] = "group"
  /\ RunsOn(e, free[e], holder, lockq, warm)
  /\ UNCHANGED <<cap, semaphore, shrink, at, spec>>

Reaped ==
  /\ reaper.pc = "closing"
  /\ LET s == Head(reaper.todo) IN
       RunsOn(reaper.engine, Tail(reaper.todo), [holder EXCEPT ![s] = Nobody], lockq,
              [warm EXCEPT ![s] = FALSE])
  /\ UNCHANGED <<cap, semaphore, shrink, at, spec>>

(* It gets a lock it had to wait for: the slot was in use just now.        *)
ReaperLocks ==
  /\ reaper.pc = "queued"
  /\ LET s == Head(reaper.todo) IN
       /\ holder[s] = Nobody /\ Head(lockq[s]) = Reaper
       /\ RunsOn(reaper.engine, Tail(reaper.todo), holder, [lockq EXCEPT ![s] = Tail(@)], warm)
  /\ UNCHANGED <<cap, semaphore, shrink, at, spec>>

-----------------------------------------------------------------------------

Init ==
  /\ cap = FirstCap /\ permits = FirstCap
  /\ line = <<>> /\ admitted = {}
  /\ shrink = [wanted |-> 0, withheld |-> 0, task |-> "off"]
  /\ at = [c \in Caller |-> Outside]
  /\ slots = [e \in Engine |-> <<>>] /\ free = [e \in Engine |-> <<>>]
  /\ status = [s \in Slot |-> "forgotten"] /\ spec = [s \in Slot |-> NoEngine]
  /\ warm = [s \in Slot |-> FALSE]
  /\ holder = [s \in Slot |-> Nobody] /\ lockq = [s \in Slot |-> <<>>]
  /\ reaper = Resting

CallerStep(c) ==
  \/ \E e \in Engine \cup {NoEngine} : Acquire(c, e)
  \/ Admit(c) \/ LockSlot(c) \/ Start(c) \/ Finish(c)
  \/ Raise(c) \/ Drop(c) \/ CancelDrop(c) \/ StartFails(c)
  \/ CancelQueued(c) \/ CancelWaiting(c) \/ Detach(c)

Next ==
  \/ \E c \in Caller : CallerStep(c)
  \/ \E n \in 1 .. MaxCap : Resize(n)
  \/ Withdraw \/ WithdrawWoken
  \/ \E e \in Engine : Reap(e)
  \/ Reaped \/ ReaperLocks

Spec == Init /\ [][Next]_vars

-----------------------------------------------------------------------------
(* What must hold.                                                         *)

HasPermit(c) == at[c].pc \in Inside
InUse(s) == holder[s] # Nobody \/ \E c \in Caller : at[c].slot = s

(* The variables keep their types; a waiter is in the line once, or woken. *)
TypeOK ==
  /\ cap \in 1 .. MaxCap /\ permits \in Nat
  /\ shrink \in [wanted : Nat, withheld : Nat, task : {"off", "due", "waiting"}]
  /\ at \in [Caller -> [pc : Inside \cup {"out", "waiting"}, engine : Engine \cup {NoEngine},
                        slot : Slot \cup {NoSlot}]]
  /\ Range(line) \cap admitted = {}
  /\ {c \in Caller : at[c].pc = "waiting"} = (Range(line) \cup admitted) \ {Withdrawer}
  /\ Withdrawer \in Range(line) \cup admitted <=> shrink.task = "waiting"
  /\ \A e \in Engine : Range(slots[e]) \cup Range(free[e]) \subseteq Slot
  /\ holder \in [Slot -> Caller \cup {Nobody, Reaper}]
  /\ warm \in [Slot -> BOOLEAN]

(* Whatever callers, cancels, shrinks and grows do, permits are neither    *)
(* lost nor made up: those free, held and promised are the cap and what a  *)
(* shrink has still to withdraw.  And none lies free beside a waiter that  *)
(* nobody is going to wake.                                                *)
PermitsAddUp ==
  /\ permits + Cardinality({c \in Caller : HasPermit(c)}) + Cardinality(admitted)
       = cap + shrink.wanted
  /\ permits > 0 /\ line # <<>> => admitted # {}

(* An engine that allows itself so many processes never has more: neither  *)
(* warm, starting nor being closed.                                        *)
Processes(e) ==
  {s \in Slot : spec[s] = e /\ status[s] # "given" /\
                (warm[s] \/ \E c \in Caller : at[c].pc = "starting" /\ at[c].slot = s)}

InstancesHold ==
  \A e \in Engine : Instances[e] > 0 => Cardinality(Processes(e)) <= Instances[e]

(* A process nobody drives is in its group, where the reaper and close()   *)
(* find it.                                                                *)
EveryProcessIsKept ==
  \A s \in Slot : warm[s] /\ ~InUse(s) => s \in Range(slots[spec[s]])

(* A slot whose process was given away holds none ever after.              *)
GivenIsFinished == \A s \in Slot : status[s] = "given" => ~warm[s]

-----------------------------------------------------------------------------
(* Progress: the loop runs what is ready, and searches, starts and closes  *)
(* end.  Callers need not come, and nothing need fail.                     *)

Fairness ==
  /\ \A c \in Caller :
       /\ WF_vars(Admit(c)) /\ WF_vars(LockSlot(c)) /\ WF_vars(Start(c))
       /\ WF_vars(Finish(c)) /\ WF_vars(Drop(c))
  /\ WF_vars(Withdraw) /\ WF_vars(WithdrawWoken)
  /\ WF_vars(Reaped) /\ WF_vars(ReaperLocks)

FairSpec == Spec /\ Fairness

(* Every caller in the line gets its turn or is cancelled, however the cap *)
(* moves and whoever else is in the same line.                             *)
CallersGetTheirTurn == \A c \in Caller : at[c].pc \in {"waiting", "queued"} ~> at[c].pc \notin {"waiting", "queued"}

(* A shrink is done with, or called off.                                   *)
ShrinksEnd == shrink.wanted > 0 ~> shrink.wanted = 0
=============================================================================
