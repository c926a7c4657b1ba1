---------------------------- MODULE RunLifecycle ----------------------------
(***************************************************************************)
(* What the analysis queue promises about one request, whatever processes  *)
(* serve it: it waits, it is leased to at most one attempt at a time, and  *)
(* it ends once and for good.  Stored, refused (it can never be served),   *)
(* given up (its attempts are spent) or withdrawn by the owner.            *)
(***************************************************************************)
EXTENDS Naturals

CONSTANTS Request, MaxAttempts

VARIABLES
  stage,   \* where each request stands
  spent    \* the attempts each has used up or is using

Stage == {"unasked", "waiting", "leased", "stored", "refused", "givenup", "withdrawn"}
Final == {"stored", "refused", "givenup", "withdrawn"}

Moved(qs, to) == stage' = [q \in Request |-> IF q \in qs THEN to ELSE stage[q]]

Ask(q) == stage[q] = "unasked" /\ Moved({q}, "waiting") /\ UNCHANGED spent

Lease(q) ==
  /\ stage[q] = "waiting" /\ spent[q] < MaxAttempts
  /\ Moved({q}, "leased")
  /\ spent' = [spent EXCEPT ![q] = @ + 1]

Store(q) == stage[q] = "leased" /\ Moved({q}, "stored") /\ UNCHANGED spent

Refuse(q) == stage[q] = "leased" /\ Moved({q}, "refused") /\ UNCHANGED spent

(* Attempts that came to nothing, of their own fault or with their process. *)
Miss(qs) ==
  /\ qs # {} /\ \A q \in qs : stage[q] = "leased"
  /\ stage' = [q \in Request |->
       IF q \notin qs THEN stage[q]
       ELSE IF spent[q] < MaxAttempts THEN "waiting" ELSE "givenup"]
  /\ UNCHANGED spent

(* The holder was taken away in the middle: the attempt does not count.    *)
HandBack(q) ==
  /\ stage[q] = "leased"
  /\ Moved({q}, "waiting")
  /\ spent' = [spent EXCEPT ![q] = @ - 1]

(* Nothing of a withdrawn request remains.                                 *)
Withdraw(qs) ==
  /\ qs # {} /\ \A q \in qs : stage[q] \in {"waiting", "leased"}
  /\ Moved(qs, "withdrawn")
  /\ spent' = [q \in Request |-> IF q \in qs THEN 0 ELSE spent[q]]

Init ==
  /\ stage = [q \in Request |-> "unasked"]
  /\ spent = [q \in Request |-> 0]

Next ==
  \/ \E q \in Request : Ask(q) \/ Lease(q) \/ Store(q) \/ Refuse(q) \/ HandBack(q)
  \/ \E qs \in SUBSET Request : Miss(qs) \/ Withdraw(qs)

Spec == Init /\ [][Next]_<<stage, spent>>
=============================================================================
