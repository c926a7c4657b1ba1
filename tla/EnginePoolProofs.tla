--------------------------- MODULE EnginePoolProofs ---------------------------
(***************************************************************************)
(* Permits are neither lost nor made up, and none lies free beside a       *)
(* waiter that nobody wakes: for any number of callers, engines and slots, *)
(* any cap and every combination of faults.  Processes are within what     *)
(* their engine allows itself, and in its group.                           *)
(***************************************************************************)
EXTENDS EnginePool, TLAPS, FiniteSetTheorems, SequenceTheorems, WellFoundedInduction

-----------------------------------------------------------------------------
(* Sequences without repetitions, and what is left of one when its first   *)
(* elements are cut off, one more comes or one goes.                       *)

First(s, k) == {s[i] : i \in 1 .. k}
Elements(s) == First(s, Len(s))
Apart(s) == \A i, j \in 1 .. Len(s) : s[i] = s[j] => i = j

LEMMA CutOff ==
  ASSUME NEW S, NEW s \in Seq(S), Apart(s), NEW k \in 0 .. Len(s)
  PROVE  LET rest == SubSeq(s, k + 1, Len(s)) IN
         /\ rest \in Seq(S) /\ Apart(rest) /\ Len(rest) = Len(s) - k
         /\ Elements(rest) \cup First(s, k) = Elements(s)
         /\ Elements(rest) \cap First(s, k) = {}
         /\ First(s, k) \subseteq S /\ IsFiniteSet(First(s, k)) /\ Cardinality(First(s, k)) = k
<1>. DEFINE n == Len(s)
            rest == SubSeq(s, k + 1, n)
            first == First(s, k)
            f == [i \in 1 .. k |-> s[i]]
<1>1. n \in Nat /\ k \in Int /\ k \in Nat /\ \A i \in 1 .. n : s[i] \in S
  OBVIOUS
<1>2. /\ rest \in Seq(S)
      /\ Len(rest) = IF k + 1 <= n THEN n - (k + 1) + 1 ELSE 0
      /\ \A i \in 1 .. n - (k + 1) + 1 : rest[i] = s[k + 1 + i - 1]
  <2>1. k + 1 \in Int /\ n \in Int /\ \A i \in k + 1 .. n : s[i] \in S
    BY <1>1
  <2>. HIDE DEF n
  <2>. QED BY <2>1, SubSeqProperties
<1>3. Len(rest) = n - k /\ \A i \in 1 .. n - k : rest[i] = s[k + i]
  BY <1>1, <1>2
<1>. HIDE DEF rest
<1>4. Apart(rest)
  BY <1>1, <1>3 DEF Apart
<1>5. Elements(rest) \cup first = Elements(s)
  <2>1. ASSUME NEW i \in 1 .. n PROVE s[i] \in Elements(rest) \cup first
    <3>1. CASE i \in 1 .. k
      BY <3>1 DEF First
    <3>2. CASE i \notin 1 .. k
      <4>1. i - k \in 1 .. n - k /\ rest[i - k] = s[i]
        BY <1>1, <1>3, <3>2
      <4>. QED BY <1>3, <4>1 DEF Elements, First
    <3>. QED BY <3>1, <3>2
  <2>2. ASSUME NEW i \in 1 .. n - k PROVE rest[i] \in Elements(s)
    <3>1. k + i \in 1 .. n /\ rest[i] = s[k + i]
      BY <1>1, <1>3
    <3>. QED BY <3>1 DEF Elements, First
  <2>3. first \subseteq Elements(s)
    BY <1>1 DEF Elements, First
  <2>. QED BY <1>3, <2>1, <2>2, <2>3 DEF Elements, First
<1>6. Elements(rest) \cap first = {}
  <2>. SUFFICES ASSUME NEW i \in 1 .. n - k, NEW j \in 1 .. k, rest[i] = s[j] PROVE FALSE
    BY <1>3 DEF Elements, First
  <2>. QED BY <1>1, <1>3 DEF Apart
<1>7. first \subseteq S
  BY <1>1 DEF First
<1>8. IsFiniteSet(first) /\ Cardinality(first) = k
  <2>1. f \in Bijection(1 .. k, first)
    <3>1. f \in [1 .. k -> first] /\ \A t \in first : \E i \in 1 .. k : f[i] = t
      BY DEF First
    <3>2. \A i, j \in 1 .. k : f[i] = f[j] => i = j
      BY <1>1 DEF Apart
    <3>. QED BY <3>1, <3>2 DEF Bijection, Injection, Surjection, IsInjective
  <2>2. ExistsBijection(1 .. k, first)
    BY <2>1 DEF ExistsBijection
  <2>3. IsFiniteSet(1 .. k) /\ Cardinality(1 .. k) = k
    BY <1>1, FS_Interval
  <2>. QED BY <2>2, <2>3, FS_Bijection
<1>. QED BY <1>2, <1>3, <1>4, <1>5, <1>6, <1>7, <1>8 DEF rest

LEMMA OneMore ==
  ASSUME NEW S, NEW s \in Seq(S), Apart(s), NEW x \in S, x \notin Elements(s)
  PROVE  /\ Append(s, x) \in Seq(S) /\ Apart(Append(s, x))
         /\ Elements(Append(s, x)) = Elements(s) \cup {x}
<1>. DEFINE t == Append(s, x)
<1>1. /\ Len(s) \in Nat /\ t \in Seq(S) /\ Len(t) = Len(s) + 1
      /\ \A i \in 1 .. Len(s) : t[i] = s[i]
      /\ t[Len(s) + 1] = x
  OBVIOUS
<1>. HIDE DEF t
<1>2. Apart(t)
  BY <1>1 DEF Apart, Elements, First
<1>3. Elements(t) = Elements(s) \cup {x}
  <2>1. ASSUME NEW i \in 1 .. Len(t) PROVE t[i] \in Elements(s) \cup {x}
    BY <1>1 DEF Elements, First
  <2>2. ASSUME NEW i \in 1 .. Len(s) PROVE s[i] \in Elements(t)
    BY <1>1 DEF Elements, First
  <2>3. x \in Elements(t)
    BY <1>1 DEF Elements, First
  <2>. QED BY <2>1, <2>2, <2>3 DEF Elements, First
<1>. QED BY <1>1, <1>2, <1>3 DEF t

LEMMA OneLess ==
  ASSUME NEW S, NEW s \in Seq(S), Apart(s), NEW k \in 1 .. Len(s)
  PROVE  /\ RemoveAt(s, k) \in Seq(S) /\ Apart(RemoveAt(s, k))
         /\ Elements(RemoveAt(s, k)) = Elements(s) \ {s[k]}
         /\ Len(RemoveAt(s, k)) = Len(s) - 1
<1>. DEFINE n == Len(s)
            before == SubSeq(s, 1, k - 1)
            after == SubSeq(s, k + 1, n)
            t == before \o after
<1>1. n \in Nat /\ k \in Nat /\ k >= 1 /\ \A i \in 1 .. n : s[i] \in S
  OBVIOUS
<1>2. /\ before \in Seq(S) /\ Len(before) = k - 1
      /\ \A i \in 1 .. k - 1 : before[i] = s[i]
  <2>1. 1 \in Int /\ k - 1 \in Int /\ \A i \in 1 .. k - 1 : s[i] \in S
    BY <1>1
  <2>2. /\ before \in Seq(S)
        /\ Len(before) = IF 1 <= k - 1 THEN k - 1 - 1 + 1 ELSE 0
        /\ \A i \in 1 .. k - 1 - 1 + 1 : before[i] = s[1 + i - 1]
    BY <2>1, SubSeqProperties
  <2>. QED BY <1>1, <2>2
<1>3. /\ after \in Seq(S) /\ Len(after) = n - k
      /\ \A i \in 1 .. n - k : after[i] = s[k + i]
  <2>1. k + 1 \in Int /\ n \in Int /\ \A i \in k + 1 .. n : s[i] \in S
    BY <1>1
  <2>2. /\ after \in Seq(S)
        /\ Len(after) = IF k + 1 <= n THEN n - (k + 1) + 1 ELSE 0
        /\ \A i \in 1 .. n - (k + 1) + 1 : after[i] = s[k + 1 + i - 1]
    <3>. HIDE DEF n
    <3>. QED BY <2>1, SubSeqProperties
  <2>. QED BY <1>1, <2>2
<1>. HIDE DEF before, after
<1>4. /\ t \in Seq(S) /\ Len(t) = n - 1
      /\ \A i \in 1 .. n - 1 : t[i] = IF i < k THEN s[i] ELSE s[i + 1]
  <2>0. /\ t \in Seq(S) /\ Len(t) = Len(before) + Len(after)
        /\ \A i \in 1 .. Len(before) + Len(after) :
             t[i] = IF i <= Len(before) THEN before[i] ELSE after[i - Len(before)]
    BY <1>2, <1>3, ConcatProperties
  <2>1. t \in Seq(S) /\ Len(t) = n - 1
    BY <1>1, <1>2, <1>3, <2>0
  <2>2. ASSUME NEW i \in 1 .. n - 1 PROVE t[i] = IF i < k THEN s[i] ELSE s[i + 1]
    <3>1. CASE i < k
      BY <1>1, <1>2, <1>3, <2>0, <3>1
    <3>2. CASE ~(i < k)
      <4>1. i - (k - 1) \in 1 .. n - k /\ t[i] = after[i - (k - 1)]
        BY <1>1, <1>2, <1>3, <2>0, <3>2
      <4>2. k + (i - (k - 1)) = i + 1
        BY <1>1
      <4>. QED BY <1>3, <3>2, <4>1, <4>2
    <3>. QED BY <3>1, <3>2
  <2>. QED BY <2>1, <2>2
<1>. HIDE DEF t
<1>5. Apart(t)
  BY <1>1, <1>4 DEF Apart
<1>6. Elements(t) = Elements(s) \ {s[k]}
  <2>1. ASSUME NEW i \in 1 .. n - 1 PROVE t[i] \in Elements(s) \ {s[k]}
    <3>1. \E j \in 1 .. n : t[i] = s[j] /\ j # k
      BY <1>1, <1>4
    <3>. QED BY <3>1 DEF Elements, First, Apart
  <2>2. ASSUME NEW j \in 1 .. n, j # k PROVE s[j] \in Elements(t)
    <3>1. CASE j < k
      <4>1. j \in 1 .. n - 1 /\ t[j] = s[j]
        BY <1>1, <1>4, <3>1
      <4>. QED BY <1>4, <4>1 DEF Elements, First
    <3>2. CASE j > k
      <4>1. j - 1 \in 1 .. n - 1 /\ t[j - 1] = s[j - 1 + 1] /\ j - 1 + 1 = j
        BY <1>1, <1>4, <3>2
      <4>. QED BY <1>4, <4>1 DEF Elements, First
    <3>. QED BY <1>1, <2>2, <3>1, <3>2
  <2>. QED BY <1>4, <2>1, <2>2 DEF Elements, First
<1>. QED BY <1>4, <1>5, <1>6 DEF t, before, after, RemoveAt

-----------------------------------------------------------------------------
(* The inductive invariant.  It says of the semaphore's line what its      *)
(* count rests on: nobody is in it twice, or in it and woken; and those in *)
(* it or woken are the callers that wait, and the shrink that waits.       *)

Waiter == Caller \cup {Withdrawer}
Lined == Elements(line)
Waiting == Lined \cup admitted
Holders == {c \in Caller : HasPermit(c)}
Place == Inside \cup {"out", "waiting"}

LineOK ==
  /\ line \in Seq(Waiter) /\ Apart(line)
  /\ admitted \subseteq Waiter /\ Lined \cap admitted = {}

CountsOK ==
  /\ cap \in Nat /\ permits \in Nat
  /\ shrink \in [wanted : Nat, withheld : Nat, task : {"off", "due", "waiting"}]

(* A caller's record has its fields; what engine and slot it names is not  *)
(* the semaphore's business.                                               *)
Located(r) == r = [pc |-> r.pc, engine |-> r.engine, slot |-> r.slot] /\ r.pc \in Place

CallersOK ==
  /\ at = [c \in Caller |-> at[c]]
  /\ \A c \in Caller : Located(at[c])

WaitersOK ==
  /\ \A c \in Caller : at[c].pc = "waiting" <=> c \in Waiting
  /\ shrink.task = "waiting" <=> Withdrawer \in Waiting

AddsUp == permits + Cardinality(Holders) + Cardinality(admitted) = cap + shrink.wanted

NoneLiesFree == permits > 0 /\ line # <<>> => admitted # {}

PInv == LineOK /\ CountsOK /\ CallersOK /\ WaitersOK /\ AddsUp /\ NoneLiesFree

LEMMA PInvIsEnough == PInv => PermitsAddUp
BY DEF PInv, AddsUp, NoneLiesFree, PermitsAddUp, Holders

LEMMA PInvInit == Init => PInv
<1>. SUFFICES ASSUME Init PROVE PInv
  OBVIOUS
<1>1. Lined = {} /\ Holders = {} /\ Cardinality({}) = 0 /\ admitted = {}
  BY FS_EmptySet DEF Init, Lined, Elements, First, Holders, HasPermit, Inside, Outside
<1>2. LineOK
  BY <1>1 DEF Init, LineOK, Apart
<1>3. CountsOK /\ WaitersOK
  BY <1>1, PoolAssumption DEF Init, CountsOK, WaitersOK, Waiting, Outside
<1>4. CallersOK
  <2>1. Located(Outside)
    BY DEF Located, Place, Inside, Outside
  <2>. QED BY <2>1 DEF Init, CallersOK
<1>5. AddsUp /\ NoneLiesFree
  <2>1. Cardinality(Holders) = 0 /\ Cardinality(admitted) = 0
    BY <1>1
  <2>2. permits = cap /\ cap \in Nat /\ shrink.wanted = 0 /\ line = <<>>
    BY PoolAssumption DEF Init
  <2>. QED BY <2>1, <2>2 DEF AddsUp, NoneLiesFree
<1>. QED BY <1>2, <1>3, <1>4, <1>5 DEF PInv

-----------------------------------------------------------------------------
(* Waking the first k of the line, with those of `rest` woken already.     *)

LEMMA Finite == LineOK => IsFiniteSet(admitted) /\ Cardinality(admitted) \in Nat
<1>. SUFFICES ASSUME LineOK PROVE IsFiniteSet(admitted)
  BY FS_CardinalityType
<1>1. IsFiniteSet(Waiter)
  BY PoolAssumption, FS_AddElement DEF Waiter
<1>. QED BY <1>1, FS_Subset DEF LineOK

LEMMA FinitePrimed == LineOK' => Cardinality(admitted') \in Nat
<1>. SUFFICES ASSUME LineOK' PROVE IsFiniteSet(admitted')
  BY FS_CardinalityType
<1>1. IsFiniteSet(Waiter)
  BY PoolAssumption, FS_AddElement DEF Waiter
<1>. QED BY <1>1, FS_Subset DEF LineOK, Waiter

LEMMA HoldersFinite == IsFiniteSet(Holders) /\ Cardinality(Holders) \in Nat
BY PoolAssumption, FS_Subset, FS_CardinalityType DEF Holders

LEMMA Wakes ==
  ASSUME LineOK, NEW k \in 0 .. Len(line), NEW rest, rest \subseteq admitted,
         admitted' = rest \cup Heads(k), line' = SubSeq(line, k + 1, Len(line))
  PROVE  /\ LineOK' /\ Waiting' = Lined \cup rest
         /\ Cardinality(admitted') = Cardinality(rest) + k
         /\ Len(line') = Len(line) - k
<1>1. /\ line' \in Seq(Waiter) /\ Apart(line)' /\ Len(line') = Len(line) - k
      /\ Lined' \cup Heads(k) = Lined /\ Lined' \cap Heads(k) = {}
      /\ Heads(k) \subseteq Waiter /\ IsFiniteSet(Heads(k)) /\ Cardinality(Heads(k)) = k
  <2>. DEFINE tail == SubSeq(line, k + 1, Len(line))
  <2>1. /\ tail \in Seq(Waiter) /\ Apart(tail) /\ Len(tail) = Len(line) - k
        /\ Elements(tail) \cup Heads(k) = Elements(line)
        /\ Elements(tail) \cap Heads(k) = {}
        /\ Heads(k) \subseteq Waiter /\ IsFiniteSet(Heads(k)) /\ Cardinality(Heads(k)) = k
    <3>1. line \in Seq(Waiter) /\ Apart(line) /\ Heads(k) = First(line, k)
      BY DEF LineOK, Heads, First
    <3>. QED BY <3>1, CutOff
  <2>2. line' = tail /\ Lined' = Elements(tail) /\ (Apart(line)' <=> Apart(tail))
    BY DEF Lined, Elements, First, Apart
  <2>. QED BY <2>1, <2>2 DEF Lined
<1>2. IsFiniteSet(rest) /\ rest \cap Heads(k) = {} /\ Cardinality(rest) \in Nat
  BY <1>1, Finite, FS_Subset, FS_CardinalityType DEF LineOK
<1>3. Cardinality(rest \cap Heads(k)) = 0
  BY <1>2, FS_EmptySet
<1>4. Cardinality(rest \cup Heads(k)) = Cardinality(rest) + k
  <2>1. Cardinality(rest \cup Heads(k)) =
          Cardinality(rest) + Cardinality(Heads(k)) - Cardinality(rest \cap Heads(k))
    BY <1>1, <1>2, FS_Union
  <2>. QED BY <1>1, <1>2, <1>3, <2>1
<1>5. LineOK' /\ Waiting' = Lined \cup rest
  BY <1>1 DEF LineOK, Waiter, Waiting
<1>. QED BY <1>1, <1>4, <1>5


(* Giving n permits to the line, as far as there is one.                   *)
LEMMA Gives ==
  ASSUME LineOK, permits \in Nat, NoneLiesFree, NEW n \in Nat, Give(n)
  PROVE  /\ LineOK' /\ Waiting' = Waiting
         /\ permits' \in Nat
         /\ permits' + Cardinality(admitted') = permits + Cardinality(admitted) + n
         /\ NoneLiesFree'
<1>. DEFINE k == Least(n, Len(line))
<1>1. Len(line) \in Nat /\ (Len(line) = 0 <=> line = <<>>)
  BY DEF LineOK
<1>2. k \in 0 .. Len(line) /\ k <= n /\ (k = n \/ k = Len(line))
  BY <1>1 DEF Least
<1>3. /\ permits' = permits + n - k
      /\ admitted' = admitted \cup Heads(k) /\ line' = SubSeq(line, k + 1, Len(line))
  BY DEF Give
<1>. HIDE DEF k
<1>4. /\ LineOK' /\ Waiting' = Waiting
      /\ Cardinality(admitted') = Cardinality(admitted) + k /\ Len(line') = Len(line) - k
  BY <1>2, <1>3, Wakes DEF Waiting
<1>5. Cardinality(admitted) \in Nat
  BY Finite
<1>6. Len(line') = 0 => line' = <<>>
  BY <1>4 DEF LineOK
<1>7. NoneLiesFree'
  <2>1. CASE k = Len(line)
    BY <1>1, <1>4, <1>6, <2>1 DEF NoneLiesFree
  <2>2. CASE k = n /\ k # Len(line)
    <3>1. permits' = permits /\ line # <<>> /\ admitted \subseteq admitted'
      BY <1>1, <1>2, <1>3, <2>2
    <3>. QED BY <3>1 DEF NoneLiesFree
  <2>. QED BY <1>2, <2>1, <2>2
<1>. QED BY <1>1, <1>2, <1>3, <1>4, <1>5, <1>7

(* One that was woken leaves the line, with n permits to wake others by.   *)
LEMMA Passes ==
  ASSUME LineOK, NEW n \in Nat, NEW x \in admitted, NEW k, k = Least(n, Len(line)),
         permits' = n - k, admitted' = (admitted \ {x}) \cup Heads(k),
         line' = SubSeq(line, k + 1, Len(line))
  PROVE  /\ LineOK' /\ Waiting' = Waiting \ {x}
         /\ permits' \in Nat
         /\ permits' + Cardinality(admitted') = n + Cardinality(admitted) - 1
         /\ permits' > 0 => line' = <<>>
<1>1. Len(line) \in Nat
  BY DEF LineOK
<1>2. k \in 0 .. Len(line) /\ k <= n /\ (k = n \/ k = Len(line))
  BY <1>1 DEF Least
<1>3. /\ LineOK' /\ Waiting' = Lined \cup (admitted \ {x})
      /\ Cardinality(admitted') = Cardinality(admitted \ {x}) + k
      /\ Len(line') = Len(line) - k
  <2>1. admitted \ {x} \subseteq admitted
    OBVIOUS
  <2>. QED BY <1>2, <2>1, Wakes
<1>4. /\ Cardinality(admitted) \in Nat
      /\ Cardinality(admitted \ {x}) = Cardinality(admitted) - 1
  BY Finite, FS_RemoveElement
<1>5. Len(line') = 0 => line' = <<>>
  BY <1>3 DEF LineOK
<1>6. Waiting' = Waiting \ {x}
  BY <1>3 DEF LineOK, Waiting
<1>7. permits' \in Nat /\ permits' + Cardinality(admitted') = n + Cardinality(admitted) - 1
  <2>. DEFINE was == Cardinality(admitted)
              is == Cardinality(admitted')
  <2>1. k \in Nat /\ k <= n
    BY <1>1, <1>2
  <2>2. was \in Int /\ is = was - 1 + k
    BY <1>3, <1>4
  <2>. HIDE DEF was, is
  <2>3. \A w \in Int : n - k + (w - 1 + k) = n + w - 1
    BY <2>1
  <2>4. permits' \in Nat
    BY <2>1
  <2>5. permits' + is = n + was - 1
    BY <2>2, <2>3
  <2>. QED BY <2>4, <2>5 DEF was, is
<1>8. permits' > 0 => line' = <<>>
  BY <1>1, <1>2, <1>3, <1>5
<1>. QED BY <1>3, <1>6, <1>7, <1>8

-----------------------------------------------------------------------------
(* Callers that move.                                                      *)

Others(c) == \A d \in Caller \ {c} : at'[d] = at[d]

LEMMA Moves ==
  ASSUME CallersOK, NEW c \in Caller, NEW r, Located(r), at' = [at EXCEPT ![c] = r]
  PROVE  CallersOK' /\ at'[c] = r /\ Others(c)
BY DEF CallersOK, Others, Located

LEMMA MovesOn ==
  ASSUME CallersOK, NEW c \in Caller, NEW p \in Place, at' = [at EXCEPT ![c].pc = p]
  PROVE  CallersOK' /\ at'[c].pc = p /\ Others(c)
<1>. DEFINE r == [at[c] EXCEPT !.pc = p]
            old == at[c]
<1>1. old = [pc |-> old.pc, engine |-> old.engine, slot |-> old.slot]
  BY DEF CallersOK, Located
<1>2. r = [pc |-> p, engine |-> old.engine, slot |-> old.slot]
  <2>. HIDE DEF old
  <2>1. [old EXCEPT !.pc = p] = [pc |-> p, engine |-> old.engine, slot |-> old.slot]
    BY <1>1
  <2>. QED BY <2>1 DEF old
<1>3. at' = [at EXCEPT ![c] = r]
  OBVIOUS
<1>. HIDE DEF r, old
<1>4. Located(r) /\ r.pc = p
  BY <1>2 DEF Located
<1>. QED BY <1>3, <1>4, Moves

LEMMA Comes ==
  ASSUME CallersOK, NEW c \in Caller, NEW e, Enters(c, e)
  PROVE  CallersOK' /\ at'[c].pc \in Inside /\ Others(c)
<1>1. PICK p, f, s : p \in Inside /\ at' = [at EXCEPT ![c] = [pc |-> p, engine |-> f, slot |-> s]]
  <2>1. CASE e = NoEngine
    BY <2>1 DEF Enters, Outside, Inside
  <2>2. ASSUME NEW s, Locks(c, e, s)
        PROVE  \E p \in Inside : at' = [at EXCEPT ![c] = [pc |-> p, engine |-> e, slot |-> s]]
    BY <2>2 DEF Locks, Inside
  <2>3. CASE e # NoEngine
    <3>1. PICK s : Locks(c, e, s)
      BY <2>3 DEF Enters, TakeSlot
    <3>2. PICK p \in Inside : at' = [at EXCEPT ![c] = [pc |-> p, engine |-> e, slot |-> s]]
      BY <2>2, <3>1
    <3>. QED BY <3>2
  <2>. QED BY <2>1, <2>3
<1>. DEFINE r == [pc |-> p, engine |-> f, slot |-> s]
<1>2. Located(r) /\ r.pc = p /\ r.pc \in Inside
  BY <1>1 DEF Located, Place
<1>3. at' = [at EXCEPT ![c] = r]
  BY <1>1
<1>. HIDE DEF r
<1>. QED BY <1>2, <1>3, Moves

LEMMA Goes ==
  ASSUME CallersOK, NEW c \in Caller, at' = [at EXCEPT ![c] = Outside]
  PROVE  CallersOK' /\ at'[c].pc = "out" /\ Others(c)
<1>1. Located(Outside) /\ Outside.pc = "out"
  BY DEF Located, Outside, Place
<1>. QED BY <1>1, Moves

LEMMA OneComes ==
  ASSUME NEW c \in Caller, Others(c), at[c].pc \notin Inside, at'[c].pc \in Inside
  PROVE  Cardinality(Holders') = Cardinality(Holders) + 1
<1>1. Holders' = Holders \cup {c} /\ c \notin Holders
  BY DEF Holders, HasPermit, Others
<1>. QED BY <1>1, HoldersFinite, FS_AddElement

LEMMA OneGoes ==
  ASSUME NEW c \in Caller, Others(c), at[c].pc \in Inside, at'[c].pc \notin Inside
  PROVE  Cardinality(Holders') = Cardinality(Holders) - 1
<1>1. Holders' = Holders \ {c} /\ c \in Holders
  BY DEF Holders, HasPermit, Others
<1>. QED BY <1>1, HoldersFinite, FS_RemoveElement

LEMMA NoneGoes ==
  ASSUME NEW c \in Caller, Others(c), at[c].pc \in Inside <=> at'[c].pc \in Inside
  PROVE  Holders' = Holders
BY DEF Holders, HasPermit, Others

-----------------------------------------------------------------------------
(* What a step may leave alone.                                            *)

LEMMA WaitersStay ==
  ASSUME WaitersOK, NEW c \in Caller, Others(c),
         \A y \in Waiter \ {c} : y \in Waiting' <=> y \in Waiting,
         at'[c].pc = "waiting" <=> c \in Waiting',
         shrink'.task = "waiting" <=> shrink.task = "waiting"
  PROVE  WaitersOK'
BY PoolAssumption DEF WaitersOK, Waiter, Others

LEMMA Aside ==
  ASSUME PInv, UNCHANGED <<cap, semaphore, shrink, at>>
  PROVE  PInv'
<1>1. /\ UNCHANGED <<Lined, Waiting, Holders>>
      /\ UNCHANGED <<cap, permits, line, admitted, shrink, at>>
  BY DEF semaphore, Lined, Waiting, Elements, First, Holders, HasPermit
<1>2. LineOK'
  BY <1>1 DEF PInv, LineOK, Apart
<1>3. CountsOK' /\ CallersOK' /\ WaitersOK'
  BY <1>1 DEF PInv, CountsOK, CallersOK, WaitersOK
<1>4. AddsUp' /\ NoneLiesFree'
  BY <1>1 DEF PInv, AddsUp, NoneLiesFree
<1>. QED BY <1>2, <1>3, <1>4 DEF PInv

(* A caller goes on with the permit it has.                                *)
LEMMA GoesOn ==
  ASSUME PInv, UNCHANGED <<cap, semaphore, shrink>>, NEW c \in Caller,
         at[c].pc \in Inside, NEW p \in Inside, at' = [at EXCEPT ![c].pc = p]
  PROVE  PInv'
<1>1. CallersOK' /\ at'[c].pc = p /\ Others(c)
  BY MovesOn DEF PInv, Place
<1>2. /\ UNCHANGED <<Lined, Waiting>>
      /\ UNCHANGED <<cap, permits, line, admitted, shrink>>
  BY DEF semaphore, Lined, Waiting, Elements, First
<1>3. UNCHANGED Holders
  BY <1>1, NoneGoes
<1>4. LineOK' /\ CountsOK'
  BY <1>2 DEF PInv, LineOK, CountsOK, Apart
<1>5. WaitersOK'
  <2>1. at[c].pc # "waiting" /\ at'[c].pc # "waiting"
    BY <1>1 DEF Inside
  <2>2. c \notin Waiting'
    BY <1>2, <2>1 DEF PInv, WaitersOK
  <2>. QED BY <1>1, <1>2, <2>1, <2>2, WaitersStay DEF PInv
<1>6. AddsUp' /\ NoneLiesFree'
  BY <1>2, <1>3 DEF PInv, AddsUp, NoneLiesFree
<1>. QED BY <1>1, <1>4, <1>5, <1>6 DEF PInv

(* A caller leaves the pool and gives its permit back.                     *)
LEMMA GivesBack ==
  ASSUME PInv, UNCHANGED <<cap, shrink>>, NEW c \in Caller, at[c].pc \in Inside, Leaves(c)
  PROVE  PInv'
<1>1. at' = [at EXCEPT ![c] = Outside] /\ Give(1)
  BY DEF Leaves
<1>2. CallersOK' /\ at'[c].pc = "out" /\ Others(c)
  BY <1>1, Goes DEF PInv
<1>3. /\ LineOK' /\ Waiting' = Waiting /\ permits' \in Nat
      /\ permits' + Cardinality(admitted') = permits + Cardinality(admitted) + 1
      /\ NoneLiesFree'
  BY <1>1, Gives DEF PInv, CountsOK
<1>4. Cardinality(Holders') = Cardinality(Holders) - 1
  BY <1>2, OneGoes DEF Inside
<1>5. CountsOK'
  BY <1>3 DEF PInv, CountsOK
<1>6. WaitersOK'
  <2>1. at[c].pc # "waiting" /\ at'[c].pc # "waiting"
    BY <1>2 DEF Inside
  <2>2. c \notin Waiting'
    BY <1>3, <2>1 DEF PInv, WaitersOK
  <2>. QED BY <1>2, <1>3, <2>1, <2>2, WaitersStay DEF PInv
<1>7. AddsUp'
  <2>1. cap' = cap /\ shrink'.wanted = shrink.wanted /\ cap + shrink.wanted \in Nat
    BY DEF PInv, CountsOK
  <2>2. Cardinality(admitted) \in Nat /\ Cardinality(admitted') \in Nat
        /\ Cardinality(Holders) \in Nat /\ permits \in Nat
    <3>1. Cardinality(admitted') \in Nat
      BY <1>3, Finite, FinitePrimed
    <3>. QED BY <3>1, Finite, HoldersFinite DEF PInv, CountsOK
  <2>3. permits + Cardinality(Holders) + Cardinality(admitted) = cap + shrink.wanted
    BY DEF PInv, AddsUp
  <2>4. permits' + Cardinality(Holders') + Cardinality(admitted') = cap' + shrink'.wanted
    BY <1>3, <1>4, <2>1, <2>2, <2>3
  <2>. QED BY <2>4 DEF AddsUp
<1>. QED BY <1>2, <1>3, <1>5, <1>6, <1>7 DEF PInv

(* The account, where h more callers hold a permit and d more are due.     *)
LEMMA StillAddsUp ==
  ASSUME PInv, LineOK', permits' \in Nat, NEW h \in Int, NEW d \in Int,
         Cardinality(Holders') = Cardinality(Holders) + h,
         permits' + Cardinality(admitted') = permits + Cardinality(admitted) + d - h,
         cap' + shrink'.wanted = cap + shrink.wanted + d
  PROVE  AddsUp'
<1>1. Cardinality(Holders) \in Int /\ Cardinality(admitted) \in Int /\ Cardinality(admitted') \in Int
  BY HoldersFinite, Finite, FinitePrimed DEF PInv
<1>2. permits \in Int /\ permits' \in Int
  BY DEF PInv, CountsOK
<1>3. permits + Cardinality(Holders) + Cardinality(admitted) = cap + shrink.wanted
  BY DEF PInv, AddsUp
<1>4. \A p, q, held, woken, next \in Int :
        q + next = p + woken + d - h => q + (held + h) + next = p + held + woken + d
  OBVIOUS
<1>5. permits' + (Cardinality(Holders) + h) + Cardinality(admitted')
        = permits + Cardinality(Holders) + Cardinality(admitted) + d
  BY <1>1, <1>2, <1>4
<1>. QED BY <1>3, <1>5 DEF AddsUp

-----------------------------------------------------------------------------
(* Each step keeps the invariant.                                          *)

LEMMA AcquireKeeps ==
  ASSUME PInv, NEW c \in Caller, NEW e, Acquire(c, e)
  PROVE  PInv'
<1>. USE DEF PInv
<1>1. at[c].pc = "out" /\ UNCHANGED <<cap, shrink>>
  BY DEF Acquire
<1>2. c \notin Waiting /\ c \in Waiter
  BY <1>1 DEF WaitersOK, Waiter
<1>3. CASE MayPass /\ permits' = permits - 1 /\ Enters(c, e) /\ UNCHANGED <<line, admitted>>
  <2>1. CallersOK' /\ at'[c].pc \in Inside /\ Others(c)
    BY <1>3, Comes
  <2>2. /\ UNCHANGED <<Lined, Waiting>> /\ line' = line /\ admitted' = admitted
        /\ permits' = permits - 1 /\ permits > 0 /\ line = <<>>
    BY <1>3 DEF Lined, Waiting, Elements, First, MayPass
  <2>3. LineOK' /\ CountsOK' /\ NoneLiesFree'
    BY <1>1, <2>2 DEF LineOK, CountsOK, Apart, NoneLiesFree
  <2>4. Cardinality(Holders') = Cardinality(Holders) + 1
    BY <1>1, <2>1, OneComes DEF Inside
  <2>5. WaitersOK'
    <3>1. at'[c].pc # "waiting"
      BY <2>1 DEF Inside
    <3>. QED BY <1>1, <1>2, <2>1, <2>2, <3>1, WaitersStay
  <2>6. AddsUp'
    <3>1. /\ permits' + Cardinality(admitted') = permits + Cardinality(admitted) + 0 - 1
          /\ cap' + shrink'.wanted = cap + shrink.wanted + 0
      BY <1>1, <2>2, Finite DEF CountsOK
    <3>. QED BY <2>3, <2>4, <3>1, StillAddsUp DEF CountsOK
  <2>. QED BY <2>1, <2>3, <2>5, <2>6
<1>4. CASE /\ ~MayPass /\ line' = Append(line, c)
           /\ at' = [at EXCEPT ![c] = [Outside EXCEPT !.pc = "waiting", !.engine = e]]
           /\ UNCHANGED <<permits, admitted>>
  <2>1. CallersOK' /\ at'[c].pc = "waiting" /\ Others(c)
    <3>. DEFINE r == [Outside EXCEPT !.pc = "waiting", !.engine = e]
    <3>1. r = [pc |-> r.pc, engine |-> r.engine, slot |-> r.slot] /\ r.pc = "waiting"
      <4>. DEFINE q == [Outside EXCEPT !.pc = "waiting"]
      <4>1. r = [q EXCEPT !.engine = e]
        BY DEF Outside
      <4>2. q = [pc |-> q.pc, engine |-> q.engine, slot |-> q.slot] /\ q.pc = "waiting"
        BY DEF Outside
      <4>. HIDE DEF q, r
      <4>. QED BY <4>1, <4>2
    <3>2. at' = [at EXCEPT ![c] = r]
      BY <1>4
    <3>. HIDE DEF r
    <3>3. Located(r) /\ r.pc = "waiting"
      BY <3>1 DEF Located, Place
    <3>. QED BY <3>2, <3>3, Moves
  <2>2. /\ line' \in Seq(Waiter) /\ Apart(line') /\ Lined' = Lined \cup {c}
    BY <1>2, <1>4, OneMore DEF LineOK, Lined, Waiting
  <2>3. LineOK' /\ Waiting' = Waiting \cup {c}
    BY <1>2, <1>4, <2>2 DEF LineOK, Waiting, Apart, Waiter
  <2>4. CountsOK' /\ UNCHANGED Holders
    <3>1. UNCHANGED Holders
      BY <1>1, <2>1, NoneGoes DEF Inside
    <3>. QED BY <1>1, <1>4, <3>1 DEF CountsOK
  <2>5. WaitersOK'
    BY <1>1, <2>1, <2>3, WaitersStay
  <2>6. NoneLiesFree'
    BY <1>4 DEF NoneLiesFree, MayPass
  <2>7. AddsUp'
    BY <1>1, <1>4, <2>4 DEF AddsUp
  <2>. QED BY <2>1, <2>3, <2>4, <2>5, <2>6, <2>7
<1>. QED BY <1>3, <1>4 DEF Acquire

LEMMA AdmitKeeps ==
  ASSUME PInv, NEW c \in Caller, Admit(c)
  PROVE  PInv'
<1>. USE DEF PInv
<1>1. /\ c \in admitted /\ UNCHANGED <<cap, shrink>> /\ Enters(c, at[c].engine)
      /\ permits' = permits - Least(permits, Len(line))
      /\ admitted' = (admitted \ {c}) \cup Heads(Least(permits, Len(line)))
      /\ line' = SubSeq(line, Least(permits, Len(line)) + 1, Len(line))
  BY DEF Admit, RunWoken
<1>2. CallersOK' /\ at'[c].pc \in Inside /\ Others(c)
  BY <1>1, Comes
<1>3. /\ LineOK' /\ Waiting' = Waiting \ {c} /\ permits' \in Nat
      /\ permits' + Cardinality(admitted') = permits + Cardinality(admitted) - 1
      /\ permits' > 0 => line' = <<>>
  BY <1>1, Passes DEF CountsOK
<1>4. at[c].pc = "waiting"
  BY <1>1 DEF WaitersOK, Waiting
<1>5. Cardinality(Holders') = Cardinality(Holders) + 1
  BY <1>2, <1>4, OneComes DEF Inside
<1>6. WaitersOK'
  <2>1. at'[c].pc # "waiting"
    BY <1>2 DEF Inside
  <2>. QED BY <1>1, <1>2, <1>3, <2>1, WaitersStay
<1>7. CountsOK' /\ NoneLiesFree'
  BY <1>1, <1>3 DEF CountsOK, NoneLiesFree
<1>8. AddsUp'
  <2>1. /\ permits' + Cardinality(admitted') = permits + Cardinality(admitted) + 0 - 1
        /\ cap' + shrink'.wanted = cap + shrink.wanted + 0
    BY <1>1, <1>3, Finite DEF CountsOK
  <2>. QED BY <1>3, <1>5, <2>1, StillAddsUp
<1>. QED BY <1>2, <1>3, <1>6, <1>7, <1>8

LEMMA CancelWaitingKeeps ==
  ASSUME PInv, NEW c \in Caller, CancelWaiting(c)
  PROVE  PInv'
<1>. USE DEF PInv
<1>1. at[c].pc = "waiting" /\ UNCHANGED <<cap, shrink>> /\ at' = [at EXCEPT ![c] = Outside]
  BY DEF CancelWaiting
<1>2. CallersOK' /\ at'[c].pc = "out" /\ Others(c)
  BY <1>1, Goes
<1>3. UNCHANGED Holders /\ c \in Waiting /\ c \in Waiter
  <2>1. UNCHANGED Holders
    BY <1>1, <1>2, NoneGoes DEF Inside
  <2>. QED BY <1>1, <2>1 DEF WaitersOK, Waiter
<1>4. /\ LineOK' /\ Waiting' = Waiting \ {c} /\ permits' \in Nat /\ NoneLiesFree'
      /\ permits' + Cardinality(admitted') = permits + Cardinality(admitted)
  <2>1. CASE c \in admitted
    <3>. DEFINE k == Least(permits + 1, Len(line))
    <3>1. /\ permits' = permits + 1 - k /\ admitted' = (admitted \ {c}) \cup Heads(k)
          /\ line' = SubSeq(line, k + 1, Len(line))
      BY <2>1 DEF CancelWaiting
    <3>2. permits \in Nat
      BY DEF CountsOK
    <3>. HIDE DEF k
    <3>3. k = Least(permits + 1, Len(line))
      BY DEF k
    <3>. DEFINE n == permits + 1
    <3>4. n \in Nat /\ permits' = n - k /\ k = Least(n, Len(line))
      <4>1. n \in Nat
        BY <3>2
      <4>2. permits' = n - k
        <5>1. k \in Int
          BY <3>2, <3>3 DEF Least, LineOK
        <5>2. \A p \in Int : p + 1 - k = (p + 1) - k
          BY <5>1
        <5>. QED BY <3>1, <3>2, <5>2
      <4>3. k = Least(n, Len(line))
        BY <3>3, Zenon
      <4>. QED BY <4>1, <4>2, <4>3
    <3>. HIDE DEF n
    <3>5. /\ LineOK' /\ Waiting' = Waiting \ {c} /\ permits' \in Nat
          /\ permits' + Cardinality(admitted') = n + Cardinality(admitted) - 1
          /\ permits' > 0 => line' = <<>>
      BY <2>1, <3>1, <3>4, Passes
    <3>6. permits' + Cardinality(admitted') = permits + Cardinality(admitted)
      BY <3>2, <3>5, Finite DEF CountsOK, n
    <3>. QED BY <3>5, <3>6 DEF NoneLiesFree
  <2>2. CASE c \notin admitted
    <3>1. PICK k \in 1 .. Len(line) : line[k] = c /\ line' = RemoveAt(line, k)
      BY <2>2 DEF CancelWaiting
    <3>2. UNCHANGED <<permits, admitted>>
      BY <2>2 DEF CancelWaiting
    <3>3. line' \in Seq(Waiter) /\ Apart(line') /\ Lined' = Lined \ {c}
      BY <3>1, OneLess DEF LineOK, Lined
    <3>4. LineOK' /\ Waiting' = Waiting \ {c}
      BY <2>2, <3>2, <3>3 DEF LineOK, Waiting, Apart, Waiter
    <3>5. line # <<>>
      BY <3>1
    <3>. QED BY <3>2, <3>4, <3>5 DEF CountsOK, NoneLiesFree
  <2>. QED BY <2>1, <2>2
<1>5. CountsOK'
  BY <1>1, <1>4 DEF CountsOK
<1>6. WaitersOK'
  BY <1>1, <1>2, <1>4, WaitersStay
<1>7. AddsUp'
  <2>1. /\ permits' + Cardinality(admitted') = permits + Cardinality(admitted) + 0 - 0
        /\ cap' + shrink'.wanted = cap + shrink.wanted + 0
        /\ Cardinality(Holders') = Cardinality(Holders) + 0
    BY <1>1, <1>3, <1>4, Finite, HoldersFinite DEF CountsOK
  <2>. QED BY <1>4, <2>1, StillAddsUp
<1>. QED BY <1>2, <1>4, <1>5, <1>6, <1>7

LEMMA ResizeKeeps ==
  ASSUME PInv, NEW n \in 1 .. MaxCap, Resize(n)
  PROVE  PInv'
<1>. USE DEF PInv
<1>1. cap' = n /\ n \in Nat /\ at' = at
  BY DEF Resize
<1>2. /\ cap \in Nat /\ permits \in Nat /\ shrink.wanted \in Nat /\ shrink.withheld \in Nat
      /\ shrink.task \in {"off", "due", "waiting"}
  BY DEF CountsOK
<1>3. CallersOK' /\ UNCHANGED Holders
  BY <1>1 DEF CallersOK, Holders, HasPermit
<1>4. CASE n > cap
  <2>. DEFINE off == Least(n - cap, shrink.wanted)
              back == Least(n - cap - off, shrink.withheld)
  <2>1. /\ shrink' = [shrink EXCEPT !.wanted = @ - off, !.withheld = @ - back]
        /\ Give(n - cap - off)
    BY <1>4 DEF Resize
  <2>2. /\ off \in Nat /\ n - cap - off \in Nat /\ shrink.wanted - off \in Nat
        /\ shrink.withheld - back \in Nat
    BY <1>1, <1>2, <1>4 DEF Least
  <2>. HIDE DEF off, back
  <2>3. /\ shrink' \in [wanted : Nat, withheld : Nat, task : {"off", "due", "waiting"}]
        /\ shrink'.wanted = shrink.wanted - off /\ shrink'.task = shrink.task
    BY <1>2, <2>1, <2>2 DEF CountsOK
  <2>. DEFINE more == n - cap - off
  <2>4. more \in Nat /\ Give(more)
    BY <2>1, <2>2
  <2>. HIDE DEF more
  <2>5. /\ LineOK' /\ Waiting' = Waiting /\ permits' \in Nat
        /\ permits' + Cardinality(admitted') = permits + Cardinality(admitted) + more
        /\ NoneLiesFree'
    BY <1>2, <2>4, Gives
  <2>6. CountsOK' /\ WaitersOK'
    BY <1>1, <2>3, <2>5 DEF CountsOK, WaitersOK
  <2>7. AddsUp'
    <3>1. Cardinality(Holders') = Cardinality(Holders) + 0
      BY <1>3, HoldersFinite
    <3>2. permits' + Cardinality(admitted') = permits + Cardinality(admitted) + more - 0
      BY <2>4, <2>5
    <3>3. cap' + shrink'.wanted = cap + shrink.wanted + more
      BY <1>1, <1>2, <2>2, <2>3 DEF more
    <3>. QED BY <2>4, <2>5, <3>1, <3>2, <3>3, StillAddsUp
  <2>. QED BY <1>3, <2>5, <2>6, <2>7
<1>5. CASE ~(n > cap)
  <2>1. /\ shrink' = [shrink EXCEPT !.wanted = @ + cap - n,
                                    !.task = IF @ = "off" THEN "due" ELSE @]
        /\ UNCHANGED <<permits, line, admitted>>
    BY <1>5 DEF Resize, semaphore
  <2>2. shrink.wanted + cap - n \in Nat
    BY <1>1, <1>2, <1>5
  <2>3. /\ shrink' \in [wanted : Nat, withheld : Nat, task : {"off", "due", "waiting"}]
        /\ shrink'.wanted = shrink.wanted + cap - n
        /\ shrink'.task = "waiting" <=> shrink.task = "waiting"
    BY <1>2, <2>1, <2>2 DEF CountsOK
  <2>4. LineOK' /\ Waiting' = Waiting /\ NoneLiesFree' /\ UNCHANGED Cardinality(admitted)
    BY <2>1 DEF LineOK, Waiting, Lined, Elements, First, Apart, NoneLiesFree
  <2>5. CountsOK' /\ WaitersOK'
    BY <1>1, <1>2, <2>1, <2>3, <2>4 DEF CountsOK, WaitersOK
  <2>6. AddsUp'
    <3>1. cap' + shrink'.wanted = cap + shrink.wanted
      BY <1>1, <1>2, <2>3
    <3>. QED BY <1>3, <2>1, <2>4, <3>1 DEF AddsUp
  <2>. QED BY <1>3, <2>4, <2>5, <2>6
<1>. QED BY <1>4, <1>5

LEMMA WithdrawKeeps ==
  ASSUME PInv, Withdraw
  PROVE  PInv'
<1>. USE DEF PInv
<1>1. cap' = cap /\ at' = at /\ shrink.task = "due"
  BY DEF Withdraw
<1>2. /\ permits \in Nat /\ shrink.wanted \in Nat /\ shrink.withheld \in Nat /\ cap \in Nat
  BY DEF CountsOK
<1>3. CallersOK' /\ UNCHANGED Holders /\ Cardinality(Holders') = Cardinality(Holders) + 0
  BY <1>1, HoldersFinite DEF CallersOK, Holders, HasPermit
<1>4. CASE /\ shrink' = [shrink EXCEPT !.task = "off"] /\ UNCHANGED semaphore
  <2>1. UNCHANGED <<permits, line, admitted>>
    BY <1>4 DEF semaphore
  <2>2. /\ shrink' \in [wanted : Nat, withheld : Nat, task : {"off", "due", "waiting"}]
        /\ shrink'.wanted = shrink.wanted /\ shrink'.task # "waiting"
    BY <1>4 DEF CountsOK
  <2>3. LineOK' /\ Waiting' = Waiting /\ NoneLiesFree'
    BY <2>1 DEF LineOK, Waiting, Lined, Elements, First, Apart, NoneLiesFree
  <2>4. CountsOK' /\ WaitersOK' /\ AddsUp'
    BY <1>1, <1>2, <1>3, <2>1, <2>2, <2>3 DEF CountsOK, WaitersOK, AddsUp
  <2>. QED BY <1>3, <2>3, <2>4
<1>5. CASE /\ shrink.wanted > 0 /\ MayPass /\ permits' = permits - 1
           /\ shrink' = [shrink EXCEPT !.wanted = @ - 1, !.withheld = @ + 1]
           /\ UNCHANGED <<line, admitted>>
  <2>1. /\ shrink' \in [wanted : Nat, withheld : Nat, task : {"off", "due", "waiting"}]
        /\ shrink'.wanted = shrink.wanted - 1 /\ shrink'.task = shrink.task
    <3>1. shrink.wanted - 1 \in Nat /\ shrink.withheld + 1 \in Nat
      BY <1>2, <1>5
    <3>. QED BY <1>5, <3>1 DEF CountsOK
  <2>2. LineOK' /\ Waiting' = Waiting /\ NoneLiesFree'
    BY <1>5 DEF LineOK, Waiting, Lined, Elements, First, Apart, NoneLiesFree, MayPass
  <2>3. CountsOK' /\ WaitersOK'
    BY <1>1, <1>2, <1>5, <2>1, <2>2 DEF CountsOK, WaitersOK, MayPass
  <2>4. AddsUp'
    <3>1. /\ permits' + Cardinality(admitted') = permits + Cardinality(admitted) + (-1) - 0
          /\ cap' + shrink'.wanted = cap + shrink.wanted + (-1)
      BY <1>1, <1>2, <1>5, <2>1, Finite
    <3>2. permits' \in Nat
      BY <2>3 DEF CountsOK
    <3>. QED BY <1>3, <2>2, <3>1, <3>2, StillAddsUp
  <2>. QED BY <1>3, <2>2, <2>3, <2>4
<1>6. CASE /\ shrink.wanted > 0 /\ ~MayPass /\ line' = Append(line, Withdrawer)
           /\ shrink' = [shrink EXCEPT !.task = "waiting"]
           /\ UNCHANGED <<permits, admitted>>
  <2>1. Withdrawer \notin Waiting /\ Withdrawer \in Waiter
    BY <1>1 DEF WaitersOK, Waiter
  <2>2. line' \in Seq(Waiter) /\ Apart(line') /\ Lined' = Lined \cup {Withdrawer}
    BY <1>6, <2>1, OneMore DEF LineOK, Lined, Waiting
  <2>3. LineOK' /\ Waiting' = Waiting \cup {Withdrawer}
    BY <1>6, <2>1, <2>2 DEF LineOK, Waiting, Apart, Waiter
  <2>4. /\ shrink' \in [wanted : Nat, withheld : Nat, task : {"off", "due", "waiting"}]
        /\ shrink'.wanted = shrink.wanted /\ shrink'.task = "waiting"
    BY <1>6 DEF CountsOK
  <2>5. CountsOK' /\ NoneLiesFree' /\ AddsUp'
    BY <1>1, <1>2, <1>3, <1>6, <2>4 DEF CountsOK, NoneLiesFree, MayPass, AddsUp
  <2>6. WaitersOK'
    BY <1>1, <2>3, <2>4, PoolAssumption DEF WaitersOK
  <2>. QED BY <1>3, <2>3, <2>5, <2>6
<1>. QED BY <1>4, <1>5, <1>6 DEF Withdraw

LEMMA WithdrawnKeeps ==
  ASSUME PInv, WithdrawWoken
  PROVE  PInv'
<1>. USE DEF PInv
<1>1. cap' = cap /\ at' = at /\ Withdrawer \in admitted
  BY DEF WithdrawWoken, RunWoken
<1>2. /\ permits \in Nat /\ shrink.wanted \in Nat /\ shrink.withheld \in Nat /\ cap \in Nat
  BY DEF CountsOK
<1>3. CallersOK' /\ Cardinality(Holders') = Cardinality(Holders) + 0
  BY <1>1, HoldersFinite DEF CallersOK, Holders, HasPermit
<1>4. PICK n \in Nat, d \in Int :
        /\ permits' = n - Least(n, Len(line)) /\ n - 1 = permits + d
        /\ admitted' = (admitted \ {Withdrawer}) \cup Heads(Least(n, Len(line)))
        /\ line' = SubSeq(line, Least(n, Len(line)) + 1, Len(line))
        /\ shrink' \in [wanted : Nat, withheld : Nat, task : {"off", "due", "waiting"}]
        /\ shrink'.wanted = shrink.wanted + d /\ shrink'.task # "waiting"
  <2>1. CASE shrink.wanted = 0
    <3>. DEFINE n == permits + 1
                k == Least(n, Len(line))
    <3>1. /\ permits' = permits + 1 - k
          /\ admitted' = (admitted \ {Withdrawer}) \cup Heads(k)
          /\ line' = SubSeq(line, k + 1, Len(line))
          /\ shrink' = [shrink EXCEPT !.task = "off"]
      BY <2>1 DEF WithdrawWoken
    <3>2. n \in Nat /\ k \in Int
      BY <1>2 DEF Least, LineOK
    <3>3. /\ shrink' \in [wanted : Nat, withheld : Nat, task : {"off", "due", "waiting"}]
          /\ shrink'.wanted = shrink.wanted + 0 /\ shrink'.task # "waiting"
      BY <1>2, <3>1 DEF CountsOK
    <3>. HIDE DEF k
    <3>4. permits' = n - k
      <4>1. \A p \in Int : p + 1 - k = (p + 1) - k
        BY <3>2
      <4>. QED BY <1>2, <3>1, <4>1
    <3>5. n - 1 = permits + 0
      BY <1>2
    <3>. HIDE DEF n
    <3>. USE <3>2
    <3>. WITNESS n \in Nat, 0 \in Int
    <3>. QED BY <3>1, <3>3, <3>4, <3>5 DEF k
  <2>2. CASE shrink.wanted # 0
    <3>. DEFINE k == Least(permits, Len(line))
    <3>1. /\ permits' = permits - k
          /\ admitted' = (admitted \ {Withdrawer}) \cup Heads(k)
          /\ line' = SubSeq(line, k + 1, Len(line))
          /\ shrink' = [shrink EXCEPT !.wanted = @ - 1, !.withheld = @ + 1, !.task = "due"]
      BY <2>2 DEF WithdrawWoken, RunWoken
    <3>2. shrink.wanted - 1 \in Nat /\ shrink.withheld + 1 \in Nat
      BY <1>2, <2>2
    <3>3. /\ shrink' \in [wanted : Nat, withheld : Nat, task : {"off", "due", "waiting"}]
          /\ shrink'.wanted = shrink.wanted - 1 /\ shrink'.task # "waiting"
      BY <3>1, <3>2 DEF CountsOK
    <3>. HIDE DEF k
    <3>4. permits - 1 = permits + (-1) /\ shrink'.wanted = shrink.wanted + (-1) /\ -1 \in Int
      BY <1>2, <3>3
    <3>. QED BY <1>2, <3>1, <3>3, <3>4 DEF k
  <2>. QED BY <2>1, <2>2
<1>5. /\ LineOK' /\ Waiting' = Waiting \ {Withdrawer} /\ permits' \in Nat
      /\ permits' + Cardinality(admitted') = n + Cardinality(admitted) - 1
      /\ permits' > 0 => line' = <<>>
  <2>. DEFINE k == Least(n, Len(line))
  <2>1. /\ permits' = n - k /\ admitted' = (admitted \ {Withdrawer}) \cup Heads(k)
        /\ line' = SubSeq(line, k + 1, Len(line)) /\ k = Least(n, Len(line))
    BY <1>4
  <2>. HIDE DEF k
  <2>. QED BY <1>1, <2>1, Passes
<1>6. CountsOK' /\ NoneLiesFree'
  BY <1>1, <1>2, <1>4, <1>5 DEF CountsOK, NoneLiesFree
<1>7. WaitersOK'
  BY <1>1, <1>4, <1>5, PoolAssumption DEF WaitersOK
<1>8. AddsUp'
  <2>1. permits' + Cardinality(admitted') = permits + Cardinality(admitted) + d - 0
    BY <1>2, <1>4, <1>5, Finite
  <2>2. cap' + shrink'.wanted = cap + shrink.wanted + d
    BY <1>1, <1>2, <1>4
  <2>. QED BY <1>3, <1>5, <2>1, <2>2, StillAddsUp
<1>. QED BY <1>3, <1>5, <1>6, <1>7, <1>8

LEMMA CallerKeeps ==
  ASSUME PInv, NEW c \in Caller, CallerStep(c)
  PROVE  PInv'
<1>1. CASE \E e \in Engine \cup {NoEngine} : Acquire(c, e)
  BY <1>1, AcquireKeeps
<1>2. CASE Admit(c)
  BY <1>2, AdmitKeeps
<1>3. CASE LockSlot(c)
  <2>. DEFINE p == IF warm[at[c].slot] THEN "using" ELSE "starting"
  <2>1. /\ at[c].pc \in Inside /\ p \in Inside /\ at' = [at EXCEPT ![c].pc = p]
        /\ UNCHANGED <<cap, semaphore, shrink>>
    BY <1>3 DEF LockSlot, Inside
  <2>. HIDE DEF p
  <2>. QED BY <2>1, GoesOn
<1>4. CASE Start(c)
  <2>1. /\ at[c].pc \in Inside /\ "using" \in Inside /\ at' = [at EXCEPT ![c].pc = "using"]
        /\ UNCHANGED <<cap, semaphore, shrink>>
    BY <1>4 DEF Start, Inside
  <2>. QED BY <2>1, GoesOn
<1>5. CASE Raise(c) /\ warm[at[c].slot]
  <2>1. /\ at[c].pc \in Inside /\ "closing" \in Inside /\ at' = [at EXCEPT ![c].pc = "closing"]
        /\ UNCHANGED <<cap, semaphore, shrink>>
    BY <1>5 DEF Raise, Inside
  <2>. QED BY <2>1, GoesOn
<1>6. CASE \/ Raise(c) /\ ~warm[at[c].slot]
           \/ Finish(c) \/ Drop(c) \/ CancelDrop(c) \/ StartFails(c) \/ CancelQueued(c)
  <2>1. at[c].pc \in Inside /\ Leaves(c) /\ UNCHANGED <<cap, shrink>>
    BY <1>6 DEF Finish, Raise, Drop, CancelDrop, StartFails, CancelQueued, Inside
  <2>. QED BY <2>1, GivesBack
<1>7. CASE CancelWaiting(c)
  BY <1>7, CancelWaitingKeeps
<1>8. CASE Detach(c)
  <2>1. UNCHANGED <<cap, semaphore, shrink, at>>
    BY <1>8 DEF Detach
  <2>. QED BY <2>1, Aside
<1>9. CASE Raise(c)
  BY <1>5, <1>6, <1>9, Zenon
<1>. QED BY <1>1, <1>2, <1>3, <1>4, <1>6, <1>7, <1>8, <1>9, Zenon DEF CallerStep

LEMMA PInvNext == PInv /\ [Next]_vars => PInv'
<1>. SUFFICES ASSUME PInv, [Next]_vars PROVE PInv'
  OBVIOUS
<1>1. CASE \E c \in Caller : CallerStep(c)
  BY <1>1, CallerKeeps
<1>2. CASE \E n \in 1 .. MaxCap : Resize(n)
  BY <1>2, ResizeKeeps
<1>3. CASE Withdraw
  BY <1>3, WithdrawKeeps
<1>4. CASE WithdrawWoken
  BY <1>4, WithdrawnKeeps
<1>5. CASE (\E e \in Engine : Reap(e)) \/ Reaped \/ ReaperLocks \/ UNCHANGED vars
  <2>1. UNCHANGED <<cap, semaphore, shrink, at>>
    BY <1>5 DEF Reap, Reaped, ReaperLocks, vars
  <2>. QED BY <2>1, Aside
<1>. QED BY <1>1, <1>2, <1>3, <1>4, <1>5 DEF Next

(* However callers come, fail, are cancelled or take their process away,   *)
(* and however the cap is moved while a shrink is under way (adapters/     *)
(* pool.py: acquire, resize, _withdraw), the permits free, held and        *)
(* promised add up to the cap and what is still to be withdrawn, and none  *)
(* lies free beside a waiter that nobody will wake.                        *)
THEOREM PermitsAlwaysAddUp == Spec => []PermitsAddUp
<1>1. PInv /\ [Next]_vars => PInv'
  BY PInvNext
<1>. QED BY <1>1, PInvInit, PInvIsEnough, PTL DEF Spec


-----------------------------------------------------------------------------
(* What the groups' lists are made of: the members that stay when some are *)
(* forgotten, and what is left when one is taken.                          *)

(* The function that Only counts up exists.                                *)
UpTo(q, T, n) ==
  CHOOSE f : f = [k \in 0 .. n |-> IF k = 0 THEN <<>>
                                   ELSE IF q[k] \in T THEN Append(f[k - 1], q[k])
                                   ELSE f[k - 1]]

LEMMA CountedUp ==
  ASSUME NEW q, NEW T, NEW n \in Nat
  PROVE  \A k \in 0 .. n :
           UpTo(q, T, n)[k] = IF k = 0 THEN <<>>
                              ELSE IF q[k] \in T THEN Append(UpTo(q, T, n)[k - 1], q[k])
                              ELSE UpTo(q, T, n)[k - 1]
<1>. DEFINE Step(f, k) == IF k = 0 THEN <<>>
                          ELSE IF q[k] \in T THEN Append(f[k - 1], q[k])
                          ELSE f[k - 1]
            Good(m) == \E f : f = [k \in 0 .. m |-> Step(f, k)]
            R == {ss \in Nat \X Nat : ss[1] < ss[2]}
            D == {m \in Nat : ~Good(m)}
<1>1. IsWellFoundedOn(R, Nat)
  BY NatLessThanWellFounded DEF OpToRel
<1>2. D = {}
  <2>1. SUFFICES ASSUME D # {} PROVE FALSE
    OBVIOUS
  <2>2. PICK m \in D : \A l \in D : <<l, m>> \notin R
    <3>. HIDE DEF R
    <3>1. D \subseteq Nat /\ D # {}
      BY <2>1
    <3>. HIDE DEF D
    <3>. QED BY <1>1, <3>1, WFMin
  <2>3. m \in Nat /\ ~Good(m)
    OBVIOUS
  <2>4. CASE m = 0
    <3>. DEFINE f == [k \in 0 .. 0 |-> <<>>]
    <3>1. f = [k \in 0 .. 0 |-> Step(f, k)]
      OBVIOUS
    <3>. QED BY <2>3, <2>4, <3>1
  <2>5. CASE m # 0
    <3>0. m - 1 \in Nat /\ <<m - 1, m>> \in R
      BY <2>3, <2>5
    <3>1. m - 1 \in Nat /\ m - 1 \notin D
      <4>. HIDE DEF D, R
      <4>. QED BY <2>2, <3>0
    <3>2. PICK g : g = [k \in 0 .. m - 1 |-> Step(g, k)]
      BY <3>1
    <3>. DEFINE f == [k \in 0 .. m |-> IF k = m THEN Step(g, m) ELSE g[k]]
    <3>3. \A k \in 0 .. m : f[k] = Step(f, k)
      <4>1. ASSUME NEW k \in 0 .. m PROVE f[k] = Step(f, k)
        <5>1. k # 0 => k - 1 \in 0 .. m - 1 /\ f[k - 1] = g[k - 1]
          BY <2>3
        <5>2. Step(f, k) = Step(g, k)
          BY <5>1
        <5>3. k # m => g[k] = Step(g, k)
          <6>1. k # m => k \in 0 .. m - 1
            BY <2>3
          <6>. HIDE DEF Step
          <6>. QED BY <3>2, <6>1
        <5>4. f[k] = IF k = m THEN Step(g, m) ELSE g[k]
          OBVIOUS
        <5>. HIDE DEF Step, f
        <5>. QED BY <5>2, <5>3, <5>4
      <4>. QED BY <4>1
    <3>4. f = [k \in 0 .. m |-> f[k]]
      OBVIOUS
    <3>5. f = [k \in 0 .. m |-> Step(f, k)]
      <4>. HIDE DEF f, Step
      <4>. QED BY <3>3, <3>4
    <3>6. Good(m)
      <4>. HIDE DEF f, Step
      <4>. QED BY <3>5
    <3>. QED BY <2>3, <3>6
  <2>. QED BY <2>4, <2>5
<1>3. Good(n)
  BY <1>2
<1>4. UpTo(q, T, n) = [k \in 0 .. n |-> Step(UpTo(q, T, n), k)]
  BY <1>3 DEF UpTo
<1>5. \A k \in 0 .. n : UpTo(q, T, n)[k] = Step(UpTo(q, T, n), k)
  <2>. DEFINE u == UpTo(q, T, n)
  <2>1. u = [k \in 0 .. n |-> Step(u, k)]
    BY <1>4
  <2>. HIDE DEF u, Step
  <2>2. \A k \in 0 .. n : u[k] = Step(u, k)
    BY <2>1
  <2>. QED BY <2>2 DEF u
<1>. QED BY <1>5

LEMMA OnlyIsUpTo == ASSUME NEW q, NEW T PROVE Only(q, T) = UpTo(q, T, Len(q))[Len(q)]
BY DEF Only, UpTo

LEMMA OnlyKeeps ==
  ASSUME NEW S, NEW q \in Seq(S), Apart(q), NEW T
  PROVE  /\ Only(q, T) \in Seq(S) /\ Apart(Only(q, T))
         /\ Elements(Only(q, T)) = Elements(q) \cap T
         /\ Len(Only(q, T)) <= Len(q)
<1>. DEFINE n == Len(q)
            u == UpTo(q, T, n)
            Good(k) == /\ u[k] \in Seq(S) /\ Apart(u[k]) /\ Len(u[k]) <= k
                       /\ Elements(u[k]) = First(q, k) \cap T
            R == {ss \in Nat \X Nat : ss[1] < ss[2]}
            D == {k \in 0 .. n : ~Good(k)}
<1>1. n \in Nat /\ \A i \in 1 .. n : q[i] \in S
  OBVIOUS
<1>2. \A k \in 0 .. n : u[k] = IF k = 0 THEN <<>>
                               ELSE IF q[k] \in T THEN Append(u[k - 1], q[k])
                               ELSE u[k - 1]
  BY <1>1, CountedUp
<1>. HIDE DEF u
<1>3. Good(0)
  <2>1. u[0] = <<>>
    BY <1>1, <1>2
  <2>2. Elements(<<>>) = {} /\ First(q, 0) = {} /\ Apart(<<>>)
    BY DEF Elements, First, Apart
  <2>. QED BY <2>1, <2>2
<1>4. ASSUME NEW k \in 1 .. n, Good(k - 1) PROVE Good(k)
  <2>. DEFINE v == u[k - 1]
  <2>0. k \in 0 .. n /\ k # 0 /\ k \in Int /\ k - 1 \in Nat /\ q[k] \in S
    BY <1>1
  <2>1. v \in Seq(S) /\ Apart(v) /\ Len(v) <= k - 1 /\ Elements(v) = First(q, k - 1) \cap T
    BY <1>4
  <2>2. u[k] = IF q[k] \in T THEN Append(v, q[k]) ELSE v
    BY <1>2, <2>0
  <2>. HIDE DEF v
  <2>3. First(q, k) = First(q, k - 1) \cup {q[k]}
    BY <2>0 DEF First
  <2>4. q[k] \notin First(q, k - 1)
    BY <1>1, <2>0 DEF First, Apart
  <2>5. CASE q[k] \in T
    <3>1. q[k] \notin Elements(v)
      BY <2>1, <2>4
    <3>2. /\ Append(v, q[k]) \in Seq(S) /\ Apart(Append(v, q[k]))
          /\ Elements(Append(v, q[k])) = Elements(v) \cup {q[k]}
      BY <2>0, <2>1, <3>1, OneMore
    <3>3. Len(Append(v, q[k])) <= k
      BY <2>0, <2>1
    <3>4. Elements(v) \cup {q[k]} = First(q, k) \cap T
      BY <2>1, <2>3, <2>5
    <3>. QED BY <2>2, <2>5, <3>2, <3>3, <3>4
  <2>6. CASE q[k] \notin T
    <3>1. Len(v) <= k
      BY <2>0, <2>1
    <3>2. Elements(v) = First(q, k) \cap T
      BY <2>1, <2>3, <2>6
    <3>. QED BY <2>1, <2>2, <2>6, <3>1, <3>2
  <2>. QED BY <2>5, <2>6
<1>. HIDE DEF Good
<1>5. D = {}
  <2>1. SUFFICES ASSUME D # {} PROVE FALSE
    OBVIOUS
  <2>2. PICK k \in D : \A l \in D : <<l, k>> \notin R
    <3>1. IsWellFoundedOn(R, Nat)
      BY NatLessThanWellFounded DEF OpToRel
    <3>2. D \subseteq Nat /\ D # {}
      BY <1>1, <2>1
    <3>. HIDE DEF D, R
    <3>. QED BY <3>1, <3>2, WFMin
  <2>3. k \in 0 .. n /\ ~Good(k) /\ k # 0
    BY <1>3
  <2>4. k \in 1 .. n /\ k - 1 \in 0 .. n /\ <<k - 1, k>> \in R
    BY <1>1, <2>3
  <2>5. k - 1 \notin D
    <3>. HIDE DEF D, R
    <3>. QED BY <2>2, <2>4
  <2>. QED BY <1>4, <2>3, <2>4, <2>5
<1>6. Good(n)
  BY <1>1, <1>5
<1>7. Only(q, T) = u[n]
  BY OnlyIsUpTo DEF u
<1>. QED BY <1>6, <1>7 DEF Good, Elements

(* Taking out the first occurrence of x, where there is at most one.       *)
LEMMA TakenOut ==
  ASSUME NEW S, NEW q \in Seq(S), Apart(q), NEW x
  PROVE  /\ RemoveFirst(q, x) \in Seq(S) /\ Apart(RemoveFirst(q, x))
         /\ Elements(RemoveFirst(q, x)) = Elements(q) \ {x}
         /\ Len(RemoveFirst(q, x)) <= Len(q)
<1>1. CASE x \notin Elements(q)
  <2>1. RemoveFirst(q, x) = q
    BY <1>1 DEF RemoveFirst, Elements, First
  <2>2. Len(q) <= Len(q)
    OBVIOUS
  <2>. QED BY <1>1, <2>1, <2>2
<1>2. CASE x \in Elements(q)
  <2>1. PICK k \in 1 .. Len(q) : q[k] = x
    BY <1>2 DEF Elements, First
  <2>2. {i \in 1 .. Len(q) : q[i] = x} = {k}
    BY <2>1 DEF Apart
  <2>3. SelectInSeq(q, LAMBDA v : v = x) = k
    <3>1. Min({k}) = k
      BY <2>1 DEF Min
    <3>. QED BY <2>2, <3>1 DEF SelectInSeq
  <2>4. RemoveFirst(q, x) = RemoveAt(q, k)
    BY <2>1, <2>3 DEF RemoveFirst
  <2>5. Len(RemoveAt(q, k)) <= Len(q)
    <3>1. Len(RemoveAt(q, k)) = Len(q) - 1
      BY OneLess
    <3>2. Len(q) \in Nat
      OBVIOUS
    <3>. QED BY <3>1, <3>2
  <2>. QED BY <2>1, <2>4, <2>5, OneLess
<1>. QED BY <1>1, <1>2

LEMMA RangeIs == ASSUME NEW S, NEW q \in Seq(S) PROVE Range(q) = Elements(q)
BY DEF Range, Elements, First

(* A list's last element and the others.                                   *)
LEMMA LastOff ==
  ASSUME NEW S, NEW q \in Seq(S), Apart(q), q # <<>>
  PROVE  /\ Front(q) \in Seq(S) /\ Apart(Front(q))
         /\ Last(q) \in S /\ Last(q) \in Elements(q)
         /\ Elements(Front(q)) = Elements(q) \ {Last(q)}
<1>. DEFINE n == Len(q)
<1>1. n \in Nat /\ n >= 1 /\ \A i \in 1 .. n : q[i] \in S
  BY EmptySeq
<1>2. Last(q) = q[n] /\ q[n] \in S /\ q[n] \in Elements(q)
  BY <1>1 DEF Last, Elements, First
<1>3. Front(q) = RemoveAt(q, n)
  <2>1. SubSeq(q, n + 1, n) = <<>>
    BY <1>1, SubSeqEmpty
  <2>2. SubSeq(q, 1, n - 1) \in Seq(S)
    BY <1>1, SubSeqProperties
  <2>3. SubSeq(q, 1, n - 1) \o <<>> = SubSeq(q, 1, n - 1)
    BY <2>2, ConcatEmptySeq
  <2>. QED BY <2>1, <2>3 DEF Front, RemoveAt
<1>4. /\ RemoveAt(q, n) \in Seq(S) /\ Apart(RemoveAt(q, n))
      /\ Elements(RemoveAt(q, n)) = Elements(q) \ {q[n]}
  <2>1. n \in 1 .. Len(q)
    BY <1>1
  <2>. HIDE DEF n
  <2>. QED BY <2>1, OneLess
<1>. QED BY <1>2, <1>3, <1>4

-----------------------------------------------------------------------------
(* The inductive invariant of the groups.  A process that is to be counted *)
(* is in its group's list, and that list is no longer than the engine      *)
(* allows.  The reaper takes cold slots out of that list, so with a reaper *)
(* it has to be known that none of them is on some caller's way to a start:*)
(* in a calm pool a slot that is handed back while another caller waits    *)
(* for it is warm, and not being closed.                                   *)

Unreaped == "reap" \notin Faults
Calm == Faults \cap {"raise", "cancel", "detach"} = {}

AtSlot == {"queued", "starting", "using", "closing"}
Visited(s) == \E c \in Caller : at[c].slot = s
Counted(s) == status[s] # "given" /\ (warm[s] \/ Visited(s))

ShapesOK ==
  /\ cap \in 1 .. MaxCap
  /\ slots = [e \in Engine |-> slots[e]] /\ free = [e \in Engine |-> free[e]]
  /\ status = [s \in Slot |-> status[s]] /\ spec = [s \in Slot |-> spec[s]]
  /\ warm = [s \in Slot |-> warm[s]]
  /\ holder = [s \in Slot |-> holder[s]] /\ lockq = [s \in Slot |-> lockq[s]]

PlacesOK ==
  \A c \in Caller :
    /\ at[c].pc \in AtSlot =>
         at[c].slot \in Slot /\ at[c].engine \in Engine /\ spec[at[c].slot] = at[c].engine
    /\ at[c].pc \notin AtSlot => at[c].slot = NoSlot
    /\ at[c].engine \in Engine \cup {NoEngine}

Listed(e, list, back, of) ==
  /\ list \in Seq(Slot) /\ Apart(list)
  /\ back \in Seq(Slot) /\ Apart(back)
  /\ Elements(back) \subseteq Elements(list)
  /\ \A s \in Elements(list) : of[s] = e
  /\ Instances[e] > 0 => Len(list) <= Instances[e]

ListsOK == \A e \in Engine : Listed(e, slots[e], free[e], spec)

CountedOK == \A s \in Slot : Counted(s) => spec[s] \in Engine /\ s \in Elements(slots[spec[s]])

FaultsOK ==
  /\ "detach" \notin Faults => \A s \in Slot : status[s] # "given"
  /\ Unreaped => reaper.pc = "rest"

GroupsOK == ShapesOK /\ PlacesOK /\ ListsOK /\ CountedOK /\ FaultsOK

LocksOK ==
  /\ \A s \in Slot : lockq[s] \in Seq(Caller \cup {Reaper})
  /\ \A c \in Caller :
       /\ at[c].pc = "queued" => c \in Elements(lockq[at[c].slot])
       /\ at[c].pc \in {"starting", "using"} => holder[at[c].slot] = c
       /\ at[c].pc = "using" => warm[at[c].slot]
       /\ at[c].pc # "closing"

BackOK ==
  \A s \in Slot : Visited(s) /\ (\E e \in Engine : s \in Elements(free[e]))
                    => warm[s] /\ holder[s] # Reaper

ReaperOK ==
  reaper.pc # "rest" =>
    /\ reaper.engine \in Engine
    /\ reaper.todo \in Seq(Slot) /\ reaper.todo # <<>>
    /\ reaper.pc = "closing" => holder[Head(reaper.todo)] = Reaper
    /\ reaper.pc # "closing" => Reaper \in Elements(lockq[Head(reaper.todo)])

CalmOK == LocksOK /\ BackOK /\ ReaperOK

GInv == PInv /\ GroupsOK /\ (Calm => CalmOK)

LEMMA GInvInit == Init => GInv
<1>. SUFFICES ASSUME Init PROVE GInv
  OBVIOUS
<1>1. PInv
  BY PInvInit
<1>2. ShapesOK
  BY PoolAssumption DEF Init, ShapesOK
<1>3. PlacesOK
  BY DEF Init, PlacesOK, Outside, AtSlot
<1>4. ListsOK
  <2>1. Elements(<<>>) = {} /\ Apart(<<>>) /\ <<>> \in Seq(Slot) /\ Len(<<>>) = 0
    BY DEF Elements, First, Apart
  <2>. QED BY <2>1, PoolAssumption DEF Init, ListsOK, Listed
<1>5. \A s \in Slot : ~warm[s] /\ ~Visited(s)
  BY PoolAssumption DEF Init, Visited, Outside
<1>6. CountedOK /\ FaultsOK
  BY <1>5 DEF Init, CountedOK, Counted, FaultsOK, Resting
<1>7. CalmOK
  BY <1>5 DEF Init, CalmOK, LocksOK, BackOK, ReaperOK, Outside, Resting
<1>. QED BY <1>1, <1>2, <1>3, <1>4, <1>6, <1>7 DEF GInv, GroupsOK

-----------------------------------------------------------------------------
(* What a step does to the groups, fault by fault and place by place.      *)

(* The cap moves, a shrink goes on, or nothing happens.                    *)
LEMMA GroupsStay ==
  ASSUME GroupsOK, cap' \in 1 .. MaxCap, UNCHANGED <<at, groups, warm, locks, reaper>>
  PROVE  GroupsOK' /\ (CalmOK => CalmOK')
<1>1. UNCHANGED <<at, slots, free, status, spec, warm, holder, lockq, reaper>>
  BY DEF groups, locks
<1>2. ShapesOK' /\ PlacesOK'
  BY <1>1 DEF GroupsOK, ShapesOK, PlacesOK
<1>3. ListsOK'
  BY <1>1 DEF GroupsOK, ListsOK
<1>4. CountedOK' /\ FaultsOK'
  BY <1>1 DEF GroupsOK, CountedOK, FaultsOK, Counted, Visited, Elements, First
<1>5. ASSUME CalmOK PROVE CalmOK'
  <2>1. LocksOK'
    BY <1>1, <1>5 DEF CalmOK, LocksOK, Elements, First
  <2>2. BackOK'
    BY <1>1, <1>5 DEF CalmOK, BackOK, Visited, Elements, First
  <2>3. ReaperOK'
    BY <1>1, <1>5 DEF CalmOK, ReaperOK, Elements, First
  <2>. QED BY <2>1, <2>2, <2>3 DEF CalmOK
<1>. QED BY <1>2, <1>3, <1>4, <1>5 DEF GroupsOK

(* A caller goes on at its slot: only there may a process come.            *)
LEMMA GroupsGoOn ==
  ASSUME CallersOK, GroupsOK, NEW c \in Caller, NEW p,
         at[c].pc \in AtSlot, p \in AtSlot, at' = [at EXCEPT ![c].pc = p],
         warm' = [s \in Slot |-> warm'[s]],
         \A s \in Slot : warm'[s] => warm[s] \/ s = at[c].slot,
         holder' = [s \in Slot |-> holder'[s]], lockq' = [s \in Slot |-> lockq'[s]],
         UNCHANGED <<cap, groups, reaper>>
  PROVE  GroupsOK'
<1>1. UNCHANGED <<cap, slots, free, status, spec, reaper>>
  BY DEF groups
<1>2. /\ at'[c].pc = p /\ at'[c].slot = at[c].slot /\ at'[c].engine = at[c].engine
      /\ \A d \in Caller : d # c => at'[d] = at[d]
  BY DEF CallersOK, Located
<1>3. ShapesOK'
  BY <1>1 DEF GroupsOK, ShapesOK
<1>4. PlacesOK'
  BY <1>1, <1>2 DEF GroupsOK, PlacesOK
<1>5. ListsOK'
  BY <1>1 DEF GroupsOK, ListsOK
<1>6. \A s \in Slot : Visited(s)' = Visited(s)
  BY <1>2 DEF Visited
<1>7. \A s \in Slot : Counted(s)' => Counted(s)
  BY <1>1, <1>6 DEF Counted, Visited
<1>8. CountedOK'
  BY <1>1, <1>7 DEF GroupsOK, CountedOK, Elements, First
<1>9. FaultsOK'
  BY <1>1 DEF GroupsOK, FaultsOK
<1>. QED BY <1>3, <1>4, <1>5, <1>8, <1>9 DEF GroupsOK

(* A caller that is at no slot, and goes to none.                          *)
LEMMA GroupsAway ==
  ASSUME CallersOK, GroupsOK, NEW c \in Caller, NEW r,
         at' = [at EXCEPT ![c] = r],
         r.pc \notin AtSlot, r.slot = NoSlot, r.engine \in Engine \cup {NoEngine},
         at[c].pc \notin AtSlot,
         UNCHANGED <<cap, groups, warm, locks, reaper>>
  PROVE  GroupsOK' /\ (CalmOK /\ r.pc # "closing" => CalmOK')
<1>1. UNCHANGED <<cap, slots, free, status, spec, warm, holder, lockq, reaper>>
  BY DEF groups, locks
<1>2. at'[c] = r /\ \A d \in Caller : d # c => at'[d] = at[d]
  BY DEF CallersOK
<1>3. ShapesOK'
  BY <1>1 DEF GroupsOK, ShapesOK
<1>4. PlacesOK'
  BY <1>1, <1>2 DEF GroupsOK, PlacesOK
<1>5. ListsOK'
  BY <1>1 DEF GroupsOK, ListsOK
<1>6. \A s \in Slot : Visited(s)' => Visited(s)
  BY <1>2, PoolAssumption DEF Visited
<1>7. CountedOK' /\ FaultsOK'
  BY <1>1, <1>6 DEF GroupsOK, CountedOK, FaultsOK, Counted, Elements, First
<1>8. ASSUME CalmOK, r.pc # "closing" PROVE CalmOK'
  <2>1. LocksOK'
    BY <1>1, <1>2, <1>8 DEF CalmOK, LocksOK, Elements, First, AtSlot
  <2>2. BackOK'
    BY <1>1, <1>6, <1>8 DEF CalmOK, BackOK, Elements, First
  <2>3. ReaperOK'
    BY <1>1, <1>8 DEF CalmOK, ReaperOK, Elements, First
  <2>. QED BY <2>1, <2>2, <2>3 DEF CalmOK
<1>. QED BY <1>3, <1>4, <1>5, <1>7, <1>8 DEF GroupsOK

(* A caller arrives at slot s of e, found among e's slots or put there.    *)
LEMMA GroupsArrive ==
  ASSUME CallersOK, GroupsOK, NEW c \in Caller, NEW e \in Engine, NEW s \in Slot, NEW p \in AtSlot,
         at[c].pc \notin AtSlot,
         at' = [at EXCEPT ![c] = [pc |-> p, engine |-> e, slot |-> s]],
         ShapesOK', ListsOK', s \in Elements(slots'[e]), spec'[s] = e,
         spec[s] = e \/ ~Visited(s),
         \A t \in Slot : t # s => spec'[t] = spec[t] /\ status'[t] = status[t],
         \A f \in Engine : Elements(slots[f]) \subseteq Elements(slots'[f]),
         "detach" \notin Faults => status'[s] # "given",
         UNCHANGED <<warm, reaper>>
  PROVE  GroupsOK'
<1>1. /\ at'[c].pc = p /\ at'[c].slot = s /\ at'[c].engine = e
      /\ \A d \in Caller : d # c => at'[d] = at[d]
  BY DEF CallersOK
<1>2. PlacesOK'
  <2>1. ASSUME NEW d \in Caller
        PROVE  /\ at'[d].pc \in AtSlot =>
                    /\ at'[d].slot \in Slot /\ at'[d].engine \in Engine
                    /\ spec'[at'[d].slot] = at'[d].engine
               /\ at'[d].pc \notin AtSlot => at'[d].slot = NoSlot
               /\ at'[d].engine \in Engine \cup {NoEngine}
    <3>1. CASE d = c
      BY <1>1, <3>1
    <3>2. CASE d # c
      <4>1. at'[d] = at[d] /\ (at[d].slot = s => spec[s] = e)
        BY <1>1, <3>2 DEF Visited
      <4>. QED BY <4>1 DEF GroupsOK, PlacesOK
    <3>. QED BY <3>1, <3>2
  <2>. QED BY <2>1 DEF PlacesOK
<1>3. CountedOK'
  <2>1. ASSUME NEW t \in Slot, Counted(t)'
        PROVE  spec'[t] \in Engine /\ t \in Elements(slots'[spec'[t]])
    <3>1. CASE t = s
      BY <3>1
    <3>2. CASE t # s
      <4>1. Visited(t)' => Visited(t)
        BY <1>1, <3>2 DEF Visited
      <4>2. Counted(t)
        BY <2>1, <3>2, <4>1 DEF Counted, Visited
      <4>. QED BY <3>2, <4>2 DEF GroupsOK, CountedOK
    <3>. QED BY <3>1, <3>2
  <2>. QED BY <2>1 DEF CountedOK, Elements, First
<1>4. FaultsOK'
  BY DEF GroupsOK, FaultsOK
<1>. QED BY <1>2, <1>3, <1>4 DEF GroupsOK

LEMMA LockedAt ==
  ASSUME ShapesOK, NEW c \in Caller, NEW e \in Engine, NEW s \in Slot, Locks(c, e, s)
  PROVE  /\ holder' = [t \in Slot |-> holder'[t]] /\ lockq' = [t \in Slot |-> lockq'[t]]
         /\ \A t \in Slot : t # s => holder'[t] = holder[t] /\ lockq'[t] = lockq[t]
         /\ \/ /\ holder[s] = Nobody /\ holder'[s] = c /\ lockq' = lockq
               /\ at' = [at EXCEPT ![c] = [pc |-> IF warm[s] THEN "using" ELSE "starting",
                                           engine |-> e, slot |-> s]]
            \/ /\ holder' = holder /\ lockq'[s] = Append(lockq[s], c)
               /\ at' = [at EXCEPT ![c] = [pc |-> "queued", engine |-> e, slot |-> s]]
BY DEF ShapesOK, Locks

LEMMA LockedIsThere ==
  ASSUME ShapesOK, NEW c \in Caller, NEW e \in Engine, NEW s \in Slot, Locks(c, e, s)
  PROVE  \E p \in AtSlot : at' = [at EXCEPT ![c] = [pc |-> p, engine |-> e, slot |-> s]]
<1>1. CASE at' = [at EXCEPT ![c] = [pc |-> "queued", engine |-> e, slot |-> s]]
  BY <1>1 DEF AtSlot
<1>2. CASE at' = [at EXCEPT ![c] = [pc |-> IF warm[s] THEN "using" ELSE "starting",
                                    engine |-> e, slot |-> s]]
  <2>. DEFINE p == IF warm[s] THEN "using" ELSE "starting"
  <2>1. p \in AtSlot /\ at' = [at EXCEPT ![c] = [pc |-> p, engine |-> e, slot |-> s]]
    BY <1>2 DEF AtSlot
  <2>. QED BY <2>1
<1>. QED BY <1>1, <1>2, LockedAt

(* The slot a caller takes, by the three ways of taking one.               *)
Popped(e, s) ==
  /\ free[e] # <<>> /\ s = Last(free[e])
  /\ free' = [free EXCEPT ![e] = Front(@)]
  /\ UNCHANGED <<slots, status, spec>>

Shared(e, s) ==
  /\ free[e] = <<>> /\ Len(slots[e]) >= Limit(e) /\ s = Head(slots[e])
  /\ UNCHANGED groups

Made(e, s) ==
  /\ free[e] = <<>> /\ Len(slots[e]) < Limit(e) /\ Fresh(s)
  /\ slots' = [slots EXCEPT ![e] = Append(@, s)]
  /\ status' = [status EXCEPT ![s] = "group"]
  /\ spec' = [spec EXCEPT ![s] = e]
  /\ UNCHANGED free

LEMMA TakesOne ==
  ASSUME GroupsOK, NEW c \in Caller, NEW e \in Engine, TakeSlot(c, e)
  PROVE  \E s \in Slot : Locks(c, e, s) /\ (Popped(e, s) \/ Shared(e, s) \/ Made(e, s))
<1>0. Listed(e, slots[e], free[e], spec)
  BY DEF GroupsOK, ListsOK
<1>1. CASE free[e] # <<>>
  <2>1. Last(free[e]) \in Slot
    BY <1>0, <1>1, LastOff DEF Listed
  <2>. QED BY <1>1, <2>1 DEF TakeSlot, Popped
<1>2. CASE free[e] = <<>> /\ Len(slots[e]) >= Limit(e)
  <2>1. Limit(e) >= 1 /\ Limit(e) \in Nat
    BY PoolAssumption DEF GroupsOK, ShapesOK, Limit, Least
  <2>2. slots[e] \in Seq(Slot) /\ Len(slots[e]) >= 1
    BY <1>0, <1>2, <2>1 DEF Listed
  <2>3. Head(slots[e]) \in Slot
    BY <2>2
  <2>. QED BY <1>2, <2>1, <2>3 DEF TakeSlot, Shared, Listed
<1>3. CASE free[e] = <<>> /\ Len(slots[e]) < Limit(e)
  <2>1. Limit(e) \in Nat /\ Len(slots[e]) \in Nat
    BY <1>0, PoolAssumption DEF GroupsOK, ShapesOK, Limit, Least, Listed
  <2>. QED BY <1>3, <2>1 DEF TakeSlot, Made
<1>4. Limit(e) \in Nat /\ Len(slots[e]) \in Nat
  BY <1>0, PoolAssumption DEF GroupsOK, ShapesOK, Limit, Least, Listed
<1>. QED BY <1>1, <1>2, <1>3, <1>4

LEMMA TakeSlotGroups ==
  ASSUME CallersOK, GroupsOK, NEW c \in Caller, NEW e \in Engine, at[c].pc \notin AtSlot,
         TakeSlot(c, e), UNCHANGED <<cap, warm, reaper>>
  PROVE  GroupsOK'
<1>1. PICK s \in Slot : Locks(c, e, s) /\ (Popped(e, s) \/ Shared(e, s) \/ Made(e, s))
  BY TakesOne
<1>2. PICK p \in AtSlot : at' = [at EXCEPT ![c] = [pc |-> p, engine |-> e, slot |-> s]]
  BY <1>1, LockedIsThere DEF GroupsOK
<1>3. holder' = [t \in Slot |-> holder'[t]] /\ lockq' = [t \in Slot |-> lockq'[t]]
  BY <1>1, LockedAt DEF GroupsOK
<1>4. \A f \in Engine : Listed(f, slots[f], free[f], spec)
  BY DEF GroupsOK, ListsOK
<1>5. ShapesOK
  BY DEF GroupsOK
<1>6. CASE Popped(e, s)
  <2>1. UNCHANGED <<slots, status, spec>> /\ free' = [free EXCEPT ![e] = Front(@)]
    BY <1>6 DEF Popped
  <2>2. /\ Front(free[e]) \in Seq(Slot) /\ Apart(Front(free[e]))
        /\ Elements(Front(free[e])) \subseteq Elements(free[e]) /\ s \in Elements(free[e])
    BY <1>4, <1>6, LastOff DEF Popped, Listed
  <2>3. Listed(e, slots[e], Front(free[e]), spec)
    BY <1>4, <2>2 DEF Listed
  <2>4. ShapesOK' /\ free'[e] = Front(free[e]) /\ \A f \in Engine : f # e => free'[f] = free[f]
    BY <1>3, <1>5, <2>1 DEF ShapesOK
  <2>5. ListsOK'
    BY <1>4, <2>1, <2>3, <2>4 DEF ListsOK
  <2>6. s \in Elements(slots[e]) /\ spec[s] = e
    BY <1>4, <2>2 DEF Listed
  <2>7. /\ s \in Elements(slots'[e]) /\ spec'[s] = e
        /\ \A t \in Slot : t # s => spec'[t] = spec[t] /\ status'[t] = status[t]
        /\ \A f \in Engine : Elements(slots[f]) \subseteq Elements(slots'[f])
        /\ "detach" \notin Faults => status'[s] # "given"
    BY <2>1, <2>6 DEF GroupsOK, FaultsOK
  <2>. QED BY <1>2, <2>4, <2>5, <2>6, <2>7, GroupsArrive
<1>7. CASE Shared(e, s)
  <2>1. UNCHANGED <<slots, free, status, spec>>
    BY <1>7 DEF Shared, groups
  <2>2. s \in Elements(slots[e])
    <3>1. slots[e] \in Seq(Slot) /\ Len(slots[e]) >= 1
      <4>1. Limit(e) \in Nat /\ Limit(e) >= 1
        BY <1>5, PoolAssumption DEF ShapesOK, Limit, Least
      <4>2. slots[e] \in Seq(Slot) /\ Len(slots[e]) \in Nat /\ Len(slots[e]) >= Limit(e)
        BY <1>4, <1>7 DEF Listed, Shared
      <4>. QED BY <4>1, <4>2
    <3>2. s = slots[e][1]
      BY <1>7, <3>1 DEF Shared
    <3>. QED BY <3>1, <3>2 DEF Elements, First
  <2>3. spec[s] = e
    BY <1>4, <2>2 DEF Listed
  <2>4. ShapesOK' /\ ListsOK'
    BY <1>3, <1>4, <1>5, <2>1 DEF ShapesOK, ListsOK
  <2>5. /\ s \in Elements(slots'[e]) /\ spec'[s] = e
        /\ \A t \in Slot : t # s => spec'[t] = spec[t] /\ status'[t] = status[t]
        /\ \A f \in Engine : Elements(slots[f]) \subseteq Elements(slots'[f])
        /\ "detach" \notin Faults => status'[s] # "given"
    BY <2>1, <2>2, <2>3 DEF GroupsOK, FaultsOK
  <2>. QED BY <1>2, <2>3, <2>4, <2>5, GroupsArrive
<1>8. CASE Made(e, s)
  <2>1. /\ slots' = [slots EXCEPT ![e] = Append(@, s)] /\ free' = free
        /\ status' = [status EXCEPT ![s] = "group"] /\ spec' = [spec EXCEPT ![s] = e]
    BY <1>8 DEF Made
  <2>2. /\ \A f \in Engine : s \notin Elements(slots[f])
        /\ ~Visited(s)
    <3>1. Fresh(s)
      BY <1>8 DEF Made
    <3>2. ASSUME NEW f \in Engine PROVE s \notin Elements(slots[f])
      <4>1. s \notin Range(slots[f])
        BY <3>1 DEF Fresh
      <4>2. Range(slots[f]) = Elements(slots[f])
        BY <1>4, RangeIs DEF Listed
      <4>. QED BY <4>1, <4>2
    <3>. QED BY <3>1, <3>2 DEF Fresh, Visited
  <2>3. /\ Append(slots[e], s) \in Seq(Slot) /\ Apart(Append(slots[e], s))
        /\ Elements(Append(slots[e], s)) = Elements(slots[e]) \cup {s}
    BY <1>4, <2>2, OneMore DEF Listed
  <2>4. /\ ShapesOK' /\ slots'[e] = Append(slots[e], s)
        /\ \A f \in Engine : f # e => slots'[f] = slots[f]
        /\ spec'[s] = e /\ status'[s] = "group"
        /\ \A t \in Slot : t # s => spec'[t] = spec[t] /\ status'[t] = status[t]
    BY <1>3, <1>5, <2>1 DEF ShapesOK
  <2>5. Instances[e] > 0 => Len(Append(slots[e], s)) <= Instances[e]
    <3>1. slots[e] \in Seq(Slot) /\ Len(slots[e]) < Limit(e)
      BY <1>4, <1>8 DEF Made, Listed
    <3>2. Len(Append(slots[e], s)) = Len(slots[e]) + 1 /\ Len(slots[e]) \in Nat
      BY <3>1
    <3>3. Instances[e] \in Nat /\ Limit(e) \in Nat /\ (Instances[e] > 0 => Limit(e) <= Instances[e])
      BY <1>5, PoolAssumption DEF ShapesOK, Limit, Least
    <3>. QED BY <3>1, <3>2, <3>3
  <2>6. ASSUME NEW f \in Engine PROVE Listed(f, slots'[f], free'[f], spec')
    <3>0. Listed(f, slots[f], free[f], spec)
      BY <1>4
    <3>1. CASE f = e
      <4>1. slots'[f] = Append(slots[e], s) /\ free'[f] = free[e] /\ spec'[s] = e
        BY <2>1, <2>4, <3>1
      <4>2. \A t \in Elements(slots[e]) : t \in Slot
        BY <3>0, <3>1 DEF Listed, Elements, First
      <4>3. \A t \in Elements(slots[e]) : spec'[t] = e
        BY <2>2, <2>4, <3>0, <3>1, <4>2 DEF Listed
      <4>4. Listed(e, Append(slots[e], s), free[e], spec')
        BY <2>3, <2>5, <3>0, <3>1, <4>1, <4>3 DEF Listed
      <4>. QED BY <3>1, <4>1, <4>4
    <3>2. CASE f # e
      <4>1. slots'[f] = slots[f] /\ free'[f] = free[f]
        BY <2>1, <2>4, <3>2
      <4>2. \A t \in Elements(slots[f]) : t \in Slot
        BY <3>0 DEF Listed, Elements, First
      <4>3. \A t \in Elements(slots[f]) : spec'[t] = f
        BY <2>2, <2>4, <3>0, <4>2 DEF Listed
      <4>. QED BY <3>0, <4>1, <4>3 DEF Listed
    <3>. QED BY <3>1, <3>2
  <2>7. ListsOK'
    BY <2>6 DEF ListsOK
  <2>8. /\ s \in Elements(slots'[e])
        /\ \A f \in Engine : Elements(slots[f]) \subseteq Elements(slots'[f])
        /\ "detach" \notin Faults => status'[s] # "given"
    BY <2>3, <2>4
  <2>. QED BY <1>2, <2>2, <2>4, <2>7, <2>8, GroupsArrive
<1>. QED BY <1>1, <1>6, <1>7, <1>8

(* A caller leaves: its slot goes back to where it was counted.            *)
LEMMA LeavesGroups ==
  ASSUME CallersOK, GroupsOK, NEW c \in Caller, Leaves(c),
         warm' = [s \in Slot |-> warm'[s]], \A s \in Slot : warm'[s] => warm[s],
         UNCHANGED <<cap, reaper>>
  PROVE  /\ GroupsOK'
         /\ at'[c] = Outside /\ \A d \in Caller : d # c => at'[d] = at[d]
         /\ \A f \in Engine, s \in Slot :
              s \in Elements(free'[f]) => s \in Elements(free[f]) \/ s = at[c].slot
<1>. DEFINE s == at[c].slot
            e == at[c].engine
            back == s # NoSlot /\ status[s] = "group" /\ s \notin Range(free[e])
<1>1. /\ holder' = [t \in Slot |-> holder'[t]] /\ lockq' = [t \in Slot |-> lockq'[t]]
      /\ UNCHANGED <<slots, status, spec>>
      /\ at' = [at EXCEPT ![c] = Outside]
      /\ free' = IF back THEN [free EXCEPT ![e] = Append(@, s)] ELSE free
  BY DEF Leaves
<1>2. at'[c] = Outside /\ \A d \in Caller : d # c => at'[d] = at[d]
  BY <1>1 DEF CallersOK
<1>3. \A f \in Engine : Listed(f, slots[f], free[f], spec)
  BY DEF GroupsOK, ListsOK
<1>4. ASSUME back
      PROVE  /\ e \in Engine /\ s \in Slot /\ s \in Elements(slots[e])
             /\ s \notin Elements(free[e])
  <2>1. s \in Slot /\ e \in Engine /\ spec[s] = e
    BY <1>4 DEF GroupsOK, PlacesOK
  <2>2. Counted(s)
    BY <1>4 DEF Counted, Visited
  <2>3. Range(free[e]) = Elements(free[e])
    BY <1>3, <2>1, RangeIs DEF Listed
  <2>. HIDE DEF s, e
  <2>4. s \in Elements(slots[e])
    BY <2>1, <2>2 DEF GroupsOK, CountedOK
  <2>. QED BY <1>4, <2>1, <2>3, <2>4
<1>. HIDE DEF s, e
<1>5. ASSUME NEW f \in Engine
      PROVE  /\ Listed(f, slots[f], free'[f], spec)
             /\ \A t \in Elements(free'[f]) : t \in Elements(free[f]) \/ t = s
  <2>1. CASE back /\ f = e
    <3>1. free'[f] = Append(free[e], s)
      BY <1>1, <1>4, <2>1 DEF GroupsOK, ShapesOK
    <3>2. /\ Append(free[e], s) \in Seq(Slot) /\ Apart(Append(free[e], s))
          /\ Elements(Append(free[e], s)) = Elements(free[e]) \cup {s}
      BY <1>3, <1>4, <2>1, OneMore DEF Listed
    <3>3. Listed(e, slots[e], Append(free[e], s), spec)
      <4>1. Listed(e, slots[e], free[e], spec)
        BY <1>3, <1>4, <2>1
      <4>. QED BY <1>4, <2>1, <3>2, <4>1 DEF Listed
    <3>4. Listed(f, slots[f], free'[f], spec)
      BY <2>1, <3>1, <3>3
    <3>5. \A t \in Elements(free'[f]) : t \in Elements(free[f]) \/ t = s
      BY <2>1, <3>1, <3>2
    <3>. QED BY <3>4, <3>5
  <2>2. CASE ~(back /\ f = e)
    <3>1. free'[f] = free[f]
      BY <1>1, <2>2 DEF GroupsOK, ShapesOK
    <3>. QED BY <1>3, <3>1
  <2>. QED BY <2>1, <2>2
<1>6. ShapesOK'
  <2>1. free' = [f \in Engine |-> free'[f]]
    BY <1>1, <1>4 DEF GroupsOK, ShapesOK
  <2>. QED BY <1>1, <2>1 DEF GroupsOK, ShapesOK
<1>7. ListsOK'
  BY <1>1, <1>5 DEF ListsOK
<1>8. PlacesOK'
  BY <1>1, <1>2 DEF GroupsOK, PlacesOK, Outside, AtSlot
<1>9. CountedOK'
  <2>1. \A t \in Slot : Visited(t)' => Visited(t)
    BY <1>2, PoolAssumption DEF Visited, Outside
  <2>2. \A t \in Slot : Counted(t)' => Counted(t)
    BY <1>1, <2>1 DEF Counted, Visited
  <2>. QED BY <1>1, <2>2 DEF GroupsOK, CountedOK, Elements, First
<1>10. FaultsOK'
  BY <1>1 DEF GroupsOK, FaultsOK
<1>. QED BY <1>2, <1>5, <1>6, <1>7, <1>8, <1>9, <1>10 DEF GroupsOK, s

LEMMA DetachGroups ==
  ASSUME CallersOK, GroupsOK, NEW c \in Caller, Detach(c)
  PROVE  GroupsOK'
<1>. DEFINE s == at[c].slot
            e == at[c].engine
<1>1. /\ "detach" \in Faults /\ UNCHANGED <<cap, at, spec, holder, lockq, reaper>>
      /\ status' = [status EXCEPT ![s] = "given"]
      /\ warm' = [warm EXCEPT ![s] = FALSE]
      /\ slots' = [slots EXCEPT ![e] = RemoveFirst(@, s)]
      /\ free' = [free EXCEPT ![e] = RemoveFirst(@, s)]
  BY DEF Detach, locks
<1>2. s \in Slot /\ e \in Engine /\ spec[s] = e
  BY DEF Detach, GroupsOK, PlacesOK, AtSlot
<1>. HIDE DEF s, e
<1>3. \A f \in Engine : Listed(f, slots[f], free[f], spec)
  BY DEF GroupsOK, ListsOK
<1>4. /\ RemoveFirst(slots[e], s) \in Seq(Slot) /\ Apart(RemoveFirst(slots[e], s))
      /\ Elements(RemoveFirst(slots[e], s)) = Elements(slots[e]) \ {s}
  BY <1>2, <1>3, TakenOut DEF Listed
<1>5. /\ RemoveFirst(free[e], s) \in Seq(Slot) /\ Apart(RemoveFirst(free[e], s))
      /\ Elements(RemoveFirst(free[e], s)) = Elements(free[e]) \ {s}
  BY <1>2, <1>3, TakenOut DEF Listed
<1>6. Len(RemoveFirst(slots[e], s)) <= Len(slots[e])
  <2>1. slots[e] \in Seq(Slot) /\ Apart(slots[e])
    BY <1>2, <1>3 DEF Listed
  <2>. QED BY <2>1, TakenOut
<1>7. /\ slots'[e] = RemoveFirst(slots[e], s) /\ free'[e] = RemoveFirst(free[e], s)
      /\ \A f \in Engine : f # e => slots'[f] = slots[f] /\ free'[f] = free[f]
      /\ status'[s] = "given"
      /\ \A t \in Slot : t # s => status'[t] = status[t] /\ warm'[t] = warm[t]
  BY <1>1, <1>2 DEF GroupsOK, ShapesOK
<1>8. ShapesOK' /\ PlacesOK'
  BY <1>1 DEF GroupsOK, ShapesOK, PlacesOK
<1>9. ListsOK'
  <2>1. ASSUME NEW f \in Engine PROVE Listed(f, slots'[f], free'[f], spec')
    <3>1. CASE f = e
      <4>1. Len(slots[e]) \in Nat /\ Len(RemoveFirst(slots[e], s)) \in Nat /\ Instances[e] \in Nat
        BY <1>2, <1>3, <1>4, PoolAssumption DEF Listed
      <4>2. Instances[e] > 0 => Len(RemoveFirst(slots[e], s)) <= Instances[e]
        BY <1>2, <1>3, <1>6, <4>1 DEF Listed
      <4>3. Listed(e, RemoveFirst(slots[e], s), RemoveFirst(free[e], s), spec)
        BY <1>2, <1>3, <1>4, <1>5, <4>2 DEF Listed
      <4>. QED BY <1>1, <1>7, <3>1, <4>3
    <3>2. CASE f # e
      BY <1>1, <1>3, <1>7, <3>2
    <3>. QED BY <3>1, <3>2
  <2>. QED BY <2>1 DEF ListsOK
<1>10. CountedOK'
  <2>1. ASSUME NEW t \in Slot, Counted(t)'
        PROVE  spec'[t] \in Engine /\ t \in Elements(slots'[spec'[t]])
    <3>1. t # s
      BY <1>7, <2>1 DEF Counted
    <3>2. Counted(t)
      BY <1>1, <1>7, <2>1, <3>1 DEF Counted, Visited
    <3>3. spec[t] \in Engine /\ t \in Elements(slots[spec[t]])
      BY <3>2 DEF GroupsOK, CountedOK
    <3>4. t \in Elements(slots'[spec[t]])
      BY <1>4, <1>7, <3>1, <3>3
    <3>. QED BY <1>1, <3>3, <3>4
  <2>. QED BY <2>1 DEF CountedOK, Elements, First
<1>11. FaultsOK'
  BY <1>1 DEF GroupsOK, FaultsOK
<1>. QED BY <1>8, <1>9, <1>10, <1>11 DEF GroupsOK

(* Whatever a caller does, with whatever faults.                           *)
LEMMA EntersGroups ==
  ASSUME CallersOK, GroupsOK, NEW c \in Caller, NEW e \in Engine \cup {NoEngine},
         at[c].pc \notin AtSlot, Enters(c, e), UNCHANGED <<cap, warm, reaper>>
  PROVE  GroupsOK'
<1>1. CASE e = NoEngine
  <2>. DEFINE r == [Outside EXCEPT !.pc = "reserved"]
  <2>1. /\ r.pc \notin AtSlot /\ r.slot = NoSlot /\ r.engine \in Engine \cup {NoEngine}
    BY DEF Outside, AtSlot
  <2>2. at' = [at EXCEPT ![c] = r] /\ UNCHANGED <<cap, groups, warm, locks, reaper>>
    BY <1>1 DEF Enters
  <2>. HIDE DEF r
  <2>. QED BY <2>1, <2>2, GroupsAway
<1>2. CASE e # NoEngine
  BY <1>2, TakeSlotGroups DEF Enters
<1>. QED BY <1>1, <1>2

LEMMA CallerGroups ==
  ASSUME PInv, GroupsOK, NEW c \in Caller, CallerStep(c)
  PROVE  GroupsOK'
<1>0. CallersOK
  BY DEF PInv
<1>1. ASSUME NEW e \in Engine \cup {NoEngine}, Acquire(c, e) PROVE GroupsOK'
  <2>0. at[c].pc \notin AtSlot
    BY <1>1 DEF Acquire, AtSlot
  <2>1. CASE Enters(c, e)
    BY <1>0, <1>1, <2>0, <2>1, EntersGroups DEF Acquire
  <2>2. CASE at' = [at EXCEPT ![c] = [Outside EXCEPT !.pc = "waiting", !.engine = e]]
             /\ UNCHANGED <<groups, locks>>
    <3>. DEFINE r == [Outside EXCEPT !.pc = "waiting", !.engine = e]
    <3>1. r.pc \notin AtSlot /\ r.slot = NoSlot /\ r.engine \in Engine \cup {NoEngine}
      BY DEF Outside, AtSlot
    <3>2. at' = [at EXCEPT ![c] = r] /\ UNCHANGED <<cap, groups, warm, locks, reaper>>
      BY <1>1, <2>2 DEF Acquire
    <3>. HIDE DEF r
    <3>. QED BY <1>0, <2>0, <3>1, <3>2, GroupsAway
  <2>. QED BY <1>1, <2>1, <2>2 DEF Acquire
<1>2. CASE Admit(c)
  <2>1. c \in admitted /\ Enters(c, at[c].engine) /\ UNCHANGED <<cap, warm, reaper>>
    BY <1>2 DEF Admit, RunWoken
  <2>2. at[c].pc \notin AtSlot /\ at[c].engine \in Engine \cup {NoEngine}
    BY <2>1 DEF PInv, WaitersOK, Waiting, AtSlot, GroupsOK, PlacesOK
  <2>. QED BY <1>0, <2>1, <2>2, EntersGroups
<1>3. CASE LockSlot(c)
  <2>. DEFINE p == IF warm[at[c].slot] THEN "using" ELSE "starting"
  <2>1. /\ at[c].pc \in AtSlot /\ p \in AtSlot /\ at' = [at EXCEPT ![c].pc = p]
        /\ warm' = warm /\ UNCHANGED <<cap, groups, reaper>>
        /\ holder' = [holder EXCEPT ![at[c].slot] = c]
        /\ lockq' = [lockq EXCEPT ![at[c].slot] = Tail(@)]
    BY <1>3 DEF LockSlot, AtSlot
  <2>. HIDE DEF p
  <2>2. /\ warm' = [s \in Slot |-> warm'[s]] /\ holder' = [s \in Slot |-> holder'[s]]
        /\ lockq' = [s \in Slot |-> lockq'[s]]
        /\ \A s \in Slot : warm'[s] => warm[s] \/ s = at[c].slot
    BY <2>1 DEF GroupsOK, ShapesOK
  <2>. QED BY <1>0, <2>1, <2>2, GroupsGoOn
<1>4. CASE Start(c)
  <2>1. /\ at[c].pc \in AtSlot /\ "using" \in AtSlot /\ at' = [at EXCEPT ![c].pc = "using"]
        /\ warm' = [warm EXCEPT ![at[c].slot] = TRUE]
        /\ UNCHANGED <<cap, groups, reaper>> /\ UNCHANGED <<holder, lockq>>
    BY <1>4 DEF Start, AtSlot, locks
  <2>2. /\ warm' = [s \in Slot |-> warm'[s]] /\ holder' = [s \in Slot |-> holder'[s]]
        /\ lockq' = [s \in Slot |-> lockq'[s]]
        /\ \A s \in Slot : warm'[s] => warm[s] \/ s = at[c].slot
    BY <2>1 DEF GroupsOK, ShapesOK
  <2>. QED BY <1>0, <2>1, <2>2, GroupsGoOn
<1>5. CASE Raise(c) /\ warm[at[c].slot]
  <2>1. /\ at[c].pc \in AtSlot /\ "closing" \in AtSlot /\ at' = [at EXCEPT ![c].pc = "closing"]
        /\ UNCHANGED <<cap, groups, reaper>> /\ UNCHANGED <<warm, holder, lockq>>
    BY <1>5 DEF Raise, AtSlot, locks
  <2>2. /\ warm' = [s \in Slot |-> warm'[s]] /\ holder' = [s \in Slot |-> holder'[s]]
        /\ lockq' = [s \in Slot |-> lockq'[s]]
        /\ \A s \in Slot : warm'[s] => warm[s] \/ s = at[c].slot
    BY <2>1 DEF GroupsOK, ShapesOK
  <2>. QED BY <1>0, <2>1, <2>2, GroupsGoOn
<1>6. CASE \/ Raise(c) /\ ~warm[at[c].slot]
           \/ Finish(c) \/ CancelDrop(c) \/ StartFails(c) \/ CancelQueued(c)
  <2>1. Leaves(c) /\ warm' = warm /\ UNCHANGED <<cap, reaper>>
    BY <1>6 DEF Finish, Raise, CancelDrop, StartFails, CancelQueued
  <2>2. warm' = [s \in Slot |-> warm'[s]] /\ \A s \in Slot : warm'[s] => warm[s]
    BY <2>1 DEF GroupsOK, ShapesOK
  <2>. QED BY <1>0, <2>1, <2>2, LeavesGroups
<1>7. CASE Drop(c)
  <2>1. Leaves(c) /\ warm' = [warm EXCEPT ![at[c].slot] = FALSE] /\ UNCHANGED <<cap, reaper>>
    BY <1>7 DEF Drop
  <2>2. warm' = [s \in Slot |-> warm'[s]] /\ \A s \in Slot : warm'[s] => warm[s]
    BY <2>1 DEF GroupsOK, ShapesOK
  <2>. QED BY <1>0, <2>1, <2>2, LeavesGroups
<1>8. CASE CancelWaiting(c)
  <2>1. /\ Outside.pc \notin AtSlot /\ Outside.slot = NoSlot
        /\ Outside.engine \in Engine \cup {NoEngine} /\ at[c].pc \notin AtSlot
    BY <1>8 DEF Outside, AtSlot, CancelWaiting
  <2>2. at' = [at EXCEPT ![c] = Outside] /\ UNCHANGED <<cap, groups, warm, locks, reaper>>
    BY <1>8 DEF CancelWaiting
  <2>. QED BY <1>0, <2>1, <2>2, GroupsAway
<1>9. CASE Detach(c)
  BY <1>0, <1>9, DetachGroups
<1>10. CASE Raise(c)
  BY <1>5, <1>6, <1>10, Zenon
<1>. QED BY <1>1, <1>2, <1>3, <1>4, <1>6, <1>7, <1>8, <1>9, <1>10, Zenon DEF CallerStep

-----------------------------------------------------------------------------
(* The calm pool, where nothing raises, is cancelled or is given away.     *)

LEMMA AppendHas ==
  ASSUME NEW S, NEW q \in Seq(S), NEW x \in S
  PROVE  /\ Append(q, x) \in Seq(S) /\ x \in Elements(Append(q, x))
         /\ Elements(q) \subseteq Elements(Append(q, x))
<1>1. /\ Append(q, x) \in Seq(S) /\ Len(Append(q, x)) = Len(q) + 1 /\ Len(q) \in Nat
      /\ \A i \in 1 .. Len(q) : Append(q, x)[i] = q[i]
      /\ Append(q, x)[Len(q) + 1] = x
  OBVIOUS
<1>. QED BY <1>1 DEF Elements, First

LEMMA TailHas ==
  ASSUME NEW S, NEW q \in Seq(S), q # <<>>
  PROVE  /\ Tail(q) \in Seq(S) /\ Head(q) \in S
         /\ \A x \in Elements(q) : x = Head(q) \/ x \in Elements(Tail(q))
<1>1. /\ Len(q) \in Nat /\ Len(q) >= 1 /\ Head(q) = q[1]
      /\ Tail(q) \in Seq(S) /\ Len(Tail(q)) = Len(q) - 1
      /\ \A i \in 1 .. Len(q) - 1 : Tail(q)[i] = q[i + 1]
  BY HeadTailProperties, EmptySeq
<1>2. ASSUME NEW i \in 1 .. Len(q), i # 1 PROVE q[i] \in Elements(Tail(q))
  <2>1. i - 1 \in 1 .. Len(q) - 1 /\ i - 1 + 1 = i
    BY <1>1, <1>2
  <2>2. Tail(q)[i - 1] = q[i]
    BY <1>1, <2>1
  <2>. QED BY <1>1, <2>1, <2>2 DEF Elements, First
<1>3. Head(q) \in S
  BY <1>1
<1>. QED BY <1>1, <1>2, <1>3 DEF Elements, First

LEMMA SmallestOne ==
  ASSUME NEW n \in Nat, NEW I \in SUBSET (1 .. n), I # {}
  PROVE  Min(I) \in I
<1>. DEFINE R == {ss \in Nat \X Nat : ss[1] < ss[2]}
<1>1. IsWellFoundedOn(R, Nat)
  BY NatLessThanWellFounded DEF OpToRel
<1>2. PICK k \in I : \A i \in I : <<i, k>> \notin R
  <2>. HIDE DEF R
  <2>1. I \subseteq Nat
    OBVIOUS
  <2>. QED BY <1>1, <2>1, WFMin
<1>3. ASSUME NEW i \in I PROVE k <= i
  <2>1. i \in Nat /\ k \in Nat /\ <<i, k>> \notin R
    BY <1>2
  <2>. QED BY <2>1
<1>. QED BY <1>3 DEF Min

(* Taking x out of a line of waiters leaves the others in it.              *)
LEMMA OthersStay ==
  ASSUME NEW S, NEW q \in Seq(S), NEW x
  PROVE  /\ RemoveFirst(q, x) \in Seq(S)
         /\ \A y \in Elements(q) : y # x => y \in Elements(RemoveFirst(q, x))
<1>1. CASE x \notin Elements(q)
  BY <1>1 DEF RemoveFirst, Elements, First
<1>2. CASE x \in Elements(q)
  <2>. DEFINE n == Len(q)
              I == {i \in 1 .. n : q[i] = x}
              k == Min(I)
              before == SubSeq(q, 1, k - 1)
              after == SubSeq(q, k + 1, n)
  <2>1. n \in Nat /\ I \in SUBSET (1 .. n) /\ I # {}
    BY <1>2 DEF Elements, First
  <2>2. k \in I
    <3>. HIDE DEF I
    <3>. QED BY <2>1, SmallestOne
  <2>3. k \in 1 .. n /\ q[k] = x /\ \A i \in 1 .. n : q[i] \in S
    BY <2>2
  <2>4. RemoveFirst(q, x) = before \o after
    BY <2>2 DEF RemoveFirst, RemoveAt, SelectInSeq
  <2>. HIDE DEF k, I
  <2>5. /\ before \in Seq(S) /\ Len(before) = k - 1 /\ \A i \in 1 .. k - 1 : before[i] = q[i]
    BY <2>1, <2>3, SubSeqProperties
  <2>6. /\ after \in Seq(S) /\ Len(after) = n - k /\ \A i \in 1 .. n - k : after[i] = q[k + i]
    <3>1. k + 1 \in Int /\ n \in Int /\ \A i \in k + 1 .. n : q[i] \in S
      BY <2>1, <2>3
    <3>2. /\ after \in Seq(S)
          /\ Len(after) = IF k + 1 <= n THEN n - (k + 1) + 1 ELSE 0
          /\ \A i \in 1 .. n - (k + 1) + 1 : after[i] = q[k + 1 + i - 1]
      <4>. HIDE DEF n
      <4>. QED BY <3>1, SubSeqProperties
    <3>. QED BY <2>1, <2>3, <3>2
  <2>. HIDE DEF before, after
  <2>7. /\ before \o after \in Seq(S) /\ Len(before \o after) = Len(before) + Len(after)
        /\ \A i \in 1 .. Len(before) + Len(after) :
             (before \o after)[i] = IF i <= Len(before) THEN before[i] ELSE after[i - Len(before)]
    BY <2>5, <2>6, ConcatProperties
  <2>8. ASSUME NEW i \in 1 .. n, i # k PROVE q[i] \in Elements(before \o after)
    <3>1. CASE i < k
      <4>1. i \in 1 .. Len(before) + Len(after) /\ (before \o after)[i] = q[i]
        BY <2>1, <2>3, <2>5, <2>6, <2>7, <3>1
      <4>. QED BY <2>7, <4>1 DEF Elements, First
    <3>2. CASE i > k
      <4>1. i - 1 \in 1 .. Len(before) + Len(after) /\ ~(i - 1 <= Len(before))
        BY <2>1, <2>3, <2>5, <2>6, <3>2
      <4>2. i - 1 - Len(before) = i - k /\ i - k \in 1 .. n - k /\ k + (i - k) = i
        BY <2>1, <2>3, <2>5, <3>2
      <4>3. (before \o after)[i - 1] = q[i]
        BY <2>6, <2>7, <4>1, <4>2
      <4>. QED BY <2>7, <4>1, <4>3 DEF Elements, First
    <3>. QED BY <2>1, <2>3, <2>8, <3>1, <3>2
  <2>9. ASSUME NEW y \in Elements(q), y # x PROVE y \in Elements(before \o after)
    BY <2>3, <2>8, <2>9 DEF Elements, First
  <2>. QED BY <2>4, <2>7, <2>9
<1>. QED BY <1>1, <1>2

(* A free slot is of one engine only.                                      *)
LEMMA OneEngine ==
  ASSUME ListsOK, NEW e \in Engine, NEW s \in Elements(free[e])
  PROVE  spec[s] = e
BY DEF ListsOK, Listed

LEMMA TakeSlotCalm ==
  ASSUME CallersOK, GroupsOK, CalmOK, NEW c \in Caller, NEW e \in Engine, at[c].pc \notin AtSlot,
         TakeSlot(c, e), UNCHANGED <<warm, reaper>>
  PROVE  CalmOK'
<1>1. PICK s \in Slot : Locks(c, e, s) /\ (Popped(e, s) \/ Shared(e, s) \/ Made(e, s))
  BY TakesOne
<1>2. /\ \A t \in Slot : t # s => holder'[t] = holder[t] /\ lockq'[t] = lockq[t]
      /\ \/ /\ holder[s] = Nobody /\ holder'[s] = c /\ lockq' = lockq
            /\ at' = [at EXCEPT ![c] = [pc |-> IF warm[s] THEN "using" ELSE "starting",
                                        engine |-> e, slot |-> s]]
         \/ /\ holder' = holder /\ lockq'[s] = Append(lockq[s], c)
            /\ at' = [at EXCEPT ![c] = [pc |-> "queued", engine |-> e, slot |-> s]]
  BY <1>1, LockedAt DEF GroupsOK
<1>3. /\ \A t \in Slot : lockq[t] \in Seq(Caller \cup {Reaper})
      /\ \A d \in Caller : d \in Caller \cup {Reaper} /\ d # Nobody /\ d # Reaper
      /\ Reaper # Nobody
  BY PoolAssumption DEF CalmOK, LocksOK
<1>4. /\ lockq'[s] \in Seq(Caller \cup {Reaper})
      /\ Elements(lockq[s]) \subseteq Elements(lockq'[s])
      /\ at'[c].pc = "queued" => c \in Elements(lockq'[s])
  <2>1. /\ Append(lockq[s], c) \in Seq(Caller \cup {Reaper})
        /\ Elements(lockq[s]) \subseteq Elements(Append(lockq[s], c))
        /\ c \in Elements(Append(lockq[s], c))
    BY <1>3, AppendHas
  <2>2. CASE lockq' = lockq /\ at' = [at EXCEPT ![c] = [pc |-> IF warm[s] THEN "using" ELSE "starting",
                                                        engine |-> e, slot |-> s]]
    BY <1>3, <2>2 DEF CallersOK
  <2>. QED BY <1>2, <2>1, <2>2
<1>5. /\ at'[c].slot = s /\ at'[c].pc # "closing"
      /\ at'[c].pc \in {"starting", "using"} => holder'[s] = c
      /\ at'[c].pc = "using" => warm[s]
      /\ \A d \in Caller : d # c => at'[d] = at[d]
  BY <1>2 DEF CallersOK
<1>6. LocksOK'
  <2>1. \A t \in Slot : lockq'[t] \in Seq(Caller \cup {Reaper})
    BY <1>2, <1>3, <1>4
  <2>2. ASSUME NEW d \in Caller
        PROVE  /\ at'[d].pc = "queued" => d \in Elements(lockq'[at'[d].slot])
               /\ at'[d].pc \in {"starting", "using"} => holder'[at'[d].slot] = d
               /\ at'[d].pc = "using" => warm'[at'[d].slot]
               /\ at'[d].pc # "closing"
    <3>1. CASE d = c
      BY <1>4, <1>5, <3>1
    <3>2. CASE d # c
      <4>1. at'[d] = at[d] /\ (at[d].pc \in AtSlot => at[d].slot \in Slot)
        BY <1>5, <3>2 DEF GroupsOK, PlacesOK
      <4>2. /\ at[d].pc = "queued" => d \in Elements(lockq[at[d].slot])
            /\ at[d].pc \in {"starting", "using"} => holder[at[d].slot] = d
            /\ at[d].pc = "using" => warm[at[d].slot]
            /\ at[d].pc # "closing"
        BY DEF CalmOK, LocksOK
      <4>3. at[d].pc = "queued" => d \in Elements(lockq'[at[d].slot])
        BY <1>2, <1>4, <4>1, <4>2 DEF AtSlot
      <4>4. at[d].pc \in {"starting", "using"} => holder'[at[d].slot] = d
        BY <1>2, <1>3, <4>1, <4>2 DEF AtSlot
      <4>. QED BY <4>1, <4>2, <4>3, <4>4
    <3>. QED BY <3>1, <3>2
  <2>. QED BY <2>1, <2>2 DEF LocksOK, Elements, First
<1>7. /\ \A f \in Engine : s \notin Elements(free'[f])
      /\ \A f \in Engine : Elements(free'[f]) \subseteq Elements(free[f])
  <2>0. \A f \in Engine : Listed(f, slots[f], free[f], spec)
    BY DEF GroupsOK, ListsOK
  <2>1. CASE Popped(e, s)
    <3>1. /\ free'[e] = Front(free[e]) /\ \A f \in Engine : f # e => free'[f] = free[f]
      BY <2>1 DEF Popped, GroupsOK, ShapesOK
    <3>2. /\ s \in Elements(free[e]) /\ Elements(Front(free[e])) = Elements(free[e]) \ {s}
      BY <2>0, <2>1, LastOff DEF Popped, Listed
    <3>3. \A f \in Engine : f # e => s \notin Elements(free[f])
      BY <3>2, OneEngine DEF GroupsOK
    <3>. QED BY <3>1, <3>2, <3>3
  <2>2. CASE Shared(e, s)
    <3>1. UNCHANGED <<slots, free, status, spec>> /\ free[e] = <<>>
      BY <2>2 DEF Shared, groups
    <3>2. s \in Elements(slots[e])
      <4>1. slots[e] \in Seq(Slot) /\ Len(slots[e]) >= 1
        <5>1. Limit(e) \in Nat /\ Limit(e) >= 1
          BY PoolAssumption DEF GroupsOK, ShapesOK, Limit, Least
        <5>2. slots[e] \in Seq(Slot) /\ Len(slots[e]) \in Nat /\ Len(slots[e]) >= Limit(e)
          BY <2>0, <2>2 DEF Listed, Shared
        <5>. QED BY <5>1, <5>2
      <4>2. s = slots[e][1]
        BY <2>2, <4>1 DEF Shared
      <4>. QED BY <4>1, <4>2 DEF Elements, First
    <3>3. spec[s] = e /\ Elements(free[e]) = {}
      BY <2>0, <3>1, <3>2 DEF Listed, Elements, First
    <3>4. \A f \in Engine : s \notin Elements(free[f])
      BY <3>3, OneEngine DEF GroupsOK
    <3>. QED BY <3>1, <3>4
  <2>3. CASE Made(e, s)
    <3>1. free' = free /\ Fresh(s)
      BY <2>3 DEF Made
    <3>2. ASSUME NEW f \in Engine PROVE s \notin Elements(free[f])
      <4>1. s \notin Range(free[f])
        BY <3>1 DEF Fresh
      <4>2. Range(free[f]) = Elements(free[f])
        BY <2>0, RangeIs DEF Listed
      <4>. QED BY <4>1, <4>2
    <3>. QED BY <3>1, <3>2
  <2>. QED BY <1>1, <2>1, <2>2, <2>3
<1>8. BackOK'
  <2>1. ASSUME NEW t \in Slot, NEW f \in Engine, Visited(t)', t \in Elements(free'[f])
        PROVE  warm'[t] /\ holder'[t] # Reaper
    <3>1. t # s /\ t \in Elements(free[f])
      BY <1>7, <2>1
    <3>2. Visited(t)
      BY <1>5, <2>1, <3>1 DEF Visited
    <3>. QED BY <1>2, <3>1, <3>2 DEF CalmOK, BackOK
  <2>. QED BY <2>1 DEF BackOK, Elements, First
<1>9. ReaperOK'
  <2>1. ASSUME reaper.pc = "closing" PROVE holder'[Head(reaper.todo)] = Reaper
    <3>1. Head(reaper.todo) \in Slot /\ holder[Head(reaper.todo)] = Reaper
      BY <2>1, TailHas DEF CalmOK, ReaperOK
    <3>2. Reaper # Nobody
      BY <1>3
    <3>. QED BY <1>2, <3>1, <3>2
  <2>2. ASSUME reaper.pc \notin {"rest", "closing"}
        PROVE  Reaper \in Elements(lockq'[Head(reaper.todo)])
    <3>1. /\ Head(reaper.todo) \in Slot
          /\ Reaper \in Elements(lockq[Head(reaper.todo)])
      BY <2>2, TailHas DEF CalmOK, ReaperOK
    <3>. QED BY <1>2, <1>4, <3>1
  <2>. QED BY <2>1, <2>2 DEF CalmOK, ReaperOK, Elements, First
<1>. QED BY <1>6, <1>8, <1>9 DEF CalmOK

LEMMA FinishCalm ==
  ASSUME CallersOK, GroupsOK, CalmOK, NEW c \in Caller, Finish(c)
  PROVE  CalmOK'
<1>1. /\ Leaves(c) /\ UNCHANGED <<cap, warm, reaper>> /\ at[c].pc \in {"using", "reserved"}
  BY DEF Finish
<1>2. warm' = [s \in Slot |-> warm'[s]] /\ \A s \in Slot : warm'[s] => warm[s]
  BY <1>1 DEF GroupsOK, ShapesOK
<1>3. /\ at'[c] = Outside /\ \A d \in Caller : d # c => at'[d] = at[d]
      /\ \A f \in Engine, s \in Slot :
           s \in Elements(free'[f]) => s \in Elements(free[f]) \/ s = at[c].slot
  BY <1>1, <1>2, LeavesGroups
<1>4. \A t \in Slot : /\ lockq'[t] = RemoveFirst(lockq[t], c)
                      /\ holder'[t] = IF holder[t] = c THEN Nobody ELSE holder[t]
  BY <1>1 DEF Leaves
<1>5. Nobody # Reaper /\ \A d \in Caller : d # Nobody /\ d # Reaper
  BY PoolAssumption
<1>6. \A t \in Slot :
        /\ lockq'[t] \in Seq(Caller \cup {Reaper})
        /\ \A d \in Elements(lockq[t]) : d # c => d \in Elements(lockq'[t])
  BY <1>4, OthersStay DEF CalmOK, LocksOK
<1>7. LocksOK'
  <2>2. ASSUME NEW d \in Caller
        PROVE  /\ at'[d].pc = "queued" => d \in Elements(lockq'[at'[d].slot])
               /\ at'[d].pc \in {"starting", "using"} => holder'[at'[d].slot] = d
               /\ at'[d].pc = "using" => warm'[at'[d].slot]
               /\ at'[d].pc # "closing"
    <3>1. CASE d = c
      BY <1>3, <3>1 DEF Outside
    <3>2. CASE d # c
      <4>1. at'[d] = at[d] /\ (at[d].pc \in AtSlot => at[d].slot \in Slot)
        BY <1>3, <3>2 DEF GroupsOK, PlacesOK
      <4>2. /\ at[d].pc = "queued" => d \in Elements(lockq[at[d].slot])
            /\ at[d].pc \in {"starting", "using"} => holder[at[d].slot] = d
            /\ at[d].pc = "using" => warm[at[d].slot]
            /\ at[d].pc # "closing"
        BY DEF CalmOK, LocksOK
      <4>3. at[d].pc = "queued" => d \in Elements(lockq'[at[d].slot])
        BY <1>6, <3>2, <4>1, <4>2 DEF AtSlot
      <4>4. at[d].pc \in {"starting", "using"} => holder'[at[d].slot] = d
        BY <1>4, <3>2, <4>1, <4>2 DEF AtSlot
      <4>. QED BY <1>1, <4>1, <4>2, <4>3, <4>4
    <3>. QED BY <3>1, <3>2
  <2>. QED BY <1>6, <2>2 DEF LocksOK, Elements, First
<1>8. BackOK'
  <2>1. ASSUME NEW t \in Slot, NEW f \in Engine, Visited(t)', t \in Elements(free'[f])
        PROVE  warm'[t] /\ holder'[t] # Reaper
    <3>1. CASE t = at[c].slot
      <4>1. at[c].pc = "using"
        BY <1>1, <3>1, PoolAssumption DEF GroupsOK, PlacesOK, AtSlot
      <4>2. warm[t] /\ holder[t] = c
        BY <3>1, <4>1 DEF CalmOK, LocksOK
      <4>. QED BY <1>1, <1>4, <1>5, <4>2
    <3>2. CASE t # at[c].slot
      <4>1. t \in Elements(free[f])
        BY <1>3, <2>1, <3>2
      <4>2. Visited(t)
        BY <1>3, <2>1, PoolAssumption DEF Visited, Outside
      <4>3. warm[t] /\ holder[t] # Reaper
        BY <4>1, <4>2 DEF CalmOK, BackOK
      <4>. QED BY <1>1, <1>4, <1>5, <4>3
    <3>. QED BY <3>1, <3>2
  <2>. QED BY <2>1 DEF BackOK, Elements, First
<1>9. ReaperOK'
  <2>1. ASSUME reaper.pc = "closing" PROVE holder'[Head(reaper.todo)] = Reaper
    <3>1. Head(reaper.todo) \in Slot /\ holder[Head(reaper.todo)] = Reaper
      BY <2>1, TailHas DEF CalmOK, ReaperOK
    <3>. QED BY <1>4, <1>5, <3>1
  <2>2. ASSUME reaper.pc \notin {"rest", "closing"}
        PROVE  Reaper \in Elements(lockq'[Head(reaper.todo)])
    <3>1. /\ Head(reaper.todo) \in Slot
          /\ Reaper \in Elements(lockq[Head(reaper.todo)])
      BY <2>2, TailHas DEF CalmOK, ReaperOK
    <3>. QED BY <1>5, <1>6, <3>1
  <2>. QED BY <1>1, <2>1, <2>2 DEF CalmOK, ReaperOK, Elements, First
<1>. QED BY <1>7, <1>8, <1>9 DEF CalmOK

LEMMA LockSlotCalm ==
  ASSUME CallersOK, GroupsOK, CalmOK, NEW c \in Caller, LockSlot(c)
  PROVE  CalmOK'
<1>. DEFINE s == at[c].slot
            p == IF warm[s] THEN "using" ELSE "starting"
<1>1. /\ at[c].pc = "queued" /\ holder[s] = Nobody /\ Head(lockq[s]) = c
      /\ holder' = [holder EXCEPT ![s] = c] /\ lockq' = [lockq EXCEPT ![s] = Tail(@)]
      /\ at' = [at EXCEPT ![c].pc = p]
      /\ UNCHANGED <<slots, free, status, spec, warm, reaper>>
  BY DEF LockSlot, groups
<1>2. s \in Slot
  BY <1>1 DEF GroupsOK, PlacesOK, AtSlot
<1>3. /\ at'[c].pc = p /\ at'[c].slot = s
      /\ \A d \in Caller : d # c => at'[d] = at[d]
      /\ p \in {"using", "starting"} /\ (p = "using" => warm[s])
  BY <1>1 DEF CallersOK, Located
<1>. HIDE DEF s, p
<1>4. /\ holder'[s] = c /\ lockq'[s] = Tail(lockq[s])
      /\ \A t \in Slot : t # s => holder'[t] = holder[t] /\ lockq'[t] = lockq[t]
  BY <1>1, <1>2 DEF GroupsOK, ShapesOK
<1>5. /\ Tail(lockq[s]) \in Seq(Caller \cup {Reaper})
      /\ \A d \in Elements(lockq[s]) : d # c => d \in Elements(lockq'[s])
  <2>1. lockq[s] \in Seq(Caller \cup {Reaper}) /\ lockq[s] # <<>>
    BY <1>1, <1>2 DEF CalmOK, LocksOK, Elements, First, s
  <2>. QED BY <1>1, <1>4, <2>1, TailHas
<1>6. Reaper # Nobody /\ \A d \in Caller : d # Nobody /\ d # Reaper
  BY PoolAssumption
<1>7. LocksOK'
  <2>1. \A t \in Slot : lockq'[t] \in Seq(Caller \cup {Reaper})
    BY <1>4, <1>5 DEF CalmOK, LocksOK
  <2>2. ASSUME NEW d \in Caller
        PROVE  /\ at'[d].pc = "queued" => d \in Elements(lockq'[at'[d].slot])
               /\ at'[d].pc \in {"starting", "using"} => holder'[at'[d].slot] = d
               /\ at'[d].pc = "using" => warm'[at'[d].slot]
               /\ at'[d].pc # "closing"
    <3>1. CASE d = c
      BY <1>1, <1>3, <1>4, <3>1
    <3>2. CASE d # c
      <4>1. at'[d] = at[d] /\ (at[d].pc \in AtSlot => at[d].slot \in Slot)
        BY <1>3, <3>2 DEF GroupsOK, PlacesOK
      <4>2. /\ at[d].pc = "queued" => d \in Elements(lockq[at[d].slot])
            /\ at[d].pc \in {"starting", "using"} => holder[at[d].slot] = d
            /\ at[d].pc = "using" => warm[at[d].slot]
            /\ at[d].pc # "closing"
        BY DEF CalmOK, LocksOK
      <4>3. at[d].pc = "queued" => d \in Elements(lockq'[at[d].slot])
        BY <1>4, <1>5, <3>2, <4>1, <4>2 DEF AtSlot
      <4>4. at[d].pc \in {"starting", "using"} => holder'[at[d].slot] = d
        BY <1>1, <1>4, <1>6, <4>1, <4>2 DEF AtSlot
      <4>. QED BY <1>1, <4>1, <4>2, <4>3, <4>4
    <3>. QED BY <3>1, <3>2
  <2>. QED BY <2>1, <2>2 DEF LocksOK, Elements, First
<1>8. BackOK'
  <2>1. ASSUME NEW t \in Slot, NEW f \in Engine, Visited(t)', t \in Elements(free[f])
        PROVE  warm[t] /\ holder'[t] # Reaper
    <3>1. Visited(t)
      BY <1>3, <2>1 DEF Visited, s
    <3>. QED BY <1>4, <1>6, <2>1, <3>1 DEF CalmOK, BackOK
  <2>. QED BY <1>1, <2>1 DEF BackOK, Elements, First
<1>9. ReaperOK'
  <2>1. ASSUME reaper.pc = "closing" PROVE holder'[Head(reaper.todo)] = Reaper
    <3>1. Head(reaper.todo) \in Slot /\ holder[Head(reaper.todo)] = Reaper
      BY <2>1, TailHas DEF CalmOK, ReaperOK
    <3>. QED BY <1>1, <1>4, <1>6, <3>1
  <2>2. ASSUME reaper.pc \notin {"rest", "closing"}
        PROVE  Reaper \in Elements(lockq'[Head(reaper.todo)])
    <3>1. /\ Head(reaper.todo) \in Slot
          /\ Reaper \in Elements(lockq[Head(reaper.todo)])
      BY <2>2, TailHas DEF CalmOK, ReaperOK
    <3>. QED BY <1>4, <1>5, <1>6, <3>1
  <2>. QED BY <1>1, <2>1, <2>2 DEF CalmOK, ReaperOK, Elements, First
<1>. QED BY <1>7, <1>8, <1>9 DEF CalmOK

LEMMA StartCalm ==
  ASSUME CallersOK, GroupsOK, CalmOK, NEW c \in Caller, Start(c)
  PROVE  CalmOK'
<1>1. /\ at[c].pc = "starting" /\ at' = [at EXCEPT ![c].pc = "using"]
      /\ warm' = [warm EXCEPT ![at[c].slot] = TRUE]
      /\ UNCHANGED <<slots, free, status, spec, holder, lockq, reaper>>
  BY DEF Start, groups, locks
<1>2. /\ at'[c].pc = "using" /\ at'[c].slot = at[c].slot
      /\ \A d \in Caller : d # c => at'[d] = at[d]
      /\ at[c].slot \in Slot /\ holder[at[c].slot] = c
  BY <1>1 DEF CallersOK, Located, GroupsOK, PlacesOK, AtSlot, CalmOK, LocksOK
<1>3. warm'[at[c].slot] /\ \A t \in Slot : warm[t] => warm'[t]
  BY <1>1, <1>2 DEF GroupsOK, ShapesOK
<1>4. LocksOK'
  <2>2. ASSUME NEW d \in Caller
        PROVE  /\ at'[d].pc = "queued" => d \in Elements(lockq[at'[d].slot])
               /\ at'[d].pc \in {"starting", "using"} => holder[at'[d].slot] = d
               /\ at'[d].pc = "using" => warm'[at'[d].slot]
               /\ at'[d].pc # "closing"
    <3>1. CASE d = c
      BY <1>2, <1>3, <3>1
    <3>2. CASE d # c
      <4>1. at'[d] = at[d] /\ (at[d].pc \in AtSlot => at[d].slot \in Slot)
        BY <1>2, <3>2 DEF GroupsOK, PlacesOK
      <4>. QED BY <1>3, <4>1 DEF CalmOK, LocksOK, AtSlot
    <3>. QED BY <3>1, <3>2
  <2>. QED BY <1>1, <2>2 DEF CalmOK, LocksOK, Elements, First
<1>5. BackOK'
  <2>1. ASSUME NEW t \in Slot, NEW f \in Engine, Visited(t)', t \in Elements(free[f])
        PROVE  warm'[t] /\ holder[t] # Reaper
    <3>1. Visited(t)
      BY <1>2, <2>1 DEF Visited
    <3>. QED BY <1>3, <2>1, <3>1 DEF CalmOK, BackOK
  <2>. QED BY <1>1, <2>1 DEF BackOK, Elements, First
<1>6. ReaperOK'
  BY <1>1 DEF CalmOK, ReaperOK, Elements, First
<1>. QED BY <1>4, <1>5, <1>6 DEF CalmOK

LEMMA CallerCalm ==
  ASSUME PInv, GroupsOK, Calm, CalmOK, NEW c \in Caller, CallerStep(c)
  PROVE  CalmOK'
<1>0. CallersOK
  BY DEF PInv
<1>1. ASSUME NEW e \in Engine \cup {NoEngine}, at[c].pc \notin AtSlot, Enters(c, e),
             UNCHANGED <<cap, warm, reaper>>
      PROVE  CalmOK'
  <2>1. CASE e = NoEngine
    <3>. DEFINE r == [Outside EXCEPT !.pc = "reserved"]
    <3>1. /\ r.pc \notin AtSlot /\ r.slot = NoSlot /\ r.engine \in Engine \cup {NoEngine}
          /\ r.pc # "closing"
      BY DEF Outside, AtSlot
    <3>2. at' = [at EXCEPT ![c] = r] /\ UNCHANGED <<cap, groups, warm, locks, reaper>>
      BY <1>1, <2>1 DEF Enters
    <3>. HIDE DEF r
    <3>. QED BY <1>0, <1>1, <3>1, <3>2, GroupsAway
  <2>2. CASE e # NoEngine
    BY <1>0, <1>1, <2>2, TakeSlotCalm DEF Enters
  <2>. QED BY <2>1, <2>2
<1>2. ASSUME NEW e \in Engine \cup {NoEngine}, Acquire(c, e) PROVE CalmOK'
  <2>0. at[c].pc \notin AtSlot
    BY <1>2 DEF Acquire, AtSlot
  <2>1. CASE Enters(c, e)
    BY <1>1, <1>2, <2>0, <2>1 DEF Acquire
  <2>2. CASE at' = [at EXCEPT ![c] = [Outside EXCEPT !.pc = "waiting", !.engine = e]]
             /\ UNCHANGED <<groups, locks>>
    <3>. DEFINE r == [Outside EXCEPT !.pc = "waiting", !.engine = e]
    <3>1. /\ r.pc \notin AtSlot /\ r.slot = NoSlot /\ r.engine \in Engine \cup {NoEngine}
          /\ r.pc # "closing"
      BY DEF Outside, AtSlot
    <3>2. at' = [at EXCEPT ![c] = r] /\ UNCHANGED <<cap, groups, warm, locks, reaper>>
      BY <1>2, <2>2 DEF Acquire
    <3>. HIDE DEF r
    <3>. QED BY <1>0, <2>0, <3>1, <3>2, GroupsAway
  <2>. QED BY <1>2, <2>1, <2>2 DEF Acquire
<1>3. CASE Admit(c)
  <2>1. c \in admitted /\ Enters(c, at[c].engine) /\ UNCHANGED <<cap, warm, reaper>>
    BY <1>3 DEF Admit, RunWoken
  <2>2. at[c].pc \notin AtSlot /\ at[c].engine \in Engine \cup {NoEngine}
    BY <2>1 DEF PInv, WaitersOK, Waiting, AtSlot, GroupsOK, PlacesOK
  <2>. QED BY <1>1, <2>1, <2>2
<1>4. CASE LockSlot(c)
  BY <1>0, <1>4, LockSlotCalm
<1>5. CASE Start(c)
  BY <1>0, <1>5, StartCalm
<1>6. CASE Finish(c)
  BY <1>0, <1>6, FinishCalm
<1>7. ~(Raise(c) \/ Drop(c) \/ CancelDrop(c) \/ StartFails(c) \/ CancelQueued(c)
         \/ CancelWaiting(c) \/ Detach(c))
  BY DEF Calm, CalmOK, LocksOK, Raise, Drop, CancelDrop, StartFails, CancelQueued,
         CancelWaiting, Detach
<1>. QED BY <1>2, <1>3, <1>4, <1>5, <1>6, <1>7, Zenon DEF CallerStep

Found(hold, queue, hot) ==
  /\ hold = [s \in Slot |-> hold[s]] /\ queue = [s \in Slot |-> queue[s]]
  /\ hot = [s \in Slot |-> hot[s]] /\ \A s \in Slot : hot[s] => warm[s]
  /\ \A s \in Slot : queue[s] \in Seq(Caller \cup {Reaper})
  /\ \A c \in Caller :
       /\ at[c].pc = "queued" => c \in Elements(queue[at[c].slot])
       /\ at[c].pc \in {"starting", "using"} => hold[at[c].slot] = c
       /\ at[c].pc = "using" => hot[at[c].slot]
       /\ at[c].pc # "closing"
  /\ \A s \in Slot : Visited(s) /\ (\E f \in Engine : s \in Elements(free[f]))
                         => hot[s] /\ hold[s] # Reaper

(* The reaper runs on from where it found the locks, the lines of waiters  *)
(* and the processes as given: what held of them holds where it stops.     *)
LEMMA RunsOnKeeps ==
  ASSUME GroupsOK, Calm, ~Unreaped, NEW e \in Engine, NEW todo \in Seq(Slot),
         NEW hold, NEW queue, NEW hot, Found(hold, queue, hot),
         RunsOn(e, todo, hold, queue, hot), UNCHANGED <<cap, at, spec>>
  PROVE  GroupsOK' /\ CalmOK'
<1>0. /\ hold = [s \in Slot |-> hold[s]] /\ queue = [s \in Slot |-> queue[s]]
      /\ hot = [s \in Slot |-> hot[s]] /\ \A s \in Slot : hot[s] => warm[s]
      /\ \A s \in Slot : queue[s] \in Seq(Caller \cup {Reaper})
      /\ \A c \in Caller :
           /\ at[c].pc = "queued" => c \in Elements(queue[at[c].slot])
           /\ at[c].pc \in {"starting", "using"} => hold[at[c].slot] = c
           /\ at[c].pc = "using" => hot[at[c].slot]
           /\ at[c].pc # "closing"
      /\ \A s \in Slot : Visited(s) /\ (\E f \in Engine : s \in Elements(free[f]))
                             => hot[s] /\ hold[s] # Reaper
  BY DEF Found
<1>. USE <1>0
<1>1. \A f \in Engine : Listed(f, slots[f], free[f], spec)
  BY DEF GroupsOK, ListsOK
<1>2. \A s \in Slot : Visited(s)' = Visited(s)
  BY DEF Visited
<1>3. Reaper # Nobody /\ \A c \in Caller : c # Nobody /\ c # Reaper
  BY PoolAssumption
<1>4. warm' = hot /\ PlacesOK'
  BY DEF RunsOn, GroupsOK, PlacesOK
<1>5. ASSUME NEW k \in 1 .. Len(todo), NEW s, s = todo[k],
             hold[s] = Nobody, hot[s] \/ queue[s] # <<>>,
             reaper' = [pc |-> IF queue[s] = <<>> THEN "closing" ELSE "queued",
                        engine |-> e, todo |-> SubSeq(todo, k, Len(todo))],
             holder' = IF queue[s] = <<>> THEN [hold EXCEPT ![s] = Reaper] ELSE hold,
             lockq' = IF queue[s] = <<>> THEN queue ELSE [queue EXCEPT ![s] = Append(@, Reaper)],
             UNCHANGED <<slots, free, status>>
      PROVE  GroupsOK' /\ CalmOK'
  <2>1. s \in Slot
    BY <1>5
  <2>2. /\ reaper'.todo \in Seq(Slot) /\ reaper'.todo # <<>> /\ Head(reaper'.todo) = s
        /\ reaper'.engine = e
        /\ reaper'.pc = "closing" => queue[s] = <<>>
        /\ reaper'.pc # "closing" => queue[s] # <<>>
    <3>. DEFINE rest == SubSeq(todo, k, Len(todo))
    <3>1. k \in Int /\ Len(todo) \in Int /\ \A i \in k .. Len(todo) : todo[i] \in Slot
      OBVIOUS
    <3>2. /\ rest \in Seq(Slot)
          /\ Len(rest) = IF k <= Len(todo) THEN Len(todo) - k + 1 ELSE 0
          /\ \A i \in 1 .. Len(todo) - k + 1 : rest[i] = todo[k + i - 1]
      BY <3>1, SubSeqProperties
    <3>. HIDE DEF rest
    <3>3. rest # <<>> /\ rest[1] = s
      <4>1. k <= Len(todo) /\ 1 \in 1 .. Len(todo) - k + 1 /\ k + 1 - 1 = k
        BY <3>1
      <4>2. rest[1] = todo[k + 1 - 1] /\ Len(rest) = Len(todo) - k + 1
        BY <3>2, <4>1
      <4>. QED BY <1>5, <3>1, <3>2, <4>1, <4>2
    <3>4. Head(rest) = s
      BY <3>2, <3>3, HeadTailProperties
    <3>5. /\ reaper'.todo = rest /\ reaper'.engine = e
          /\ reaper'.pc = IF queue[s] = <<>> THEN "closing" ELSE "queued"
      BY <1>5 DEF rest
    <3>. QED BY <3>2, <3>3, <3>4, <3>5 DEF rest
  <2>3. /\ \A t \in Slot : lockq'[t] \in Seq(Caller \cup {Reaper})
        /\ \A t \in Slot : Elements(queue[t]) \subseteq Elements(lockq'[t])
    <3>1. /\ Append(queue[s], Reaper) \in Seq(Caller \cup {Reaper})
          /\ Elements(queue[s]) \subseteq Elements(Append(queue[s], Reaper))
      <4>1. queue[s] \in Seq(Caller \cup {Reaper}) /\ Reaper \in Caller \cup {Reaper}
        BY <2>1
      <4>. QED BY <4>1, AppendHas
    <3>2. \A t \in Slot : lockq'[t] = queue[t] \/ (t = s /\ lockq'[t] = Append(queue[s], Reaper))
      BY <1>5, <2>1
    <3>. QED BY <3>1, <3>2
  <2>4. \A t \in Slot : holder'[t] = hold[t] \/ (t = s /\ holder'[t] = Reaper /\ queue[s] = <<>>)
    BY <1>5, <2>1
  <2>5. queue[s] = <<>> => ~Visited(s)
    <3>1. SUFFICES ASSUME NEW c \in Caller, at[c].slot = s, queue[s] = <<>> PROVE FALSE
      BY DEF Visited
    <3>2. at[c].pc \in AtSlot
      BY <2>1, <3>1, PoolAssumption DEF GroupsOK, PlacesOK
    <3>3. c \notin Elements(queue[s])
      BY <3>1 DEF Elements, First
    <3>. QED BY <1>3, <1>5, <3>1, <3>2, <3>3 DEF AtSlot
  <2>6. ShapesOK'
    <3>1. warm' = [t \in Slot |-> warm'[t]]
      BY <1>4
    <3>2. holder' = [t \in Slot |-> holder'[t]] /\ lockq' = [t \in Slot |-> lockq'[t]]
      BY <1>5
    <3>. QED BY <1>5, <3>1, <3>2 DEF GroupsOK, ShapesOK
  <2>7. ListsOK'
    BY <1>1, <1>5 DEF ListsOK
  <2>8. CountedOK'
    <3>1. \A t \in Slot : Counted(t)' => Counted(t)
      BY <1>2, <1>4, <1>5 DEF Counted, Visited
    <3>. QED BY <1>5, <3>1 DEF GroupsOK, CountedOK, Elements, First
  <2>9. FaultsOK'
    BY <1>5 DEF GroupsOK, FaultsOK
  <2>10. LocksOK'
    <3>1. ASSUME NEW c \in Caller
          PROVE  /\ at[c].pc = "queued" => c \in Elements(lockq'[at[c].slot])
                 /\ at[c].pc \in {"starting", "using"} => holder'[at[c].slot] = c
                 /\ at[c].pc = "using" => warm'[at[c].slot]
                 /\ at[c].pc # "closing"
      <4>1. at[c].pc \in AtSlot => at[c].slot \in Slot
        BY DEF GroupsOK, PlacesOK
      <4>2. at[c].pc = "queued" => c \in Elements(lockq'[at[c].slot])
        BY <2>3, <4>1 DEF AtSlot
      <4>3. at[c].pc \in {"starting", "using"} => holder'[at[c].slot] = c
        BY <1>3, <1>5, <2>4, <4>1 DEF AtSlot
      <4>. QED BY <1>4, <4>2, <4>3
    <3>. QED BY <2>3, <3>1 DEF LocksOK, Elements, First
  <2>11. BackOK'
    <3>1. ASSUME NEW t \in Slot, NEW f \in Engine, Visited(t)', t \in Elements(free'[f])
          PROVE  warm'[t] /\ holder'[t] # Reaper
      <4>0. t \in Elements(free[f])
        BY <1>5, <3>1
      <4>1. Visited(t)
        BY <1>2, <3>1
      <4>2. hot[t] /\ hold[t] # Reaper
        BY <4>0, <4>1
      <4>3. holder'[t] = hold[t]
        BY <2>4, <2>5, <4>1
      <4>4. warm'[t] /\ holder'[t] # Reaper
        <5>1. warm'[t] = hot[t]
          BY <1>4
        <5>. QED BY <4>2, <4>3, <5>1, Zenon
      <4>. QED BY <4>4
    <3>. QED BY <3>1 DEF BackOK, Elements, First
  <2>12. ReaperOK'
    <3>1. reaper'.pc = "closing" => holder'[s] = Reaper
      BY <1>5, <2>1, <2>2
    <3>2. reaper'.pc # "closing" => Reaper \in Elements(lockq'[s])
      <4>1. queue[s] \in Seq(Caller \cup {Reaper}) /\ Reaper \in Caller \cup {Reaper}
        BY <2>1
      <4>2. Reaper \in Elements(Append(queue[s], Reaper))
        BY <4>1, AppendHas
      <4>. QED BY <1>5, <2>1, <2>2, <4>2
    <3>. QED BY <2>2, <3>1, <3>2 DEF ReaperOK, Elements, First
  <2>. QED BY <1>4, <2>6, <2>7, <2>8, <2>9, <2>10, <2>11, <2>12 DEF GroupsOK, CalmOK
<1>6. ASSUME reaper' = Resting, holder' = hold, lockq' = queue, DropCold(e, hold, hot)
      PROVE  GroupsOK' /\ CalmOK'
  <2>. DEFINE active == {s \in Slot : hot[s] \/ hold[s] # Nobody}
              stay == active \cup (Slot \ Range(free[e]))
              kept == Only(slots[e], stay)
              back == IF kept = <<>> THEN <<>> ELSE Only(free[e], active)
  <2>1. /\ slots' = [slots EXCEPT ![e] = kept] /\ free' = [free EXCEPT ![e] = back]
        /\ status' = [s \in Slot |-> IF kept = <<>> /\ spec[s] = e /\ status[s] = "group"
                                     THEN "forgotten" ELSE status[s]]
    BY <1>6 DEF DropCold, Forgets
  <2>2. /\ kept \in Seq(Slot) /\ Apart(kept) /\ Elements(kept) = Elements(slots[e]) \cap stay
        /\ Len(kept) <= Len(slots[e])
    <3>1. slots[e] \in Seq(Slot) /\ Apart(slots[e])
      BY <1>1 DEF Listed
    <3>. QED BY <3>1, OnlyKeeps
  <2>3. /\ Only(free[e], active) \in Seq(Slot) /\ Apart(Only(free[e], active))
        /\ Elements(Only(free[e], active)) = Elements(free[e]) \cap active
    <3>1. free[e] \in Seq(Slot) /\ Apart(free[e])
      BY <1>1 DEF Listed
    <3>. QED BY <3>1, OnlyKeeps
  <2>4. Range(free[e]) = Elements(free[e])
    BY <1>1, RangeIs DEF Listed
  <2>5. active \subseteq stay
    OBVIOUS
  <2>6. \A t \in Slot : hot[t] => t \in active
    OBVIOUS
  <2>7. \A t \in Slot : t \in stay <=> t \in active \/ t \notin Elements(free[e])
    BY <2>4
  <2>. HIDE DEF active, stay, kept
  <2>8. /\ back \in Seq(Slot) /\ Apart(back) /\ Elements(back) \subseteq Elements(kept)
        /\ Elements(back) \subseteq Elements(free[e])
    <3>1. <<>> \in Seq(Slot) /\ Apart(<<>>) /\ Elements(<<>>) = {}
      BY DEF Apart, Elements, First
    <3>2. Elements(free[e]) \subseteq Elements(slots[e])
      BY <1>1 DEF Listed
    <3>3. Elements(Only(free[e], active)) \subseteq Elements(kept)
      BY <2>2, <2>3, <2>5, <3>2
    <3>. QED BY <2>3, <3>1, <3>3
  <2>. HIDE DEF back
  <2>9. Listed(e, kept, back, spec)
    <3>1. Listed(e, slots[e], free[e], spec)
      BY <1>1
    <3>2. Instances[e] > 0 => Len(kept) <= Instances[e]
      <4>1. Len(kept) \in Nat /\ Len(slots[e]) \in Nat /\ Instances[e] \in Nat
        BY <2>2, <3>1, PoolAssumption DEF Listed
      <4>. QED BY <2>2, <3>1, <4>1 DEF Listed
    <3>. QED BY <2>2, <2>8, <3>1, <3>2 DEF Listed
  <2>10. /\ slots'[e] = kept /\ free'[e] = back
         /\ \A f \in Engine : f # e => slots'[f] = slots[f] /\ free'[f] = free[f]
         /\ \A t \in Slot : status'[t] = status[t] \/ status'[t] = "forgotten"
    BY <2>1 DEF GroupsOK, ShapesOK
  <2>11. ShapesOK'
    <3>1. warm' = [t \in Slot |-> warm'[t]]
      BY <1>4
    <3>. QED BY <1>6, <2>1, <3>1 DEF GroupsOK, ShapesOK
  <2>12. ListsOK'
    BY <1>1, <2>9, <2>10 DEF ListsOK
  <2>13. CountedOK'
    <3>1. ASSUME NEW t \in Slot, Counted(t)'
          PROVE  spec[t] \in Engine /\ t \in Elements(slots'[spec[t]])
      <4>1. hot[t] \/ Visited(t)
        BY <1>2, <1>4, <3>1 DEF Counted, Visited
      <4>2. status[t] # "given"
        BY DEF GroupsOK, FaultsOK, Calm
      <4>3. spec[t] \in Engine /\ t \in Elements(slots[spec[t]])
        BY <4>1, <4>2 DEF GroupsOK, CountedOK, Counted
      <4>4. CASE spec[t] = e
        <5>1. t \in stay
          BY <2>6, <2>7, <4>1
        <5>. QED BY <2>2, <2>10, <4>3, <4>4, <5>1
      <4>5. CASE spec[t] # e
        BY <2>10, <4>3, <4>5
      <4>. QED BY <4>4, <4>5
    <3>. QED BY <3>1 DEF CountedOK, Elements, First
  <2>14. FaultsOK'
    BY <2>10 DEF GroupsOK, FaultsOK
  <2>15. LocksOK'
    BY <1>4, <1>6 DEF LocksOK, Elements, First
  <2>16. BackOK'
    <3>1. ASSUME NEW t \in Slot, NEW f \in Engine, Visited(t)', t \in Elements(free'[f])
          PROVE  warm'[t] /\ holder'[t] # Reaper
      <4>1. t \in Elements(free[f])
        BY <2>8, <2>10, <3>1
      <4>. QED BY <1>2, <1>4, <1>6, <3>1, <4>1
    <3>. QED BY <3>1 DEF BackOK, Elements, First
  <2>17. ReaperOK'
    BY <1>6 DEF ReaperOK, Resting
  <2>. QED BY <1>4, <2>11, <2>12, <2>13, <2>14, <2>15, <2>16, <2>17 DEF GroupsOK, CalmOK
<1>. QED BY <1>5, <1>6, Zenon DEF RunsOn

LEMMA ReapKeeps ==
  ASSUME GroupsOK, Calm, CalmOK, NEW e \in Engine, Reap(e)
  PROVE  GroupsOK' /\ CalmOK'
<1>1. /\ ~Unreaped /\ RunsOn(e, free[e], holder, lockq, warm)
      /\ UNCHANGED <<cap, at, spec>>
  BY DEF Reap, Unreaped
<1>2. free[e] \in Seq(Slot)
  BY DEF GroupsOK, ListsOK, Listed
<1>3. /\ holder = [s \in Slot |-> holder[s]] /\ lockq = [s \in Slot |-> lockq[s]]
      /\ warm = [s \in Slot |-> warm[s]]
  BY DEF GroupsOK, ShapesOK
<1>4. /\ \A s \in Slot : lockq[s] \in Seq(Caller \cup {Reaper})
      /\ \A c \in Caller :
           /\ at[c].pc = "queued" => c \in Elements(lockq[at[c].slot])
           /\ at[c].pc \in {"starting", "using"} => holder[at[c].slot] = c
           /\ at[c].pc = "using" => warm[at[c].slot]
           /\ at[c].pc # "closing"
  BY DEF CalmOK, LocksOK
<1>5. \A s \in Slot : Visited(s) /\ (\E f \in Engine : s \in Elements(free[f]))
                        => warm[s] /\ holder[s] # Reaper
  BY DEF CalmOK, BackOK
<1>6. Found(holder, lockq, warm)
  BY <1>3, <1>4, <1>5 DEF Found
<1>. QED BY <1>1, <1>2, <1>6, RunsOnKeeps

LEMMA ReapedKeeps ==
  ASSUME GroupsOK, Calm, CalmOK, Reaped
  PROVE  GroupsOK' /\ CalmOK'
<1>. DEFINE s == Head(reaper.todo)
            e == reaper.engine
            hold == [holder EXCEPT ![s] = Nobody]
            hot == [warm EXCEPT ![s] = FALSE]
<1>1. /\ reaper.pc = "closing" /\ RunsOn(e, Tail(reaper.todo), hold, lockq, hot)
      /\ UNCHANGED <<cap, at, spec>>
  BY DEF Reaped
<1>2. /\ ~Unreaped /\ e \in Engine /\ s \in Slot /\ holder[s] = Reaper
      /\ Tail(reaper.todo) \in Seq(Slot)
  BY <1>1, TailHas DEF GroupsOK, FaultsOK, CalmOK, ReaperOK
<1>3. /\ hold = [t \in Slot |-> hold[t]] /\ lockq = [t \in Slot |-> lockq[t]]
      /\ hot = [t \in Slot |-> hot[t]]
      /\ hold[s] = Nobody /\ ~hot[s]
      /\ \A t \in Slot : t # s => hold[t] = holder[t] /\ hot[t] = warm[t]
  BY <1>2 DEF GroupsOK, ShapesOK
<1>. HIDE DEF s, e, hold, hot
<1>4. \A t \in Slot : hot[t] => warm[t]
  BY <1>3
<1>5. ASSUME NEW t \in Slot, Visited(t), \E f \in Engine : t \in Elements(free[f])
      PROVE  hot[t] /\ hold[t] # Reaper
  <2>1. warm[t] /\ holder[t] # Reaper
    BY <1>5 DEF CalmOK, BackOK
  <2>2. t # s
    BY <1>2, <2>1
  <2>. QED BY <1>3, <2>1, <2>2
<1>6. ASSUME NEW c \in Caller
      PROVE  /\ at[c].pc = "queued" => c \in Elements(lockq[at[c].slot])
             /\ at[c].pc \in {"starting", "using"} => hold[at[c].slot] = c
             /\ at[c].pc = "using" => hot[at[c].slot]
             /\ at[c].pc # "closing"
  <2>1. /\ at[c].pc = "queued" => c \in Elements(lockq[at[c].slot])
        /\ at[c].pc \in {"starting", "using"} => holder[at[c].slot] = c
        /\ at[c].pc = "using" => warm[at[c].slot]
        /\ at[c].pc # "closing"
    BY DEF CalmOK, LocksOK
  <2>2. at[c].pc \in AtSlot => at[c].slot \in Slot
    BY DEF GroupsOK, PlacesOK
  <2>3. at[c].pc \in {"starting", "using"} => at[c].slot \in Slot /\ at[c].slot # s
    BY <1>2, <2>1, <2>2, PoolAssumption DEF AtSlot
  <2>. QED BY <1>3, <2>1, <2>3
<1>7. \A t \in Slot : lockq[t] \in Seq(Caller \cup {Reaper})
  BY DEF CalmOK, LocksOK
<1>8. Found(hold, lockq, hot)
  BY <1>3, <1>4, <1>5, <1>6, <1>7 DEF Found
<1>. QED BY <1>1, <1>2, <1>8, RunsOnKeeps

LEMMA ReaperLocksKeeps ==
  ASSUME GroupsOK, Calm, CalmOK, ReaperLocks
  PROVE  GroupsOK' /\ CalmOK'
<1>. DEFINE s == Head(reaper.todo)
            e == reaper.engine
            queue == [lockq EXCEPT ![s] = Tail(@)]
<1>1. /\ reaper.pc = "queued" /\ holder[s] = Nobody /\ Head(lockq[s]) = Reaper
      /\ RunsOn(e, Tail(reaper.todo), holder, queue, warm)
      /\ UNCHANGED <<cap, at, spec>>
  BY DEF ReaperLocks
<1>2. /\ ~Unreaped /\ e \in Engine /\ s \in Slot /\ Tail(reaper.todo) \in Seq(Slot)
  BY <1>1, TailHas DEF GroupsOK, FaultsOK, CalmOK, ReaperOK
<1>3. /\ queue = [t \in Slot |-> queue[t]] /\ holder = [t \in Slot |-> holder[t]]
      /\ warm = [t \in Slot |-> warm[t]]
      /\ queue[s] = Tail(lockq[s]) /\ \A t \in Slot : t # s => queue[t] = lockq[t]
  BY <1>2 DEF GroupsOK, ShapesOK
<1>. HIDE DEF s, e, queue
<1>4. /\ \A t \in Slot : queue[t] \in Seq(Caller \cup {Reaper})
      /\ \A t \in Slot, c \in Caller : c \in Elements(lockq[t]) => c \in Elements(queue[t])
  <2>1. \A t \in Slot : lockq[t] \in Seq(Caller \cup {Reaper})
    BY DEF CalmOK, LocksOK
  <2>2. lockq[s] # <<>>
    BY <1>1 DEF CalmOK, ReaperOK, Elements, First, s
  <2>3. /\ Tail(lockq[s]) \in Seq(Caller \cup {Reaper})
        /\ \A x \in Elements(lockq[s]) : x = Reaper \/ x \in Elements(Tail(lockq[s]))
    BY <1>1, <1>2, <2>1, <2>2, TailHas
  <2>. QED BY <1>3, <2>1, <2>3, PoolAssumption
<1>5. ASSUME NEW c \in Caller
      PROVE  /\ at[c].pc = "queued" => c \in Elements(queue[at[c].slot])
             /\ at[c].pc \in {"starting", "using"} => holder[at[c].slot] = c
             /\ at[c].pc = "using" => warm[at[c].slot]
             /\ at[c].pc # "closing"
  <2>1. /\ at[c].pc = "queued" => c \in Elements(lockq[at[c].slot])
        /\ at[c].pc \in {"starting", "using"} => holder[at[c].slot] = c
        /\ at[c].pc = "using" => warm[at[c].slot]
        /\ at[c].pc # "closing"
    BY DEF CalmOK, LocksOK
  <2>2. at[c].pc \in AtSlot => at[c].slot \in Slot
    BY DEF GroupsOK, PlacesOK
  <2>. QED BY <1>4, <2>1, <2>2 DEF AtSlot
<1>6. \A t \in Slot : Visited(t) /\ (\E f \in Engine : t \in Elements(free[f]))
                        => warm[t] /\ holder[t] # Reaper
  BY DEF CalmOK, BackOK
<1>7. Found(holder, queue, warm)
  BY <1>3, <1>4, <1>5, <1>6 DEF Found
<1>. QED BY <1>1, <1>2, <1>7, RunsOnKeeps

(* Where nothing is reaped, or nothing is raised, cancelled and given away.*)
LEMMA GInvNext ==
  ASSUME Calm \/ Unreaped, GInv, [Next]_vars
  PROVE  GInv'
<1>0. PInv /\ GroupsOK /\ (Calm => CalmOK)
  BY DEF GInv
<1>1. PInv'
  BY <1>0, PInvNext
<1>2. ASSUME NEW c \in Caller, CallerStep(c) PROVE GroupsOK' /\ (Calm => CalmOK')
  BY <1>0, <1>2, CallerGroups, CallerCalm
<1>3. ASSUME (\E n \in 1 .. MaxCap : Resize(n)) \/ Withdraw \/ WithdrawWoken \/ UNCHANGED vars
      PROVE  GroupsOK' /\ (Calm => CalmOK')
  <2>1. UNCHANGED <<at, groups, warm, locks, reaper>> /\ cap' \in 1 .. MaxCap
    BY <1>0, <1>3 DEF GroupsOK, ShapesOK, Resize, Withdraw, WithdrawWoken, vars
  <2>. QED BY <1>0, <2>1, GroupsStay, SMTT(30)
<1>4. ASSUME (\E e \in Engine : Reap(e)) \/ Reaped \/ ReaperLocks
      PROVE  GroupsOK' /\ (Calm => CalmOK')
  <2>1. ~Unreaped
    BY <1>0, <1>4 DEF GroupsOK, FaultsOK, Unreaped, Reap, Reaped, ReaperLocks
  <2>2. Calm /\ CalmOK
    BY <1>0, <2>1
  <2>. QED BY <1>0, <1>4, <2>2, ReapKeeps, ReapedKeeps, ReaperLocksKeeps
<1>5. GroupsOK' /\ (Calm => CalmOK')
  BY <1>2, <1>3, <1>4, Zenon DEF Next
<1>. QED BY <1>1, <1>5 DEF GInv, Calm

LEMMA GInvBounds == GInv => InstancesHold
<1>. SUFFICES ASSUME GInv, NEW e \in Engine, Instances[e] > 0
              PROVE  Cardinality(Processes(e)) <= Instances[e]
  BY DEF InstancesHold
<1>1. Listed(e, slots[e], free[e], spec)
  BY DEF GInv, GroupsOK, ListsOK
<1>2. Processes(e) \subseteq Elements(slots[e])
  <2>1. ASSUME NEW s \in Processes(e) PROVE s \in Elements(slots[e])
    <3>1. s \in Slot /\ spec[s] = e /\ Counted(s)
      BY DEF Processes, Counted, Visited
    <3>. QED BY <3>1 DEF GInv, GroupsOK, CountedOK
  <2>. QED BY <2>1
<1>3. /\ IsFiniteSet(Elements(slots[e])) /\ Cardinality(Elements(slots[e])) = Len(slots[e])
      /\ Len(slots[e]) \in Nat
  <2>1. slots[e] \in Seq(Slot) /\ Apart(slots[e]) /\ Len(slots[e]) \in 0 .. Len(slots[e])
    BY <1>1 DEF Listed
  <2>. QED BY <2>1, CutOff DEF Elements
<1>4. Cardinality(Processes(e)) <= Len(slots[e]) /\ Cardinality(Processes(e)) \in Nat
  BY <1>2, <1>3, FS_Subset, FS_CardinalityType
<1>5. Len(slots[e]) <= Instances[e] /\ Instances[e] \in Nat
  BY <1>1, PoolAssumption DEF Listed
<1>. QED BY <1>3, <1>4, <1>5

LEMMA GInvKeeps == GInv /\ "detach" \notin Faults => EveryProcessIsKept
<1>. SUFFICES ASSUME GInv, "detach" \notin Faults, NEW s \in Slot, warm[s]
              PROVE  s \in Range(slots[spec[s]])
  BY DEF EveryProcessIsKept
<1>1. Counted(s)
  BY DEF Counted, GInv, GroupsOK, FaultsOK
<1>2. spec[s] \in Engine /\ s \in Elements(slots[spec[s]])
  BY <1>1 DEF GInv, GroupsOK, CountedOK
<1>3. Range(slots[spec[s]]) = Elements(slots[spec[s]])
  BY <1>2, RangeIs DEF GInv, GroupsOK, ListsOK, Listed
<1>. QED BY <1>2, <1>3

(* An engine that allows itself so many processes (its `instances`) never  *)
(* has more, warm, starting or being closed (adapters/pool.py: _take,      *)
(* limit), however callers fail, are cancelled or take theirs away and the *)
(* cap moves; or, where none of the three happens, however the reaper      *)
(* closes and forgets what rests.  Reaping and failing together break it:  *)
(* see pool_drop_cold.                                                     *)
THEOREM ProcessesAreBounded ==
  ASSUME Calm \/ Unreaped
  PROVE  Spec => []InstancesHold
<1>1. GInv /\ [Next]_vars => GInv'
  BY GInvNext
<1>. QED BY <1>1, GInvInit, GInvBounds, PTL DEF Spec

(* A process nobody drives is in its engine's group, where the reaper and  *)
(* close() find it (adapters/pool.py: drop_cold, reap_idle), unless        *)
(* processes are given away, or slots are reaped while callers fail.       *)
THEOREM ProcessesAreKept ==
  ASSUME Calm \/ Unreaped, "detach" \notin Faults
  PROVE  Spec => []EveryProcessIsKept
<1>1. GInv /\ [Next]_vars => GInv'
  BY GInvNext
<1>2. GInv => EveryProcessIsKept
  BY GInvKeeps
<1>. QED BY <1>1, <1>2, GInvInit, PTL DEF Spec
=============================================================================
