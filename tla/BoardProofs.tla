----------------------------- MODULE BoardProofs -----------------------------
(***************************************************************************)
(* What BoardSession.tla promises, for any number of boards, windows,      *)
(* positions and room: the broker's books (services/streams.py), and that  *)
(* the page and the server never lose sight of each other's board          *)
(* (lib/analysis/useStreamSession.ts).                                     *)
(***************************************************************************)
EXTENDS BoardSession, FiniteSetTheorems, SequenceTheorems, TLAPS

Places == Fens \cup {None}
Sessions == [at : {"unborn", "open", "ended"}, by : {"nobody", "page", "rival"},
             surface : {"none", "game", "live"}, fen : Places]
Posts == [ask : {"open"}, by : {"page", "rival"}, gen : Nat, surface : {"game", "live"},
          fen : Places]
Calls == Posts \cup [ask : {"close", "list"}, id : Ids]
               \cup [ask : {"patch"}, id : Ids, fen : Places, epoch : Nat]
Frames == [say : {"ended"}, id : Ids, reason : {"replaced", "closed", "engine_failed", "idle"}]
            \cup [say : {"snapshot"}, id : Ids, fen : Places, of : Places]

AnswerTyped(a) ==
  /\ a.to \in {"open", "patch", "list"} /\ a.id \in Ids \cup {0}
  /\ a.to = "open" => a.gen \in Nat /\ a.fen \in Places /\ a.ok \in BOOLEAN /\ (a.ok <=> a.id # 0)
  /\ a.to = "patch" => a.epoch \in Nat /\ a.fen \in Places /\ a.id # 0
  /\ a.to = "list" => a.id # 0

BrokerTyped ==
  /\ sess \in [Ids -> Sessions]
  /\ opening \in [Ids -> Posts \cup {Nothing}]
  /\ lock \in [ends : Ids \cup {0},
               reason : {"none", "replaced", "closed", "engine_failed", "idle"},
               then : Posts \cup {Nothing}]
  /\ search \in [Ids -> {"none", "starting", "running", "over"}]
  /\ searched \in [Ids -> Places] /\ picture \in [Ids -> Places]
  /\ ends \subseteq Ids

WireTyped ==
  /\ calls \in Seq(Calls) /\ feed \in Seq(Frames) /\ listening \in BOOLEAN
  /\ \A a \in answers : AnswerTyped(a)

PageTyped ==
  /\ fen \in Places /\ serverFen \in Places /\ sentFen \in Places
  /\ idRef \in Ids \cup {0} /\ timer \in Ids \cup {0}
  /\ gen \in Nat /\ epoch \in Nat /\ alive \in {0, gen} /\ enabled \in BOOLEAN
  /\ alive # 0 => enabled
  /\ idRef # 0 => enabled

Typed == BrokerTyped /\ WireTyped /\ PageTyped

-----------------------------------------------------------------------------
(* Ids are given in order, so one that is given has not been.              *)

InOrder == \A s \in Ids, t \in Ids : s \in Born /\ t < s => t \in Born

LEMMA IdsAreNumbers ==
  ASSUME PageAssumption
  PROVE  Ids \subseteq Nat \ {0} /\ IsFiniteSet(Ids) /\ \A s \in Ids, t \in Nat \ {0} : t < s => t \in Ids
<1>1. MaxOpens + MaxRivals \in Nat
  BY DEF PageAssumption, BrokerAssumption
<1>2. Ids \subseteq Nat \ {0} /\ \A s \in Ids, t \in Nat \ {0} : t < s => t \in Ids
  BY <1>1 DEF Ids
<1>3. IsFiniteSet(Ids)
  BY <1>1, FS_Interval DEF Ids
<1>. QED BY <1>2, <1>3

\* The sessions born are those up to some id, and the next id is no one's.
LEMMA NextIsFresh ==
  ASSUME PageAssumption, InOrder
  PROVE  /\ Cardinality(Born) \in Nat
         /\ \A s \in Ids : s \in Born <=> s <= Cardinality(Born)
<1>. DEFINE n == Cardinality(Born)
<1>1. Born \subseteq Ids /\ IsFiniteSet(Born) /\ n \in Nat
  <2>1. Born \subseteq Ids
    BY DEF Born
  <2>. QED BY <2>1, IdsAreNumbers, FS_Subset, FS_CardinalityType
<1>2. ASSUME NEW s \in Ids, s \in Born PROVE s <= n
  <2>1. 1 .. s \subseteq Born
    BY <1>2, IdsAreNumbers DEF InOrder
  <2>2. Cardinality(1 .. s) = s
    <3>1. 1 \in Int /\ s \in Int /\ 1 <= s /\ s - 1 + 1 = s
      BY IdsAreNumbers
    <3>. QED BY <3>1, FS_Interval
  <2>3. Cardinality(1 .. s) <= n
    BY <1>1, <2>1, FS_Subset
  <2>. QED BY <2>2, <2>3
<1>3. ASSUME NEW s \in Ids, s \notin Born PROVE ~(s <= n)
  <2>1. Born \subseteq 1 .. (s - 1)
    <3>1. ASSUME NEW t \in Born PROVE t < s
      BY <1>1, <1>3, <3>1, IdsAreNumbers DEF InOrder
    <3>. QED BY <1>1, <3>1, IdsAreNumbers
  <2>2. IsFiniteSet(1 .. (s - 1)) /\ Cardinality(1 .. (s - 1)) = s - 1
    <3>1. 1 \in Int /\ s - 1 \in Int /\ s >= 1
      BY IdsAreNumbers
    <3>2. /\ IsFiniteSet(1 .. (s - 1))
          /\ Cardinality(1 .. (s - 1)) = IF 1 > s - 1 THEN 0 ELSE (s - 1) - 1 + 1
      BY <3>1, FS_Interval
    <3>. QED BY <3>1, <3>2, IdsAreNumbers
  <2>3. n <= s - 1
    BY <2>1, <2>2, FS_Subset
  <2>. QED BY <1>1, <2>3, IdsAreNumbers
<1>. QED BY <1>1, <1>2, <1>3

LEMMA NoIdNought == ASSUME PageAssumption PROVE 0 \notin Ids
BY IdsAreNumbers

LEMMA Shifted ==
  ASSUME NEW n \in Nat, NEW k \in 1 .. n, NEW m \in 1 .. (n - 1), ~(m < k)
  PROVE  ~(m <= k - 1) /\ m - (k - 1) \in 1 .. (n - k) /\ (m - (k - 1)) + k = m + 1
OBVIOUS

\* What is left of the calls when the k-th is taken.
LEMMA CallTaken ==
  ASSUME NEW S, NEW c \in Seq(S), NEW k \in DOMAIN c, NEW d,
         d = SubSeq(c, 1, k - 1) \o SubSeq(c, k + 1, Len(c))
  PROVE  /\ d \in Seq(S) /\ Len(d) = Len(c) - 1 /\ DOMAIN d = 1 .. (Len(c) - 1)
         /\ \A m \in DOMAIN d : d[m] = IF m < k THEN c[m] ELSE c[m + 1]
<1>1. k \in 1 .. Len(c) /\ Len(c) \in Nat
  OBVIOUS
<1>. DEFINE a == SubSeq(c, 1, k - 1)
            b == SubSeq(c, k + 1, Len(c))
<1>2. a \in Seq(S) /\ Len(a) = k - 1 /\ \A m \in 1 .. (k - 1) : a[m] = c[m]
  <2>1. 1 \in Int /\ k - 1 \in Int /\ \A m \in 1 .. (k - 1) : c[m] \in S
    BY <1>1
  <2>2. /\ a \in Seq(S) /\ Len(a) = IF 1 <= k - 1 THEN (k - 1) - 1 + 1 ELSE 0
        /\ \A m \in 1 .. (k - 1) - 1 + 1 : a[m] = c[1 + m - 1]
    BY <2>1, SubSeqProperties
  <2>. QED BY <1>1, <2>2
<1>3. b \in Seq(S) /\ Len(b) = Len(c) - k /\ \A m \in 1 .. (Len(c) - k) : b[m] = c[m + k]
  <2>1. k + 1 \in Int /\ Len(c) \in Int /\ \A m \in (k + 1) .. Len(c) : c[m] \in S
    BY <1>1
  <2>2. /\ b \in Seq(S) /\ Len(b) = IF k + 1 <= Len(c) THEN Len(c) - (k + 1) + 1 ELSE 0
        /\ \A m \in 1 .. Len(c) - (k + 1) + 1 : b[m] = c[(k + 1) + m - 1]
    BY <2>1, SubSeqProperties
  <2>3. Len(b) = Len(c) - k
    BY <1>1, <2>2
  <2>4. ASSUME NEW m \in 1 .. (Len(c) - k) PROVE b[m] = c[m + k]
    <3>1. m \in 1 .. Len(c) - (k + 1) + 1 /\ (k + 1) + m - 1 = m + k
      BY <1>1
    <3>. QED BY <2>2, <3>1
  <2>. QED BY <2>2, <2>3, <2>4
<1>4. d \in Seq(S) /\ Len(d) = Len(a) + Len(b)
  BY <1>2, <1>3, ConcatProperties
<1>5. \A m \in 1 .. (Len(a) + Len(b)) : d[m] = IF m <= Len(a) THEN a[m] ELSE b[m - Len(a)]
  BY <1>2, <1>3, ConcatProperties
<1>. HIDE DEF a, b
<1>6. Len(a) = k - 1 /\ Len(a) + Len(b) = Len(c) - 1
  BY <1>1, <1>2, <1>3
<1>7. \A m \in 1 .. (Len(c) - 1) : d[m] = IF m <= k - 1 THEN a[m] ELSE b[m - (k - 1)]
  <2>1. Len(a) = k - 1 /\ 1 .. (Len(a) + Len(b)) = 1 .. (Len(c) - 1)
    BY <1>6, Zenon
  <2>. HIDE <1>1
  <2>. QED BY <1>5, <2>1, Zenon
<1>8. \A m \in 1 .. (Len(c) - 1) : d[m] = IF m < k THEN c[m] ELSE c[m + 1]
  <2>. SUFFICES ASSUME NEW m, m \in 1 .. (Len(c) - 1)
                PROVE  d[m] = IF m < k THEN c[m] ELSE c[m + 1]
    OBVIOUS
  <2>. DEFINE n == Len(c)
  <2>1. n \in Nat /\ k \in 1 .. n /\ m \in 1 .. (n - 1)
    BY <1>1
  <2>2. d[m] = IF m <= k - 1 THEN a[m] ELSE b[m - (k - 1)]
    BY <1>7
  <2>3. \A i \in 1 .. (n - k) : b[i] = c[i + k]
    BY <1>3
  <2>. HIDE DEF n
  <2>4. CASE m < k
    <3>1. m \in 1 .. (k - 1) /\ m <= k - 1
      BY <2>1, <2>4
    <3>. QED BY <1>2, <2>2, <2>4, <3>1
  <2>5. CASE ~(m < k)
    <3>1. ~(m <= k - 1) /\ m - (k - 1) \in 1 .. (n - k) /\ (m - (k - 1)) + k = m + 1
      BY <2>1, <2>5, Shifted, Zenon
    <3>2. b[m - (k - 1)] = c[m + 1]
      BY <2>3, <3>1
    <3>. QED BY <2>2, <2>5, <3>1, <3>2
  <2>. QED BY <2>4, <2>5
<1>9. Len(d) = Len(c) - 1
  BY <1>4, <1>6
<1>10. DOMAIN d = 1 .. (Len(c) - 1)
  <2>1. DOMAIN d = 1 .. Len(d)
    BY <1>4
  <2>. QED BY <1>9, <2>1, Zenon
<1>11. \A m \in DOMAIN d : d[m] = IF m < k THEN c[m] ELSE c[m + 1]
  BY <1>8, <1>10
<1>. QED BY <1>4, <1>9, <1>10, <1>11, Zenon


-----------------------------------------------------------------------------
(* Types: the server.                                                      *)

LEMMA PostsAreRequests ==
  /\ \A post \in Posts : /\ post # Nothing /\ post.by \in {"page", "rival"} /\ post.gen \in Nat
                         /\ post.surface \in {"game", "live"} /\ post.fen \in Places
                         /\ post.ask = "open"
  /\ Nothing \notin Posts
BY DEF Posts, Nothing

LEMMA SessionFields ==
  \A r \in Sessions : /\ r.at \in {"unborn", "open", "ended"} /\ r.by \in {"nobody", "page", "rival"}
                      /\ r.surface \in {"none", "game", "live"} /\ r.fen \in Places
BY DEF Sessions

LEMMA SessionEdits ==
  ASSUME NEW f \in [Ids -> Sessions], NEW s \in Ids
  PROVE  /\ [f EXCEPT ![s].at = "ended"] \in [Ids -> Sessions]
         /\ \A g \in Places : [f EXCEPT ![s].fen = g] \in [Ids -> Sessions]
<1>1. /\ [f[s] EXCEPT !.at = "ended"] \in Sessions
      /\ \A g \in Places : [f[s] EXCEPT !.fen = g] \in Sessions
  <2>1. f[s] \in Sessions
    OBVIOUS
  <2>. QED BY <2>1 DEF Sessions
<1>2. \A r \in Sessions : [f EXCEPT ![s] = r] \in [Ids -> Sessions]
  OBVIOUS
<1>. QED BY <1>1, <1>2

LEMMA AnswersAreTyped ==
  ASSUME BrokerTyped, \A a \in answers : AnswerTyped(a), NEW post \in Posts, NEW ok \in BOOLEAN,
         NEW s \in Ids \cup {0}, ok <=> s # 0, 0 \notin Ids, Answers(post, ok, s)
  PROVE  \A a \in answers' : AnswerTyped(a)
<1>. DEFINE r == [to |-> "open", gen |-> post.gen, ok |-> ok, id |-> s,
                  fen |-> IF ok THEN sess[s].fen ELSE None]
<1>1. r.to = "open" /\ r.gen = post.gen /\ r.id = s /\ r.fen = IF ok THEN sess[s].fen ELSE None
  OBVIOUS
<1>2. r.ok = ok
  BY Zenon
<1>3. answers' = answers \/ answers' = answers \cup {r}
  BY Zenon DEF Answers
<1>. HIDE DEF r
<1>4. r.fen \in Places
  <2>1. CASE ok
    <3>1. s \in Ids
      BY <2>1
    <3>. QED BY <1>1, <2>1, <3>1, SessionFields DEF BrokerTyped
  <2>2. CASE ~ok
    BY <1>1, <2>2 DEF Places
  <2>. QED BY <2>1, <2>2
<1>5. r.gen \in Nat
  BY <1>1, PostsAreRequests
<1>6. r.ok \in BOOLEAN /\ (r.ok <=> r.id # 0)
  BY <1>1, <1>2, Zenon
<1>7. AnswerTyped(r)
  <2>1. r.to \in {"open", "patch", "list"} /\ r.id \in Ids \cup {0} /\ r.to # "patch" /\ r.to # "list"
    BY <1>1
  <2>. QED BY <1>4, <1>5, <1>6, <2>1, Zenon DEF AnswerTyped
<1>. QED BY <1>3, <1>7, Zenon

LEMMA FinishIsTyped ==
  ASSUME BrokerTyped, NEW s \in Ids, NEW reason \in {"replaced", "closed", "engine_failed", "idle"},
         NEW then \in Posts \cup {Nothing}, FinishBegins(s, reason, then)
  PROVE  BrokerTyped' /\ UNCHANGED <<answers, feed, listening>>
<1>1. /\ sess' = [sess EXCEPT ![s].at = "ended"] /\ lock' = [ends |-> s, reason |-> reason, then |-> then]
      /\ UNCHANGED <<opening, search, searched, picture, ends, answers, feed, listening>>
  BY DEF FinishBegins
<1>2. sess' \in [Ids -> Sessions]
  BY <1>1, SessionEdits DEF BrokerTyped
<1>3. lock' \in [ends : Ids \cup {0},
               reason : {"none", "replaced", "closed", "engine_failed", "idle"},
               then : Posts \cup {Nothing}]
  BY <1>1
<1>. QED BY <1>1, <1>2, <1>3 DEF BrokerTyped

LEMMA InsertIsTyped ==
  ASSUME PageAssumption, BrokerTyped, \A a \in answers : AnswerTyped(a), NEW post \in Posts,
         NEW searches \in [Ids -> {"none", "starting", "running", "over"}],
         Inserts(post, searches), lock' \in {lock, Unlocked}, picture' \in [Ids -> Places],
         ends' \subseteq Ids
  PROVE  BrokerTyped' /\ \A a \in answers' : AnswerTyped(a)
<1>1. lock' \in [ends : Ids \cup {0},
                 reason : {"none", "replaced", "closed", "engine_failed", "idle"},
                 then : Posts \cup {Nothing}]
  BY DEF BrokerTyped, Unlocked
<1>. DEFINE n == Cardinality(Born) + 1
            r == [at |-> "open", by |-> post.by, surface |-> post.surface, fen |-> post.fen]
<1>2. CASE Cardinality(Open) >= MaxSessions
  <2>1. Answers(post, FALSE, 0) /\ search' = searches /\ UNCHANGED <<sess, opening, searched>>
    BY <1>2 DEF Inserts
  <2>2. \A a \in answers' : AnswerTyped(a)
    BY <2>1, AnswersAreTyped, NoIdNought
  <2>. QED BY <1>1, <2>1, <2>2 DEF BrokerTyped
<1>3. CASE ~(Cardinality(Open) >= MaxSessions)
  <2>1. /\ sess' = [sess EXCEPT ![n] = r] /\ opening' = [opening EXCEPT ![n] = post]
        /\ search' = [searches EXCEPT ![n] = "starting"]
        /\ searched' = [searched EXCEPT ![n] = post.fen] /\ answers' = answers
    BY <1>3 DEF Inserts
  <2>2. r \in Sessions
    BY PostsAreRequests DEF Sessions
  <2>. HIDE DEF n, r
  <2>3. post.fen \in Places
    BY PostsAreRequests
  <2>. QED BY <1>1, <2>1, <2>2, <2>3 DEF BrokerTyped
<1>. QED BY <1>2, <1>3

LEMMA OpensIsTyped ==
  ASSUME PageAssumption, Typed, NEW post \in Posts, Opens(post)
  PROVE  BrokerTyped' /\ (\A a \in answers' : AnswerTyped(a)) /\ UNCHANGED <<feed, listening>>
<1>1. CASE On(post.surface) = {}
  <2>1. Inserts(post, search) /\ UNCHANGED <<lock, picture, ends, feed, listening>>
    BY <1>1 DEF Opens
  <2>2. /\ lock' \in {lock, Unlocked} /\ picture' \in [Ids -> Places] /\ ends' \subseteq Ids
        /\ search \in [Ids -> {"none", "starting", "running", "over"}]
    BY <2>1 DEF Typed, BrokerTyped
  <2>. QED BY <2>1, <2>2, InsertIsTyped DEF Typed, WireTyped
<1>2. CASE On(post.surface) # {}
  <2>1. PICK s \in On(post.surface) : FinishBegins(s, "replaced", post)
    BY <1>2 DEF Opens
  <2>2. s \in Ids
    BY DEF On, Open
  <2>. QED BY <2>1, <2>2, FinishIsTyped DEF Typed, WireTyped
<1>. QED BY <1>1, <1>2


LEMMA CallsAreRequests ==
  \A c \in Calls :
    /\ c.ask = "open" => c \in Posts
    /\ c.ask = "patch" => c.id \in Ids /\ c.fen \in Places /\ c.epoch \in Nat
    /\ c.ask \in {"close", "list"} => c.id \in Ids
<1>. SUFFICES ASSUME NEW c \in Calls
              PROVE  /\ c.ask = "open" => c \in Posts
                     /\ c.ask = "patch" => c.id \in Ids /\ c.fen \in Places /\ c.epoch \in Nat
                     /\ c.ask \in {"close", "list"} => c.id \in Ids
  OBVIOUS
<1>1. CASE c \in Posts
  BY <1>1, PostsAreRequests
<1>2. CASE c \in [ask : {"close", "list"}, id : Ids]
  BY <1>2
<1>3. CASE c \in [ask : {"patch"}, id : Ids, fen : Places, epoch : Nat]
  BY <1>3
<1>. QED BY <1>1, <1>2, <1>3 DEF Calls

LEMMA TakenIsTyped ==
  ASSUME calls \in Seq(Calls), NEW i, NEW ask, Takes(i, ask)
  PROVE  /\ i \in DOMAIN calls /\ calls[i] \in Calls /\ calls[i].ask = ask /\ lock = Unlocked
         /\ calls' \in Seq(Calls) /\ DOMAIN calls' = 1 .. (Len(calls) - 1)
         /\ \A m \in DOMAIN calls' : calls'[m] = IF m < i THEN calls[m] ELSE calls[m + 1]
<1>1. /\ i \in DOMAIN calls /\ calls[i].ask = ask /\ lock = Unlocked
      /\ calls' = SubSeq(calls, 1, i - 1) \o SubSeq(calls, i + 1, Len(calls))
  BY Zenon DEF Takes
<1>2. calls[i] \in Calls
  BY <1>1
<1>3. /\ calls' \in Seq(Calls) /\ DOMAIN calls' = 1 .. (Len(calls) - 1)
      /\ \A m \in DOMAIN calls' : calls'[m] = IF m < i THEN calls[m] ELSE calls[m + 1]
  BY <1>1, CallTaken, SMTT(30)
<1>. QED BY <1>1, <1>2, <1>3, Zenon

LEMMA RivalsPost ==
  ASSUME NEW surface \in {"game", "live"}, NEW f \in Fens
  PROVE  [ask |-> "open", by |-> "rival", gen |-> 0, surface |-> surface, fen |-> f] \in Posts
BY DEF Posts, Places

\* What a step of the server leaves of the types, the frames aside.
LEMMA ServesIsTyped ==
  ASSUME PageAssumption, Typed, Serves
  PROVE  BrokerTyped' /\ calls' \in Seq(Calls) /\ \A a \in answers' : AnswerTyped(a)
<1>. USE DEF Typed, WireTyped
<1>1. ASSUME NEW i \in DOMAIN calls, TakesOpen(i)
      PROVE  BrokerTyped' /\ calls' \in Seq(Calls) /\ \A a \in answers' : AnswerTyped(a)
  <2>1. Takes(i, "open") /\ Opens(calls[i])
    BY <1>1 DEF TakesOpen
  <2>2. calls[i] \in Posts /\ calls' \in Seq(Calls)
    BY <2>1, TakenIsTyped, CallsAreRequests
  <2>. QED BY <2>1, <2>2, OpensIsTyped
<1>2. ASSUME NEW i \in DOMAIN calls, TakesPatch(i)
      PROVE  BrokerTyped' /\ calls' \in Seq(Calls) /\ \A a \in answers' : AnswerTyped(a)
  <2>1. Takes(i, "patch")
    BY <1>2 DEF TakesPatch
  <2>2. /\ calls' \in Seq(Calls) /\ calls[i].id \in Ids /\ calls[i].fen \in Places
        /\ calls[i].epoch \in Nat
    BY <2>1, TakenIsTyped, CallsAreRequests
  <2>. DEFINE says(ok, f) == [to |-> "patch", id |-> calls[i].id, epoch |-> calls[i].epoch,
                              moves |-> calls[i].fen # None, ok |-> ok, fen |-> f]
              g == IF calls[i].fen = None THEN sess[calls[i].id].fen ELSE calls[i].fen
  <2>3. g \in Places
    <3>1. sess[calls[i].id].fen \in Places
      BY <2>2, SessionFields DEF BrokerTyped
    <3>. QED BY <2>2, <3>1
  <2>4. \A ok, f : f \in Places => AnswerTyped(says(ok, f))
    <3>. SUFFICES ASSUME NEW ok, NEW f \in Places PROVE AnswerTyped(says(ok, f))
      OBVIOUS
    <3>1. /\ says(ok, f).to = "patch" /\ says(ok, f).id = calls[i].id
          /\ says(ok, f).epoch = calls[i].epoch /\ says(ok, f).fen = f
      OBVIOUS
    <3>. HIDE DEF says
    <3>. QED BY <2>2, <3>1, NoIdNought DEF AnswerTyped
  <2>5. /\ opening' = opening /\ lock' = lock /\ search' = search /\ ends' = ends
        /\ \/ /\ answers' = answers \cup {says("unknown", None)}
              /\ UNCHANGED <<sess, searched, picture>>
           \/ /\ sess' = [sess EXCEPT ![calls[i].id].fen = g]
              /\ \E ok : answers' = answers \cup {says(ok, g)}
              /\ \/ UNCHANGED <<searched, picture>>
                 \/ /\ searched' = [searched EXCEPT ![calls[i].id] = g]
                    /\ picture' = [picture EXCEPT ![calls[i].id] = None]
    BY <1>2, Zenon DEF TakesPatch
  <2>. HIDE DEF says, g
  <2>6. None \in Places
    BY DEF Places
  <2>7. \A a \in answers' : AnswerTyped(a)
    <3>1. \A a \in answers : AnswerTyped(a)
      OBVIOUS
    <3>2. \A ok : AnswerTyped(says(ok, g)) /\ AnswerTyped(says(ok, None))
      BY <2>3, <2>4, <2>6, Zenon
    <3>3. \A a \in answers' : a \in answers \/ \E ok : a = says(ok, g) \/ a = says(ok, None)
      BY <2>5, Zenon
    <3>. QED BY <3>1, <3>2, <3>3, Zenon
  <2>8. BrokerTyped'
    <3>1. /\ opening' \in [Ids -> Posts \cup {Nothing}] /\ ends' \subseteq Ids
          /\ search' \in [Ids -> {"none", "starting", "running", "over"}]
          /\ lock' \in [ends : Ids \cup {0},
                        reason : {"none", "replaced", "closed", "engine_failed", "idle"},
                        then : Posts \cup {Nothing}]
      BY <2>5 DEF BrokerTyped
    <3>0. \/ UNCHANGED <<searched, picture>>
          \/ /\ searched' = [searched EXCEPT ![calls[i].id] = g]
             /\ picture' = [picture EXCEPT ![calls[i].id] = None]
      BY <2>5
    <3>2. searched' \in [Ids -> Places] /\ picture' \in [Ids -> Places]
      BY <2>3, <2>6, <3>0, SMTT(30) DEF BrokerTyped
    <3>3. sess' = sess \/ sess' = [sess EXCEPT ![calls[i].id].fen = g]
      BY <2>5
    <3>4. sess' \in [Ids -> Sessions]
      <4>1. sess \in [Ids -> Sessions]
        BY DEF BrokerTyped
      <4>2. [sess EXCEPT ![calls[i].id].fen = g] \in [Ids -> Sessions]
        BY <2>2, <2>3, <4>1, SessionEdits, Zenon
      <4>. QED BY <3>3, <4>1, <4>2, Zenon
    <3>. QED BY <3>1, <3>2, <3>4 DEF BrokerTyped
  <2>. QED BY <2>2, <2>7, <2>8
<1>3. ASSUME NEW i \in DOMAIN calls, TakesClose(i)
      PROVE  BrokerTyped' /\ calls' \in Seq(Calls) /\ \A a \in answers' : AnswerTyped(a)
  <2>1. Takes(i, "close")
    BY <1>3 DEF TakesClose
  <2>2. calls' \in Seq(Calls) /\ calls[i].id \in Ids
    BY <2>1, TakenIsTyped, CallsAreRequests
  <2>3. CASE calls[i].id \in Open
    <3>1. FinishBegins(calls[i].id, "closed", Nothing)
      BY <1>3, <2>3 DEF TakesClose
    <3>. QED BY <2>2, <3>1, FinishIsTyped
  <2>4. CASE calls[i].id \notin Open
    BY <1>3, <2>2, <2>4 DEF TakesClose, BrokerTyped
  <2>. QED BY <2>3, <2>4
<1>4. ASSUME NEW i \in DOMAIN calls, TakesList(i)
      PROVE  BrokerTyped' /\ calls' \in Seq(Calls) /\ \A a \in answers' : AnswerTyped(a)
  <2>1. Takes(i, "list")
    BY <1>4 DEF TakesList
  <2>2. calls' \in Seq(Calls) /\ calls[i].id \in Ids
    BY <2>1, TakenIsTyped, CallsAreRequests
  <2>3. AnswerTyped([to |-> "list", id |-> calls[i].id, open |-> calls[i].id \in Open])
    BY <2>2, NoIdNought DEF AnswerTyped
  <2>. QED BY <1>4, <2>2, <2>3 DEF TakesList, BrokerTyped
<1>5. ASSUME Finishes
      PROVE  BrokerTyped' /\ calls' \in Seq(Calls) /\ \A a \in answers' : AnswerTyped(a)
  <2>. DEFINE stopped == [search EXCEPT ![lock.ends] = "none"]
  <2>1. /\ lock' = Unlocked /\ picture' = [picture EXCEPT ![lock.ends] = None]
        /\ ends' = ends \ {lock.ends} /\ calls' = calls
        /\ IF lock.then = Nothing
             THEN search' = stopped /\ UNCHANGED <<sess, opening, searched, answers>>
             ELSE Inserts(lock.then, stopped)
    BY <1>5 DEF Finishes
  <2>2. stopped \in [Ids -> {"none", "starting", "running", "over"}]
    BY DEF BrokerTyped
  <2>. HIDE DEF stopped
  <2>3. picture' \in [Ids -> Places] /\ ends' \subseteq Ids /\ lock' \in {lock, Unlocked}
    BY <2>1 DEF BrokerTyped, Places
  <2>4. CASE lock.then = Nothing
    BY <2>1, <2>2, <2>3, <2>4 DEF BrokerTyped, Unlocked
  <2>5. CASE lock.then # Nothing
    <3>1. lock.then \in Posts
      BY <2>5 DEF BrokerTyped
    <3>. QED BY <2>1, <2>2, <2>3, <2>5, <3>1, InsertIsTyped
  <2>. QED BY <2>4, <2>5
<1>6. ASSUME NEW s \in Ids, OpenReturns(s)
      PROVE  BrokerTyped' /\ calls' \in Seq(Calls) /\ \A a \in answers' : AnswerTyped(a)
  <2>1. /\ opening[s] # Nothing /\ opening' = [opening EXCEPT ![s] = Nothing]
        /\ UNCHANGED <<lock, searched, picture, ends, calls>>
    BY <1>6 DEF OpenReturns
  <2>2. opening[s] \in Posts
    BY <2>1 DEF BrokerTyped
  <2>3. /\ Answers(opening[s], FALSE, 0) \/ Answers(opening[s], TRUE, s)
        /\ sess' = sess \/ sess' = [sess EXCEPT ![s].at = "ended"]
        /\ \/ search' = search
           \/ search' = [search EXCEPT ![s] = IF @ = "starting" THEN "running" ELSE @]
           \/ search' = [search EXCEPT ![s] = "none"]
    BY <1>6 DEF OpenReturns
  <2>4. \A a \in answers' : AnswerTyped(a)
    BY <2>2, <2>3, AnswersAreTyped, NoIdNought
  <2>5. BrokerTyped'
    <3>1. /\ opening' \in [Ids -> Posts \cup {Nothing}] /\ ends' \subseteq Ids
          /\ searched' \in [Ids -> Places] /\ picture' \in [Ids -> Places]
          /\ lock' \in [ends : Ids \cup {0},
                        reason : {"none", "replaced", "closed", "engine_failed", "idle"},
                        then : Posts \cup {Nothing}]
      BY <2>1 DEF BrokerTyped
    <3>2. search' \in [Ids -> {"none", "starting", "running", "over"}]
      BY <2>3 DEF BrokerTyped
    <3>3. sess' = sess \/ sess' = [sess EXCEPT ![s].at = "ended"]
      BY <2>3
    <3>4. sess' \in [Ids -> Sessions]
      <4>1. sess \in [Ids -> Sessions]
        BY DEF BrokerTyped
      <4>2. [sess EXCEPT ![s].at = "ended"] \in [Ids -> Sessions]
        BY <4>1, SessionEdits, Zenon
      <4>. QED BY <3>3, <4>1, <4>2, Zenon
    <3>. QED BY <3>1, <3>2, <3>4 DEF BrokerTyped
  <2>. QED BY <2>1, <2>4, <2>5
<1>7. ASSUME NEW s \in Ids, BackendEnded(s)
      PROVE  BrokerTyped' /\ calls' \in Seq(Calls) /\ \A a \in answers' : AnswerTyped(a)
  <2>1. CASE s \in Open
    <3>1. FinishBegins(s, "engine_failed", Nothing) /\ calls' = calls
      BY <1>7, <2>1 DEF BackendEnded
    <3>. QED BY <3>1, FinishIsTyped
  <2>2. CASE s \notin Open
    BY <1>7, <2>2 DEF BackendEnded, BrokerTyped
  <2>. QED BY <2>1, <2>2
<1>. QED BY <1>1, <1>2, <1>3, <1>4, <1>5, <1>6, <1>7, Zenon DEF Serves


-----------------------------------------------------------------------------
(* What a step of the page leaves alone.                                   *)

LEMMA PageLeavesBooks ==
  ASSUME PageStep
  PROVE  UNCHANGED <<sess, opening, lock, search, searched, picture, ends>>
<1>1. ASSUME PageClicks PROVE UNCHANGED <<sess, opening, lock, search, searched, picture, ends>>
  BY <1>1 DEF PageClicks, SetEnabled, SetEngineId, SetMultipv, Moves, Aside
<1>2. ASSUME NEW a \in answers, HearsOpen(a) \/ HearsPatch(a) \/ HearsList(a)
      PROVE  UNCHANGED <<sess, opening, lock, search, searched, picture, ends>>
  BY <1>2 DEF HearsOpen, HearsPatch, HearsList, Aside
<1>3. ASSUME DebounceRings \/ HearsFrame \/ SocketDrops \/ SocketReturns
      PROVE  UNCHANGED <<sess, opening, lock, search, searched, picture, ends>>
  BY <1>3 DEF DebounceRings, HearsFrame, SocketDrops, SocketReturns, Aside
<1>. QED BY <1>1, <1>2, <1>3, Zenon DEF PageStep, Hears


LEMMA EmitsFrames ==
  ASSUME feed \in Seq(Frames), NEW f \in Frames, Emits(f)
  PROVE  feed' \in Seq(Frames)
BY AppendProperties DEF Emits

LEMMA FramesSent ==
  /\ \A s \in Ids : \A reason \in {"replaced", "closed", "engine_failed", "idle"} :
       [say |-> "ended", id |-> s, reason |-> reason] \in Frames
  /\ \A s \in Ids : \A f \in Places : \A g \in Places :
       [say |-> "snapshot", id |-> s, fen |-> f, of |-> g] \in Frames
BY DEF Frames

\* The lock says whom it ends and why, or nothing at all.
LockIsWhole == IF lock.ends = 0 THEN lock = Unlocked ELSE lock.ends \in Ids /\ lock.reason # "none"

LEMMA LockStaysWhole ==
  ASSUME PageAssumption, Typed, LockIsWhole, Next
  PROVE  LockIsWhole'
<1>1. Unlocked.ends = 0
  BY DEF Unlocked
<1>2. ASSUME NEW s \in Ids, NEW reason \in {"replaced", "closed", "engine_failed", "idle"},
             NEW then, FinishBegins(s, reason, then)
      PROVE  LockIsWhole'
  <2>1. lock'.ends = s /\ lock'.reason = reason
    BY <1>2 DEF FinishBegins
  <2>. QED BY <2>1, NoIdNought DEF LockIsWhole
<1>3. ASSUME lock' = Unlocked PROVE LockIsWhole'
  BY <1>1, <1>3 DEF LockIsWhole
<1>4. ASSUME lock' = lock PROVE LockIsWhole'
  BY <1>4 DEF LockIsWhole
<1>5. ASSUME NEW post, Opens(post) PROVE LockIsWhole'
  <2>1. \A s \in On(post.surface) : s \in Ids
    BY DEF On, Open
  <2>. QED BY <1>2, <1>4, <1>5, <2>1, Zenon DEF Opens
<1>6. ASSUME Serves PROVE LockIsWhole'
  <2>1. ASSUME NEW i \in DOMAIN calls, TakesClose(i) PROVE LockIsWhole'
    <3>1. \A s \in Open : s \in Ids
      BY DEF Open
    <3>. QED BY <1>2, <1>4, <2>1, <3>1, Zenon DEF TakesClose
  <2>2. ASSUME NEW s \in Ids, BackendEnded(s) PROVE LockIsWhole'
    BY <1>2, <1>4, <2>2, Zenon DEF BackendEnded
  <2>3. ASSUME NEW i \in DOMAIN calls, TakesOpen(i) PROVE LockIsWhole'
    BY <1>5, <2>3, Zenon DEF TakesOpen
  <2>4. ASSUME NEW i \in DOMAIN calls, TakesPatch(i) \/ TakesList(i) PROVE LockIsWhole'
    <3>1. lock' = lock
      BY <2>4 DEF TakesPatch, TakesList
    <3>. QED BY <1>4, <3>1
  <2>5. ASSUME Finishes PROVE LockIsWhole'
    BY <1>3, <2>5, Zenon DEF Finishes
  <2>6. ASSUME NEW s \in Ids, OpenReturns(s) PROVE LockIsWhole'
    <3>1. lock' = lock
      BY <2>6 DEF OpenReturns
    <3>. QED BY <1>4, <3>1
  <2>. QED BY <1>6, <2>1, <2>2, <2>3, <2>4, <2>5, <2>6, Zenon DEF Serves
<1>7. ASSUME NEW s \in Ids, Reaps(s) PROVE LockIsWhole'
  BY <1>2, <1>7, Zenon DEF Reaps
<1>8. ASSUME NEW s \in Ids, EndsAlone(s) \/ Turns(s) \/ Draws(s) \/ Delivers(s) PROVE LockIsWhole'
  <2>1. lock' = lock
    BY <1>8 DEF EndsAlone, Turns, Draws, Delivers
  <2>. QED BY <1>4, <2>1
<1>9. ASSUME NEW surface, NEW f, RivalOpens(surface, f) PROVE LockIsWhole'
  BY <1>5, <1>9, Zenon DEF RivalOpens
<1>10. ASSUME ServerStep PROVE LockIsWhole'
  BY <1>6, <1>7, <1>8, <1>9, <1>10, Zenon DEF ServerStep
<1>11. ASSUME PageStep PROVE LockIsWhole'
  <2>1. lock' = lock
    BY <1>11, PageLeavesBooks
  <2>. QED BY <1>4, <2>1
<1>. QED BY <1>10, <1>11, Zenon DEF Next


LEMMA FeedIsTyped ==
  ASSUME PageAssumption, Typed, LockIsWhole, ServerStep
  PROVE  feed' \in Seq(Frames) /\ listening' = listening
<1>. USE DEF Typed, WireTyped
<1>1. ASSUME NEW post, Opens(post) PROVE UNCHANGED <<feed, listening>>
  BY <1>1 DEF Opens, FinishBegins
<1>2. ASSUME NEW i \in DOMAIN calls, TakesOpen(i) \/ TakesPatch(i) \/ TakesClose(i) \/ TakesList(i)
      PROVE  UNCHANGED <<feed, listening>>
  <2>1. ASSUME TakesOpen(i) PROVE UNCHANGED <<feed, listening>>
    BY <1>1, <2>1 DEF TakesOpen
  <2>2. ASSUME TakesPatch(i) \/ TakesClose(i) \/ TakesList(i) PROVE UNCHANGED <<feed, listening>>
    BY <2>2 DEF TakesPatch, TakesClose, TakesList, FinishBegins
  <2>. QED BY <1>2, <2>1, <2>2
<1>3. ASSUME Finishes PROVE feed' \in Seq(Frames) /\ listening' = listening
  <2>1. /\ lock # Unlocked /\ listening' = listening
        /\ Emits([say |-> "ended", id |-> lock.ends, reason |-> lock.reason])
    BY <1>3 DEF Finishes
  <2>2. lock.ends \in Ids /\ lock.reason \in {"replaced", "closed", "engine_failed", "idle"}
    BY <2>1 DEF LockIsWhole, BrokerTyped
  <2>. QED BY <2>1, <2>2, FramesSent, EmitsFrames
<1>4. ASSUME NEW s \in Ids, OpenReturns(s) \/ BackendEnded(s) \/ Reaps(s) \/ EndsAlone(s) \/ Turns(s) \/ Draws(s)
      PROVE  UNCHANGED <<feed, listening>>
  BY <1>4 DEF OpenReturns, BackendEnded, Reaps, EndsAlone, Turns, Draws, FinishBegins
<1>5. ASSUME NEW s \in Ids, Delivers(s) PROVE feed' \in Seq(Frames) /\ listening' = listening
  <2>1. /\ listening' = listening
        /\ \/ feed' = feed
           \/ Emits([say |-> "snapshot", id |-> s, fen |-> sess[s].fen, of |-> picture[s]])
    BY <1>5 DEF Delivers
  <2>2. sess[s].fen \in Places /\ picture[s] \in Places
    BY SessionFields DEF BrokerTyped
  <2>. QED BY <2>1, <2>2, FramesSent, EmitsFrames
<1>6. ASSUME NEW surface, NEW f, RivalOpens(surface, f) PROVE UNCHANGED <<feed, listening>>
  BY <1>1, <1>6 DEF RivalOpens
<1>7. ASSUME Serves PROVE feed' \in Seq(Frames) /\ listening' = listening
  <2>1. feed \in Seq(Frames)
    OBVIOUS
  <2>. QED BY <1>2, <1>3, <1>4, <1>7, <2>1, Zenon DEF Serves
<1>8. feed \in Seq(Frames)
  OBVIOUS
<1>. QED BY <1>4, <1>5, <1>6, <1>7, <1>8, Zenon DEF ServerStep

LEMMA ServerIsTyped ==
  ASSUME PageAssumption, Typed, LockIsWhole, ServerStep
  PROVE  BrokerTyped' /\ WireTyped'
<1>1. feed' \in Seq(Frames) /\ listening' = listening /\ listening \in BOOLEAN
  BY FeedIsTyped DEF Typed, WireTyped
<1>2. BrokerTyped' /\ calls' \in Seq(Calls) /\ \A a \in answers' : AnswerTyped(a)
  <2>1. BrokerTyped /\ calls \in Seq(Calls) /\ \A a \in answers : AnswerTyped(a)
    BY DEF Typed, WireTyped
  <2>2. ASSUME NEW s \in Ids, Reaps(s)
        PROVE  BrokerTyped' /\ calls' \in Seq(Calls) /\ \A a \in answers' : AnswerTyped(a)
    <3>1. FinishBegins(s, "idle", Nothing) /\ calls' = calls
      BY <2>2 DEF Reaps
    <3>. QED BY <2>1, <3>1, FinishIsTyped
  <2>3. ASSUME NEW s \in Ids, EndsAlone(s) \/ Turns(s) \/ Draws(s) \/ Delivers(s)
        PROVE  BrokerTyped' /\ calls' \in Seq(Calls) /\ \A a \in answers' : AnswerTyped(a)
    <3>1. calls' = calls /\ answers' = answers /\ sess' = sess /\ opening' = opening /\ lock' = lock
      BY <2>3 DEF EndsAlone, Turns, Draws, Delivers
    <3>2. \/ search' = search
          \/ search' = [search EXCEPT ![s] = "over"]
      BY <2>3 DEF EndsAlone, Turns, Draws, Delivers
    <3>3. ends' = ends \/ ends' = ends \cup {s}
      BY <2>3 DEF EndsAlone, Turns, Draws, Delivers
    <3>4. searched' = searched \/ searched' = [searched EXCEPT ![s] = sess[s].fen]
      BY <2>3 DEF EndsAlone, Turns, Draws, Delivers
    <3>5. picture' = picture \/ \E f \in Places : picture' = [picture EXCEPT ![s] = f]
      <4>1. None \in Places /\ searched[s] \in Places
        BY <2>1 DEF BrokerTyped, Places
      <4>. QED BY <2>3, <4>1 DEF EndsAlone, Turns, Draws, Delivers
    <3>6. sess[s].fen \in Places
      BY <2>1, SessionFields DEF BrokerTyped
    <3>. QED BY <2>1, <3>1, <3>2, <3>3, <3>4, <3>5, <3>6 DEF BrokerTyped
  <2>4. ASSUME NEW surface \in {"game", "live"}, NEW f \in Fens, RivalOpens(surface, f)
        PROVE  BrokerTyped' /\ calls' \in Seq(Calls) /\ \A a \in answers' : AnswerTyped(a)
    <3>1. calls' = calls /\ Opens([ask |-> "open", by |-> "rival", gen |-> 0, surface |-> surface, fen |-> f])
      BY <2>4 DEF RivalOpens
    <3>. QED BY <2>1, <3>1, RivalsPost, OpensIsTyped
  <2>. QED BY <2>2, <2>3, <2>4, ServesIsTyped, Zenon DEF ServerStep
<1>. QED BY <1>1, <1>2, Zenon DEF WireTyped


-----------------------------------------------------------------------------
(* A step of the page, as its requests, its board and what it hears.       *)

Added == DOMAIN calls' \ DOMAIN calls

Keeps == calls' \in Seq(Calls) /\ \A i \in DOMAIN calls : i \in DOMAIN calls' /\ calls'[i] = calls[i]

\* What is asked of a board is asked of the page's own.
AsksOfItsOwn ==
  \A i \in Added : calls'[i].ask \in {"patch", "list"} => calls'[i].id \in {idRef, idRef'} \ {0}

AsksNoBoard == gen' = gen /\ \A i \in Added : calls'[i].ask # "open"

AsksABoard ==
  /\ gen' = gen + 1 /\ idRef' = 0
  /\ \E k \in Added : /\ calls'[k].ask = "open" /\ calls'[k].by = "page" /\ calls'[k].gen = gen'
                      /\ \A i \in Added : calls'[i].ask = "open" => i = k

HasToldToClose(s) == \E i \in DOMAIN calls' : calls'[i].ask = "close" /\ calls'[i].id = s

LetsGo == idRef' = 0 /\ (idRef \notin Open \/ HasToldToClose(idRef))

ShowsOpened == \E a \in answers \ answers' : a.to = "open" /\ a.ok /\ a.gen = gen /\ idRef' = a.id

HearsOut ==
  /\ answers' \subseteq answers
  /\ \A a \in answers \ answers' :
       a.to = "open" /\ a.id # 0 => idRef' = a.id \/ HasToldToClose(a.id)

PageMove ==
  /\ Keeps /\ AsksOfItsOwn /\ (AsksNoBoard \/ AsksABoard)
  /\ idRef' = idRef \/ LetsGo \/ ShowsOpened
  /\ HearsOut

LEMMA AsksAppends ==
  ASSUME calls \in Seq(Calls), NEW r \in Seq(Calls), Asks(r)
  PROVE  /\ Keeps
         /\ \A i \in Added : i - Len(calls) \in DOMAIN r /\ calls'[i] = r[i - Len(calls)]
         /\ \A j \in DOMAIN r : Len(calls) + j \in Added /\ calls'[Len(calls) + j] = r[j]
<1>. DEFINE n == Len(calls)
            m == Len(r)
<1>1. /\ calls' = calls \o r /\ n \in Nat /\ m \in Nat /\ DOMAIN calls = 1 .. n /\ DOMAIN r = 1 .. m
  BY DEF Asks
<1>2. /\ calls' \in Seq(Calls) /\ Len(calls') = n + m
      /\ \A i \in 1 .. (n + m) : calls'[i] = IF i <= n THEN calls[i] ELSE r[i - n]
  BY <1>1, ConcatProperties
<1>3. DOMAIN calls' = 1 .. (n + m)
  BY <1>2
<1>. HIDE DEF n, m
<1>4. Keeps
  BY <1>1, <1>2, <1>3 DEF Keeps
<1>5. \A i \in Added : i - n \in DOMAIN r /\ calls'[i] = r[i - n]
  BY <1>1, <1>2, <1>3 DEF Added
<1>6. \A j \in DOMAIN r : n + j \in Added /\ calls'[n + j] = r[j]
  BY <1>1, <1>2, <1>3 DEF Added
<1>. QED BY <1>4, <1>5, <1>6 DEF n

\* The requests there are: nothing, one, or a close and an open behind it.
LEMMA AsksNothing ==
  ASSUME calls \in Seq(Calls), calls' = calls
  PROVE  Keeps /\ Added = {}
BY DEF Keeps, Added

LEMMA AsksOne ==
  ASSUME calls \in Seq(Calls), NEW c \in Calls, Asks(<<c>>)
  PROVE  Keeps /\ (\E i \in Added : calls'[i] = c) /\ (\A i \in Added : calls'[i] = c)
<1>1. <<c>> \in Seq(Calls) /\ DOMAIN <<c>> = {1} /\ <<c>>[1] = c
  OBVIOUS
<1>. DEFINE r == <<c>>
<1>2. /\ Keeps
      /\ \A i \in Added : i - Len(calls) \in DOMAIN r /\ calls'[i] = r[i - Len(calls)]
      /\ \A j \in DOMAIN r : Len(calls) + j \in Added /\ calls'[Len(calls) + j] = r[j]
  BY <1>1, AsksAppends
<1>. QED BY <1>1, <1>2, Zenon

LEMMA AsksTwo ==
  ASSUME calls \in Seq(Calls), NEW c \in Calls, NEW d \in Calls, Asks(<<c>> \o <<d>>)
  PROVE  /\ Keeps /\ (\E i \in Added : calls'[i] = c)
         /\ \E k \in Added : calls'[k] = d /\ \A i \in Added : i # k => calls'[i] = c
<1>. DEFINE r == <<c>> \o <<d>>
            n == Len(calls)
<1>1. r \in Seq(Calls) /\ DOMAIN r = {1, 2} /\ r[1] = c /\ r[2] = d
  <2>1. /\ <<c>> \in Seq(Calls) /\ Len(<<c>>) = 1 /\ <<c>>[1] = c
        /\ <<d>> \in Seq(Calls) /\ Len(<<d>>) = 1 /\ <<d>>[1] = d
    OBVIOUS
  <2>2. /\ r \in Seq(Calls) /\ Len(r) = Len(<<c>>) + Len(<<d>>)
        /\ \A i \in 1 .. Len(<<c>>) + Len(<<d>>) :
             r[i] = IF i <= Len(<<c>>) THEN <<c>>[i] ELSE <<d>>[i - Len(<<c>>)]
    BY <2>1, ConcatProperties
  <2>. HIDE DEF r
  <2>3. Len(r) = 2 /\ r[1] = c /\ r[2] = d
    BY <2>1, <2>2
  <2>. QED BY <2>2, <2>3
<1>2. /\ Keeps
      /\ \A i \in Added : i - n \in DOMAIN r /\ calls'[i] = r[i - n]
      /\ \A j \in DOMAIN r : n + j \in Added /\ calls'[n + j] = r[j]
  BY <1>1, AsksAppends
<1>3. n \in Nat /\ Added \subseteq Nat
  BY <1>2 DEF Added, Keeps
<1>. HIDE DEF r, n
<1>4. n + 1 \in Added /\ calls'[n + 1] = c /\ n + 2 \in Added /\ calls'[n + 2] = d
  BY <1>1, <1>2
<1>5. ASSUME NEW i \in Added, i # n + 2 PROVE calls'[i] = c
  <2>1. i - n \in {1, 2} /\ calls'[i] = r[i - n] /\ i \in Nat
    BY <1>1, <1>2, <1>3
  <2>2. i - n = 1
    BY <1>3, <1>5, <2>1
  <2>. QED BY <1>1, <2>1, <2>2
<1>. QED BY <1>2, <1>4, <1>5, Zenon


LEMMA RequestsAreCalls ==
  /\ \A s \in Ids : LET c == [ask |-> "close", id |-> s] IN
       c \in Calls /\ c.ask = "close" /\ c.id = s
  /\ \A s \in Ids : LET c == [ask |-> "list", id |-> s] IN
       c \in Calls /\ c.ask = "list" /\ c.id = s
  /\ \A s \in Ids, f \in Places, e \in Nat :
       PatchCall(s, f, e) \in Calls /\ PatchCall(s, f, e).ask = "patch" /\ PatchCall(s, f, e).id = s
  /\ \A g \in Nat, f \in Places :
       /\ OpenCall(g, f) \in Calls /\ OpenCall(g, f).ask = "open" /\ OpenCall(g, f).by = "page"
       /\ OpenCall(g, f).gen = g
BY DEF Calls, Posts, PatchCall, OpenCall

LEMMA AsksToClose ==
  ASSUME PageAssumption, calls \in Seq(Calls), NEW s \in Ids \cup {0}, Asks(CloseCall(s))
  PROVE  /\ Keeps /\ (\A i \in Added : calls'[i].ask = "close")
         /\ s # 0 => HasToldToClose(s)
<1>1. CASE s = 0
  <2>1. calls' = calls
    BY <1>1 DEF Asks, CloseCall
  <2>. QED BY <1>1, <2>1, AsksNothing
<1>2. CASE s # 0
  <2>. DEFINE c == [ask |-> "close", id |-> s]
  <2>1. c \in Calls /\ c.ask = "close" /\ c.id = s
    BY <1>2, RequestsAreCalls
  <2>2. Asks(<<c>>)
    BY <1>2 DEF CloseCall
  <2>. HIDE DEF c
  <2>3. Keeps /\ (\E i \in Added : calls'[i] = c) /\ (\A i \in Added : calls'[i] = c)
    BY <2>1, <2>2, AsksOne
  <2>4. HasToldToClose(s)
    BY <2>1, <2>3 DEF HasToldToClose, Added
  <2>. QED BY <2>1, <2>3, <2>4
<1>. QED BY <1>1, <1>2

LEMMA RerunIsAMove ==
  ASSUME PageAssumption, Typed, NEW wanted \in BOOLEAN, NEW id \in Ids \cup {0},
         id = idRef \/ idRef \notin Open, fen' \in Places, enabled' \in BOOLEAN, wanted => enabled',
         Reruns(wanted, id)
  PROVE  PageTyped' /\ Keeps /\ AsksOfItsOwn /\ (AsksNoBoard \/ AsksABoard) /\ LetsGo
<1>. USE DEF Typed, WireTyped
<1>1. idRef' = 0 /\ serverFen' = None /\ timer' = 0 /\ epoch' = epoch
  BY DEF Reruns
<1>2. CASE ~wanted
  <2>1. alive' = 0 /\ gen' = gen /\ sentFen' = sentFen /\ Asks(CloseCall(id))
    BY <1>2 DEF Reruns
  <2>2. PageTyped'
    BY <1>1, <2>1 DEF PageTyped, Places
  <2>3. /\ Keeps /\ (\A i \in Added : calls'[i].ask = "close")
        /\ id # 0 => HasToldToClose(id)
    BY <2>1, AsksToClose
  <2>4. LetsGo
    BY <1>1, <2>3, NoIdNought DEF LetsGo, Open
  <2>5. AsksOfItsOwn /\ AsksNoBoard
    BY <2>1, <2>3 DEF AsksOfItsOwn, AsksNoBoard
  <2>. QED BY <2>2, <2>3, <2>4, <2>5
<1>3. CASE wanted
  <2>. DEFINE o == OpenCall(gen + 1, fen')
              c == [ask |-> "close", id |-> id]
  <2>1. /\ gen' = gen + 1 /\ alive' = gen + 1 /\ sentFen' = fen' /\ enabled'
        /\ Asks(CloseCall(id) \o <<o>>)
    BY <1>3 DEF Reruns
  <2>2. PageTyped'
    BY <1>1, <2>1 DEF PageTyped, Places
  <2>3. o \in Calls /\ o.ask = "open" /\ o.by = "page" /\ o.gen = gen'
    <3>1. gen + 1 \in Nat
      BY DEF PageTyped
    <3>. QED BY <2>1, <3>1, RequestsAreCalls
  <2>4. CASE id = 0
    <3>1. <<>> \o <<o>> = <<o>>
      OBVIOUS
    <3>2. Asks(<<o>>)
      BY <2>1, <2>4, <3>1 DEF CloseCall
    <3>. HIDE DEF o
    <3>3. Keeps /\ (\E i \in Added : calls'[i] = o) /\ (\A i \in Added : calls'[i] = o)
      BY <2>3, <3>2, AsksOne
    <3>4. \A i \in Added : \A j \in Added : i = j
      <4>. DEFINE r == <<o>>
      <4>0. r \in Seq(Calls) /\ Asks(r) /\ DOMAIN r = {1}
        BY <2>3, <3>2
      <4>. HIDE DEF r
      <4>1. \A i \in Added : i - Len(calls) \in DOMAIN r
        BY <4>0, AsksAppends
      <4>2. DOMAIN r = {1} /\ Len(calls) \in Nat
        BY <4>0
      <4>3. Added \subseteq Nat
        BY <3>3 DEF Added, Keeps
      <4>. QED BY <4>1, <4>2, <4>3
    <3>5. AsksABoard
      BY <1>1, <2>1, <2>3, <3>3, <3>4 DEF AsksABoard
    <3>6. LetsGo
      BY <1>1, <2>4, NoIdNought DEF LetsGo, Open
    <3>7. AsksOfItsOwn
      BY <2>3, <3>3 DEF AsksOfItsOwn
    <3>. QED BY <2>2, <3>3, <3>5, <3>6, <3>7
  <2>5. CASE id # 0
    <3>1. c \in Calls /\ c.ask = "close" /\ c.id = id
      BY <2>5, RequestsAreCalls
    <3>2. Asks(<<c>> \o <<o>>)
      BY <2>1, <2>5 DEF CloseCall
    <3>. HIDE DEF o, c
    <3>3. /\ Keeps /\ (\E i \in Added : calls'[i] = c)
          /\ \E k \in Added : calls'[k] = o /\ \A i \in Added : i # k => calls'[i] = c
      BY <2>3, <3>1, <3>2, AsksTwo
    <3>4. AsksABoard
      BY <1>1, <2>1, <2>3, <3>1, <3>3 DEF AsksABoard
    <3>5. LetsGo
      <4>1. HasToldToClose(id)
        BY <3>1, <3>3 DEF HasToldToClose, Added
      <4>. QED BY <1>1, <4>1 DEF LetsGo
    <3>6. AsksOfItsOwn
      BY <2>3, <3>1, <3>3 DEF AsksOfItsOwn
    <3>. QED BY <2>2, <3>3, <3>4, <3>5, <3>6
  <2>. QED BY <2>4, <2>5
<1>. QED BY <1>2, <1>3


LEMMA PatchIsAMove ==
  ASSUME Typed, NEW s \in Ids, NEW f \in Places, 0 \notin Ids, ApplyPatch(s, f)
  PROVE  /\ Keeps /\ epoch' \in Nat /\ serverFen' \in Places
         /\ \A i \in Added : calls'[i].ask = "patch" /\ calls'[i].id = s
<1>1. epoch' \in Nat /\ serverFen' \in Places
  BY DEF ApplyPatch, Typed, PageTyped, Places
<1>. DEFINE c == PatchCall(s, f, epoch')
<1>2. Asks(<<c>>)
  BY DEF ApplyPatch
<1>3. c \in Calls /\ c.ask = "patch" /\ c.id = s
  BY <1>1, RequestsAreCalls
<1>. HIDE DEF c
<1>4. Keeps /\ \A i \in Added : calls'[i] = c
  BY <1>2, <1>3, AsksOne DEF Typed, WireTyped
<1>. QED BY <1>1, <1>3, <1>4

LEMMA DebounceIsTyped ==
  ASSUME Debounces, idRef' \in Ids \cup {0}
  PROVE  timer' \in Ids \cup {0}
BY DEF Debounces

\* What is gone on the server and has said so is gone.
GoneIsGone ==
  /\ \A i \in DOMAIN feed : feed[i].say = "ended" => sess[feed[i].id].at = "ended"
  /\ \A a \in answers : a.to = "patch" /\ a.ok = "unknown" => sess[a.id].at = "ended"
  /\ \A a \in answers : a.to = "list" /\ ~a.open => sess[a.id].at = "ended"

LEMMA ClicksAreMoves ==
  ASSUME PageAssumption, Typed, PageClicks
  PROVE  PageMove /\ PageTyped' /\ answers' = answers
<1>. USE DEF Typed, WireTyped
<1>1. fen \in Places /\ idRef \in Ids \cup {0} /\ enabled \in BOOLEAN /\ calls \in Seq(Calls)
  BY DEF PageTyped
<1>2. ASSUME answers' = answers PROVE HearsOut
  BY <1>2 DEF HearsOut
<1>3. ASSUME NEW on \in BOOLEAN, SetEnabled(on) PROVE PageMove /\ PageTyped' /\ answers' = answers
  <2>1. /\ enabled' = on /\ fen' = fen /\ answers' = answers /\ Reruns(on /\ fen # None, idRef)
    BY <1>3 DEF SetEnabled
  <2>2. (on /\ fen # None) \in BOOLEAN /\ fen' \in Places /\ enabled' \in BOOLEAN
    BY <1>1, <2>1
  <2>3. PageTyped' /\ Keeps /\ AsksOfItsOwn /\ (AsksNoBoard \/ AsksABoard) /\ LetsGo
    BY <1>1, <2>1, <2>2, RerunIsAMove
  <2>. QED BY <1>2, <2>1, <2>3 DEF PageMove
<1>4. ASSUME SetEngineId PROVE PageMove /\ PageTyped' /\ answers' = answers
  <2>1. enabled /\ enabled' = enabled /\ fen' = fen /\ answers' = answers /\ Reruns(TRUE, idRef)
    BY <1>4 DEF SetEngineId
  <2>2. TRUE \in BOOLEAN /\ fen' \in Places /\ enabled' \in BOOLEAN /\ enabled'
    BY <1>1, <2>1
  <2>3. PageTyped' /\ Keeps /\ AsksOfItsOwn /\ (AsksNoBoard \/ AsksABoard) /\ LetsGo
    BY <1>1, <2>1, <2>2, RerunIsAMove
  <2>. QED BY <1>2, <2>1, <2>3 DEF PageMove
<1>5. ASSUME SetMultipv PROVE PageMove /\ PageTyped' /\ answers' = answers
  <2>1. /\ UNCHANGED <<enabled, fen, idRef, gen, alive, sentFen, timer, answers>>
        /\ \/ idRef # 0 /\ ApplyPatch(idRef, None)
           \/ UNCHANGED <<serverFen, epoch, calls>>
    BY <1>5 DEF SetMultipv
  <2>2. CASE idRef # 0 /\ ApplyPatch(idRef, None)
    <3>1. /\ Keeps /\ epoch' \in Nat /\ serverFen' \in Places
          /\ \A i \in Added : calls'[i].ask = "patch" /\ calls'[i].id = idRef
      BY <1>1, <2>2, PatchIsAMove, NoIdNought DEF Places
    <3>2. PageTyped'
      BY <2>1, <3>1 DEF PageTyped
    <3>3. AsksOfItsOwn /\ AsksNoBoard
      BY <2>1, <2>2, <3>1 DEF AsksOfItsOwn, AsksNoBoard
    <3>. QED BY <1>2, <2>1, <3>1, <3>2, <3>3 DEF PageMove
  <2>3. CASE UNCHANGED <<serverFen, epoch, calls>>
    <3>1. Keeps /\ Added = {}
      BY <1>1, <2>3, AsksNothing
    <3>2. PageTyped'
      BY <2>1, <2>3 DEF PageTyped
    <3>3. AsksOfItsOwn /\ AsksNoBoard
      BY <2>1, <3>1 DEF AsksOfItsOwn, AsksNoBoard
    <3>. QED BY <1>2, <2>1, <3>1, <3>2, <3>3 DEF PageMove
  <2>. QED BY <2>1, <2>2, <2>3
<1>6. ASSUME NEW f \in Fens \cup {None}, Moves(f) PROVE PageMove /\ PageTyped' /\ answers' = answers
  <2>1. fen' = f /\ enabled' = enabled /\ answers' = answers /\ f \in Places
    BY <1>6 DEF Moves, Places
  <2>2. CASE enabled /\ None \in {fen, f}
    <3>1. Reruns(f # None, idRef)
      BY <1>6, <2>2 DEF Moves
    <3>2. (f # None) \in BOOLEAN /\ fen' \in Places /\ enabled' \in BOOLEAN /\ enabled'
      BY <1>1, <2>1, <2>2
    <3>3. PageTyped' /\ Keeps /\ AsksOfItsOwn /\ (AsksNoBoard \/ AsksABoard) /\ LetsGo
      BY <1>1, <2>1, <3>1, <3>2, RerunIsAMove
    <3>. QED BY <1>2, <2>1, <3>3 DEF PageMove
  <2>3. CASE ~(enabled /\ None \in {fen, f})
    <3>1. /\ UNCHANGED <<idRef, gen, alive, serverFen, sentFen, epoch, calls>>
          /\ Debounces
      BY <1>6, <2>3 DEF Moves
    <3>2. Keeps /\ Added = {}
      BY <1>1, <3>1, AsksNothing
    <3>3. timer' \in Ids \cup {0}
      BY <1>1, <3>1, DebounceIsTyped
    <3>4. PageTyped'
      BY <2>1, <3>1, <3>3 DEF PageTyped
    <3>5. AsksOfItsOwn /\ AsksNoBoard
      BY <3>1, <3>2 DEF AsksOfItsOwn, AsksNoBoard
    <3>. QED BY <1>2, <2>1, <3>1, <3>2, <3>4, <3>5 DEF PageMove
  <2>. QED BY <2>2, <2>3
<1>. QED BY <1>3, <1>4, <1>5, <1>6, Zenon DEF PageClicks


LEMMA RingIsAMove ==
  ASSUME PageAssumption, Typed, DebounceRings
  PROVE  PageMove /\ PageTyped' /\ answers' = answers
<1>. USE DEF Typed, WireTyped
<1>1. /\ timer # 0 /\ timer' = 0 /\ UNCHANGED <<enabled, fen, idRef, gen, alive, answers>>
      /\ \/ idRef = timer /\ sentFen' = fen /\ ApplyPatch(timer, fen)
         \/ UNCHANGED <<sentFen, serverFen, epoch, calls>>
  BY DEF DebounceRings
<1>2. HearsOut
  BY <1>1 DEF HearsOut
<1>3. timer \in Ids /\ fen \in Places
  BY <1>1 DEF PageTyped
<1>4. CASE idRef = timer /\ sentFen' = fen /\ ApplyPatch(timer, fen)
  <2>1. /\ Keeps /\ epoch' \in Nat /\ serverFen' \in Places
        /\ \A i \in Added : calls'[i].ask = "patch" /\ calls'[i].id = timer
    BY <1>3, <1>4, PatchIsAMove, NoIdNought
  <2>2. PageTyped'
    BY <1>1, <1>3, <1>4, <2>1 DEF PageTyped
  <2>3. AsksOfItsOwn /\ AsksNoBoard
    BY <1>1, <1>4, <2>1 DEF AsksOfItsOwn, AsksNoBoard
  <2>. QED BY <1>1, <1>2, <2>1, <2>2, <2>3 DEF PageMove
<1>5. CASE UNCHANGED <<sentFen, serverFen, epoch, calls>>
  <2>1. Keeps /\ Added = {}
    BY <1>5, AsksNothing
  <2>2. PageTyped'
    BY <1>1, <1>5 DEF PageTyped
  <2>3. AsksOfItsOwn /\ AsksNoBoard
    BY <1>1, <2>1 DEF AsksOfItsOwn, AsksNoBoard
  <2>. QED BY <1>1, <1>2, <2>1, <2>2, <2>3 DEF PageMove
<1>. QED BY <1>1, <1>4, <1>5

LEMMA OpenHeardIsAMove ==
  ASSUME PageAssumption, Typed, NEW a \in answers, HearsOpen(a), a.gen # 0,
         a.gen = gen => idRef = 0
  PROVE  PageMove /\ PageTyped' /\ answers' = answers \ {a}
<1>. USE DEF Typed, WireTyped
<1>1. /\ answers' = answers \ {a} /\ a.to = "open" /\ UNCHANGED <<fen, gen>>
      /\ a.id \in Ids \cup {0} /\ a.fen \in Places /\ (a.ok <=> a.id # 0)
  BY DEF HearsOpen, Answered, AnswerTyped
<1>2. CASE alive # a.gen
  <2>1. Asks(CloseCall(a.id)) /\ UNCHANGED <<enabled, idRef, alive, serverFen, sentFen, epoch, timer>>
    BY <1>2 DEF HearsOpen
  <2>2. Keeps /\ (\A i \in Added : calls'[i].ask = "close") /\ (a.id # 0 => HasToldToClose(a.id))
    BY <1>1, <2>1, AsksToClose
  <2>3. PageTyped'
    BY <1>1, <2>1 DEF PageTyped
  <2>4. AsksOfItsOwn /\ AsksNoBoard
    BY <1>1, <2>2 DEF AsksOfItsOwn, AsksNoBoard
  <2>5. HearsOut
    BY <1>1, <2>2 DEF HearsOut
  <2>. QED BY <1>1, <2>1, <2>2, <2>3, <2>4, <2>5 DEF PageMove
<1>3. CASE alive = a.gen /\ ~a.ok
  <2>1. /\ enabled' = FALSE /\ alive' = 0 /\ timer' = 0
        /\ UNCHANGED <<idRef, serverFen, sentFen, epoch, calls>>
    BY <1>3 DEF HearsOpen
  <2>2. Keeps /\ Added = {}
    BY <2>1, AsksNothing
  <2>3. HearsOut
    BY <1>1, <1>3 DEF HearsOut
  <2>4. AsksOfItsOwn /\ AsksNoBoard
    BY <1>1, <2>2 DEF AsksOfItsOwn, AsksNoBoard
  <2>5. PageTyped'
    <3>1. idRef = 0
      BY <1>3 DEF PageTyped
    <3>. QED BY <1>1, <2>1, <3>1 DEF PageTyped
  <2>. QED BY <1>1, <2>1, <2>2, <2>3, <2>4, <2>5 DEF PageMove
<1>4. CASE alive = a.gen /\ a.ok
  <2>. DEFINE moved == fen # sentFen
              f == IF moved THEN fen ELSE None
              c == PatchCall(a.id, f, epoch')
  <2>1. /\ idRef' = a.id /\ sentFen' = fen /\ timer' = 0 /\ UNCHANGED <<enabled, alive>>
        /\ serverFen' = IF moved THEN None ELSE a.fen
        /\ epoch' = IF moved THEN epoch + 1 ELSE epoch
        /\ Asks(<<c>>) \/ Asks(<<>>)
    BY <1>4 DEF HearsOpen
  <2>2. f \in Places /\ serverFen' \in Places /\ epoch' \in Nat /\ a.id \in Ids
    BY <1>1, <1>4, <2>1 DEF PageTyped, Places
  <2>3. c \in Calls /\ c.ask = "patch" /\ c.id = a.id
    BY <2>2, RequestsAreCalls
  <2>. HIDE DEF moved, f, c
  <2>4. Keeps /\ \A i \in Added : calls'[i] = c
    <3>1. CASE Asks(<<c>>)
      BY <2>3, <3>1, AsksOne
    <3>2. CASE Asks(<<>>)
      <4>1. calls' = calls
        BY <3>2 DEF Asks
      <4>. QED BY <4>1, AsksNothing
    <3>. QED BY <2>1, <3>1, <3>2
  <2>5. a.id # 0 /\ a.ok
    BY <1>1, <1>4
  <2>6. AsksOfItsOwn /\ AsksNoBoard
    BY <1>1, <2>1, <2>3, <2>4, <2>5 DEF AsksOfItsOwn, AsksNoBoard
  <2>7. a.gen = gen /\ enabled
    BY <1>4 DEF PageTyped
  <2>8. ShowsOpened
    <3>1. a \in answers \ answers'
      BY <1>1
    <3>. QED BY <1>1, <2>1, <2>5, <2>7, <3>1 DEF ShowsOpened
  <2>9. HearsOut
    BY <1>1, <2>1 DEF HearsOut
  <2>10. PageTyped'
    <3>1. enabled' \in BOOLEAN /\ enabled'
      BY <2>1, <2>7, Zenon DEF PageTyped
    <3>2. /\ fen' \in Places /\ gen' \in Nat /\ alive' \in {0, gen'} /\ timer' = 0
          /\ sentFen' \in Places /\ idRef' \in Ids
      BY <1>1, <2>1, <2>2 DEF PageTyped
    <3>. QED BY <2>2, <3>1, <3>2 DEF PageTyped
  <2>. QED BY <1>1, <2>4, <2>6, <2>8, <2>9, <2>10 DEF PageMove
<1>. QED BY <1>2, <1>3, <1>4

LEMMA LostIsAMove ==
  ASSUME PageAssumption, Typed, NEW a \in answers, a.id = idRef, idRef \notin Open, idRef # 0,
         LostSession, UNCHANGED <<enabled, fen>>, answers' = answers \ {a}, a.to # "open"
  PROVE  PageMove /\ PageTyped'
<1>1. /\ TRUE \in BOOLEAN /\ fen' \in Places /\ enabled' \in BOOLEAN /\ enabled' /\ 0 \in Ids \cup {0}
      /\ Reruns(TRUE, 0)
  BY DEF Typed, PageTyped, LostSession
<1>2. PageTyped' /\ Keeps /\ AsksOfItsOwn /\ (AsksNoBoard \/ AsksABoard) /\ LetsGo
  BY <1>1, RerunIsAMove
<1>3. HearsOut
  BY DEF HearsOut
<1>. QED BY <1>2, <1>3 DEF PageMove

LEMMA OtherHeardIsAMove ==
  ASSUME PageAssumption, Typed, GoneIsGone, NEW a \in answers, HearsPatch(a) \/ HearsList(a)
  PROVE  PageMove /\ PageTyped' /\ answers' = answers \ {a} /\ a.to # "open"
<1>. USE DEF Typed, WireTyped
<1>1. /\ answers' = answers \ {a} /\ a.to \in {"patch", "list"} /\ UNCHANGED <<enabled, fen>>
      /\ a.id \in Ids
  BY DEF HearsPatch, HearsList, Answered, AnswerTyped
<1>2. HearsOut
  BY <1>1 DEF HearsOut
<1>3. CASE UNCHANGED <<idRef, gen, alive, sentFen, epoch, calls>> /\ serverFen' \in Places
           /\ timer' \in Ids \cup {0}
  <2>1. Keeps /\ Added = {}
    BY <1>3, AsksNothing
  <2>2. AsksOfItsOwn /\ AsksNoBoard
    BY <1>3, <2>1 DEF AsksOfItsOwn, AsksNoBoard
  <2>3. PageTyped'
    BY <1>1, <1>3 DEF PageTyped
  <2>. QED BY <1>1, <1>2, <1>3, <2>1, <2>2, <2>3 DEF PageMove
<1>4. CASE LostSession /\ idRef = a.id /\ sess[a.id].at = "ended"
  <2>1. idRef \notin Open /\ idRef # 0 /\ a.to # "open"
    BY <1>1, <1>4, NoIdNought DEF Open
  <2>. QED BY <1>1, <1>4, <2>1, LostIsAMove
<1>5. serverFen \in Places /\ timer \in Ids \cup {0} /\ idRef \in Ids \cup {0}
  BY DEF PageTyped
<1>6. ASSUME HearsPatch(a), idRef = a.id, a.ok = "ok" /\ Patched(a)
      PROVE  UNCHANGED <<idRef, gen, alive, sentFen, epoch, calls>> /\ serverFen' \in Places
             /\ timer' \in Ids \cup {0}
  <2>1. a.to = "patch" /\ a.fen \in Places
    BY <1>6 DEF HearsPatch, AnswerTyped
  <2>2. /\ UNCHANGED <<idRef, gen, alive, sentFen, epoch, calls>> /\ Debounces
        /\ serverFen' = IF a.epoch = epoch THEN a.fen ELSE serverFen
    BY <1>6 DEF Patched
  <2>3. idRef' \in Ids \cup {0}
    BY <1>5, <2>2
  <2>. QED BY <1>5, <2>1, <2>2, <2>3, DebounceIsTyped
<1>7. ASSUME HearsPatch(a)
      PROVE  \/ UNCHANGED <<idRef, gen, alive, serverFen, sentFen, epoch, timer, calls>>
             \/ idRef = a.id /\ a.ok = "ok" /\ Patched(a)
             \/ idRef = a.id /\ a.to = "patch" /\ a.ok = "unknown" /\ LostSession
  BY <1>7 DEF HearsPatch, Answered
<1>8. ASSUME HearsList(a)
      PROVE  \/ UNCHANGED <<idRef, gen, alive, serverFen, sentFen, epoch, timer, calls>>
             \/ idRef = a.id /\ a.to = "list" /\ ~a.open /\ LostSession
  BY <1>8, Zenon DEF HearsList, Answered
<1>9. CASE UNCHANGED <<idRef, gen, alive, serverFen, sentFen, epoch, timer, calls>>
  BY <1>3, <1>5, <1>9
<1>10. CASE LostSession /\ idRef = a.id /\ ((a.to = "patch" /\ a.ok = "unknown") \/ (a.to = "list" /\ ~a.open))
  BY <1>4, <1>10, Zenon DEF GoneIsGone
<1>. QED BY <1>1, <1>3, <1>6, <1>7, <1>8, <1>9, <1>10, Zenon


LEMMA FrameIsAMove ==
  ASSUME PageAssumption, Typed, GoneIsGone, HearsFrame
  PROVE  /\ PageMove /\ PageTyped' /\ answers' = answers /\ gen' = gen /\ calls' = calls
         /\ feed # <<>> /\ feed' = Tail(feed) /\ listening' = listening
<1>. USE DEF Typed, WireTyped
<1>. DEFINE f == Head(feed)
<1>1. /\ feed # <<>> /\ feed' = Tail(feed) /\ UNCHANGED <<fen, gen, sentFen, epoch, calls, answers, listening>>
      /\ \/ UNCHANGED <<enabled, idRef, alive, serverFen, timer>>
         \/ /\ f.id = idRef /\ f.say # "snapshot" /\ idRef' = 0 /\ serverFen' = None
            /\ enabled' = FALSE /\ alive' = 0 /\ timer' = 0
  BY DEF HearsFrame, NoEffect, Accepts, EndedUnderUs, Aside
<1>2. Keeps /\ Added = {}
  BY <1>1, AsksNothing
<1>3. AsksOfItsOwn /\ AsksNoBoard
  BY <1>1, <1>2 DEF AsksOfItsOwn, AsksNoBoard
<1>4. HearsOut
  BY <1>1 DEF HearsOut
<1>5. CASE UNCHANGED <<enabled, idRef, alive, serverFen, timer>>
  <2>1. PageTyped'
    BY <1>1, <1>5 DEF PageTyped
  <2>. QED BY <1>1, <1>2, <1>3, <1>4, <1>5, <2>1 DEF PageMove
<1>6. CASE /\ f.id = idRef /\ f.say # "snapshot" /\ idRef' = 0 /\ serverFen' = None
           /\ enabled' = FALSE /\ alive' = 0 /\ timer' = 0
  <2>1. PageTyped'
    BY <1>1, <1>6 DEF PageTyped, Places
  <2>2. 1 \in DOMAIN feed /\ f = feed[1] /\ feed[1] \in Frames
    BY <1>1
  <2>3. f.say = "ended"
    BY <1>6, <2>2 DEF Frames
  <2>. HIDE DEF f
  <2>4. sess[idRef].at = "ended"
    BY <1>6, <2>2, <2>3 DEF GoneIsGone
  <2>5. LetsGo
    BY <1>6, <2>4 DEF LetsGo, Open
  <2>. QED BY <1>1, <1>2, <1>3, <1>4, <2>1, <2>5 DEF PageMove
<1>. QED BY <1>1, <1>5, <1>6

LEMMA SocketIsAMove ==
  ASSUME PageAssumption, Typed, SocketDrops \/ SocketReturns
  PROVE  PageMove /\ PageTyped' /\ answers' = answers /\ gen' = gen /\ idRef' = idRef
<1>. USE DEF Typed, WireTyped
<1>1. /\ UNCHANGED <<enabled, fen, idRef, gen, alive, serverFen, sentFen, epoch, timer, answers>>
      /\ \/ calls' = calls
         \/ idRef # 0 /\ Asks(<<[ask |-> "list", id |-> idRef]>>)
  <2>1. ASSUME SocketDrops
        PROVE  UNCHANGED <<enabled, fen, idRef, gen, alive, serverFen, sentFen, epoch, timer, answers, calls>>
    BY <2>1 DEF SocketDrops
  <2>2. ASSUME SocketReturns
        PROVE  /\ UNCHANGED <<enabled, fen, idRef, gen, alive, serverFen, sentFen, epoch, timer, answers>>
               /\ \/ calls' = calls
                  \/ idRef # 0 /\ Asks(<<[ask |-> "list", id |-> idRef]>>)
    <3>1. UNCHANGED <<enabled, fen, idRef, gen, alive, serverFen, sentFen, epoch, timer, answers>>
      BY <2>2 DEF SocketReturns, pageVars
    <3>2. CASE enabled /\ idRef # 0
      BY <2>2, <3>1, <3>2 DEF SocketReturns
    <3>3. CASE ~(enabled /\ idRef # 0)
      <4>1. Asks(<<>>)
        BY <2>2, <3>3, Zenon DEF SocketReturns
      <4>. QED BY <3>1, <4>1 DEF Asks
    <3>. QED BY <3>2, <3>3
  <2>. QED BY <2>1, <2>2
<1>2. PageTyped'
  BY <1>1 DEF PageTyped
<1>3. HearsOut
  BY <1>1 DEF HearsOut
<1>4. Keeps /\ AsksOfItsOwn /\ AsksNoBoard
  <2>1. CASE calls' = calls
    <3>1. Keeps /\ Added = {}
      BY <2>1, AsksNothing
    <3>. QED BY <1>1, <3>1 DEF AsksOfItsOwn, AsksNoBoard
  <2>2. CASE idRef # 0 /\ Asks(<<[ask |-> "list", id |-> idRef]>>)
    <3>. DEFINE c == [ask |-> "list", id |-> idRef]
    <3>1. idRef \in Ids
      BY <2>2 DEF PageTyped
    <3>2. c \in Calls /\ c.ask = "list" /\ c.id = idRef
      BY <3>1, RequestsAreCalls
    <3>3. Asks(<<c>>)
      BY <2>2
    <3>. HIDE DEF c
    <3>4. Keeps /\ \A i \in Added : calls'[i] = c
      BY <3>2, <3>3, AsksOne
    <3>. QED BY <1>1, <2>2, <3>2, <3>4 DEF AsksOfItsOwn, AsksNoBoard
  <2>. QED BY <1>1, <2>1, <2>2
<1>. QED BY <1>1, <1>2, <1>3, <1>4 DEF PageMove

LEMMA PageMoves ==
  ASSUME PageAssumption, Typed, GoneIsGone, PageStep,
         \A a \in answers : a.to = "open" => a.gen # 0 /\ (a.gen = gen => idRef = 0)
  PROVE  PageMove /\ PageTyped' /\ WireTyped'
<1>1. PageMove /\ PageTyped'
  <2>1. ASSUME NEW a \in answers, HearsOpen(a) PROVE PageMove /\ PageTyped'
    <3>1. a.gen # 0 /\ (a.gen = gen => idRef = 0)
      BY <2>1 DEF HearsOpen
    <3>. QED BY <2>1, <3>1, OpenHeardIsAMove
  <2>2. ASSUME NEW a \in answers, HearsPatch(a) \/ HearsList(a) PROVE PageMove /\ PageTyped'
    BY <2>2, OtherHeardIsAMove
  <2>3. ASSUME Hears PROVE PageMove /\ PageTyped'
    BY <2>1, <2>2, <2>3, Zenon DEF Hears
  <2>. QED BY <2>3, ClicksAreMoves, RingIsAMove, FrameIsAMove, SocketIsAMove, Zenon DEF PageStep
<1>2. answers' \subseteq answers /\ calls' \in Seq(Calls)
  BY <1>1 DEF PageMove, HearsOut, Keeps
<1>3. feed' \in Seq(Frames) /\ listening' \in BOOLEAN
  <2>1. feed \in Seq(Frames) /\ listening \in BOOLEAN
    BY DEF Typed, WireTyped
  <2>2. ASSUME PageClicks PROVE UNCHANGED <<feed, listening>>
    BY <2>2 DEF PageClicks, SetEnabled, SetEngineId, SetMultipv, Moves, Aside
  <2>3. ASSUME NEW a \in answers, HearsOpen(a) \/ HearsPatch(a) \/ HearsList(a)
        PROVE  UNCHANGED <<feed, listening>>
    BY <2>3 DEF HearsOpen, HearsPatch, HearsList, Aside
  <2>4. ASSUME DebounceRings PROVE UNCHANGED <<feed, listening>>
    BY <2>4 DEF DebounceRings, Aside
  <2>5. ASSUME HearsFrame PROVE feed' \in Seq(Frames) /\ listening' \in BOOLEAN
    <3>1. feed # <<>> /\ feed' = Tail(feed) /\ listening' = listening
      BY <2>5, FrameIsAMove
    <3>. QED BY <2>1, <3>1, HeadTailProperties
  <2>6. ASSUME SocketDrops \/ SocketReturns PROVE feed' \in Seq(Frames) /\ listening' \in BOOLEAN
    <3>1. <<>> \in Seq(Frames) /\ TRUE \in BOOLEAN /\ FALSE \in BOOLEAN
      OBVIOUS
    <3>2. ASSUME SocketDrops PROVE feed' = <<>> /\ listening' = FALSE
      BY <3>2, Zenon DEF SocketDrops
    <3>3. ASSUME SocketReturns PROVE feed' = feed /\ listening' = TRUE
      BY <3>3 DEF SocketReturns
    <3>. QED BY <2>1, <2>6, <3>1, <3>2, <3>3, Zenon
  <2>. QED BY <2>1, <2>2, <2>3, <2>4, <2>5, <2>6, Zenon DEF PageStep, Hears
<1>4. \A a \in answers' : AnswerTyped(a)
  BY <1>2 DEF Typed, WireTyped
<1>. QED BY <1>1, <1>2, <1>3, <1>4 DEF WireTyped


-----------------------------------------------------------------------------
(* The broker's books.                                                     *)

Books ==
  /\ SurfaceHasOneBoard /\ SearchIsHeld /\ LockIsWhole
  /\ lock.ends # 0 => sess[lock.ends].at = "ended"
  /\ lock.then # Nothing =>
       \A s \in Ids : sess[s].at = "open" => sess[s].surface # lock.then.surface

\* What is over stays over, and whose a board is does not change.
Grows ==
  \A s \in Ids : /\ sess[s].at = "ended" => sess'[s].at = "ended"
                 /\ sess[s].at # "unborn" => sess'[s].at # "unborn" /\ sess'[s].by = sess[s].by

LEMMA OpenIsOnTheBooks ==
  /\ \A s : s \in Open <=> s \in Ids /\ sess[s].at = "open"
  /\ \A s : s \in Born <=> s \in Ids /\ sess[s].at # "unborn"
  /\ \A s, surface : s \in On(surface) <=> s \in Open /\ sess[s].surface = surface
BY DEF Open, Born, On

LEMMA InsertKeepsBooks ==
  ASSUME PageAssumption, BrokerTyped, InOrder, SurfaceHasOneBoard, NEW post \in Posts,
         NEW searches \in [Ids -> {"none", "starting", "running", "over"}],
         \A s \in Ids : searches[s] \in {"starting", "running"} => s \in Open,
         On(post.surface) = {}, Inserts(post, searches), lock' = Unlocked
  PROVE  InOrder' /\ Books' /\ Grows
<1>. DEFINE n == Cardinality(Born) + 1
            r == [at |-> "open", by |-> post.by, surface |-> post.surface, fen |-> post.fen]
<1>1. lock'.ends = 0 /\ lock'.then = Nothing /\ LockIsWhole'
  BY DEF Unlocked, LockIsWhole
<1>2. CASE Cardinality(Open) >= MaxSessions
  <2>1. search' = searches /\ UNCHANGED <<sess, opening>>
    BY <1>2 DEF Inserts
  <2>2. InOrder' /\ SurfaceHasOneBoard' /\ Grows
    BY <2>1 DEF InOrder, Born, SurfaceHasOneBoard, Open, Grows
  <2>3. SearchIsHeld'
    BY <2>1 DEF SearchIsHeld, Open
  <2>. QED BY <1>1, <2>2, <2>3 DEF Books
<1>3. CASE ~(Cardinality(Open) >= MaxSessions)
  <2>1. sess' = [sess EXCEPT ![n] = r] /\ search' = [searches EXCEPT ![n] = "starting"]
    BY <1>3 DEF Inserts
  <2>2. r.at = "open" /\ r.surface = post.surface
    OBVIOUS
  <2>3. /\ n \in Nat
        /\ \A s \in Ids : s \in Born <=> s < n
    <3>1. /\ Cardinality(Born) \in Nat
          /\ \A s \in Ids : s \in Born <=> s <= Cardinality(Born)
      BY NextIsFresh
    <3>. QED BY <3>1, IdsAreNumbers
  <2>. HIDE DEF n, r
  <2>4. /\ DOMAIN sess = Ids /\ DOMAIN searches = Ids
        /\ \A s \in Ids : /\ sess'[s] = IF s = n THEN r ELSE sess[s]
                          /\ search'[s] = IF s = n THEN "starting" ELSE searches[s]
    BY <2>1 DEF BrokerTyped
  <2>5. \A s \in Ids : /\ s \in Born <=> s < n
                       /\ s \in Born' <=> s <= n
    BY <2>2, <2>3, <2>4, IdsAreNumbers, OpenIsOnTheBooks DEF Born
  <2>6. InOrder'
    BY <2>3, <2>5, IdsAreNumbers DEF InOrder
  <2>7. ASSUME NEW s \in Ids PROVE s \in Open' <=> s = n \/ s \in Open
    BY <2>2, <2>4 DEF Open
  <2>8. n \notin Open
    BY <2>3, IdsAreNumbers DEF Open, Born
  <2>9. SearchIsHeld'
    BY <2>4, <2>7 DEF SearchIsHeld
  <2>10. SurfaceHasOneBoard'
    <3>. SUFFICES ASSUME NEW s \in Ids, NEW t \in Ids, s \in Open', t \in Open',
                         sess'[s].surface = sess'[t].surface
                  PROVE  s = t
      BY DEF SurfaceHasOneBoard, Open
    <3>1. CASE s # n /\ t # n
      BY <2>4, <2>7, <3>1 DEF SurfaceHasOneBoard
    <3>2. \A u \in Open : sess[u].surface # post.surface
      BY DEF On
    <3>3. CASE s = n \/ t = n
      BY <2>2, <2>4, <2>7, <3>2, <3>3
    <3>. QED BY <3>1, <3>3
  <2>11. Grows
    BY <2>3, <2>4, IdsAreNumbers, OpenIsOnTheBooks DEF Grows
  <2>. QED BY <1>1, <2>6, <2>9, <2>10, <2>11 DEF Books
<1>. QED BY <1>2, <1>3

LEMMA EndKeepsBooks ==
  ASSUME PageAssumption, BrokerTyped, InOrder, Books, NEW s \in Open, lock = Unlocked,
         NEW reason \in {"replaced", "closed", "engine_failed", "idle"}, NEW then,
         then # Nothing => then.surface = sess[s].surface, FinishBegins(s, reason, then)
  PROVE  InOrder' /\ Books' /\ Grows
<1>1. /\ sess' = [sess EXCEPT ![s].at = "ended"] /\ search' = search
      /\ lock'.ends = s /\ lock'.reason = reason /\ lock'.then = then /\ s \in Ids
  BY DEF FinishBegins, Open
<1>2. \A t \in Ids : /\ t # s => sess'[t] = sess[t]
                     /\ sess'[t].surface = sess[t].surface /\ sess'[t].by = sess[t].by
  BY <1>1 DEF BrokerTyped, Sessions
<1>3. sess'[s].at = "ended"
  BY <1>1 DEF BrokerTyped, Sessions
<1>4. \A t : t \in Open' <=> t \in Open /\ t # s
  BY <1>1, <1>2, <1>3 DEF Open
<1>5. InOrder'
  BY <1>2, <1>3, OpenIsOnTheBooks DEF InOrder, Born
<1>6. LockIsWhole'
  BY <1>1, NoIdNought DEF LockIsWhole
<1>7. SurfaceHasOneBoard'
  BY <1>2, <1>4 DEF SurfaceHasOneBoard, Books, Open
<1>8. SearchIsHeld'
  <2>1. lock.ends = 0
    BY DEF Unlocked
  <2>. QED BY <1>1, <1>4, <2>1, NoIdNought DEF SearchIsHeld, Books
<1>9. ASSUME then # Nothing
      PROVE  \A t \in Ids : sess'[t].at = "open" => sess'[t].surface # then.surface
  <2>1. then.surface = sess[s].surface
    BY <1>9
  <2>. QED BY <1>2, <1>3, <2>1 DEF SurfaceHasOneBoard, Books, Open
<1>10. Grows
  BY <1>2, <1>3 DEF Grows
<1>. QED BY <1>1, <1>3, <1>5, <1>6, <1>7, <1>8, <1>9, <1>10 DEF Books


LEMMA SameKeepsBooks ==
  ASSUME InOrder, Books, UNCHANGED <<sess, search, lock>>
  PROVE  InOrder' /\ Books' /\ Grows
BY DEF InOrder, Books, Born, Open, On, SurfaceHasOneBoard, SearchIsHeld, LockIsWhole, Grows

LEMMA OpenKeepsBooks ==
  ASSUME PageAssumption, Typed, InOrder, Books, NEW post \in Posts, lock = Unlocked, Opens(post)
  PROVE  InOrder' /\ Books' /\ Grows
<1>. USE DEF Typed
<1>1. CASE On(post.surface) = {}
  <2>1. Inserts(post, search) /\ lock' = Unlocked
    BY <1>1 DEF Opens
  <2>2. /\ search \in [Ids -> {"none", "starting", "running", "over"}] /\ SurfaceHasOneBoard
        /\ \A s \in Ids : search[s] \in {"starting", "running"} => s \in Open
    BY NoIdNought DEF BrokerTyped, Books, SearchIsHeld, Unlocked
  <2>. QED BY <1>1, <2>1, <2>2, InsertKeepsBooks
<1>2. CASE On(post.surface) # {}
  <2>1. PICK s \in On(post.surface) : FinishBegins(s, "replaced", post)
    BY <1>2 DEF Opens
  <2>2. s \in Open /\ post.surface = sess[s].surface
    BY OpenIsOnTheBooks
  <2>. QED BY <2>1, <2>2, EndKeepsBooks
<1>. QED BY <1>1, <1>2

LEMMA PatchKeepsBooks ==
  ASSUME PageAssumption, Typed, InOrder, Books, NEW i \in DOMAIN calls, TakesPatch(i)
  PROVE  InOrder' /\ Books' /\ Grows
<1>. USE DEF Typed
<1>1. Takes(i, "patch")
  BY DEF TakesPatch
<1>2. calls[i].id \in Ids
  BY <1>1, TakenIsTyped, CallsAreRequests DEF WireTyped
<1>. DEFINE s == calls[i].id
<1>3. /\ UNCHANGED <<lock, search>>
      /\ sess' = sess \/ \E f : sess' = [sess EXCEPT ![s].fen = f]
  BY Zenon DEF TakesPatch
<1>4. \A t \in Ids : /\ sess'[t].at = sess[t].at /\ sess'[t].by = sess[t].by
                     /\ sess'[t].surface = sess[t].surface
  <2>1. CASE sess' = sess
    BY <2>1
  <2>2. ASSUME NEW f, sess' = [sess EXCEPT ![s].fen = f]
        PROVE  \A t \in Ids : /\ sess'[t].at = sess[t].at /\ sess'[t].by = sess[t].by
                              /\ sess'[t].surface = sess[t].surface
    <3>1. sess \in [Ids -> Sessions]
      BY DEF BrokerTyped
    <3>. HIDE DEF s
    <3>2. \A t \in Ids : t # s => sess'[t] = sess[t]
      BY <2>2, <3>1
    <3>3. sess'[s] = [sess[s] EXCEPT !.fen = f] /\ sess[s] \in Sessions
      BY <1>2, <2>2, <3>1 DEF s
    <3>4. sess'[s].at = sess[s].at /\ sess'[s].by = sess[s].by /\ sess'[s].surface = sess[s].surface
      BY <3>3 DEF Sessions
    <3>. QED BY <3>2, <3>4
  <2>. QED BY <1>3, <2>1, <2>2
<1>5. Open' = Open /\ Born' = Born
  BY <1>4 DEF Open, Born
<1>6. lock.ends # 0 => lock.ends \in Ids
  BY DEF BrokerTyped
<1>7. InOrder' /\ Grows
  BY <1>4, <1>5 DEF InOrder, Grows
<1>8. SurfaceHasOneBoard' /\ SearchIsHeld' /\ LockIsWhole'
  BY <1>3, <1>4, <1>5 DEF Books, SurfaceHasOneBoard, SearchIsHeld, LockIsWhole, Open
<1>9. lock'.ends # 0 => sess'[lock'.ends].at = "ended"
  BY <1>3, <1>4, <1>6 DEF Books
<1>10. lock'.then # Nothing =>
         \A t \in Ids : sess'[t].at = "open" => sess'[t].surface # lock'.then.surface
  BY <1>3, <1>4 DEF Books
<1>. QED BY <1>7, <1>8, <1>9, <1>10 DEF Books

LEMMA FinishKeepsBooks ==
  ASSUME PageAssumption, Typed, InOrder, Books, Finishes
  PROVE  InOrder' /\ Books' /\ Grows
<1>. USE DEF Typed
<1>. DEFINE stopped == [search EXCEPT ![lock.ends] = "none"]
<1>1. /\ lock # Unlocked /\ lock' = Unlocked
      /\ IF lock.then = Nothing
           THEN search' = stopped /\ sess' = sess
           ELSE Inserts(lock.then, stopped)
  BY DEF Finishes
<1>2. lock.ends \in Ids
  BY <1>1 DEF Books, LockIsWhole
<1>3. /\ stopped \in [Ids -> {"none", "starting", "running", "over"}]
      /\ \A s \in Ids : stopped[s] \in {"starting", "running"} => s \in Open
  BY <1>2 DEF BrokerTyped, Books, SearchIsHeld
<1>. HIDE DEF stopped
<1>4. CASE lock.then = Nothing
  <2>1. search' = stopped /\ sess' = sess
    BY <1>1, <1>4
  <2>2. InOrder' /\ Grows /\ SurfaceHasOneBoard' /\ Open' = Open
    BY <2>1 DEF InOrder, Grows, Books, SurfaceHasOneBoard, Open, Born
  <2>3. SearchIsHeld'
    BY <1>3, <2>1, <2>2 DEF SearchIsHeld
  <2>4. lock'.ends = 0 /\ lock'.then = Nothing /\ LockIsWhole'
    BY <1>1 DEF LockIsWhole, Unlocked
  <2>. QED BY <2>2, <2>3, <2>4 DEF Books
<1>5. CASE lock.then # Nothing
  <2>1. Inserts(lock.then, stopped) /\ lock' = Unlocked /\ lock.then \in Posts
    BY <1>1, <1>5 DEF BrokerTyped
  <2>2. On(lock.then.surface) = {} /\ SurfaceHasOneBoard
    BY <1>5 DEF Books, On, Open
  <2>. QED BY <1>3, <2>1, <2>2, InsertKeepsBooks
<1>. QED BY <1>4, <1>5

LEMMA ReturnKeepsBooks ==
  ASSUME PageAssumption, Typed, InOrder, Books, NEW s \in Ids, OpenReturns(s)
  PROVE  InOrder' /\ Books' /\ Grows
<1>. USE DEF Typed
<1>1. /\ lock.ends # s /\ lock' = lock
      /\ \/ UNCHANGED <<sess, search>>
         \/ /\ s \in Open /\ sess' = sess
            /\ search' = [search EXCEPT ![s] = IF @ = "starting" THEN "running" ELSE @]
         \/ /\ s \in Open /\ sess' = [sess EXCEPT ![s].at = "ended"]
            /\ search' = [search EXCEPT ![s] = "none"]
  BY DEF OpenReturns
<1>2. CASE UNCHANGED <<sess, search>>
  BY <1>1, <1>2, SameKeepsBooks
<1>3. CASE /\ s \in Open /\ sess' = sess
           /\ search' = [search EXCEPT ![s] = IF @ = "starting" THEN "running" ELSE @]
  <2>1. Open' = Open /\ Born' = Born
    BY <1>3 DEF Open, Born
  <2>2. \A t \in Ids : t # s => search'[t] = search[t]
    BY <1>3 DEF BrokerTyped
  <2>3. SearchIsHeld'
    BY <1>1, <1>3, <2>1, <2>2 DEF SearchIsHeld, Books
  <2>4. SurfaceHasOneBoard' /\ LockIsWhole' /\ InOrder' /\ Grows
    BY <1>1, <1>3, <2>1 DEF Books, SurfaceHasOneBoard, LockIsWhole, InOrder, Grows
  <2>. QED BY <1>1, <1>3, <2>1, <2>3, <2>4 DEF Books
<1>4. CASE /\ s \in Open /\ sess' = [sess EXCEPT ![s].at = "ended"]
           /\ search' = [search EXCEPT ![s] = "none"]
  <2>1. \A t \in Ids : /\ t # s => sess'[t] = sess[t] /\ search'[t] = search[t]
                       /\ sess'[t].surface = sess[t].surface /\ sess'[t].by = sess[t].by
    BY <1>4 DEF BrokerTyped, Sessions
  <2>2. sess'[s].at = "ended" /\ search'[s] = "none"
    BY <1>4 DEF BrokerTyped, Sessions
  <2>3. \A t : t \in Open' <=> t \in Open /\ t # s
    BY <2>1, <2>2 DEF Open
  <2>4. SurfaceHasOneBoard' /\ InOrder' /\ Grows
    <3>1. SurfaceHasOneBoard'
      BY <2>1, <2>3 DEF Books, SurfaceHasOneBoard, Open
    <3>2. Grows
      BY <2>1, <2>2 DEF Grows
    <3>3. \A t : t \in Born' <=> t \in Born
      BY <1>4, <2>1, <2>2 DEF Born, Open
    <3>. QED BY <3>1, <3>2, <3>3 DEF InOrder
  <2>5. SearchIsHeld' /\ LockIsWhole'
    BY <1>1, <2>1, <2>2, <2>3 DEF Books, SearchIsHeld, LockIsWhole
  <2>6. lock'.ends # 0 => sess'[lock'.ends].at = "ended"
    BY <1>1, <2>1, <2>2 DEF Books, BrokerTyped
  <2>7. lock'.then # Nothing =>
          \A t \in Ids : sess'[t].at = "open" => sess'[t].surface # lock'.then.surface
    BY <1>1, <2>1, <2>2 DEF Books
  <2>. QED BY <2>4, <2>5, <2>6, <2>7 DEF Books
<1>. QED BY <1>1, <1>2, <1>3, <1>4

LEMMA StepKeepsBooks ==
  ASSUME PageAssumption, Typed, InOrder, Books, Next
  PROVE  InOrder' /\ Books' /\ Grows
<1>. USE DEF Typed
<1>1. ASSUME NEW i \in DOMAIN calls, TakesOpen(i) PROVE InOrder' /\ Books' /\ Grows
  <2>1. Takes(i, "open") /\ Opens(calls[i])
    BY <1>1 DEF TakesOpen
  <2>2. calls[i] \in Posts /\ lock = Unlocked
    BY <2>1, TakenIsTyped, CallsAreRequests DEF WireTyped
  <2>. QED BY <2>1, <2>2, OpenKeepsBooks
<1>2. ASSUME NEW i \in DOMAIN calls, TakesClose(i) PROVE InOrder' /\ Books' /\ Grows
  <2>1. lock = Unlocked
    BY <1>2 DEF TakesClose, Takes
  <2>2. CASE calls[i].id \in Open
    <3>1. FinishBegins(calls[i].id, "closed", Nothing)
      BY <1>2, <2>2 DEF TakesClose
    <3>. QED BY <2>1, <2>2, <3>1, EndKeepsBooks
  <2>3. CASE calls[i].id \notin Open
    BY <1>2, <2>3, SameKeepsBooks DEF TakesClose
  <2>. QED BY <2>2, <2>3
<1>3. ASSUME NEW i \in DOMAIN calls, TakesList(i) PROVE InOrder' /\ Books' /\ Grows
  BY <1>3, SameKeepsBooks DEF TakesList
<1>4. ASSUME NEW s \in Ids, BackendEnded(s) PROVE InOrder' /\ Books' /\ Grows
  <2>1. CASE s \in Open
    <3>1. FinishBegins(s, "engine_failed", Nothing) /\ lock = Unlocked
      BY <1>4, <2>1 DEF BackendEnded
    <3>. QED BY <2>1, <3>1, EndKeepsBooks
  <2>2. CASE s \notin Open
    BY <1>4, <2>2, SameKeepsBooks DEF BackendEnded
  <2>. QED BY <2>1, <2>2
<1>5. ASSUME NEW s \in Ids, Reaps(s) PROVE InOrder' /\ Books' /\ Grows
  <2>1. s \in Open /\ lock = Unlocked /\ FinishBegins(s, "idle", Nothing)
    BY <1>5 DEF Reaps
  <2>. QED BY <2>1, EndKeepsBooks
<1>6. ASSUME NEW s \in Ids, Turns(s) \/ Draws(s) \/ Delivers(s) PROVE InOrder' /\ Books' /\ Grows
  <2>1. UNCHANGED <<sess, search, lock>>
    BY <1>6 DEF Turns, Draws, Delivers
  <2>. QED BY <2>1, SameKeepsBooks
<1>7. ASSUME NEW s \in Ids, EndsAlone(s) PROVE InOrder' /\ Books' /\ Grows
  <2>1. search' = [search EXCEPT ![s] = "over"] /\ UNCHANGED <<sess, lock>>
    BY <1>7 DEF EndsAlone
  <2>2. \A t \in Ids : search'[t] \in {"starting", "running"} => search'[t] = search[t]
    BY <2>1 DEF BrokerTyped
  <2>3. SearchIsHeld'
    BY <2>1, <2>2 DEF SearchIsHeld, Books, Open
  <2>. QED BY <2>1, <2>3 DEF InOrder, Books, Born, Open, On, SurfaceHasOneBoard, LockIsWhole, Grows
<1>8. ASSUME NEW surface \in {"game", "live"}, NEW f \in Fens, RivalOpens(surface, f)
      PROVE  InOrder' /\ Books' /\ Grows
  <2>1. lock = Unlocked /\ Opens([ask |-> "open", by |-> "rival", gen |-> 0, surface |-> surface, fen |-> f])
    BY <1>8 DEF RivalOpens
  <2>. QED BY <2>1, RivalsPost, OpenKeepsBooks
<1>9. ASSUME Serves PROVE InOrder' /\ Books' /\ Grows
  BY <1>1, <1>2, <1>3, <1>4, <1>9, PatchKeepsBooks, FinishKeepsBooks, ReturnKeepsBooks, Zenon DEF Serves
<1>10. ASSUME PageStep PROVE InOrder' /\ Books' /\ Grows
  <2>1. UNCHANGED <<sess, search, lock>>
    BY <1>10, PageLeavesBooks
  <2>. QED BY <2>1, SameKeepsBooks
<1>. QED BY <1>5, <1>6, <1>7, <1>8, <1>9, <1>10, Zenon DEF Next, ServerStep


-----------------------------------------------------------------------------
(* A step of the server, as what it takes, answers, opens and ends.        *)

\* Whose names are in use: every board spoken of has been given out.
Named ==
  /\ idRef # 0 => sess[idRef].at # "unborn"
  /\ \A i \in DOMAIN calls : calls[i].ask \in {"patch", "list"} => sess[calls[i].id].at # "unborn"
  /\ \A a \in answers : a.to = "open" /\ a.id # 0 => sess[a.id].at # "unborn"
  /\ \A s \in Ids : opening[s] # Nothing => sess[s].at # "unborn" /\ sess[s].by = opening[s].by
  \* a board whose backend has yet to answer is not yet the page's
  /\ \A s \in Ids : opening[s] # Nothing => idRef # s /\ \A a \in answers : a.to = "open" => a.id # s

Unanswered(c) == \E i \in DOMAIN calls' : calls'[i] = c

Served(c) ==
  /\ c.ask = "close" => sess'[c.id].at # "open"
  /\ c.ask = "list" /\ sess[c.id].at = "ended" =>
       \E a \in answers' : a.to = "list" /\ ~a.open /\ a.id = c.id

CallsMove ==
  /\ \A i \in DOMAIN calls' : \E j \in DOMAIN calls : calls'[i] = calls[j]
  /\ \A j \in DOMAIN calls : Unanswered(calls[j]) \/ Served(calls[j])

AnswersMove ==
  /\ answers \subseteq answers'
  /\ \A a \in answers' \ answers :
       /\ a.to = "open" /\ a.id # 0 =>
            /\ sess[a.id].at = "open" /\ sess'[a.id].at = "open"
            /\ opening[a.id] # Nothing /\ opening'[a.id] = Nothing
       /\ a.to = "patch" /\ a.ok = "unknown" => sess[a.id].at = "ended"
       /\ a.to = "list" /\ ~a.open => sess[a.id].at = "ended"

OpeningsMove ==
  \A s \in Ids :
    /\ \/ opening'[s] = opening[s]
       \/ /\ opening'[s] = Nothing
          /\ sess'[s].at = "open" /\ sess[s].by = "page" =>
               \E a \in answers' : a.to = "open" /\ a.id = s
       \/ sess[s].at = "unborn" /\ sess'[s].at # "unborn" /\ sess'[s].by = opening'[s].by
    /\ sess[s].at = "unborn" => sess'[s].at = "unborn" \/ opening'[s] # Nothing

FeedMoves ==
  /\ \A i \in DOMAIN feed : i \in DOMAIN feed' /\ feed'[i] = feed[i]
  /\ \A i \in DOMAIN feed' \ DOMAIN feed :
       feed'[i].say = "ended" => sess[feed'[i].id].at = "ended"
  /\ listening' = listening

EndsMove ==
  \A s \in Ids :
    /\ sess[s].at # "ended" /\ sess'[s].at = "ended" => lock'.ends = s \/ opening[s] # Nothing
    /\ lock.ends = s =>
         \/ lock'.ends = s \/ ~listening
         \/ \E i \in DOMAIN feed' : feed'[i].say = "ended" /\ feed'[i].id = s

ServerMove == CallsMove /\ AnswersMove /\ OpeningsMove /\ FeedMoves /\ EndsMove

LEMMA OneIsTaken ==
  ASSUME calls \in Seq(Calls), NEW i, NEW ask, Takes(i, ask)
  PROVE  /\ \A m \in DOMAIN calls' : \E j \in DOMAIN calls : j # i /\ calls'[m] = calls[j]
         /\ \A j \in DOMAIN calls : j # i => Unanswered(calls[j])
         /\ \A m, k \in DOMAIN calls' : m # k =>
              \E j, l \in DOMAIN calls : j # l /\ calls'[m] = calls[j] /\ calls'[k] = calls[l]
<1>. DEFINE n == Len(calls)
<1>1. /\ i \in DOMAIN calls /\ DOMAIN calls' = 1 .. (n - 1)
      /\ \A m \in DOMAIN calls' : calls'[m] = IF m < i THEN calls[m] ELSE calls[m + 1]
  BY TakenIsTyped
<1>2. n \in Nat /\ DOMAIN calls = 1 .. n
  OBVIOUS
<1>. HIDE DEF n
<1>3. ASSUME NEW m \in DOMAIN calls' PROVE \E j \in DOMAIN calls : j # i /\ calls'[m] = calls[j]
  BY <1>1, <1>2
<1>4. ASSUME NEW j \in DOMAIN calls, j # i PROVE Unanswered(calls[j])
  <2>1. CASE j < i
    <3>1. j \in DOMAIN calls' /\ calls'[j] = calls[j]
      BY <1>1, <1>2, <2>1
    <3>. QED BY <3>1 DEF Unanswered
  <2>2. CASE ~(j < i)
    <3>1. j - 1 \in DOMAIN calls' /\ ~(j - 1 < i) /\ (j - 1) + 1 = j
      BY <1>1, <1>2, <1>4, <2>2
    <3>2. calls'[j - 1] = calls[j]
      BY <1>1, <3>1
    <3>. QED BY <3>1, <3>2 DEF Unanswered
  <2>. QED BY <2>1, <2>2
<1>5. ASSUME NEW m \in DOMAIN calls', NEW k \in DOMAIN calls', m # k
      PROVE  \E j, l \in DOMAIN calls : j # l /\ calls'[m] = calls[j] /\ calls'[k] = calls[l]
  <2>. DEFINE j == IF m < i THEN m ELSE m + 1
              l == IF k < i THEN k ELSE k + 1
  <2>1. j \in DOMAIN calls /\ l \in DOMAIN calls /\ j # l
    BY <1>1, <1>2, <1>5
  <2>2. calls'[m] = calls[j] /\ calls'[k] = calls[l]
    BY <1>1
  <2>. HIDE DEF j, l
  <2>. QED BY <2>1, <2>2, Zenon
<1>. QED BY <1>3, <1>4, <1>5


LEMMA CallsStay == ASSUME calls' = calls PROVE CallsMove
BY DEF CallsMove, Unanswered

LEMMA CallIsServed ==
  ASSUME calls \in Seq(Calls), NEW i, NEW ask, Takes(i, ask), Served(calls[i])
  PROVE  CallsMove
BY OneIsTaken DEF CallsMove

LEMMA FeedStays == ASSUME UNCHANGED <<feed, listening>> PROVE FeedMoves
BY DEF FeedMoves

LEMMA AnswersStay == ASSUME answers' = answers PROVE AnswersMove
BY DEF AnswersMove

LEMMA OpeningsStay ==
  ASSUME opening' = opening, \A s \in Ids : sess[s].at = "unborn" => sess'[s].at = "unborn"
  PROVE  OpeningsMove
BY DEF OpeningsMove

LEMMA NobodyEnds ==
  ASSUME lock' = lock, \A s \in Ids : sess'[s].at = "ended" => sess[s].at = "ended"
  PROVE  EndsMove
BY DEF EndsMove

LEMMA PostAnswered ==
  ASSUME NEW post \in Posts, NEW s, NEW ok, Answers(post, ok, s)
  PROVE  /\ answers \subseteq answers'
         /\ \A a \in answers' \ answers : a.to = "open" /\ a.id = s /\ a.gen = post.gen /\ post.by = "page"
         /\ \A a, b \in answers' \ answers : a = b
         /\ post.by = "page" => \E a \in answers' : a.to = "open" /\ a.id = s
<1>. DEFINE r == [to |-> "open", gen |-> post.gen, ok |-> ok, id |-> s,
                  fen |-> IF ok THEN sess[s].fen ELSE None]
<1>1. r.to = "open" /\ r.id = s /\ r.gen = post.gen
  OBVIOUS
<1>2. answers' = IF post.by # "page" THEN answers ELSE answers \cup {r}
  BY Zenon DEF Answers
<1>. HIDE DEF r
<1>. QED BY <1>1, <1>2

LEMMA InsertMoves ==
  ASSUME PageAssumption, BrokerTyped, InOrder, NEW post \in Posts, NEW searches, Inserts(post, searches)
  PROVE  /\ AnswersMove /\ OpeningsMove
         /\ \A s \in Ids : sess'[s].at = "ended" => sess[s].at = "ended"
<1>. DEFINE n == Cardinality(Born) + 1
            r == [at |-> "open", by |-> post.by, surface |-> post.surface, fen |-> post.fen]
<1>1. CASE Cardinality(Open) >= MaxSessions
  <2>1. Answers(post, FALSE, 0) /\ UNCHANGED <<sess, opening>>
    BY <1>1 DEF Inserts
  <2>2. AnswersMove
    BY <2>1, PostAnswered, ZenonT(60) DEF AnswersMove
  <2>. QED BY <2>1, <2>2, OpeningsStay
<1>2. CASE ~(Cardinality(Open) >= MaxSessions)
  <2>1. sess' = [sess EXCEPT ![n] = r] /\ opening' = [opening EXCEPT ![n] = post] /\ answers' = answers
    BY <1>2 DEF Inserts
  <2>2. r.at = "open" /\ r.by = post.by /\ post # Nothing
    BY PostsAreRequests
  <2>3. n \in Nat /\ \A s \in Ids : s \in Born <=> s < n
    <3>1. /\ Cardinality(Born) \in Nat
          /\ \A s \in Ids : s \in Born <=> s <= Cardinality(Born)
      BY NextIsFresh
    <3>. QED BY <3>1, IdsAreNumbers
  <2>. HIDE DEF n, r
  <2>4. \A s \in Ids : /\ sess'[s] = IF s = n THEN r ELSE sess[s]
                       /\ opening'[s] = IF s = n THEN post ELSE opening[s]
    BY <2>1 DEF BrokerTyped
  <2>5. \A s \in Ids : s = n => sess[s].at = "unborn"
    BY <2>3, IdsAreNumbers DEF Born
  <2>6. OpeningsMove
    BY <2>2, <2>4, <2>5 DEF OpeningsMove
  <2>. QED BY <2>1, <2>2, <2>4, <2>6, AnswersStay
<1>. QED BY <1>1, <1>2

LEMMA FinishMoves ==
  ASSUME PageAssumption, BrokerTyped, NEW s \in Open, lock = Unlocked, NEW reason, NEW then,
         FinishBegins(s, reason, then)
  PROVE  AnswersMove /\ OpeningsMove /\ FeedMoves /\ EndsMove /\ sess'[s].at = "ended"
<1>1. /\ sess' = [sess EXCEPT ![s].at = "ended"] /\ lock'.ends = s /\ s \in Ids /\ sess[s].at = "open"
      /\ UNCHANGED <<opening, answers, feed, listening>>
  BY DEF FinishBegins, Open
<1>2. \A t \in Ids : t # s => sess'[t] = sess[t]
  BY <1>1 DEF BrokerTyped
<1>3. sess'[s].at = "ended" /\ lock.ends \notin Ids
  BY <1>1, NoIdNought DEF BrokerTyped, Sessions, Unlocked
<1>4. OpeningsMove
  BY <1>1, <1>2, OpeningsStay
<1>5. EndsMove
  BY <1>1, <1>2, <1>3 DEF EndsMove
<1>. QED BY <1>1, <1>3, <1>4, <1>5, AnswersStay, FeedStays

LEMMA OpensMoves ==
  ASSUME PageAssumption, Typed, InOrder, NEW post \in Posts, lock = Unlocked, Opens(post)
  PROVE  AnswersMove /\ OpeningsMove /\ FeedMoves /\ EndsMove
<1>. USE DEF Typed
<1>1. CASE On(post.surface) = {}
  <2>1. Inserts(post, search) /\ UNCHANGED <<lock, feed, listening>>
    BY <1>1 DEF Opens
  <2>2. AnswersMove /\ OpeningsMove /\ \A s \in Ids : sess'[s].at = "ended" => sess[s].at = "ended"
    BY <2>1, InsertMoves
  <2>. QED BY <2>1, <2>2, FeedStays, NobodyEnds
<1>2. CASE On(post.surface) # {}
  <2>1. PICK s \in On(post.surface) : FinishBegins(s, "replaced", post)
    BY <1>2 DEF Opens
  <2>2. s \in Open
    BY OpenIsOnTheBooks
  <2>. QED BY <2>1, <2>2, FinishMoves
<1>. QED BY <1>1, <1>2


LEMMA EmitMoves ==
  ASSUME feed \in Seq(Frames), listening \in BOOLEAN, NEW f \in Frames, Emits(f), listening' = listening,
         f.say = "ended" => sess[f.id].at = "ended"
  PROVE  FeedMoves /\ (~listening \/ \E i \in DOMAIN feed' : feed'[i] = f)
<1>1. CASE ~listening
  <2>1. feed' = feed
    BY <1>1 DEF Emits
  <2>. QED BY <1>1, <2>1, FeedStays
<1>2. CASE listening
  <2>. DEFINE n == Len(feed)
  <2>1. feed' = Append(feed, f)
    BY <1>2 DEF Emits
  <2>2. /\ feed' \in Seq(Frames) /\ Len(feed') = n + 1 /\ n \in Nat /\ DOMAIN feed = 1 .. n
        /\ (\A i \in 1 .. n : feed'[i] = feed[i]) /\ feed'[n + 1] = f
    BY <2>1, AppendProperties
  <2>3. DOMAIN feed' = 1 .. (n + 1)
    BY <2>2
  <2>. HIDE DEF n
  <2>4. n + 1 \in DOMAIN feed' /\ \A i \in DOMAIN feed' \ DOMAIN feed : i = n + 1
    BY <2>2, <2>3
  <2>5. \A i \in DOMAIN feed : i \in DOMAIN feed' /\ feed'[i] = feed[i]
    BY <2>2, <2>3
  <2>6. FeedMoves
    BY <2>2, <2>4, <2>5 DEF FeedMoves
  <2>. QED BY <2>2, <2>4, <2>6
<1>. QED BY <1>1, <1>2

LEMMA PatchMoves ==
  ASSUME PageAssumption, Typed, Named, NEW i \in DOMAIN calls, TakesPatch(i)
  PROVE  ServerMove
<1>. USE DEF Typed, WireTyped
<1>1. Takes(i, "patch")
  BY DEF TakesPatch
<1>2. calls[i].id \in Ids /\ calls[i].ask = "patch" /\ sess[calls[i].id].at # "unborn"
  BY <1>1, TakenIsTyped, CallsAreRequests DEF Named
<1>3. CallsMove
  <2>1. Served(calls[i])
    BY <1>2 DEF Served
  <2>. QED BY <1>1, <2>1, CallIsServed
<1>. DEFINE s == calls[i].id
            says(ok, f) == [to |-> "patch", id |-> s, epoch |-> calls[i].epoch,
                            moves |-> calls[i].fen # None, ok |-> ok, fen |-> f]
<1>4. /\ UNCHANGED <<opening, lock, feed, listening>>
      /\ \/ s \notin Open /\ answers' = answers \cup {says("unknown", None)} /\ sess' = sess
         \/ \E ok \in {"refused", "ok"} : \E f :
              answers' = answers \cup {says(ok, f)} /\ sess' = [sess EXCEPT ![s].fen = f]
  <2>1. UNCHANGED <<opening, lock, feed, listening>>
    BY DEF TakesPatch
  <2>2. CASE s \notin Open
    BY <2>1, <2>2 DEF TakesPatch
  <2>3. CASE s \in Open
    <3>. DEFINE g == IF calls[i].fen = None THEN sess[s].fen ELSE calls[i].fen
                o == IF search[s] = "over" THEN "refused" ELSE "ok"
    <3>1. answers' = answers \cup {says(o, g)} /\ sess' = [sess EXCEPT ![s].fen = g]
      BY <2>3, Zenon DEF TakesPatch
    <3>2. o \in {"refused", "ok"}
      OBVIOUS
    <3>. HIDE DEF says, g, o
    <3>. QED BY <2>1, <3>1, <3>2, Zenon
  <2>. QED BY <2>2, <2>3
<1>5. \A ok, f : says(ok, f).to = "patch" /\ says(ok, f).ok = ok /\ says(ok, f).id = s
  OBVIOUS
<1>6. \A t \in Ids : sess'[t].at = sess[t].at
  <2>1. CASE sess' = sess
    BY <2>1
  <2>2. ASSUME NEW f, sess' = [sess EXCEPT ![s].fen = f]
        PROVE  \A t \in Ids : sess'[t].at = sess[t].at
    <3>1. sess \in [Ids -> Sessions]
      BY DEF BrokerTyped
    <3>. HIDE DEF s, says
    <3>2. \A t \in Ids : t # s => sess'[t] = sess[t]
      BY <2>2, <3>1
    <3>3. sess'[s] = [sess[s] EXCEPT !.fen = f] /\ sess[s] \in Sessions
      BY <1>2, <2>2, <3>1 DEF s
    <3>4. sess'[s].at = sess[s].at
      BY <3>3 DEF Sessions
    <3>. QED BY <3>2, <3>4
  <2>. HIDE DEF s, says
  <2>. QED BY <1>4, <2>1, <2>2
<1>7. s \notin Open => sess[s].at = "ended"
  BY <1>2, SessionFields DEF Open, BrokerTyped
<1>. HIDE DEF says, s
<1>8. AnswersMove
  <2>1. CASE s \notin Open /\ answers' = answers \cup {says("unknown", None)} /\ sess' = sess
    BY <1>5, <1>7, <2>1 DEF AnswersMove
  <2>2. ASSUME NEW ok \in {"refused", "ok"}, NEW f, answers' = answers \cup {says(ok, f)}
        PROVE  AnswersMove
    BY <1>5, <2>2 DEF AnswersMove
  <2>. QED BY <1>4, <2>1, <2>2
<1>9. OpeningsMove /\ EndsMove /\ FeedMoves
  BY <1>4, <1>6, OpeningsStay, NobodyEnds, FeedStays
<1>. QED BY <1>3, <1>8, <1>9 DEF ServerMove

LEMMA FinishesMoves ==
  ASSUME PageAssumption, Typed, InOrder, Books, Finishes
  PROVE  ServerMove
<1>. USE DEF Typed, WireTyped
<1>. DEFINE stopped == [search EXCEPT ![lock.ends] = "none"]
            f == [say |-> "ended", id |-> lock.ends, reason |-> lock.reason]
<1>1. /\ lock # Unlocked /\ lock' = Unlocked /\ Emits(f) /\ UNCHANGED <<calls, listening>>
      /\ IF lock.then = Nothing
           THEN UNCHANGED <<sess, opening, answers>>
           ELSE Inserts(lock.then, stopped)
  BY DEF Finishes
<1>2. /\ lock.ends \in Ids /\ sess[lock.ends].at = "ended"
      /\ lock.reason \in {"replaced", "closed", "engine_failed", "idle"}
  BY <1>1, NoIdNought DEF Books, LockIsWhole, BrokerTyped
<1>3. f \in Frames /\ f.say = "ended" /\ f.id = lock.ends
  BY <1>2, FramesSent
<1>. HIDE DEF stopped, f
<1>4. FeedMoves /\ (~listening \/ \E i \in DOMAIN feed' : feed'[i] = f)
  BY <1>1, <1>2, <1>3, EmitMoves
<1>5. AnswersMove /\ OpeningsMove /\ \A s \in Ids : sess'[s].at = "ended" => sess[s].at = "ended"
  <2>1. CASE lock.then = Nothing
    BY <1>1, <2>1, AnswersStay, OpeningsStay
  <2>2. CASE lock.then # Nothing
    <3>1. lock.then \in Posts /\ Inserts(lock.then, stopped)
      BY <1>1, <2>2 DEF BrokerTyped
    <3>. QED BY <3>1, InsertMoves
  <2>. QED BY <2>1, <2>2
<1>6. EndsMove
  BY <1>3, <1>4, <1>5 DEF EndsMove
<1>. QED BY <1>1, <1>4, <1>5, <1>6, CallsStay DEF ServerMove

LEMMA ReturnMoves ==
  ASSUME PageAssumption, Typed, NEW s \in Ids, OpenReturns(s), Named
  PROVE  ServerMove
<1>. USE DEF Typed, WireTyped
<1>1. /\ opening[s] # Nothing /\ opening' = [opening EXCEPT ![s] = Nothing]
      /\ UNCHANGED <<lock, calls, feed, listening>>
      /\ \/ /\ s \notin Open /\ Answers(opening[s], FALSE, 0) /\ sess' = sess
         \/ /\ s \in Open /\ Answers(opening[s], TRUE, s) /\ sess' = sess
         \/ /\ s \in Open /\ Answers(opening[s], FALSE, 0) /\ sess' = [sess EXCEPT ![s].at = "ended"]
  BY DEF OpenReturns
<1>2. opening[s] \in Posts /\ sess[s].by = opening[s].by /\ sess[s].at # "unborn"
  BY <1>1 DEF BrokerTyped, Named
<1>3. opening'[s] = Nothing /\ \A t \in Ids : t # s => opening'[t] = opening[t]
  BY <1>1 DEF BrokerTyped
<1>4. /\ \A t \in Ids : t # s => sess'[t] = sess[t]
      /\ sess'[s].at = sess[s].at \/ sess'[s].at = "ended"
  <2>1. CASE sess' = sess
    BY <2>1
  <2>2. CASE sess' = [sess EXCEPT ![s].at = "ended"]
    BY <2>2 DEF BrokerTyped, Sessions
  <2>. QED BY <1>1, <2>1, <2>2
<1>5. /\ answers \subseteq answers'
      /\ \A a \in answers' \ answers : a.to = "open" /\ (a.id = 0 \/ (s \in Open /\ a.id = s /\ sess' = sess))
      /\ sess'[s].at = "open" /\ sess[s].by = "page" => \E a \in answers' : a.to = "open" /\ a.id = s
  <2>1. CASE s \notin Open /\ Answers(opening[s], FALSE, 0) /\ sess' = sess
    <3>1. sess'[s].at # "open"
      BY <2>1 DEF Open
    <3>2. answers \subseteq answers' /\ \A a \in answers' \ answers : a.to = "open" /\ a.id = 0
      <4>1. opening[s] \in Posts /\ Answers(opening[s], FALSE, 0)
        BY <1>2, <2>1
      <4>. QED BY <4>1, PostAnswered, ZenonT(60)
    <3>. QED BY <3>1, <3>2
  <2>2. CASE s \in Open /\ Answers(opening[s], TRUE, s) /\ sess' = sess
    <3>1. /\ answers \subseteq answers' /\ \A a \in answers' \ answers : a.to = "open" /\ a.id = s
          /\ opening[s].by = "page" => \E a \in answers' : a.to = "open" /\ a.id = s
      <4>1. opening[s] \in Posts /\ Answers(opening[s], TRUE, s)
        BY <1>2, <2>2
      <4>. QED BY <4>1, PostAnswered, ZenonT(60)
    <3>. QED BY <1>2, <2>2, <3>1
  <2>3. CASE /\ s \in Open /\ Answers(opening[s], FALSE, 0) /\ sess' = [sess EXCEPT ![s].at = "ended"]
    <3>1. sess'[s].at = "ended"
      BY <2>3 DEF BrokerTyped, Sessions
    <3>2. opening[s] \in Posts /\ Answers(opening[s], FALSE, 0)
      BY <1>2, <2>3
    <3>3. answers \subseteq answers' /\ \A a \in answers' \ answers : a.to = "open" /\ a.id = 0
      BY <3>2, PostAnswered, Zenon
    <3>. QED BY <3>1, <3>3
  <2>. QED BY <1>1, <2>1, <2>2, <2>3
<1>6. AnswersMove
  BY <1>1, <1>3, <1>5 DEF AnswersMove, Open
<1>7. OpeningsMove
  BY <1>2, <1>3, <1>4, <1>5 DEF OpeningsMove
<1>8. EndsMove
  BY <1>1, <1>4 DEF EndsMove
<1>. QED BY <1>1, <1>6, <1>7, <1>8, CallsStay, FeedStays DEF ServerMove

LEMMA ServerMoves ==
  ASSUME PageAssumption, Typed, InOrder, Books, Named, ServerStep
  PROVE  ServerMove
<1>. USE DEF Typed, WireTyped
<1>1. ASSUME NEW i \in DOMAIN calls, TakesOpen(i) PROVE ServerMove
  <2>1. Takes(i, "open") /\ Opens(calls[i])
    BY <1>1 DEF TakesOpen
  <2>2. calls[i] \in Posts /\ calls[i].ask = "open" /\ lock = Unlocked
    BY <2>1, TakenIsTyped, CallsAreRequests
  <2>3. Served(calls[i])
    BY <2>2 DEF Served
  <2>. QED BY <2>1, <2>2, <2>3, CallIsServed, OpensMoves DEF ServerMove
<1>2. ASSUME NEW i \in DOMAIN calls, TakesClose(i) PROVE ServerMove
  <2>1. Takes(i, "close")
    BY <1>2 DEF TakesClose
  <2>2. calls[i].ask = "close" /\ calls[i].id \in Ids /\ lock = Unlocked
    BY <2>1, TakenIsTyped, CallsAreRequests
  <2>3. CASE calls[i].id \in Open
    <3>1. FinishBegins(calls[i].id, "closed", Nothing)
      BY <1>2, <2>3 DEF TakesClose
    <3>2. AnswersMove /\ OpeningsMove /\ FeedMoves /\ EndsMove /\ sess'[calls[i].id].at = "ended"
      BY <2>2, <2>3, <3>1, FinishMoves
    <3>3. Served(calls[i])
      BY <2>2, <3>2 DEF Served
    <3>. QED BY <2>1, <3>2, <3>3, CallIsServed DEF ServerMove
  <2>4. CASE calls[i].id \notin Open
    <3>1. UNCHANGED <<sess, opening, lock, answers, feed, listening>>
      BY <1>2, <2>4 DEF TakesClose
    <3>2. Served(calls[i])
      BY <2>2, <2>4, <3>1 DEF Served, Open
    <3>. QED BY <2>1, <3>1, <3>2, CallIsServed, AnswersStay, OpeningsStay, FeedStays, NobodyEnds DEF ServerMove
  <2>. QED BY <2>3, <2>4
<1>3. ASSUME NEW i \in DOMAIN calls, TakesList(i) PROVE ServerMove
  <2>. DEFINE s == calls[i].id
              r == [to |-> "list", id |-> s, open |-> s \in Open]
  <2>1. /\ Takes(i, "list") /\ answers' = answers \cup {r}
        /\ UNCHANGED <<sess, opening, lock, feed, listening>>
    BY <1>3 DEF TakesList
  <2>2. s \in Ids /\ calls[i].ask = "list" /\ sess[s].at # "unborn"
    BY <2>1, TakenIsTyped, CallsAreRequests DEF Named
  <2>3. r.to = "list" /\ r.id = s
    OBVIOUS
  <2>4. r.open <=> s \in Open
    BY Zenon
  <2>5. s \in Open <=> sess[s].at # "ended"
    BY <2>2, SessionFields DEF Open, BrokerTyped
  <2>. HIDE DEF r
  <2>6. Served(calls[i])
    BY <2>1, <2>2, <2>3, <2>4, <2>5 DEF Served
  <2>. HIDE DEF s
  <2>7. AnswersMove
    BY <2>1, <2>3, <2>4, <2>5 DEF AnswersMove
  <2>. QED BY <2>1, <2>6, <2>7, CallIsServed, OpeningsStay, FeedStays, NobodyEnds DEF ServerMove
<1>4. ASSUME NEW s \in Ids, BackendEnded(s) PROVE ServerMove
  <2>1. CASE s \in Open
    <3>1. FinishBegins(s, "engine_failed", Nothing) /\ lock = Unlocked /\ calls' = calls
      BY <1>4, <2>1 DEF BackendEnded
    <3>. QED BY <2>1, <3>1, FinishMoves, CallsStay DEF ServerMove
  <2>2. CASE s \notin Open
    <3>1. UNCHANGED <<sess, opening, lock, answers, feed, listening, calls>>
      BY <1>4, <2>2 DEF BackendEnded
    <3>. QED BY <3>1, CallsStay, AnswersStay, OpeningsStay, FeedStays, NobodyEnds DEF ServerMove
  <2>. QED BY <2>1, <2>2
<1>5. ASSUME NEW s \in Ids, Reaps(s) PROVE ServerMove
  <2>1. s \in Open /\ lock = Unlocked /\ FinishBegins(s, "idle", Nothing) /\ calls' = calls
    BY <1>5 DEF Reaps
  <2>. QED BY <2>1, FinishMoves, CallsStay DEF ServerMove
<1>6. ASSUME NEW s \in Ids, EndsAlone(s) \/ Turns(s) \/ Draws(s) PROVE ServerMove
  <2>1. UNCHANGED <<sess, opening, lock, answers, feed, listening, calls>>
    BY <1>6 DEF EndsAlone, Turns, Draws
  <2>. QED BY <2>1, CallsStay, AnswersStay, OpeningsStay, FeedStays, NobodyEnds DEF ServerMove
<1>7. ASSUME NEW s \in Ids, Delivers(s) PROVE ServerMove
  <2>. DEFINE f == [say |-> "snapshot", id |-> s, fen |-> sess[s].fen, of |-> picture[s]]
  <2>1. /\ UNCHANGED <<sess, opening, lock, answers, listening, calls>>
        /\ feed' = feed \/ Emits(f)
    BY <1>7 DEF Delivers
  <2>2. f \in Frames /\ f.say = "snapshot"
    <3>1. sess[s].fen \in Places /\ picture[s] \in Places
      BY SessionFields DEF BrokerTyped
    <3>. QED BY <3>1, FramesSent
  <2>. HIDE DEF f
  <2>3. FeedMoves
    BY <2>1, <2>2, EmitMoves, FeedStays
  <2>. QED BY <2>1, <2>3, CallsStay, AnswersStay, OpeningsStay, NobodyEnds DEF ServerMove
<1>8. ASSUME NEW surface \in {"game", "live"}, NEW f \in Fens, RivalOpens(surface, f) PROVE ServerMove
  <2>1. /\ lock = Unlocked /\ calls' = calls
        /\ Opens([ask |-> "open", by |-> "rival", gen |-> 0, surface |-> surface, fen |-> f])
    BY <1>8 DEF RivalOpens
  <2>. QED BY <2>1, RivalsPost, OpensMoves, CallsStay DEF ServerMove
<1>9. ASSUME Serves PROVE ServerMove
  BY <1>1, <1>2, <1>3, <1>4, <1>9, PatchMoves, FinishesMoves, ReturnMoves, Zenon DEF Serves
<1>. QED BY <1>5, <1>6, <1>7, <1>8, <1>9, Zenon DEF ServerStep


-----------------------------------------------------------------------------
(* The page's request of a run of its effect is in one place at a time.    *)

IsNumbered(p) == p.by = "page" => p.gen # 0 /\ p.gen <= gen

Numbered ==
  /\ \A i \in DOMAIN calls : calls[i].ask = "open" => calls[i].by = "page" /\ IsNumbered(calls[i])
  /\ lock.then # Nothing => IsNumbered(lock.then)
  /\ \A s \in Ids : opening[s] # Nothing => IsNumbered(opening[s])
  /\ \A a \in answers : a.to = "open" => a.gen # 0 /\ a.gen <= gen

IsCurrent(p) == p.by = "page" /\ p.gen = gen

Calling == \E i \in DOMAIN calls : calls[i].ask = "open" /\ calls[i].gen = gen
Waiting == lock.then # Nothing /\ IsCurrent(lock.then)
Starting == \E s \in Ids : opening[s] # Nothing /\ IsCurrent(opening[s])
Answering == \E a \in answers : a.to = "open" /\ a.gen = gen

CallsAlone ==
  \A i, j \in DOMAIN calls :
    calls[i].ask = "open" /\ calls[i].gen = gen /\ calls[j].ask = "open" /\ calls[j].gen = gen => i = j
StartsAlone ==
  \A s, t \in Ids :
    opening[s] # Nothing /\ IsCurrent(opening[s]) /\ opening[t] # Nothing /\ IsCurrent(opening[t])
      => s = t
AnswersAlone ==
  \A a, b \in answers : a.to = "open" /\ a.gen = gen /\ b.to = "open" /\ b.gen = gen => a = b

OnePlace ==
  /\ CallsAlone /\ StartsAlone /\ AnswersAlone
  /\ Calling => ~Waiting /\ ~Starting /\ ~Answering /\ idRef = 0
  /\ Waiting => ~Starting /\ ~Answering /\ idRef = 0
  /\ Starting => ~Answering /\ idRef = 0
  /\ Answering => idRef = 0

LEMMA PageKeepsPlace ==
  ASSUME PageAssumption, Typed, Numbered, OnePlace, PageMove, UNCHANGED <<opening, lock>>
  PROVE  Numbered' /\ OnePlace'
<1>. USE DEF Typed, WireTyped
<1>1. gen \in Nat /\ idRef \in Ids \cup {0}
  BY DEF PageTyped
<1>2. /\ \A i \in DOMAIN calls' : i \in Added \/ (i \in DOMAIN calls /\ calls'[i] = calls[i])
      /\ answers' \subseteq answers
  BY DEF PageMove, Keeps, Added, HearsOut
<1>3. CASE AsksNoBoard
  <2>1. gen' = gen /\ \A i \in DOMAIN calls' : calls'[i].ask = "open" => i \in DOMAIN calls /\ calls'[i] = calls[i]
    BY <1>2, <1>3 DEF AsksNoBoard
  <2>2. Numbered'
    BY <1>2, <2>1 DEF Numbered, IsNumbered
  <2>3. CallsAlone' /\ StartsAlone' /\ AnswersAlone'
    BY <1>2, <2>1 DEF OnePlace, CallsAlone, StartsAlone, AnswersAlone, IsCurrent
  <2>4. /\ Calling' => Calling
        /\ Waiting' => Waiting
        /\ Starting' => Starting
        /\ Answering' => Answering
    BY <1>2, <2>1 DEF Calling, Waiting, Starting, Answering, IsCurrent
  <2>5. CASE idRef' = idRef \/ idRef' = 0
    <3>1. idRef = 0 => idRef' = 0
      BY <2>5
    <3>. QED BY <2>2, <2>3, <2>4, <3>1 DEF OnePlace
  <2>6. CASE ShowsOpened
    <3>1. PICK a \in answers \ answers' : a.to = "open" /\ a.gen = gen
      BY <2>6 DEF ShowsOpened
    <3>2. Answering
      BY <3>1 DEF Answering
    <3>3. ~Answering'
      BY <1>2, <2>1, <3>1 DEF OnePlace, AnswersAlone, Answering
    <3>. QED BY <2>2, <2>3, <2>4, <3>2, <3>3 DEF OnePlace
  <2>. QED BY <2>2, <2>5, <2>6 DEF PageMove, LetsGo
<1>4. CASE AsksABoard
  <2>1. gen' = gen + 1 /\ idRef' = 0
    BY <1>4 DEF AsksABoard
  <2>2. PICK k \in Added : /\ calls'[k].ask = "open" /\ calls'[k].by = "page" /\ calls'[k].gen = gen'
                           /\ \A i \in Added : calls'[i].ask = "open" => i = k
    BY <1>4 DEF AsksABoard
  <2>3. \A g \in Nat : g <= gen => g <= gen' /\ g # gen'
    BY <1>1, <2>1
  <2>4. gen' # 0 /\ gen' <= gen'
    BY <1>1, <2>1
  <2>5. /\ \A i \in DOMAIN calls : calls[i].ask = "open" => calls[i].gen \in Nat
        /\ lock.then # Nothing => lock.then.gen \in Nat
        /\ \A s \in Ids : opening[s] # Nothing => opening[s].gen \in Nat
        /\ \A a \in answers : a.to = "open" => a.gen \in Nat
    <3>1. \A i \in DOMAIN calls : calls[i] \in Calls
      OBVIOUS
    <3>2. \A i \in DOMAIN calls : calls[i].ask = "open" => calls[i].gen \in Nat
      BY <3>1, CallsAreRequests, PostsAreRequests
    <3>3. lock.then # Nothing => lock.then \in Posts
      BY DEF BrokerTyped
    <3>4. \A s \in Ids : opening[s] # Nothing => opening[s] \in Posts
      BY DEF BrokerTyped
    <3>. QED BY <3>2, <3>3, <3>4, PostsAreRequests DEF AnswerTyped
  <2>6. Numbered'
    <3>1. \A i \in DOMAIN calls' : calls'[i].ask = "open" =>
             calls'[i].by = "page" /\ calls'[i].gen # 0 /\ calls'[i].gen <= gen'
      BY <1>2, <2>2, <2>3, <2>4, <2>5 DEF Numbered, IsNumbered
    <3>2. /\ lock'.then # Nothing => (lock'.then.by = "page" => lock'.then.gen # 0 /\ lock'.then.gen <= gen')
          /\ \A s \in Ids : opening'[s] # Nothing =>
               (opening'[s].by = "page" => opening'[s].gen # 0 /\ opening'[s].gen <= gen')
          /\ \A a \in answers' : a.to = "open" => a.gen # 0 /\ a.gen <= gen'
      BY <1>2, <2>3, <2>5 DEF Numbered, IsNumbered
    <3>. QED BY <3>1, <3>2 DEF Numbered, IsNumbered
  <2>7. ~Waiting' /\ ~Starting' /\ ~Answering'
    BY <1>2, <2>3, <2>5 DEF Numbered, IsNumbered, Waiting, Starting, Answering, IsCurrent
  <2>8. StartsAlone' /\ AnswersAlone'
    <3>1. \A s \in Ids : ~(opening'[s] # Nothing /\ IsCurrent(opening[s])')
      BY <2>7, Zenon DEF Starting
    <3>2. \A a \in answers' : ~(a.to = "open" /\ a.gen = gen')
      BY <2>7, Zenon DEF Answering
    <3>. QED BY <3>1, <3>2, Zenon DEF StartsAlone, AnswersAlone
  <2>9. CallsAlone'
    <3>1. \A i \in DOMAIN calls' : calls'[i].ask = "open" /\ calls'[i].gen = gen' => i = k
      BY <1>2, <2>2, <2>3, <2>5 DEF Numbered, IsNumbered
    <3>. QED BY <3>1 DEF CallsAlone
  <2>. QED BY <2>1, <2>6, <2>7, <2>8, <2>9 DEF OnePlace
<1>. QED BY <1>3, <1>4 DEF PageMove


CallsThin ==
  /\ \A m \in DOMAIN calls' : \E j \in DOMAIN calls : calls'[m] = calls[j]
  /\ \A m, k \in DOMAIN calls' : m # k =>
       \E j, l \in DOMAIN calls : j # l /\ calls'[m] = calls[j] /\ calls'[k] = calls[l]

LEMMA CallsThinOut ==
  /\ calls' = calls => CallsThin
  /\ \A i, ask : calls \in Seq(Calls) /\ Takes(i, ask) => CallsThin
<1>1. calls' = calls => CallsThin
  BY DEF CallsThin
<1>2. ASSUME NEW i, NEW ask, calls \in Seq(Calls), Takes(i, ask) PROVE CallsThin
  BY <1>2, OneIsTaken DEF CallsThin
<1>. QED BY <1>1, <1>2

LEMMA ThinCallsKeepPlace ==
  ASSUME Numbered, CallsAlone, CallsThin, gen' = gen
  PROVE  /\ CallsAlone' /\ (Calling' => Calling)
         /\ \A i \in DOMAIN calls' : calls'[i].ask = "open" =>
              calls'[i].by = "page" /\ calls'[i].gen # 0 /\ calls'[i].gen <= gen'
<1>1. CallsAlone'
  BY DEF CallsAlone, CallsThin
<1>2. Calling' => Calling
  BY DEF Calling, CallsThin
<1>3. \A i \in DOMAIN calls' : calls'[i].ask = "open" =>
        calls'[i].by = "page" /\ calls'[i].gen # 0 /\ calls'[i].gen <= gen'
  BY DEF Numbered, IsNumbered, CallsThin
<1>. QED BY <1>1, <1>2, <1>3

LEMMA ThinKeepsPlace ==
  ASSUME Numbered, OnePlace, CallsThin, UNCHANGED <<gen, idRef>>, lock'.then \in {lock.then, Nothing},
         \A s \in Ids : opening'[s] \in {opening[s], Nothing},
         \A a \in answers' : a.to = "open" => a \in answers
  PROVE  Numbered' /\ OnePlace'
<1>1. /\ CallsAlone' /\ (Calling' => Calling)
      /\ \A i \in DOMAIN calls' : calls'[i].ask = "open" =>
           calls'[i].by = "page" /\ calls'[i].gen # 0 /\ calls'[i].gen <= gen'
  BY ThinCallsKeepPlace DEF OnePlace
<1>2. Numbered'
  BY <1>1 DEF Numbered, IsNumbered
<1>3. StartsAlone' /\ AnswersAlone'
  BY DEF OnePlace, StartsAlone, AnswersAlone, IsCurrent
<1>4. /\ Waiting' => Waiting
      /\ Starting' => Starting
      /\ Answering' => Answering
  BY DEF Waiting, Starting, Answering, IsCurrent
<1>. QED BY <1>1, <1>2, <1>3, <1>4 DEF OnePlace

\* Where a request is let in: nothing else of the page's current run is about.
IsTheOne(p) == IsCurrent(p) => ~Calling' /\ ~Starting /\ ~Answering /\ idRef = 0

LEMMA WaitKeepsPlace ==
  ASSUME Numbered, OnePlace, CallsThin, UNCHANGED <<gen, idRef, opening, answers>>, NEW post \in Posts,
         IsNumbered(post), IsTheOne(post), lock'.then = post
  PROVE  Numbered' /\ OnePlace'
<1>1. /\ CallsAlone' /\ (Calling' => Calling)
      /\ \A i \in DOMAIN calls' : calls'[i].ask = "open" =>
           calls'[i].by = "page" /\ calls'[i].gen # 0 /\ calls'[i].gen <= gen'
  BY ThinCallsKeepPlace DEF OnePlace
<1>2. Numbered'
  BY <1>1 DEF Numbered, IsNumbered
<1>3. StartsAlone' /\ AnswersAlone'
  BY DEF OnePlace, StartsAlone, AnswersAlone, IsCurrent
<1>4. /\ Waiting' => IsCurrent(post)
      /\ Starting' => Starting
      /\ Answering' => Answering
  BY DEF Waiting, Starting, Answering, IsCurrent
<1>. QED BY <1>1, <1>2, <1>3, <1>4 DEF OnePlace, IsTheOne

LEMMA InsertKeepsPlace ==
  ASSUME PageAssumption, BrokerTyped, InOrder, Numbered, OnePlace, CallsThin, UNCHANGED <<gen, idRef>>,
         NEW post \in Posts, IsNumbered(post), IsTheOne(post), NEW searches, Inserts(post, searches),
         lock' = Unlocked
  PROVE  Numbered' /\ OnePlace'
<1>1. /\ CallsAlone' /\ (Calling' => Calling)
      /\ \A i \in DOMAIN calls' : calls'[i].ask = "open" =>
           calls'[i].by = "page" /\ calls'[i].gen # 0 /\ calls'[i].gen <= gen'
  BY ThinCallsKeepPlace DEF OnePlace
<1>2. lock'.then = Nothing /\ ~Waiting'
  BY DEF Unlocked, Waiting
<1>3. CASE Cardinality(Open) >= MaxSessions
  <2>1. Answers(post, FALSE, 0) /\ opening' = opening
    BY <1>3 DEF Inserts
  <2>2. /\ \A a \in answers' : a \in answers \/ (a.to = "open" /\ a.gen = post.gen /\ post.by = "page")
        /\ \A a, b \in answers' \ answers : a = b
    BY <2>1, PostAnswered, Zenon
  <2>3. Numbered'
    BY <1>1, <1>2, <2>1, <2>2 DEF Numbered, IsNumbered
  <2>4. StartsAlone' /\ (Starting' => Starting)
    BY <2>1 DEF OnePlace, StartsAlone, Starting, IsCurrent
  <2>5. Answering' => Answering \/ IsCurrent(post)
    BY <2>2 DEF Answering, IsCurrent
  <2>6. AnswersAlone'
    <3>1. CASE IsCurrent(post)
      <4>1. \A a \in answers : ~(a.to = "open" /\ a.gen = gen)
        BY <3>1 DEF IsTheOne, Answering
      <4>. QED BY <2>2, <4>1 DEF AnswersAlone
    <3>2. CASE ~IsCurrent(post)
      <4>1. \A a \in answers' : a.to = "open" /\ a.gen = gen => a \in answers
        BY <2>2, <3>2 DEF IsCurrent
      <4>. QED BY <4>1 DEF OnePlace, AnswersAlone
    <3>. QED BY <3>1, <3>2
  <2>. QED BY <1>1, <1>2, <2>3, <2>4, <2>5, <2>6 DEF OnePlace, IsTheOne
<1>4. CASE ~(Cardinality(Open) >= MaxSessions)
  <2>. DEFINE n == Cardinality(Born) + 1
  <2>1. opening' = [opening EXCEPT ![n] = post] /\ answers' = answers
    BY <1>4 DEF Inserts
  <2>. HIDE DEF n
  <2>2. \A s \in Ids : opening'[s] = IF s = n THEN post ELSE opening[s]
    BY <2>1 DEF BrokerTyped
  <2>3. Numbered'
    BY <1>1, <1>2, <2>1, <2>2 DEF Numbered, IsNumbered
  <2>4. AnswersAlone' /\ (Answering' => Answering)
    BY <2>1 DEF OnePlace, AnswersAlone, Answering
  <2>5. Starting' => Starting \/ IsCurrent(post)
    BY <2>2 DEF Starting, IsCurrent
  <2>6. StartsAlone'
    <3>1. CASE IsCurrent(post)
      <4>1. \A s \in Ids : ~(opening[s] # Nothing /\ opening[s].by = "page" /\ opening[s].gen = gen)
        BY <3>1 DEF IsTheOne, Starting, IsCurrent
      <4>. QED BY <2>2, <4>1 DEF StartsAlone, IsCurrent
    <3>2. CASE ~IsCurrent(post)
      <4>1. \A s \in Ids : opening'[s].by = "page" /\ opening'[s].gen = gen => opening'[s] = opening[s]
        BY <2>2, <3>2 DEF IsCurrent
      <4>. QED BY <4>1 DEF OnePlace, StartsAlone, IsCurrent
    <3>. QED BY <3>1, <3>2
  <2>. QED BY <1>1, <1>2, <2>3, <2>4, <2>5, <2>6 DEF OnePlace, IsTheOne
<1>. QED BY <1>3, <1>4


LEMMA ReturnKeepsPlace ==
  ASSUME PageAssumption, Typed, Numbered, OnePlace, UNCHANGED <<gen, idRef>>, NEW s \in Ids, OpenReturns(s)
  PROVE  Numbered' /\ OnePlace'
<1>. USE DEF Typed
<1>1. /\ opening[s] # Nothing /\ opening' = [opening EXCEPT ![s] = Nothing] /\ UNCHANGED <<lock, calls>>
      /\ \E ok \in BOOLEAN : \E id : Answers(opening[s], ok, id)
  BY DEF OpenReturns
<1>2. opening[s] \in Posts /\ IsNumbered(opening[s])
  BY <1>1 DEF BrokerTyped, Numbered
<1>3. opening'[s] = Nothing /\ \A t \in Ids : t # s => opening'[t] = opening[t]
  BY <1>1 DEF BrokerTyped
<1>4. /\ \A a \in answers' : a \in answers \/ (a.to = "open" /\ a.gen = opening[s].gen /\ opening[s].by = "page")
      /\ \A a, b \in answers' \ answers : a = b
  <2>1. \E ok, id : Answers(opening[s], ok, id)
    BY <1>1, Zenon
  <2>. QED BY <1>2, <2>1, PostAnswered, Zenon
<1>5. CallsThin
  BY <1>1, CallsThinOut
<1>6. /\ CallsAlone' /\ (Calling' => Calling)
      /\ \A i \in DOMAIN calls' : calls'[i].ask = "open" =>
           calls'[i].by = "page" /\ calls'[i].gen # 0 /\ calls'[i].gen <= gen'
  BY <1>5, ThinCallsKeepPlace DEF OnePlace
<1>7. Numbered'
  <2>1. \A a \in answers' : a.to = "open" => a.gen # 0 /\ a.gen <= gen'
    BY <1>2, <1>4 DEF Numbered, IsNumbered
  <2>2. /\ lock'.then # Nothing => (lock'.then.by = "page" => lock'.then.gen # 0 /\ lock'.then.gen <= gen')
        /\ \A t \in Ids : opening'[t] # Nothing =>
             (opening'[t].by = "page" => opening'[t].gen # 0 /\ opening'[t].gen <= gen')
    BY <1>1, <1>3 DEF Numbered, IsNumbered
  <2>. QED BY <1>6, <2>1, <2>2 DEF Numbered, IsNumbered
<1>8. StartsAlone' /\ (Starting' => Starting) /\ (Waiting' => Waiting)
  <2>1. \A t \in Ids : opening'[t] # Nothing => opening'[t] = opening[t]
    BY <1>3
  <2>2. StartsAlone'
    BY <2>1 DEF OnePlace, StartsAlone, IsCurrent
  <2>3. Starting' => Starting
    BY <2>1 DEF Starting, IsCurrent
  <2>4. Waiting' => Waiting
    BY <1>1 DEF Waiting, IsCurrent
  <2>. QED BY <2>2, <2>3, <2>4
<1>9. CASE IsCurrent(opening[s])
  <2>1. Starting
    BY <1>1, <1>9 DEF Starting
  <2>2. ~Calling /\ ~Waiting /\ ~Answering /\ idRef = 0
    BY <2>1 DEF OnePlace
  <2>3. ~Starting'
    <3>1. \A t \in Ids : opening'[t] # Nothing => t # s /\ opening'[t] = opening[t]
      BY <1>3
    <3>2. \A t \in Ids : opening[t] # Nothing /\ opening[t].by = "page" /\ opening[t].gen = gen => t = s
      BY <1>1, <1>9 DEF OnePlace, StartsAlone, IsCurrent
    <3>. QED BY <3>1, <3>2 DEF Starting, IsCurrent
  <2>4. AnswersAlone'
    <3>1. \A a \in answers : ~(a.to = "open" /\ a.gen = gen)
      BY <2>2 DEF Answering
    <3>. QED BY <1>4, <3>1 DEF AnswersAlone
  <2>. QED BY <1>6, <1>7, <1>8, <2>2, <2>3, <2>4 DEF OnePlace
<1>10. CASE ~IsCurrent(opening[s])
  <2>1. \A a \in answers' : a.to = "open" /\ a.gen = gen => a \in answers
    BY <1>4, <1>10 DEF IsCurrent
  <2>2. AnswersAlone' /\ (Answering' => Answering)
    BY <2>1 DEF OnePlace, AnswersAlone, Answering
  <2>. QED BY <1>6, <1>7, <1>8, <2>2 DEF OnePlace
<1>. QED BY <1>9, <1>10

LEMMA OpensKeepsPlace ==
  ASSUME PageAssumption, Typed, InOrder, Numbered, OnePlace, CallsThin, UNCHANGED <<gen, idRef>>,
         NEW post \in Posts, IsNumbered(post), IsTheOne(post), lock = Unlocked, Opens(post)
  PROVE  Numbered' /\ OnePlace'
<1>. USE DEF Typed
<1>1. CASE On(post.surface) = {}
  <2>1. Inserts(post, search) /\ lock' = Unlocked
    BY <1>1 DEF Opens
  <2>. QED BY <2>1, InsertKeepsPlace
<1>2. CASE On(post.surface) # {}
  <2>1. lock'.then = post /\ UNCHANGED <<opening, answers>>
    BY <1>2 DEF Opens, FinishBegins
  <2>. QED BY <2>1, WaitKeepsPlace
<1>. QED BY <1>1, <1>2

LEMMA EndKeepsPlace ==
  ASSUME Numbered, OnePlace, CallsThin, UNCHANGED <<gen, idRef>>, NEW s, NEW reason,
         FinishBegins(s, reason, Nothing)
  PROVE  Numbered' /\ OnePlace'
<1>1. lock'.then = Nothing /\ UNCHANGED <<opening, answers>>
  BY DEF FinishBegins
<1>. QED BY <1>1, ThinKeepsPlace

LEMMA ServerKeepsPlace ==
  ASSUME PageAssumption, Typed, InOrder, Numbered, OnePlace, ServerStep, UNCHANGED <<gen, idRef>>
  PROVE  Numbered' /\ OnePlace'
<1>. USE DEF Typed, WireTyped
<1>1. ASSUME NEW i \in DOMAIN calls, TakesOpen(i) PROVE Numbered' /\ OnePlace'
  <2>1. Takes(i, "open") /\ Opens(calls[i])
    BY <1>1 DEF TakesOpen
  <2>2. calls[i] \in Posts /\ calls[i].ask = "open" /\ lock = Unlocked
    BY <2>1, TakenIsTyped, CallsAreRequests
  <2>3. CallsThin /\ IsNumbered(calls[i])
    BY <2>1, <2>2, CallsThinOut DEF Numbered
  <2>4. IsTheOne(calls[i])
    <3>. SUFFICES ASSUME IsCurrent(calls[i]) PROVE ~Calling' /\ ~Starting /\ ~Answering /\ idRef = 0
      BY DEF IsTheOne
    <3>1. Calling
      BY <2>2 DEF Calling, IsCurrent
    <3>2. \A j \in DOMAIN calls : calls[j].ask = "open" /\ calls[j].gen = gen => j = i
      BY <2>2 DEF OnePlace, CallsAlone, IsCurrent
    <3>3. \A m \in DOMAIN calls' : \E j \in DOMAIN calls : j # i /\ calls'[m] = calls[j]
      BY <2>1, OneIsTaken
    <3>4. ~Calling'
      BY <3>2, <3>3 DEF Calling
    <3>. QED BY <3>1, <3>4 DEF OnePlace
  <2>. QED BY <2>1, <2>2, <2>3, <2>4, OpensKeepsPlace
<1>2. ASSUME NEW i \in DOMAIN calls, TakesPatch(i) PROVE Numbered' /\ OnePlace'
  <2>. DEFINE says(ok, f) == [to |-> "patch", id |-> calls[i].id, epoch |-> calls[i].epoch,
                              moves |-> calls[i].fen # None, ok |-> ok, fen |-> f]
  <2>1. Takes(i, "patch") /\ UNCHANGED <<opening, lock>>
    BY <1>2 DEF TakesPatch
  <2>2. \E ok, f : answers' = answers \cup {says(ok, f)}
    BY <1>2, Zenon DEF TakesPatch
  <2>3. \A ok, f : says(ok, f).to = "patch"
    OBVIOUS
  <2>. HIDE DEF says
  <2>4. \A a \in answers' : a.to = "open" => a \in answers
    BY <2>2, <2>3
  <2>5. CallsThin
    BY <2>1, CallsThinOut
  <2>. QED BY <2>1, <2>4, <2>5, ThinKeepsPlace
<1>3. ASSUME NEW i \in DOMAIN calls, TakesClose(i) PROVE Numbered' /\ OnePlace'
  <2>1. Takes(i, "close")
    BY <1>3 DEF TakesClose
  <2>2. CallsThin
    BY <2>1, CallsThinOut
  <2>3. CASE calls[i].id \in Open
    <3>1. FinishBegins(calls[i].id, "closed", Nothing)
      BY <1>3, <2>3 DEF TakesClose
    <3>. QED BY <2>2, <3>1, EndKeepsPlace
  <2>4. CASE calls[i].id \notin Open
    <3>1. UNCHANGED <<opening, lock, answers>>
      BY <1>3, <2>4 DEF TakesClose
    <3>. QED BY <2>2, <3>1, ThinKeepsPlace
  <2>. QED BY <2>3, <2>4
<1>4. ASSUME NEW i \in DOMAIN calls, TakesList(i) PROVE Numbered' /\ OnePlace'
  <2>. DEFINE r == [to |-> "list", id |-> calls[i].id, open |-> calls[i].id \in Open]
  <2>1. Takes(i, "list") /\ UNCHANGED <<opening, lock>> /\ answers' = answers \cup {r}
    BY <1>4 DEF TakesList
  <2>2. r.to = "list"
    OBVIOUS
  <2>. HIDE DEF r
  <2>3. CallsThin /\ \A a \in answers' : a.to = "open" => a \in answers
    BY <2>1, <2>2, CallsThinOut
  <2>. QED BY <2>1, <2>3, ThinKeepsPlace
<1>5. ASSUME NEW s \in Ids, BackendEnded(s) \/ Reaps(s) PROVE Numbered' /\ OnePlace'
  <2>1. CallsThin
    BY <1>5, CallsThinOut DEF BackendEnded, Reaps
  <2>2. \/ \E reason : FinishBegins(s, reason, Nothing)
        \/ UNCHANGED <<opening, lock, answers>>
    BY <1>5, Zenon DEF BackendEnded, Reaps
  <2>3. CASE UNCHANGED <<opening, lock, answers>>
    BY <2>1, <2>3, ThinKeepsPlace
  <2>. QED BY <2>1, <2>2, <2>3, EndKeepsPlace
<1>6. ASSUME NEW s \in Ids, EndsAlone(s) \/ Turns(s) \/ Draws(s) \/ Delivers(s) PROVE Numbered' /\ OnePlace'
  <2>1. UNCHANGED <<opening, lock, answers, calls>>
    BY <1>6 DEF EndsAlone, Turns, Draws, Delivers
  <2>. QED BY <2>1, CallsThinOut, ThinKeepsPlace
<1>7. ASSUME NEW surface \in {"game", "live"}, NEW f \in Fens, RivalOpens(surface, f)
      PROVE  Numbered' /\ OnePlace'
  <2>. DEFINE post == [ask |-> "open", by |-> "rival", gen |-> 0, surface |-> surface, fen |-> f]
  <2>1. lock = Unlocked /\ calls' = calls /\ Opens(post)
    BY <1>7 DEF RivalOpens
  <2>2. post \in Posts /\ post.by # "page"
    BY RivalsPost
  <2>. HIDE DEF post
  <2>3. CallsThin /\ IsNumbered(post) /\ IsTheOne(post)
    BY <2>1, <2>2, CallsThinOut DEF IsNumbered, IsTheOne, IsCurrent
  <2>. QED BY <2>1, <2>2, <2>3, OpensKeepsPlace
<1>8. ASSUME Finishes PROVE Numbered' /\ OnePlace'
  <2>. DEFINE stopped == [search EXCEPT ![lock.ends] = "none"]
  <2>1. /\ lock' = Unlocked /\ calls' = calls
        /\ IF lock.then = Nothing
             THEN UNCHANGED <<opening, answers>>
             ELSE Inserts(lock.then, stopped)
    BY <1>8 DEF Finishes
  <2>. HIDE DEF stopped
  <2>2. CallsThin /\ lock'.then = Nothing
    BY <2>1, CallsThinOut DEF Unlocked
  <2>3. CASE lock.then = Nothing
    BY <2>1, <2>2, <2>3, ThinKeepsPlace
  <2>4. CASE lock.then # Nothing
    <3>1. lock.then \in Posts /\ Inserts(lock.then, stopped) /\ IsNumbered(lock.then)
      BY <2>1, <2>4 DEF BrokerTyped, Numbered
    <3>2. Calling' => Calling
      BY <2>1 DEF Calling
    <3>3. IsTheOne(lock.then)
      BY <2>4, <3>2 DEF IsTheOne, Waiting, OnePlace
    <3>. QED BY <2>1, <2>2, <3>1, <3>3, InsertKeepsPlace
  <2>. QED BY <2>3, <2>4
<1>9. ASSUME Serves PROVE Numbered' /\ OnePlace'
  BY <1>1, <1>2, <1>3, <1>4, <1>5, <1>8, <1>9, ReturnKeepsPlace, Zenon DEF Serves
<1>. QED BY <1>5, <1>6, <1>7, <1>9, Zenon DEF ServerStep


-----------------------------------------------------------------------------
(* Nothing is lost between them.                                           *)

LEMMA PageKeepsNames ==
  ASSUME PageAssumption, Typed, Named, PageMove, UNCHANGED <<sess, opening>>
  PROVE  Named'
<1>. USE DEF Typed, WireTyped
<1>1. idRef' = idRef \/ idRef' = 0 \/ \E a \in answers : a.to = "open" /\ a.id # 0 /\ idRef' = a.id
  BY DEF PageMove, LetsGo, ShowsOpened, AnswerTyped
<1>2. answers' \subseteq answers
  BY DEF PageMove, HearsOut
<1>3. /\ idRef' # 0 => sess'[idRef'].at # "unborn"
      /\ \A s \in Ids : opening'[s] # Nothing => idRef' # s
  BY <1>1, NoIdNought DEF Named
<1>4. \A i \in DOMAIN calls' : calls'[i].ask \in {"patch", "list"} => sess'[calls'[i].id].at # "unborn"
  <2>1. \A i \in DOMAIN calls' : i \in Added \/ (i \in DOMAIN calls /\ calls'[i] = calls[i])
    BY DEF PageMove, Keeps, Added
  <2>2. \A i \in Added : calls'[i].ask \in {"patch", "list"} => calls'[i].id \in {idRef, idRef'} \ {0}
    BY DEF PageMove, AsksOfItsOwn
  <2>. QED BY <1>3, <2>1, <2>2 DEF Named
<1>5. /\ \A a \in answers' : a.to = "open" /\ a.id # 0 => sess'[a.id].at # "unborn"
      /\ \A s \in Ids : opening'[s] # Nothing => sess'[s].at # "unborn" /\ sess'[s].by = opening'[s].by
      /\ \A s \in Ids : opening'[s] # Nothing => \A a \in answers' : a.to = "open" => a.id # s
  BY <1>2 DEF Named
<1>. QED BY <1>3, <1>4, <1>5 DEF Named

LEMMA ServerKeepsNames ==
  ASSUME PageAssumption, Typed, Named, ServerMove, Grows, idRef' = idRef
  PROVE  Named'
<1>. USE DEF Typed, WireTyped
<1>1. \A s \in Ids : sess[s].at # "unborn" => sess'[s].at # "unborn" /\ sess'[s].by = sess[s].by
  BY DEF Grows
<1>2. idRef' # 0 => sess'[idRef'].at # "unborn"
  BY <1>1 DEF Named, PageTyped
<1>3. \A i \in DOMAIN calls' : calls'[i].ask \in {"patch", "list"} => sess'[calls'[i].id].at # "unborn"
  <2>1. \A j \in DOMAIN calls : calls[j].ask \in {"patch", "list"} => calls[j].id \in Ids
    <3>1. \A j \in DOMAIN calls : calls[j] \in Calls
      OBVIOUS
    <3>. QED BY <3>1, CallsAreRequests
  <2>. QED BY <1>1, <2>1 DEF Named, ServerMove, CallsMove
<1>4. \A a \in answers' : a.to = "open" /\ a.id # 0 => sess'[a.id].at # "unborn"
  <2>1. \A a \in answers : a.to = "open" /\ a.id # 0 => a.id \in Ids /\ sess[a.id].at # "unborn"
    BY DEF Named, AnswerTyped
  <2>. QED BY <1>1, <2>1 DEF ServerMove, AnswersMove
<1>5. ASSUME NEW s \in Ids, opening'[s] # Nothing
      PROVE  /\ sess'[s].at # "unborn" /\ sess'[s].by = opening'[s].by /\ idRef' # s
             /\ \A a \in answers' : a.to = "open" => a.id # s
  <2>1. \A a \in answers' \ answers : a.to = "open" => a.id # s
    BY <1>5, NoIdNought DEF ServerMove, AnswersMove
  <2>2. CASE opening'[s] = opening[s]
    BY <1>1, <1>5, <2>1, <2>2 DEF Named
  <2>3. CASE sess[s].at = "unborn" /\ sess'[s].at # "unborn" /\ sess'[s].by = opening'[s].by
    <3>1. idRef # s
      BY <2>3, NoIdNought DEF Named
    <3>2. \A a \in answers : a.to = "open" => a.id # s
      BY <2>3, NoIdNought DEF Named
    <3>. QED BY <2>1, <2>3, <3>1, <3>2
  <2>. QED BY <1>5, <2>2, <2>3 DEF ServerMove, OpeningsMove
<1>. QED BY <1>2, <1>3, <1>4, <1>5 DEF Named

LEMMA FramesName == \A f \in Frames : f.say = "ended" => f.id \in Ids
BY DEF Frames

LEMMA ServerKeepsGone ==
  ASSUME PageAssumption, Typed, GoneIsGone, ServerMove, Grows, WireTyped'
  PROVE  GoneIsGone'
<1>. USE DEF Typed, WireTyped
<1>1. \A s \in Ids : sess[s].at = "ended" => sess'[s].at = "ended"
  BY DEF Grows
<1>2. \A i \in DOMAIN feed' : feed'[i].say = "ended" => sess'[feed'[i].id].at = "ended"
  <2>1. \A i \in DOMAIN feed' : feed'[i].say = "ended" => sess[feed'[i].id].at = "ended"
    BY DEF ServerMove, FeedMoves, GoneIsGone
  <2>2. \A i \in DOMAIN feed' : feed'[i] \in Frames
    OBVIOUS
  <2>. QED BY <1>1, <2>1, <2>2, FramesName
<1>3. \A a \in answers' : a.to = "patch" \/ a.to = "list" => a.id \in Ids
  <2>1. \A a \in answers' : AnswerTyped(a)
    OBVIOUS
  <2>. QED BY <2>1 DEF AnswerTyped
<1>4. /\ \A a \in answers' : a.to = "patch" /\ a.ok = "unknown" => sess[a.id].at = "ended"
      /\ \A a \in answers' : a.to = "list" /\ ~a.open => sess[a.id].at = "ended"
  BY Zenon DEF GoneIsGone, ServerMove, AnswersMove
<1>5. /\ \A a \in answers' : a.to = "patch" /\ a.ok = "unknown" => sess'[a.id].at = "ended"
      /\ \A a \in answers' : a.to = "list" /\ ~a.open => sess'[a.id].at = "ended"
  BY <1>1, <1>3, <1>4, Zenon
<1>. QED BY <1>2, <1>5, Zenon DEF GoneIsGone

\* The socket loses frames from its front, or all of them.
LEMMA PageThinsFeed ==
  ASSUME Typed, PageStep
  PROVE  \A i \in DOMAIN feed' : \E j \in DOMAIN feed : feed'[i] = feed[j]
<1>1. CASE feed' = feed
  BY <1>1
<1>2. CASE feed' = <<>>
  BY <1>2
<1>3. CASE feed # <<>> /\ feed' = Tail(feed)
  BY <1>3, HeadTailProperties DEF Typed, WireTyped
<1>4. PageClicks => feed' = feed
  BY DEF PageClicks, SetEnabled, SetEngineId, SetMultipv, Moves
<1>5. DebounceRings => feed' = feed
  BY DEF DebounceRings
<1>6. Hears => feed' = feed
  BY DEF Hears, HearsOpen, HearsPatch, HearsList
<1>7. HearsFrame => feed # <<>> /\ feed' = Tail(feed)
  BY DEF HearsFrame
<1>8. SocketDrops \/ SocketReturns => feed' = <<>> \/ feed' = feed
  BY DEF SocketDrops, SocketReturns
<1>. QED BY <1>1, <1>2, <1>3, <1>4, <1>5, <1>6, <1>7, <1>8, Zenon DEF PageStep

LEMMA PageKeepsGone ==
  ASSUME Typed, GoneIsGone, PageStep, PageMove, UNCHANGED sess
  PROVE  GoneIsGone'
<1>1. \A i \in DOMAIN feed' : feed'[i].say = "ended" => sess'[feed'[i].id].at = "ended"
  BY PageThinsFeed DEF GoneIsGone
<1>2. answers' \subseteq answers
  BY DEF PageMove, HearsOut
<1>3. /\ \A a \in answers' : a.to = "patch" /\ a.ok = "unknown" => sess'[a.id].at = "ended"
      /\ \A a \in answers' : a.to = "list" /\ ~a.open => sess'[a.id].at = "ended"
  BY <1>2, Zenon DEF GoneIsGone
<1>. QED BY <1>1, <1>3, Zenon DEF GoneIsGone

LEMMA PageForgetsNone ==
  ASSUME PageAssumption, Typed, OnePlace, NoBoardIsForgotten, PageMove, UNCHANGED <<sess, opening>>
  PROVE  NoBoardIsForgotten'
<1>. SUFFICES ASSUME NEW s \in Ids, sess[s].at = "open", sess[s].by = "page",
                     ~(idRef' = s \/ opening'[s] # Nothing)
              PROVE  (\E a \in answers' : a.to = "open" /\ a.id = s) \/ HasToldToClose(s)
  BY DEF NoBoardIsForgotten, Open, AnswerDue, Asked, HasToldToClose
<1>1. \/ idRef = s \/ opening[s] # Nothing \/ \E a \in answers : a.to = "open" /\ a.id = s
      \/ \E i \in DOMAIN calls : calls[i].ask = "close" /\ calls[i].id = s
  BY DEF NoBoardIsForgotten, Open, AnswerDue, Asked
<1>2. s # 0
  BY NoIdNought
<1>3. CASE idRef = s
  <2>1. ~ShowsOpened
    BY <1>2, <1>3 DEF ShowsOpened, OnePlace, Answering
  <2>2. LetsGo
    BY <1>3, <2>1 DEF PageMove
  <2>. QED BY <1>3, <2>2 DEF LetsGo, Open
<1>4. CASE \E a \in answers : a.to = "open" /\ a.id = s
  BY <1>2, <1>4 DEF PageMove, HearsOut
<1>5. CASE \E i \in DOMAIN calls : calls[i].ask = "close" /\ calls[i].id = s
  BY <1>5 DEF PageMove, Keeps, HasToldToClose
<1>. QED BY <1>1, <1>3, <1>4, <1>5

LEMMA ServerForgetsNone ==
  ASSUME PageAssumption, Typed, NoBoardIsForgotten, ServerMove, Grows, BrokerTyped', idRef' = idRef
  PROVE  NoBoardIsForgotten'
<1>. SUFFICES ASSUME NEW s \in Ids, sess'[s].at = "open", sess'[s].by = "page",
                     ~(idRef' = s \/ opening'[s] # Nothing)
              PROVE  (\E a \in answers' : a.to = "open" /\ a.id = s) \/ HasToldToClose(s)
  BY DEF NoBoardIsForgotten, Open, AnswerDue, Asked, HasToldToClose
<1>1. sess[s].at = "open" /\ sess[s].by = "page"
  <2>1. sess[s].at \in {"unborn", "open", "ended"}
    BY SessionFields DEF Typed, BrokerTyped
  <2>2. sess[s].at # "unborn"
    BY DEF ServerMove, OpeningsMove
  <2>. QED BY <2>1, <2>2 DEF Grows
<1>2. \/ idRef = s \/ opening[s] # Nothing \/ \E a \in answers : a.to = "open" /\ a.id = s
      \/ \E i \in DOMAIN calls : calls[i].ask = "close" /\ calls[i].id = s
  BY <1>1 DEF NoBoardIsForgotten, Open, AnswerDue, Asked
<1>3. CASE opening[s] # Nothing
  BY <1>1, <1>3 DEF ServerMove, OpeningsMove
<1>4. CASE \E a \in answers : a.to = "open" /\ a.id = s
  BY <1>4 DEF ServerMove, AnswersMove
<1>5. CASE \E i \in DOMAIN calls : calls[i].ask = "close" /\ calls[i].id = s
  BY <1>5 DEF ServerMove, CallsMove, Unanswered, Served, HasToldToClose
<1>. QED BY <1>2, <1>3, <1>4, <1>5


-----------------------------------------------------------------------------
(* A board that has ended is heard of, while the socket does not overtake  *)
(* the answer that named it.                                               *)

Told(s) ==
  \/ lock.ends = s \/ ~listening
  \/ \E i \in DOMAIN feed : feed[i].say = "ended" /\ feed[i].id = s

Noticed(s) ==
  \/ Told(s) \/ Asked("list", s)
  \/ \E a \in answers : a.to = "list" /\ ~a.open /\ a.id = s

\* The page's board is news already; one it is still to be told of it learns
\* of in time to hear that.
Doomed ==
  \A s \in Ids : sess[s].at = "ended" =>
    /\ idRef = s => Noticed(s)
    /\ \A a \in answers : a.to = "open" /\ a.id = s => Told(s)

LEMMA IsNews ==
  ASSUME NEW s
  PROVE  /\ Told(s)' => Noticed(s)'
         /\ (\E i \in DOMAIN calls' : calls'[i].ask = "list" /\ calls'[i].id = s) => Noticed(s)'
         /\ (\E a \in answers' : a.to = "list" /\ ~a.open /\ a.id = s) => Noticed(s)'
BY Zenon DEF Noticed, Asked

LEMMA ServerKeepsTold ==
  ASSUME ServerMove, NEW s \in Ids, Told(s)
  PROVE  Told(s)'
<1>1. CASE lock.ends = s
  BY <1>1 DEF ServerMove, EndsMove, FeedMoves, Told
<1>2. CASE ~listening
  BY <1>2 DEF ServerMove, FeedMoves, Told
<1>3. CASE \E i \in DOMAIN feed : feed[i].say = "ended" /\ feed[i].id = s
  BY <1>3 DEF ServerMove, FeedMoves, Told
<1>. QED BY <1>1, <1>2, <1>3 DEF Told

LEMMA ServerKeepsDoom ==
  ASSUME PageAssumption, Typed, Named, Doomed, ServerMove, BrokerTyped', idRef' = idRef
  PROVE  Doomed'
<1>. SUFFICES ASSUME NEW s \in Ids, sess'[s].at = "ended"
              PROVE  /\ idRef = s => Noticed(s)'
                     /\ \A a \in answers' : a.to = "open" /\ a.id = s => Told(s)'
  BY Zenon DEF Doomed
<1>1. s # 0
  BY NoIdNought
<1>2. \A a \in answers' : a.to = "open" /\ a.id = s => a \in answers
  BY <1>1 DEF ServerMove, AnswersMove
<1>3. CASE sess[s].at # "ended"
  <2>1. lock'.ends = s \/ opening[s] # Nothing
    BY <1>3 DEF ServerMove, EndsMove
  <2>2. CASE lock'.ends = s
    BY <2>2 DEF Noticed, Told
  <2>3. CASE opening[s] # Nothing
    BY <1>2, <2>3 DEF Named
  <2>. QED BY <2>1, <2>2, <2>3
<1>4. CASE sess[s].at = "ended"
  <2>1. ASSUME NEW a \in answers', a.to = "open", a.id = s PROVE Told(s)'
    <3>1. Told(s)
      BY <1>2, <1>4, <2>1 DEF Doomed
    <3>. QED BY <3>1, ServerKeepsTold
  <2>2. ASSUME idRef = s PROVE Noticed(s)'
    <3>1. Noticed(s)
      BY <1>4, <2>2 DEF Doomed
    <3>2. CASE Told(s)
      BY <3>2, ServerKeepsTold DEF Noticed
    <3>3. CASE Asked("list", s)
      <4>1. PICK j \in DOMAIN calls : calls[j].ask = "list" /\ calls[j].id = s
        BY <3>3 DEF Asked
      <4>2. Unanswered(calls[j]) \/ Served(calls[j])
        BY DEF ServerMove, CallsMove
      <4>. QED BY <1>4, <4>1, <4>2 DEF Unanswered, Served, Noticed, Asked
    <3>4. CASE \E a \in answers : a.to = "list" /\ ~a.open /\ a.id = s
      <4>1. answers \subseteq answers'
        BY DEF ServerMove, AnswersMove
      <4>. QED BY <3>4, <4>1, Zenon DEF Noticed
    <3>. QED BY <3>1, <3>2, <3>3, <3>4 DEF Noticed
  <2>. QED BY <2>1, <2>2
<1>. QED BY <1>3, <1>4

\* What the page is told of stays told until it hears it, or the socket is back.
LEMMA PageKeepsTold ==
  ASSUME Typed, PageStep, UNCHANGED lock, NEW s \in Ids, Told(s)
  PROVE  \/ Told(s)'
         \/ HearsFrame /\ Head(feed).say = "ended" /\ Head(feed).id = s
         \/ SocketReturns
<1>1. CASE UNCHANGED <<feed, listening>>
  BY <1>1 DEF Told
<1>2. CASE SocketDrops
  BY <1>2 DEF Told, SocketDrops
<1>3. CASE HearsFrame
  <2>1. /\ feed # <<>> /\ feed' = Tail(feed) /\ listening' = listening /\ feed \in Seq(Frames)
    BY <1>3 DEF HearsFrame, Aside, Typed, WireTyped
  <2>2. ASSUME NEW i \in DOMAIN feed, i # 1 PROVE i - 1 \in DOMAIN feed' /\ feed'[i - 1] = feed[i]
    BY <2>1, <2>2
  <2>3. Head(feed) = feed[1]
    BY <2>1
  <2>. QED BY <1>3, <2>1, <2>2, <2>3 DEF Told
<1>4. PageClicks => UNCHANGED <<feed, listening>>
  BY DEF PageClicks, SetEnabled, SetEngineId, SetMultipv, Moves, Aside
<1>5. DebounceRings => UNCHANGED <<feed, listening>>
  BY DEF DebounceRings, Aside
<1>6. Hears => UNCHANGED <<feed, listening>>
  BY DEF Hears, HearsOpen, HearsPatch, HearsList, Aside
<1>. QED BY <1>1, <1>2, <1>3, <1>4, <1>5, <1>6, Zenon DEF PageStep

LEMMA PageKeepsDoom ==
  ASSUME PageAssumption, Typed, Doomed, PageStep, PageMove, UNCHANGED <<sess, lock>>,
         "overtake" \notin Faults
  PROVE  Doomed'
<1>. SUFFICES ASSUME NEW s \in Ids, sess[s].at = "ended"
              PROVE  /\ idRef' = s => Noticed(s)'
                     /\ \A a \in answers' : a.to = "open" /\ a.id = s => Told(s)'
  BY Zenon DEF Doomed
<1>1. s # 0
  BY NoIdNought
<1>2. answers' \subseteq answers
  BY DEF PageMove, HearsOut
<1>3. \A a \in answers : a.to = "open" /\ a.id = s => a.ok
  BY <1>1 DEF Typed, WireTyped, AnswerTyped
<1>4. SocketReturns => answers = {} /\ answers' = {}
  BY DEF SocketReturns
<1>5. HearsFrame /\ Head(feed).say = "ended" /\ Head(feed).id = s =>
        answers' = answers /\ ~(\E a \in answers : a.to = "open" /\ a.ok /\ a.id = s)
  BY DEF HearsFrame
<1>6. ASSUME NEW a \in answers, a.to = "open", a.id = s PROVE Told(s)'
  <2>1. Told(s)
    BY <1>6 DEF Doomed
  <2>. QED BY <1>3, <1>4, <1>5, <1>6, <2>1, PageKeepsTold
<1>7. ASSUME idRef' = s, idRef # s PROVE Noticed(s)'
  <2>1. ShowsOpened
    BY <1>1, <1>7 DEF PageMove, LetsGo
  <2>. QED BY <1>2, <1>6, <1>7, <2>1 DEF ShowsOpened, Noticed
<1>8. ASSUME idRef' = s, idRef = s PROVE Noticed(s)'
  <2>1. Noticed(s)
    BY <1>8 DEF Doomed
  <2>2. CASE Told(s)
    <3>1. ~(HearsFrame /\ Head(feed).say = "ended" /\ Head(feed).id = s)
      BY <1>1, <1>8 DEF HearsFrame, EndedUnderUs
    <3>2. ASSUME SocketReturns PROVE Noticed(s)'
      <4>. DEFINE c == [ask |-> "list", id |-> s]
      <4>1. c \in Calls /\ c.ask = "list" /\ c.id = s
        BY RequestsAreCalls
      <4>2. enabled /\ Asks(<<c>>)
        BY <1>1, <1>8, <3>2 DEF SocketReturns, Typed, PageTyped
      <4>. HIDE DEF c
      <4>3. \E i \in Added : calls'[i] = c
        BY <4>1, <4>2, AsksOne DEF Typed, WireTyped
      <4>. QED BY <4>1, <4>3 DEF Added, Noticed, Asked
    <3>3. Told(s)' \/ SocketReturns
      BY <2>2, <3>1, PageKeepsTold, Zenon
    <3>. QED BY <3>2, <3>3, IsNews, Zenon
  <2>3. CASE Asked("list", s)
    <3>1. PICK i \in DOMAIN calls : calls[i].ask = "list" /\ calls[i].id = s
      BY <2>3 DEF Asked
    <3>2. i \in DOMAIN calls' /\ calls'[i] = calls[i]
      BY DEF PageMove, Keeps
    <3>3. \E k \in DOMAIN calls' : calls'[k].ask = "list" /\ calls'[k].id = s
      BY <3>1, <3>2
    <3>. QED BY <3>3, IsNews, Zenon
  <2>4. CASE \E a \in answers : a.to = "list" /\ ~a.open /\ a.id = s
    <3>1. PICK a \in answers : a.to = "list" /\ ~a.open /\ a.id = s
      BY <2>4
    <3>2. a \in answers'
      <4>1. ASSUME Hears PROVE a \in answers'
        <5>1. PICK b \in answers : HearsOpen(b) \/ HearsPatch(b) \/ HearsList(b)
          BY <4>1 DEF Hears
        <5>2. answers' = answers \ {b}
          BY <5>1 DEF HearsOpen, HearsPatch, HearsList, Answered
        <5>3. b # a
          <6>1. ASSUME b = a PROVE idRef' = 0
            <7>1. b.to = "list" /\ b.id = idRef /\ ~b.open
              BY <1>8, <3>1, <6>1, Zenon
            <7>2. HearsList(b)
              BY <5>1, <7>1 DEF HearsOpen, HearsPatch
            <7>3. Reruns(TRUE, 0)
              BY <7>1, <7>2, Zenon DEF HearsList, LostSession
            <7>. QED BY <7>3 DEF Reruns
          <6>. QED BY <1>1, <1>8, <6>1, Zenon
        <5>. QED BY <5>2, <5>3
      <4>2. ~Hears => answers' = answers
        <5>1. PageClicks => answers' = answers
          BY DEF PageClicks, SetEnabled, SetEngineId, SetMultipv, Moves
        <5>2. DebounceRings \/ HearsFrame => answers' = answers
          BY DEF DebounceRings, HearsFrame
        <5>3. SocketDrops \/ SocketReturns => answers' = answers
          BY DEF SocketDrops, SocketReturns
        <5>. QED BY <5>1, <5>2, <5>3, Zenon DEF PageStep
      <4>. QED BY <4>1, <4>2
    <3>3. \E b \in answers' : b.to = "list" /\ ~b.open /\ b.id = s
      BY <3>1, <3>2, Zenon
    <3>. QED BY <3>3, IsNews, Zenon
  <2>. QED BY <2>1, <2>2, <2>3, <2>4 DEF Noticed
<1>. QED BY <1>2, <1>6, <1>7, <1>8


-----------------------------------------------------------------------------
(* What every step keeps, together.                                        *)

Inv ==
  /\ Typed /\ InOrder /\ Books /\ GoneIsGone /\ Named /\ Numbered /\ OnePlace
  /\ NoBoardIsForgotten

LEMMA InvAtFirst == ASSUME PageAssumption, Init PROVE Inv /\ Doomed
<1>1. /\ sess = [s \in Ids |-> Unborn] /\ opening = [s \in Ids |-> Nothing] /\ lock = Unlocked
      /\ search = [s \in Ids |-> "none"] /\ searched = [s \in Ids |-> None]
      /\ picture = [s \in Ids |-> None] /\ ends = {}
      /\ calls = <<>> /\ answers = {} /\ feed = <<>> /\ listening = TRUE
  BY DEF Init, ServerInit
<1>2. \A s \in Ids : sess[s].at = "unborn" /\ opening[s] = Nothing /\ search[s] = "none"
  BY <1>1 DEF Unborn
<1>3. lock.ends = 0 /\ lock.then = Nothing
  BY <1>1 DEF Unlocked
<1>4. BrokerTyped
  <2>1. Unborn \in Sessions
    BY DEF Unborn, Sessions, Places
  <2>2. lock \in [ends : Ids \cup {0},
                  reason : {"none", "replaced", "closed", "engine_failed", "idle"},
                  then : Posts \cup {Nothing}]
    BY <1>1 DEF Unlocked
  <2>3. None \in Places
    BY DEF Places
  <2>. QED BY <1>1, <2>1, <2>2, <2>3 DEF BrokerTyped
<1>5. WireTyped
  BY <1>1 DEF WireTyped
<1>6. PageTyped
  BY DEF Init, PageTyped, Places
<1>7. Typed /\ InOrder
  BY <1>2, <1>4, <1>5, <1>6 DEF Typed, InOrder, Born
<1>8. Books
  BY <1>1, <1>2, <1>3 DEF Books, SurfaceHasOneBoard, SearchIsHeld, LockIsWhole, Open
<1>9. GoneIsGone
  BY <1>1 DEF GoneIsGone
<1>10. idRef = 0
  BY DEF Init
<1>11. Named
  BY <1>1, <1>2, <1>10 DEF Named
<1>12. Numbered
  BY <1>1, <1>2, <1>3 DEF Numbered
<1>13. OnePlace
  BY <1>1, <1>2, <1>3 DEF OnePlace, CallsAlone, StartsAlone, AnswersAlone, Calling, Waiting,
                          Starting, Answering
<1>14. NoBoardIsForgotten /\ Doomed
  BY <1>2 DEF NoBoardIsForgotten, Open, Doomed
<1>. QED BY <1>7, <1>8, <1>9, <1>11, <1>12, <1>13, <1>14 DEF Inv

LEMMA PageStepMoves ==
  ASSUME PageAssumption, Inv, PageStep
  PROVE  /\ PageMove /\ PageTyped' /\ WireTyped'
         /\ UNCHANGED <<sess, opening, lock, search, searched, picture, ends>>
<1>1. \A a \in answers : a.to = "open" => a.gen # 0 /\ (a.gen = gen => idRef = 0)
  BY DEF Inv, Numbered, OnePlace, Answering
<1>. QED BY <1>1, PageMoves, PageLeavesBooks DEF Inv

LEMMA ServerStepMoves ==
  ASSUME PageAssumption, Inv, ServerStep, UNCHANGED pageVars
  PROVE  /\ ServerMove /\ BrokerTyped' /\ WireTyped' /\ PageTyped'
         /\ UNCHANGED <<gen, idRef>>
<1>1. ServerMove /\ BrokerTyped' /\ WireTyped'
  BY ServerMoves, ServerIsTyped DEF Inv, Books
<1>2. UNCHANGED <<gen, idRef, fen, serverFen, sentFen, timer, epoch, alive, enabled>>
  BY DEF pageVars
<1>3. PageTyped'
  BY <1>2 DEF Inv, Typed, PageTyped
<1>. QED BY <1>1, <1>2, <1>3

LEMMA InvStep ==
  ASSUME PageAssumption, Inv, Next
  PROVE  Inv'
<1>1. InOrder' /\ Books' /\ Grows
  BY StepKeepsBooks DEF Inv
<1>2. CASE PageStep
  <2>1. /\ PageMove /\ PageTyped' /\ WireTyped'
        /\ UNCHANGED <<sess, opening, lock, search, searched, picture, ends>>
    BY <1>2, PageStepMoves
  <2>2. BrokerTyped'
    BY <2>1 DEF Inv, Typed, BrokerTyped
  <2>3. Typed'
    BY <2>1, <2>2 DEF Typed
  <2>4. GoneIsGone'
    BY <1>2, <2>1, PageKeepsGone DEF Inv
  <2>5. Named'
    BY <2>1, PageKeepsNames DEF Inv
  <2>6. Numbered' /\ OnePlace'
    BY <2>1, PageKeepsPlace DEF Inv
  <2>7. NoBoardIsForgotten'
    BY <2>1, PageForgetsNone DEF Inv
  <2>. QED BY <1>1, <2>3, <2>4, <2>5, <2>6, <2>7 DEF Inv
<1>3. CASE ServerStep /\ UNCHANGED pageVars
  <2>1. /\ ServerMove /\ BrokerTyped' /\ WireTyped' /\ PageTyped'
        /\ UNCHANGED <<gen, idRef>>
    BY <1>3, ServerStepMoves
  <2>2. Typed'
    BY <2>1 DEF Typed
  <2>3. GoneIsGone'
    BY <1>1, <2>1, ServerKeepsGone DEF Inv
  <2>4. Named'
    BY <1>1, <2>1, ServerKeepsNames DEF Inv
  <2>5. Numbered' /\ OnePlace'
    BY <1>3, <2>1, ServerKeepsPlace DEF Inv
  <2>6. NoBoardIsForgotten'
    BY <1>1, <2>1, ServerForgetsNone DEF Inv
  <2>. QED BY <1>1, <2>2, <2>3, <2>4, <2>5, <2>6 DEF Inv
<1>. QED BY <1>2, <1>3 DEF Next

LEMMA DoomStep ==
  ASSUME PageAssumption, "overtake" \notin Faults, Inv, Doomed, Next
  PROVE  Doomed'
<1>1. CASE PageStep
  <2>1. PageMove /\ UNCHANGED <<sess, lock>>
    BY <1>1, PageStepMoves
  <2>. QED BY <1>1, <2>1, PageKeepsDoom DEF Inv
<1>2. CASE ServerStep /\ UNCHANGED pageVars
  <2>1. ServerMove /\ BrokerTyped' /\ idRef' = idRef
    BY <1>2, ServerStepMoves
  <2>. QED BY <2>1, ServerKeepsDoom DEF Inv
<1>. QED BY <1>1, <1>2 DEF Next

\* Every operator of the invariant is about the variables alone.
LEMMA Stutters ==
  ASSUME UNCHANGED vars
  PROVE  (Inv => Inv') /\ (Doomed => Doomed')
<1>. USE DEF vars, serverVars, pageVars
<1>1. Typed => Typed'
  BY DEF Typed, BrokerTyped, WireTyped, PageTyped
<1>2. (InOrder => InOrder') /\ (GoneIsGone => GoneIsGone')
  BY DEF InOrder, Born, GoneIsGone
<1>3. Books => Books'
  BY DEF Books, SurfaceHasOneBoard, SearchIsHeld, LockIsWhole, Open
<1>4. Named => Named'
  BY DEF Named
<1>5. Numbered => Numbered'
  BY DEF Numbered, IsNumbered
<1>6. OnePlace => OnePlace'
  BY DEF OnePlace, CallsAlone, StartsAlone, AnswersAlone, Calling, Waiting, Starting, Answering,
         IsCurrent
<1>7. NoBoardIsForgotten => NoBoardIsForgotten'
  BY DEF NoBoardIsForgotten, Open, AnswerDue, Asked
<1>8. Doomed => Doomed'
  BY DEF Doomed, Noticed, Told, Asked
<1>. QED BY <1>1, <1>2, <1>3, <1>4, <1>5, <1>6, <1>7, <1>8 DEF Inv

LEMMA InvAlways == ASSUME PageAssumption PROVE Spec => []Inv
<1>1. Init => Inv
  BY InvAtFirst
<1>2. Inv /\ [Next]_vars => Inv'
  BY InvStep, Stutters
<1>. QED BY <1>1, <1>2, PTL DEF Spec

(* Whatever fails, ends, is late, lost or reordered: there is never more   *)
(* than one board on a surface, and what is searched is on the books or    *)
(* being taken off them (StreamService.open, _finish, reap_idle,           *)
(* backend_ended, under their one lock).                                   *)
THEOREM BooksAreKept == PageAssumption => (Spec => [](SurfaceHasOneBoard /\ SearchIsHeld))
<1>. SUFFICES ASSUME PageAssumption PROVE Spec => [](SurfaceHasOneBoard /\ SearchIsHeld)
  OBVIOUS
<1>1. Inv => SurfaceHasOneBoard /\ SearchIsHeld
  BY DEF Inv, Books
<1>. QED BY <1>1, InvAlways, PTL

(* Under the same faults: a board the page opened is the one it shows, one *)
(* it is yet to hear of, or one it has asked to have closed (the open      *)
(* effect's cleanup and its `cancelled` branch).                           *)
THEOREM BoardsAreRemembered == PageAssumption => (Spec => []NoBoardIsForgotten)
<1>. SUFFICES ASSUME PageAssumption PROVE Spec => []NoBoardIsForgotten
  OBVIOUS
<1>1. Inv => NoBoardIsForgotten
  BY DEF Inv
<1>. QED BY <1>1, InvAlways, PTL

LEMMA DoomIsNoticed == ASSUME PageAssumption, Inv, Doomed PROVE DeadIsNoticed
<1>. SUFFICES ASSUME idRef # 0, sess[idRef].at = "ended"
              PROVE  \/ lock.ends = idRef \/ ~listening
                     \/ \E i \in DOMAIN feed : feed[i].say = "ended" /\ feed[i].id = idRef
                     \/ Asked("list", idRef) \/ AnswerDue("list", idRef)
  BY DEF DeadIsNoticed
<1>1. idRef \in Ids
  BY DEF Inv, Typed, PageTyped
<1>2. Noticed(idRef)
  BY <1>1 DEF Doomed
<1>. QED BY <1>2, Zenon DEF Noticed, Told, AnswerDue

(* While the socket does not overtake the answer that named the board: one *)
(* that is gone on the server is on its way out of the page, by an `ended` *)
(* frame, or by the list asked for when the socket is back                 *)
(* (useStreamSession.ts, the ended listener and the reconnect).            *)
THEOREM TheDeadAreNoticed ==
  PageAssumption /\ "overtake" \notin Faults => (Spec => []DeadIsNoticed)
<1>. SUFFICES ASSUME PageAssumption, "overtake" \notin Faults PROVE Spec => []DeadIsNoticed
  OBVIOUS
<1>1. Init => Doomed
  BY InvAtFirst
<1>2. Inv /\ Doomed /\ [Next]_vars => Doomed'
  BY DoomStep, Stutters
<1>3. Inv /\ Doomed => DeadIsNoticed
  BY DoomIsNoticed
<1>. QED BY <1>1, <1>2, <1>3, InvAlways, PTL DEF Spec
=============================================================================
