--------------------------- MODULE GatewayProofs ---------------------------
(***************************************************************************)
(* Proofs about RunnerGateway for every number of runs, links, slots and   *)
(* boards: its types, what a finished run stores, whom a cancel stops,     *)
(* that nothing falls out of the gateway's hands, and that the slots hold. *)
(***************************************************************************)
EXTENDS RunnerGateway, RunQueueProofs, WellFoundedInduction, FiniteSetTheorems, TLAPS

AnyWork == Work \cup {NoWork}

UpFrame ==
  [type : {"hello"}, active : SUBSET Attempt]
  \cup [type : {"progress"}, run : RunId, token : Token]
  \cup [type : {"answer"}, run : RunId, token : Token, work : AnyWork, ends : Ends]

DownFrame ==
  [type : {"welcome"}, cancelled : SUBSET RunId]
  \cup [type : {"cancel"}, run : RunId]
  \cup [type : {"dispatch"}, run : RunId, token : Token, work : AnyWork]

Hello == [reported : SUBSET Attempt, known : SUBSET Attempt,
          resumed : [RunId -> Token \cup {NoToken}], cancelled : SUBSET RunId]

Round == [stage : {"claimed", "returning"}, run : RunId, token : Token, work : AnyWork]

Caller == ({"attach", "handback", "pump", "socket"} \X Link) \cup ({"preempt"} \X Attempt)

CallType == [by : Caller, op : Ends \cup {"abandon"}, run : RunId, token : Token,
             work : AnyWork, seen : Row]

LockTask == {"attach", "handback"} \X Link

(* Every variable has its type, what is under way on a link included.      *)
LinksTyped ==
  /\ wire \in [Link -> {"unused", "up", "broken"}]
  /\ up \in [Link -> Seq(UpFrame)] /\ down \in [Link -> Seq(DownFrame)]

RoutesTyped ==
  /\ current \in Link \cup {NoLink}
  /\ current # NoLink => serving[current] = "serving"
  /\ serving \in [Link -> {"none", "closing", "waiting", "reconciling", "serving", "gone"}]
  /\ hello \in [Link -> Hello]
  /\ socket \in [Link -> Attempt \cup {Idle}]
  /\ pump \in [Link -> Round \cup {NoPump}]
  /\ handing \in [Link -> {"no", "settling", "waiting", "writing", "done"}]
  /\ lock \in Seq(LockTask) /\ listed \in BOOLEAN

SlotsTyped ==
  /\ held \in [Link -> [RunId -> Token \cup {NoToken}]]
  /\ boards \in [Link -> Nat] /\ opened \in 0 .. MaxBoards
  /\ \A l \in Link : boards[l] <= opened

TasksTyped ==
  /\ db \subseteq CallType /\ preempts \subseteq Attempt
  /\ releases \subseteq [link : Link, run : RunId, token : Token]
  /\ told \subseteq RunId

RunnerTyped ==
  /\ jobs \in [RunId -> {NoJob} \cup [token : Token, work : AnyWork]]
  /\ sink \in Link \cup {NoLink}

(* The first word on a link is its hello, and attach takes no other.       *)
HelloFirst ==
  \A l \in Link : serving[l] = "none" =>
    /\ up[l] # <<>> => Head(up[l]).type = "hello"
    /\ wire[l] = "up" => up[l] # <<>>

Typed ==
  /\ QueueTypeOK /\ LinksTyped /\ RoutesTyped /\ SlotsTyped /\ TasksTyped /\ RunnerTyped
  /\ HelloFirst

(* Who waits for the runner's lock is in its line, and who works under it  *)
(* is the head of the line; what the head of the line has registered stays *)
(* so until it is installed.                                               *)
LockHeld ==
  /\ \A l \in Link :
       /\ serving[l] = "waiting" => \E n \in 1 .. Len(lock) : lock[n] = <<"attach", l>>
       /\ serving[l] = "reconciling" => lock # <<>> /\ Head(lock) = <<"attach", l>> /\ listed
       /\ handing[l] = "waiting" => \E n \in 1 .. Len(lock) : lock[n] = <<"handback", l>>
       /\ handing[l] = "writing" => lock # <<>> /\ Head(lock) = <<"handback", l>>
  /\ ServedIsListed

(* Whoever speaks of a run by the token it is running under means the      *)
(* request it stands for.                                                  *)
Truly(i, token, work) == Holds(runs[i], token) => work = runs[i].work

JobsTrue == \A i \in RunId : jobs[i] # NoJob => Truly(i, jobs[i].token, jobs[i].work)

RoundsTrue ==
  \A l \in Link : pump[l].stage # "off" => Truly(pump[l].run, pump[l].token, pump[l].work)

Working(f) == f.type \in {"dispatch", "answer"}

UpTrue ==
  \A l \in Link : \A f \in Range(up[l]) : Working(f) => Truly(f.run, f.token, f.work)

DownTrue ==
  \A l \in Link : \A f \in Range(down[l]) : Working(f) => Truly(f.run, f.token, f.work)

CallsTrue == \A c \in db : c.op = "complete" => Truly(c.run, c.token, c.work)

(* A call that has read its row may find it in another state when it       *)
(* writes, but never find another request's.                               *)
ReadsTrue ==
  \A c \in db : c.seen # Absent =>
    /\ "gap" \in Faults /\ c.seen.status = "running"
    /\ c.op = "complete" /\ Present(c.run) => c.work = runs[c.run].work

WordsTrue == JobsTrue /\ RoundsTrue /\ UpTrue /\ DownTrue /\ CallsTrue /\ ReadsTrue

(* What a search has found is stored for whom it was searched.             *)
Sound == WordsTrue /\ NoForeignEvals

Inv == Typed /\ LockHeld /\ Sound


-----------------------------------------------------------------------------
(* Sequences, by what is in them.                                          *)

LEMMA Sequences ==
  ASSUME NEW S, NEW s \in Seq(S)
  PROVE  /\ Range(s) \subseteq S
         /\ \A f \in S : Append(s, f) \in Seq(S) /\ Range(Append(s, f)) \subseteq Range(s) \cup {f}
         /\ s # <<>> => /\ Head(s) \in S /\ Head(s) \in Range(s)
                        /\ Tail(s) \in Seq(S) /\ Range(Tail(s)) \subseteq Range(s)
         /\ \A n \in 0 .. Len(s) :
              SubSeq(s, 1, n) \in Seq(S) /\ Range(SubSeq(s, 1, n)) \subseteq Range(s)
<1>. USE DEF Range
<1>1. Len(s) \in Nat /\ DOMAIN s = 1 .. Len(s) /\ \A n \in 1 .. Len(s) : s[n] \in S
  OBVIOUS
<1>2. Range(s) \subseteq S
  BY <1>1
<1>3. ASSUME NEW f \in S
      PROVE  Append(s, f) \in Seq(S) /\ Range(Append(s, f)) \subseteq Range(s) \cup {f}
  <2>1. Append(s, f) \in Seq(S) /\ Len(Append(s, f)) = Len(s) + 1
    OBVIOUS
  <2>2. \A n \in 1 .. Len(s) + 1 : Append(s, f)[n] \in Range(s) \cup {f}
    BY <1>1
  <2>. QED BY <1>1, <2>1, <2>2
<1>4. ASSUME s # <<>>
      PROVE  /\ Head(s) \in S /\ Head(s) \in Range(s)
             /\ Tail(s) \in Seq(S) /\ Range(Tail(s)) \subseteq Range(s)
  <2>1. Len(s) >= 1 /\ Head(s) = s[1]
    BY <1>1, <1>4
  <2>2. Tail(s) \in Seq(S) /\ Len(Tail(s)) = Len(s) - 1
    BY <1>4
  <2>3. \A n \in 1 .. Len(s) - 1 : Tail(s)[n] = s[n + 1]
    BY <1>4
  <2>. QED BY <1>1, <2>1, <2>2, <2>3
<1>5. ASSUME NEW n \in 0 .. Len(s)
      PROVE  SubSeq(s, 1, n) \in Seq(S) /\ Range(SubSeq(s, 1, n)) \subseteq Range(s)
  <2>1. \A k \in 1 .. n : k \in 1 .. Len(s)
    BY <1>1
  <2>2. SubSeq(s, 1, n) = [k \in 1 .. n |-> s[k]]
    BY <1>1, <2>1
  <2>3. SubSeq(s, 1, n) \in Seq(S)
    BY <1>1, <2>1, <2>2
  <2>4. \A k \in 1 .. n : SubSeq(s, 1, n)[k] = s[k]
    BY <2>2
  <2>5. DOMAIN SubSeq(s, 1, n) = 1 .. n
    BY <2>2
  <2>. QED BY <1>1, <2>1, <2>3, <2>4, <2>5
<1>. QED BY <1>2, <1>3, <1>4, <1>5

(* Who stands in a line still stands in it when the line grows, and when   *)
(* another leaves from its head.                                           *)
LEMMA Lines ==
  ASSUME NEW S, NEW line \in Seq(S), NEW who
  PROVE  LET Stands(s) == \E n \in 1 .. Len(s) : s[n] = who IN
         /\ \A e \in S : Stands(line) \/ e = who => Stands(Append(line, e))
         /\ \A e \in S : line # <<>> => Append(line, e) # <<>> /\ Head(Append(line, e)) = Head(line)
         /\ Stands(line) => line # <<>>
         /\ Stands(line) /\ Head(line) # who => Stands(Tail(line))
<1>1. Len(line) \in Nat /\ DOMAIN line = 1 .. Len(line)
  OBVIOUS
<1>2. ASSUME NEW e \in S, (\E n \in 1 .. Len(line) : line[n] = who) \/ e = who
      PROVE  \E n \in 1 .. Len(Append(line, e)) : Append(line, e)[n] = who
  <2>1. Len(Append(line, e)) = Len(line) + 1
    OBVIOUS
  <2>2. CASE e = who
    <3>1. Append(line, e)[Len(line) + 1] = e /\ Len(line) + 1 \in 1 .. Len(line) + 1
      BY <1>1
    <3>. QED BY <2>1, <2>2, <3>1
  <2>3. CASE \E n \in 1 .. Len(line) : line[n] = who
    <3>1. PICK n \in 1 .. Len(line) : line[n] = who
      BY <2>3
    <3>2. Append(line, e)[n] = line[n] /\ n \in 1 .. Len(line) + 1
      BY <1>1
    <3>. QED BY <2>1, <3>1, <3>2
  <2>. QED BY <1>2, <2>2, <2>3
<1>3. ASSUME NEW e \in S, line # <<>>
      PROVE  Append(line, e) # <<>> /\ Head(Append(line, e)) = Head(line)
  <2>1. Len(line) >= 1
    BY <1>1, <1>3
  <2>2. Len(Append(line, e)) = Len(line) + 1 /\ Append(line, e)[1] = line[1]
    BY <1>1, <2>1
  <2>. QED BY <1>1, <1>3, <2>1, <2>2
<1>4. ASSUME \E n \in 1 .. Len(line) : line[n] = who PROVE line # <<>>
  BY <1>4
<1>5. ASSUME \E n \in 1 .. Len(line) : line[n] = who, Head(line) # who
      PROVE  \E n \in 1 .. Len(Tail(line)) : Tail(line)[n] = who
  <2>1. PICK n \in 1 .. Len(line) : line[n] = who
    BY <1>5
  <2>2. line # <<>> /\ n # 1
    BY <1>4, <1>5, <2>1
  <2>3. Len(Tail(line)) = Len(line) - 1
    BY <2>2
  <2>4. n - 1 \in 1 .. Len(line) - 1 /\ Tail(line)[n - 1] = line[n]
    BY <1>1, <2>2
  <2>. QED BY <2>1, <2>3, <2>4
<1>. QED BY <1>2, <1>3, <1>4, <1>5


-----------------------------------------------------------------------------
(* What the model's operators return.                                      *)

LEMMA TypedIsTypeOK == Typed => TypeOK
<1>. SUFFICES ASSUME Typed PROVE TypeOK
  OBVIOUS
<1>1. MaxBoards \in Nat /\ NoToken \notin Token
  BY GatewayAssumption, QueueAssumption
<1>2. boards \in [Link -> 0 .. MaxBoards]
  BY <1>1 DEF Typed, SlotsTyped
<1>3. jobs \in [RunId -> Job]
  BY DEF Typed, RunnerTyped, Job, NoJob, AnyWork
<1>. QED
  BY <1>2, <1>3 DEF Typed, TypeOK, LinksTyped, RoutesTyped, SlotsTyped, TasksTyped, RunnerTyped

LEMMA CallIsTyped ==
  ASSUME NEW by \in Caller, NEW op \in Ends \cup {"abandon"}, NEW a \in Attempt
  PROVE  /\ Call(by, op, a) \in CallType
         /\ Call(by, op, a).op = op /\ Call(by, op, a).run = a.run
         /\ Call(by, op, a).token = a.token /\ Call(by, op, a).seen = Absent
BY AbsentIsRow DEF Call, CallType, Attempt, AnyWork

LEMMA AbandonsAreTyped ==
  ASSUME NEW by \in Caller, NEW as, as \subseteq Attempt
  PROVE  /\ Abandons(by, as) \subseteq CallType
         /\ \A c \in Abandons(by, as) : c.op = "abandon" /\ c.seen = Absent
<1>1. ASSUME NEW c \in Abandons(by, as)
      PROVE  c \in CallType /\ c.op = "abandon" /\ c.seen = Absent
  <2>1. PICK a \in as : c = Call(by, "abandon", a)
    BY <1>1, Zenon DEF Abandons
  <2>2. a \in Attempt
    OBVIOUS
  <2>. QED BY <2>1, <2>2, CallIsTyped, ZenonT(60)
<1>. QED BY <1>1

LEMMA SlotsAreAttempts ==
  ASSUME SlotsTyped, NEW l \in Link
  PROVE  OnSlots(l) \subseteq Attempt
<1>1. ASSUME NEW a \in OnSlots(l) PROVE a \in Attempt
  <2>1. PICK i \in {j \in RunId : held[l][j] # NoToken} : a = [run |-> i, token |-> held[l][i]]
    BY <1>1, Zenon DEF OnSlots
  <2>. QED BY <2>1 DEF SlotsTyped, Attempt
<1>. QED BY <1>1

LEMMA ActiveIsAttempts == RunnerTyped => Active \subseteq Attempt
<1>. SUFFICES ASSUME RunnerTyped, NEW a \in Active PROVE a \in Attempt
  OBVIOUS
<1>1. PICK i \in {j \in RunId : jobs[j] # NoJob} : a = [run |-> i, token |-> jobs[i].token]
  BY Zenon DEF Active
<1>. QED BY <1>1 DEF RunnerTyped, Attempt

LEMMA FreshIsFree ==
  ASSUME FreshTokens # {}
  PROVE  /\ FreshToken \in Token
         /\ \A i \in RunId : FreshToken # runs[i].token /\ FreshToken # jobs[i].token
         /\ \A c \in db : FreshToken # c.token
         /\ \A l \in Link : FreshToken # pump[l].token
         /\ \A l \in Link : \A f \in Range(up[l]) \cup Range(down[l]) :
              Working(f) => FreshToken # f.token
<1>1. FreshToken \in FreshTokens
  BY Zenon DEF FreshToken
<1>2. FreshToken \in Token
  BY <1>1, Zenon DEF FreshTokens
<1>3. ASSUME NEW i \in RunId PROVE FreshToken # runs[i].token /\ FreshToken # jobs[i].token
  <2>1. FreshToken \notin {runs[j].token : j \in RunId} /\ FreshToken \notin {jobs[j].token : j \in RunId}
    BY <1>1, Zenon DEF FreshTokens
  <2>. QED BY <2>1
<1>4. ASSUME NEW c \in db PROVE FreshToken # c.token
  <2>1. FreshToken \notin {d.token : d \in db}
    BY <1>1, Zenon DEF FreshTokens
  <2>. QED BY <2>1
<1>5. ASSUME NEW l \in Link
      PROVE  /\ FreshToken # pump[l].token
             /\ FreshToken \notin FrameTokens(up[l]) /\ FreshToken \notin FrameTokens(down[l])
  <2>. DEFINE Spread(k) == Range(held[k]) \cup FrameTokens(up[k]) \cup FrameTokens(down[k])
                       \cup {pump[k].token, socket[k].token} \cup Range(hello[k].resumed)
                       \cup {a.token : a \in hello[k].known \cup hello[k].reported}
  <2>1. FreshToken \notin UNION {Spread(k) : k \in Link}
    BY <1>1, Zenon DEF FreshTokens
  <2>2. FreshToken \notin Spread(l)
    <3>. HIDE DEF Spread
    <3>. QED BY <2>1
  <2>. QED BY <2>2, Zenon
<1>6. ASSUME NEW l \in Link, NEW f \in Range(up[l]) \cup Range(down[l]), Working(f)
      PROVE  FreshToken # f.token
  <2>1. \A frames : f \in Range(frames) => f.token \in FrameTokens(frames)
    BY <1>6 DEF FrameTokens, Working
  <2>. QED BY <1>5, <2>1
<1>. QED BY <1>2, <1>3, <1>4, <1>5, <1>6

(* The network: what a send adds, and what a cut leaves.                   *)
LEMMA Sending ==
  ASSUME LinksTyped, NEW l \in Link, NEW f \in DownFrame, Sent(l, f)
  PROVE  /\ down' \in [Link -> Seq(DownFrame)]
         /\ \A k \in Link : Range(down'[k]) \subseteq Range(down[k]) \cup {f}
<1>1. down[l] \in Seq(DownFrame)
  BY DEF LinksTyped
<1>2. /\ Append(down[l], f) \in Seq(DownFrame)
      /\ Range(Append(down[l], f)) \subseteq Range(down[l]) \cup {f}
  BY <1>1, Sequences
<1>. QED BY <1>2 DEF LinksTyped, Sent

LEMMA Cutting ==
  ASSUME LinksTyped, NEW l \in Link, Cut(l)
  PROVE  /\ LinksTyped'
         /\ \A k \in Link : Range(up'[k]) \subseteq Range(up[k]) /\ Range(down'[k]) \subseteq Range(down[k])
<1>1. PICK n \in 0 .. Len(up[l]) : up' = [up EXCEPT ![l] = SubSeq(@, 1, n)]
  BY DEF Cut
<1>2. up[l] \in Seq(UpFrame)
  BY DEF LinksTyped
<1>3. SubSeq(up[l], 1, n) \in Seq(UpFrame) /\ Range(SubSeq(up[l], 1, n)) \subseteq Range(up[l])
  BY <1>2, Sequences
<1>4. <<>> \in Seq(DownFrame) /\ Range(<<>>) = {}
  BY DEF Range
<1>. QED BY <1>1, <1>3, <1>4 DEF LinksTyped, Cut

LEMMA Saying ==
  ASSUME LinksTyped, NEW f \in UpFrame, Says(f), sink \in Link \cup {NoLink}
  PROVE  /\ up' \in [Link -> Seq(UpFrame)]
         /\ \A k \in Link : Range(up'[k]) \subseteq Range(up[k]) \cup {f}
<1>1. \A k \in Link : /\ Append(up[k], f) \in Seq(UpFrame)
                      /\ Range(Append(up[k], f)) \subseteq Range(up[k]) \cup {f}
  BY Sequences DEF LinksTyped
<1>. QED BY <1>1 DEF LinksTyped, Says

LEMMA TakingFromUp ==
  ASSUME LinksTyped, NEW l \in Link, up[l] # <<>>, up' = [up EXCEPT ![l] = Tail(@)]
  PROVE  /\ up' \in [Link -> Seq(UpFrame)]
         /\ \A k \in Link : Range(up'[k]) \subseteq Range(up[k])
         /\ Head(up[l]) \in UpFrame /\ Head(up[l]) \in Range(up[l])
BY Sequences DEF LinksTyped

LEMMA Forgetting ==
  ASSUME SlotsTyped, NEW a
  PROVE  Forgotten(a) \in [Link -> [RunId -> Token \cup {NoToken}]]
BY DEF SlotsTyped, Forgotten

LEMMA Releasing ==
  ASSUME LinksTyped, SlotsTyped, NEW l \in Link, NEW a, a.run \in RunId, Release(l, a)
  PROVE  /\ held' \in [Link -> [RunId -> Token \cup {NoToken}]]
         /\ down' \in [Link -> Seq(DownFrame)]
         /\ \A k \in Link : \A f \in Range(down'[k]) : f \in Range(down[k]) \/ ~Working(f)
<1>1. CASE UNCHANGED <<held, down>>
  BY <1>1 DEF LinksTyped, SlotsTyped
<1>2. CASE held' = Forgotten(a) /\ Sent(l, [type |-> "cancel", run |-> a.run])
  <2>. DEFINE frame == [type |-> "cancel", run |-> a.run]
  <2>1. frame \in DownFrame /\ ~Working(frame)
    BY DEF DownFrame, Working
  <2>2. held' \in [Link -> [RunId -> Token \cup {NoToken}]]
    BY <1>2, Forgetting
  <2>. HIDE DEF frame
  <2>3. Sent(l, frame)
    BY <1>2 DEF frame
  <2>. QED BY <2>1, <2>2, <2>3, Sending
<1>. QED BY <1>1, <1>2 DEF Release


LEMMA FramesByType ==
  /\ \A f \in UpFrame :
       /\ f.type = "hello" => f.active \subseteq Attempt
       /\ f.type = "progress" => f.run \in RunId /\ f.token \in Token
       /\ f.type = "answer" =>
            /\ f.run \in RunId /\ f.token \in Token /\ f.work \in AnyWork /\ f.ends \in Ends
  /\ \A f \in DownFrame :
       /\ f.type = "cancel" => f.run \in RunId
       /\ f.type = "welcome" => f.cancelled \subseteq RunId
       /\ f.type = "dispatch" => f.run \in RunId /\ f.token \in Token /\ f.work \in AnyWork
BY DEF UpFrame, DownFrame

(* Nothing that follows a link's first frame, and nothing that leaves with *)
(* the end of what is under way, changes which frame is the first.         *)
LEMMA FirstFrame ==
  ASSUME NEW S, NEW s \in Seq(S)
  PROVE  /\ \A f \in S : s # <<>> => Append(s, f) # <<>> /\ Head(Append(s, f)) = Head(s)
         /\ \A n \in 0 .. Len(s) : SubSeq(s, 1, n) # <<>> =>
              s # <<>> /\ Head(SubSeq(s, 1, n)) = Head(s)
<1>1. \A f \in S : s # <<>> => Append(s, f) # <<>> /\ Head(Append(s, f)) = Head(s)
  BY Lines
<1>2. ASSUME NEW n \in 0 .. Len(s), SubSeq(s, 1, n) # <<>>
      PROVE  s # <<>> /\ Head(SubSeq(s, 1, n)) = Head(s)
  <2>1. Len(s) \in Nat /\ \A k \in 1 .. n : k \in 1 .. Len(s)
    OBVIOUS
  <2>2. SubSeq(s, 1, n) = [k \in 1 .. n |-> s[k]]
    BY <2>1
  <2>3. n # 0
    BY <1>2, <2>2
  <2>4. SubSeq(s, 1, n)[1] = s[1] /\ Len(s) >= 1
    BY <2>1, <2>2, <2>3
  <2>5. SubSeq(s, 1, n) \in Seq(S)
    BY Sequences
  <2>6. s # <<>> /\ Head(s) = s[1]
    BY <2>1, <2>4
  <2>. QED BY <1>2, <2>4, <2>5, <2>6
<1>. QED BY <1>1, <1>2

-----------------------------------------------------------------------------
(* Typing.                                                                 *)

LEMMA Constants ==
  /\ NoHello \in Hello /\ Free \in [RunId -> Token \cup {NoToken}]
  /\ \A l \in Link : \A by \in {"attach", "handback", "pump", "socket"} : <<by, l>> \in Caller
  /\ \A a \in Attempt : <<"preempt", a>> \in Caller
  /\ <<>> \in Seq(UpFrame) /\ <<>> \in Seq(DownFrame) /\ <<>> \in Seq(LockTask)
  /\ \A l \in Link : <<"attach", l>> \in LockTask /\ <<"handback", l>> \in LockTask
BY DEF NoHello, Hello, Free, Caller, LockTask

LEMMA TypedInit == Init => Typed
<1>. SUFFICES ASSUME Init PROVE Typed
  OBVIOUS
<1>1. QueueTypeOK
  <2>1. runs \in [RunId -> Row]
    BY AbsentIsRow DEF Init, QueueInit
  <2>2. asked \in 0 .. MaxWorks
    BY QueueAssumption DEF Init, QueueInit
  <2>3. paused \in BOOLEAN
    BY DEF Init, QueueInit
  <2>. QED BY <2>1, <2>2, <2>3 DEF QueueTypeOK
<1>2. LinksTyped
  BY Constants DEF Init, LinksTyped
<1>3. RoutesTyped
  BY Constants DEF Init, RoutesTyped, NoLink
<1>4. SlotsTyped
  BY Constants, GatewayAssumption DEF Init, SlotsTyped
<1>5. TasksTyped /\ RunnerTyped
  BY DEF Init, TasksTyped, RunnerTyped
<1>6. HelloFirst
  BY DEF Init, HelloFirst
<1>. QED BY <1>1, <1>2, <1>3, <1>4, <1>5, <1>6 DEF Typed

(* The frames: a link's first word stays its first word while nobody has   *)
(* attached it.                                                            *)
LEMMA StaysFirst ==
  ASSUME LinksTyped, HelloFirst,
         \A l \in Link : serving'[l] = "none" =>
           /\ serving[l] = "none"
           /\ wire'[l] = "up" => wire[l] = "up"
           /\ \/ up'[l] = up[l]
              \/ \E f \in UpFrame : up[l] # <<>> /\ up'[l] = Append(up[l], f)
              \/ wire'[l] # "up" /\ \E n \in 0 .. Len(up[l]) : up'[l] = SubSeq(up[l], 1, n)
  PROVE  HelloFirst'
<1>. SUFFICES ASSUME NEW l \in Link, serving'[l] = "none"
              PROVE  /\ up'[l] # <<>> => Head(up'[l]).type = "hello"
                     /\ wire'[l] = "up" => up'[l] # <<>>
  BY DEF HelloFirst
<1>1. /\ up[l] # <<>> => Head(up[l]).type = "hello"
      /\ wire[l] = "up" => up[l] # <<>>
      /\ wire'[l] = "up" => wire[l] = "up"
  BY DEF HelloFirst
<1>2. up[l] \in Seq(UpFrame)
  BY DEF LinksTyped
<1>3. CASE up'[l] = up[l]
  BY <1>1, <1>3
<1>4. CASE \E f \in UpFrame : up[l] # <<>> /\ up'[l] = Append(up[l], f)
  BY <1>1, <1>2, <1>4, FirstFrame
<1>5. CASE wire'[l] # "up" /\ \E n \in 0 .. Len(up[l]) : up'[l] = SubSeq(up[l], 1, n)
  BY <1>1, <1>2, <1>5, FirstFrame
<1>. QED BY <1>3, <1>4, <1>5


LEMMA Untouched ==
  ASSUME Typed
  PROVE  /\ UNCHANGED <<runs, paused, asked>> => QueueTypeOK'
         /\ UNCHANGED network => LinksTyped'
         /\ UNCHANGED <<current, routes, listed>> => RoutesTyped'
         /\ UNCHANGED state => SlotsTyped'
         /\ UNCHANGED tasks => TasksTyped'
         /\ UNCHANGED runner => RunnerTyped'
         /\ UNCHANGED <<wire, up, serving>> => HelloFirst'
<1>1. UNCHANGED <<runs, paused, asked>> => QueueTypeOK'
  BY DEF Typed, QueueTypeOK
<1>2. UNCHANGED network => LinksTyped'
  BY DEF Typed, LinksTyped, network
<1>3. UNCHANGED <<current, routes, listed>> => RoutesTyped'
  BY DEF Typed, RoutesTyped, routes
<1>4. UNCHANGED state => SlotsTyped'
  BY DEF Typed, SlotsTyped, state, streams
<1>5. UNCHANGED tasks => TasksTyped'
  BY DEF Typed, TasksTyped, tasks
<1>6. UNCHANGED runner => RunnerTyped'
  BY DEF Typed, RunnerTyped, runner
<1>7. UNCHANGED <<wire, up, serving>> => HelloFirst'
  BY DEF Typed, HelloFirst
<1>. QED BY <1>1, <1>2, <1>3, <1>4, <1>5, <1>6, <1>7

LEMMA TypedAttachBegins ==
  ASSUME Typed, NEW l \in Link, AttachBegins(l)
  PROVE  Typed'
<1>. USE DEF AttachBegins
<1>1. LinksTyped /\ RoutesTyped /\ SlotsTyped /\ HelloFirst
  BY DEF Typed
<1>2. up[l] \in Seq(UpFrame) /\ up[l] # <<>>
  BY <1>1 DEF LinksTyped
<1>3. Head(up[l]) \in UpFrame /\ Tail(up[l]) \in Seq(UpFrame)
  BY <1>2, Sequences
<1>4. Head(up[l]).active \subseteq Attempt
  BY <1>1, <1>2, <1>3, FramesByType DEF HelloFirst
<1>5. current # NoLink => current \in Link /\ serving[current] = "serving" /\ current # l
  BY <1>1 DEF RoutesTyped
<1>6. LinksTyped' /\ HelloFirst'
  <2>1. CASE current = NoLink
    <3>1. LinksTyped'
      BY <1>1, <1>3, <2>1 DEF LinksTyped
    <3>2. \A k \in Link : serving'[k] = "none" =>
            serving[k] = "none" /\ wire'[k] = wire[k] /\ up'[k] = up[k]
      BY <1>1, <2>1 DEF LinksTyped, RoutesTyped
    <3>. QED BY <1>1, <3>1, <3>2, StaysFirst
  <2>2. CASE current # NoLink
    <3>1. PICK n \in 0 .. Len(up[current]) :
            up' = [up EXCEPT ![l] = Tail(@), ![current] = SubSeq(@, 1, n)]
      BY <2>2
    <3>2. up[current] \in Seq(UpFrame)
      BY <1>1, <1>5, <2>2 DEF LinksTyped
    <3>3. SubSeq(up[current], 1, n) \in Seq(UpFrame)
      BY <3>2, Sequences
    <3>4. up' \in [Link -> Seq(UpFrame)]
      BY <1>1, <1>3, <1>5, <2>2, <3>1, <3>3 DEF LinksTyped
    <3>5. LinksTyped'
      <4>1. wire' = [wire EXCEPT ![current] = "broken"] /\ down' = [down EXCEPT ![current] = <<>>]
        BY <2>2
      <4>2. wire' \in [Link -> {"unused", "up", "broken"}]
        BY <1>1, <4>1 DEF LinksTyped
      <4>3. down' \in [Link -> Seq(DownFrame)]
        BY <1>1, <4>1, Constants DEF LinksTyped
      <4>. QED BY <3>4, <4>2, <4>3 DEF LinksTyped
    <3>6. \A k \in Link : serving'[k] = "none" =>
            serving[k] = "none" /\ wire'[k] = wire[k] /\ up'[k] = up[k]
      <4>1. \A k \in Link : serving'[k] = "none" => k # l /\ k # current /\ serving[k] = "none"
        BY <1>1, <1>5, <2>2 DEF RoutesTyped
      <4>. QED BY <1>1, <1>5, <2>2, <3>1, <4>1 DEF LinksTyped
    <3>. QED BY <1>1, <3>5, <3>6, StaysFirst
  <2>. QED BY <2>1, <2>2
<1>7. RoutesTyped'
  <2>. DEFINE known == IF current = NoLink THEN {} ELSE OnSlots(current)
              heard == [NoHello EXCEPT !.reported = Head(up[l]).active, !.known = known]
  <2>1. known \subseteq Attempt
    BY <1>1, <1>5, SlotsAreAttempts
  <2>. HIDE DEF known
  <2>2. heard \in Hello
    BY <1>4, <2>1, Constants DEF NoHello, Hello
  <2>. HIDE DEF heard
  <2>3. hello' = [hello EXCEPT ![l] = heard]
    BY Zenon DEF heard, known
  <2>4. hello' \in [Link -> Hello]
    BY <1>1, <2>2, <2>3 DEF RoutesTyped
  <2>5. lock' \in Seq(LockTask)
    <3>1. lock \in Seq(LockTask) /\ <<"attach", l>> \in LockTask
      BY <1>1, Constants DEF RoutesTyped
    <3>2. Append(lock, <<"attach", l>>) \in Seq(LockTask)
      BY <3>1, Sequences
    <3>3. lock' = lock \/ lock' = Append(lock, <<"attach", l>>)
      BY Zenon
    <3>. QED BY <3>1, <3>2, <3>3
  <2>6. serving' \in [Link -> {"none", "closing", "waiting", "reconciling", "serving", "gone"}]
    BY <1>1 DEF RoutesTyped
  <2>. QED BY <1>1, <2>4, <2>5, <2>6 DEF RoutesTyped, NoLink
<1>8. SlotsTyped'
  BY <1>1, <1>5, Constants DEF SlotsTyped, streams, state
<1>. QED BY <1>6, <1>7, <1>8, Untouched DEF Typed

LEMMA TypedAttachQueues ==
  ASSUME Typed, NEW l \in Link, AttachQueues(l)
  PROVE  Typed'
<1>. USE DEF AttachQueues
<1>1. LinksTyped /\ RoutesTyped /\ SlotsTyped /\ HelloFirst
  BY DEF Typed
<1>2. lock' \in Seq(LockTask)
  BY <1>1, Constants, Sequences DEF RoutesTyped
<1>3. RoutesTyped'
  BY <1>1, <1>2 DEF RoutesTyped
<1>4. LinksTyped'
  BY Untouched
<1>5. HelloFirst'
  BY <1>1 DEF HelloFirst, RoutesTyped, network
<1>. QED BY <1>3, <1>4, <1>5, Untouched DEF Typed

LEMMA TypedAttachReconciles ==
  ASSUME Typed, NEW l \in Link, AttachReconciles(l)
  PROVE  Typed'
<1>. USE DEF AttachReconciles
<1>. DEFINE h == hello[l]
            resumed == {a \in h.reported : Holds(runs[a.run], a.token)}
            ids == {a.run : a \in resumed}
            dropped == {a.run : a \in h.reported \ resumed}
            tokens == [i \in RunId |->
               IF i \in ids THEN (CHOOSE a \in resumed : a.run = i).token ELSE NoToken]
            lost == {a \in h.known : a.run \notin ids}
<1>1. LinksTyped /\ RoutesTyped /\ SlotsTyped /\ TasksTyped /\ HelloFirst
  BY DEF Typed
<1>2. h \in Hello /\ h.reported \subseteq Attempt /\ h.known \subseteq Attempt
  BY <1>1 DEF RoutesTyped, Hello
<1>3. dropped \subseteq RunId
  BY <1>2 DEF Attempt
<1>4. tokens \in [RunId -> Token \cup {NoToken}]
  <2>1. ASSUME NEW i \in ids PROVE (CHOOSE a \in resumed : a.run = i).token \in Token
    <3>1. \E a \in resumed : a.run = i
      BY <2>1
    <3>2. (CHOOSE a \in resumed : a.run = i) \in resumed
      BY <3>1, Zenon
    <3>. QED BY <1>2, <3>2 DEF Attempt
  <2>. QED BY <2>1
<1>5. hello' = [hello EXCEPT ![l].cancelled = dropped, ![l].resumed = tokens]
  BY Zenon
<1>6. db' = db \cup Abandons(<<"attach", l>>, lost)
  BY Zenon
<1>7. lost \subseteq Attempt
  BY <1>2, ZenonT(30)
<1>. HIDE DEF resumed, ids, dropped, tokens, lost
<1>8. hello' \in [Link -> Hello]
  <2>. DEFINE first == [hello EXCEPT ![l].cancelled = dropped]
  <2>1. first \in [Link -> Hello]
    BY <1>1, <1>3, ZenonT(60) DEF RoutesTyped, Hello
  <2>2. hello' = [first EXCEPT ![l].resumed = tokens]
    BY <1>1, <1>5 DEF RoutesTyped
  <2>. HIDE DEF first
  <2>. QED BY <1>4, <2>1, <2>2, ZenonT(60) DEF Hello
<1>9. RoutesTyped'
  BY <1>1, <1>8 DEF RoutesTyped
<1>10. TasksTyped'
  BY <1>1, <1>6, <1>7, AbandonsAreTyped, Constants DEF TasksTyped
<1>11. HelloFirst'
  BY <1>1 DEF HelloFirst, RoutesTyped, network
<1>. QED BY <1>9, <1>10, <1>11, Untouched DEF Typed

LEMMA TypedAttachInstalls ==
  ASSUME Typed, LockHeld, NEW l \in Link, AttachInstalls(l)
  PROVE  Typed'
<1>. USE DEF AttachInstalls
<1>. DEFINE frame == [type |-> "welcome", cancelled |-> hello[l].cancelled]
<1>1. LinksTyped /\ RoutesTyped /\ SlotsTyped /\ HelloFirst
  BY DEF Typed
<1>2. hello[l] \in Hello /\ frame \in DownFrame
  BY <1>1 DEF RoutesTyped, Hello, DownFrame
<1>. HIDE DEF frame
<1>3. LinksTyped'
  <2>1. CASE Sent(l, frame)
    BY <1>1, <1>2, <2>1, Sending DEF LinksTyped
  <2>2. CASE UNCHANGED down
    BY <1>1, <2>2 DEF LinksTyped
  <2>. QED BY <2>1, <2>2 DEF frame
<1>4. lock' \in Seq(LockTask)
  <2>1. lock # <<>> /\ lock \in Seq(LockTask)
    BY <1>1 DEF LockHeld, RoutesTyped
  <2>. QED BY <2>1, Sequences
<1>5. RoutesTyped'
  <2>1. hello' \in [Link -> Hello]
    BY <1>1, Constants DEF RoutesTyped
  <2>2. current' \in Link \cup {NoLink}
        /\ (current' # NoLink => serving'[current'] = "serving")
        /\ serving' \in [Link -> {"none", "closing", "waiting", "reconciling", "serving", "gone"}]
    BY <1>1 DEF RoutesTyped
  <2>3. handing' \in [Link -> {"no", "settling", "waiting", "writing", "done"}]
    BY <1>1 DEF RoutesTyped
  <2>. QED BY <1>1, <1>4, <2>1, <2>2, <2>3 DEF RoutesTyped
<1>6. SlotsTyped'
  <2>1. hello[l].resumed \in [RunId -> Token \cup {NoToken}]
    BY <1>2 DEF Hello
  <2>. QED BY <1>1, <2>1 DEF SlotsTyped, streams
<1>7. HelloFirst'
  BY <1>1 DEF HelloFirst, RoutesTyped
<1>. QED BY <1>3, <1>5, <1>6, <1>7, Untouched DEF Typed


LEMMA TypedRelease ==
  ASSUME Typed, NEW l \in Link, NEW a, a.run \in RunId, Release(l, a)
  PROVE  /\ UNCHANGED wire /\ up' \in [Link -> Seq(UpFrame)] => LinksTyped'
         /\ UNCHANGED streams => SlotsTyped'
<1>1. /\ held' \in [Link -> [RunId -> Token \cup {NoToken}]]
      /\ down' \in [Link -> Seq(DownFrame)]
  BY Releasing DEF Typed
<1>. QED BY <1>1 DEF Typed, LinksTyped, SlotsTyped, streams

LEMMA TypedTakeProgress ==
  ASSUME Typed, NEW l \in Link, TakeProgress(l)
  PROVE  Typed'
<1>. USE DEF TakeProgress
<1>. DEFINE a == Head(up[l])
<1>1. QueueTypeOK /\ LinksTyped /\ RoutesTyped /\ SlotsTyped /\ HelloFirst
  BY DEF Typed
<1>2. up' \in [Link -> Seq(UpFrame)] /\ a \in UpFrame
  BY <1>1, TakingFromUp
<1>3. a.run \in RunId /\ a.token \in Token
  BY <1>2, FramesByType
<1>4. HelloFirst'
  BY <1>1 DEF HelloFirst, LinksTyped, routes
<1>5. UNCHANGED <<paused, asked, wire, current, streams, routes, listed, tasks, runner>>
  OBVIOUS
<1>. HIDE DEF a
<1>6. CASE HeartbeatRuns({a.run}) /\ UNCHANGED <<held, down>>
  <2>1. runs' \in [RunId -> Row]
    BY <1>1, <1>6, QueueOperators DEF QueueTypeOK
  <2>2. QueueTypeOK'
    BY <1>1, <1>5, <2>1 DEF QueueTypeOK
  <2>3. LinksTyped' /\ SlotsTyped'
    BY <1>1, <1>2, <1>5, <1>6 DEF LinksTyped, SlotsTyped, streams
  <2>. QED BY <1>4, <1>5, <2>2, <2>3, Untouched DEF Typed
<1>7. CASE current # NoLink /\ Release(current, a) /\ UNCHANGED runs
  <2>1. current \in Link
    BY <1>1, <1>7 DEF RoutesTyped
  <2>2. LinksTyped' /\ SlotsTyped'
    BY <1>2, <1>3, <1>5, <1>7, <2>1, TypedRelease
  <2>. QED BY <1>4, <1>5, <1>7, <2>2, Untouched DEF Typed
<1>8. CASE UNCHANGED <<runs, held, down>>
  <2>1. LinksTyped' /\ SlotsTyped'
    BY <1>1, <1>2, <1>5, <1>8 DEF LinksTyped, SlotsTyped, streams
  <2>. QED BY <1>4, <1>5, <1>8, <2>1, Untouched DEF Typed
<1>. QED BY <1>6, <1>7, <1>8, Zenon DEF a

LEMMA TypedTakeAnswer ==
  ASSUME Typed, NEW l \in Link, TakeAnswer(l)
  PROVE  Typed'
<1>. USE DEF TakeAnswer
<1>. DEFINE f == Head(up[l])
            a == [run |-> f.run, token |-> f.token]
            c == [Call(<<"socket", l>>, f.ends, a) EXCEPT !.work = f.work]
<1>1. LinksTyped /\ RoutesTyped /\ SlotsTyped /\ TasksTyped /\ HelloFirst
  BY DEF Typed
<1>2. up' \in [Link -> Seq(UpFrame)] /\ f \in UpFrame
  BY <1>1, TakingFromUp
<1>3. f.run \in RunId /\ f.token \in Token /\ f.work \in AnyWork /\ f.ends \in Ends
  BY <1>2, FramesByType
<1>4. a \in Attempt
  BY <1>3 DEF Attempt
<1>5. c \in CallType
  <2>. HIDE DEF a, f
  <2>1. Call(<<"socket", l>>, f.ends, a) \in CallType
    BY <1>3, <1>4, CallIsTyped, Constants
  <2>. QED BY <1>3, <2>1 DEF CallType
<1>6. db' = db \cup {c} /\ socket' = [socket EXCEPT ![l] = a]
  BY Zenon
<1>. HIDE DEF a, f, c
<1>7. LinksTyped'
  BY <1>1, <1>2 DEF LinksTyped
<1>8. RoutesTyped'
  BY <1>1, <1>4, <1>6 DEF RoutesTyped
<1>9. TasksTyped'
  BY <1>1, <1>5, <1>6 DEF TasksTyped
<1>10. HelloFirst'
  BY <1>1 DEF HelloFirst, LinksTyped
<1>. QED BY <1>7, <1>8, <1>9, <1>10, Untouched DEF Typed

LEMMA TypedAnswered ==
  ASSUME Typed, NEW l \in Link, Answered(l)
  PROVE  Typed'
<1>. USE DEF Answered
<1>1. RoutesTyped /\ SlotsTyped
  BY DEF Typed
<1>2. held' \in [Link -> [RunId -> Token \cup {NoToken}]]
  BY <1>1, Forgetting
<1>3. SlotsTyped'
  BY <1>1, <1>2 DEF SlotsTyped, streams
<1>4. RoutesTyped'
  BY <1>1 DEF RoutesTyped
<1>. QED BY <1>3, <1>4, Untouched DEF Typed, network

(* The ends of a link on the server: detach and the hand-back.             *)
LEMMA TypedDetach ==
  ASSUME Typed, LockHeld, NEW l \in Link,
         RouteEnds(l) \/ BeatDetaches(l) \/ HandBackQueues(l) \/ HandBack(l) \/ HandedBack(l)
  PROVE  Typed'
<1>1. LinksTyped /\ RoutesTyped /\ SlotsTyped /\ TasksTyped /\ HelloFirst
  BY DEF Typed
<1>2. CASE RouteEnds(l)
  <2>1. RoutesTyped'
    BY <1>1, <1>2 DEF RouteEnds, Dropped, RoutesTyped, NoLink
  <2>2. HelloFirst'
    BY <1>1, <1>2 DEF RouteEnds, HelloFirst, network, RoutesTyped
  <2>. QED BY <1>2, <2>1, <2>2, Untouched DEF RouteEnds, Typed
<1>3. CASE BeatDetaches(l)
  <2>1. RoutesTyped'
    BY <1>1, <1>3 DEF BeatDetaches, Dropped, RoutesTyped, NoLink
  <2>2. LinksTyped'
    BY <1>1, <1>3, Cutting, Untouched DEF BeatDetaches
  <2>3. HelloFirst'
    <3>1. serving[l] = "serving" /\ UNCHANGED serving
      BY <1>1, <1>3 DEF RoutesTyped, BeatDetaches, NoLink, Link
    <3>2. \A k \in Link : k # l => up'[k] = up[k] /\ wire'[k] = wire[k]
      BY <1>1, <1>3 DEF BeatDetaches, Cut, LinksTyped, network
    <3>. QED BY <1>1, <3>1, <3>2 DEF HelloFirst
  <2>. QED BY <1>3, <2>1, <2>2, <2>3, Untouched DEF BeatDetaches, Typed
<1>4. CASE HandBackQueues(l)
  <2>1. lock' \in Seq(LockTask)
    BY <1>1, <1>4, Constants, Sequences DEF HandBackQueues, RoutesTyped
  <2>2. RoutesTyped'
    BY <1>1, <1>4, <2>1 DEF HandBackQueues, RoutesTyped
  <2>3. UNCHANGED <<wire, up, serving>>
    BY <1>4 DEF HandBackQueues, network
  <2>. QED BY <1>4, <2>2, <2>3, Untouched DEF HandBackQueues, Typed
<1>5. CASE HandBack(l)
  <2>1. RoutesTyped'
    BY <1>1, <1>5 DEF HandBack, RoutesTyped
  <2>2. TasksTyped'
    <3>. DEFINE as == {a \in OnSlots(l) : current = NoLink \/ held[current][a.run] = NoToken}
    <3>1. as \subseteq Attempt
      BY <1>1, SlotsAreAttempts
    <3>2. db' = db \cup Abandons(<<"handback", l>>, as)
      BY <1>5 DEF HandBack
    <3>. HIDE DEF as
    <3>3. Abandons(<<"handback", l>>, as) \subseteq CallType
      BY <3>1, AbandonsAreTyped, Constants
    <3>. QED BY <1>1, <1>5, <3>2, <3>3 DEF HandBack, TasksTyped
  <2>3. UNCHANGED <<wire, up, serving>>
    BY <1>5 DEF HandBack, network
  <2>. QED BY <1>5, <2>1, <2>2, <2>3, Untouched DEF HandBack, Typed
<1>6. CASE HandedBack(l)
  <2>1. lock' \in Seq(LockTask)
    <3>1. lock # <<>> /\ lock \in Seq(LockTask)
      BY <1>1, <1>6 DEF LockHeld, RoutesTyped, HandedBack
    <3>. QED BY <1>6, <3>1, Sequences DEF HandedBack
  <2>2. RoutesTyped'
    BY <1>1, <1>6, <2>1 DEF HandedBack, RoutesTyped
  <2>3. SlotsTyped'
    BY <1>1, <1>6, Constants DEF HandedBack, SlotsTyped, streams
  <2>4. UNCHANGED <<wire, up, serving>>
    BY <1>6 DEF HandedBack, network
  <2>. QED BY <1>6, <2>2, <2>3, <2>4, Untouched DEF HandedBack, Typed
<1>. QED BY <1>2, <1>3, <1>4, <1>5, <1>6


(* Dispatch rounds.                                                        *)
LEMMA TypedPump ==
  ASSUME Typed, NEW l \in Link, PumpClaims(l) \/ PumpPlaces(l) \/ PumpReturned(l)
  PROVE  Typed'
<1>1. QueueTypeOK /\ LinksTyped /\ RoutesTyped /\ SlotsTyped /\ TasksTyped /\ HelloFirst
  BY DEF Typed
<1>2. CASE PumpClaims(l)
  <2>. USE <1>2 DEF PumpClaims
  <2>1. FreshToken \in Token
    BY FreshIsFree
  <2>2. PICK i \in RunId :
          \/ /\ runs' = [runs EXCEPT ![i] = Claimed(@, FreshToken)]
             /\ pump' = [pump EXCEPT ![l] = [stage |-> "claimed", run |-> i,
                                             token |-> FreshToken, work |-> runs[i].work]]
          \/ /\ LET row == Claimed(runs[i], FreshToken) IN
                  runs' = [runs EXCEPT ![i] = FailedRow(row, row, FALSE)]
             /\ UNCHANGED pump
    BY Zenon
  <2>3. runs[i] \in Row /\ Claimed(runs[i], FreshToken) \in Row
    BY <1>1, <2>1, RowOperators DEF QueueTypeOK
  <2>4. FailedRow(Claimed(runs[i], FreshToken), Claimed(runs[i], FreshToken), FALSE) \in Row
    BY <2>3, RowOperators
  <2>5. runs' \in [RunId -> Row]
    BY <1>1, <2>2, <2>3, <2>4 DEF QueueTypeOK
  <2>6. QueueTypeOK'
    BY <1>1, <2>5 DEF QueueTypeOK
  <2>7. [stage |-> "claimed", run |-> i, token |-> FreshToken, work |-> runs[i].work] \in Round
    BY <2>1, <2>3 DEF Round, Row, AnyWork
  <2>8. pump' \in [Link -> Round \cup {NoPump}]
    BY <1>1, <2>2, <2>7 DEF RoutesTyped
  <2>9. RoutesTyped'
    BY <1>1, <2>8 DEF RoutesTyped
  <2>. QED BY <2>6, <2>9, Untouched DEF Typed, network
<1>3. CASE PumpPlaces(l)
  <2>. USE <1>3 DEF PumpPlaces
  <2>1. pump[l] \in Round
    BY <1>1 DEF RoutesTyped, NoPump
  <2>2. /\ UNCHANGED <<runs, paused, asked, wire, up, current, streams, serving, hello, socket,
                       handing, lock, listed, preempts, releases, told, runner>>
    OBVIOUS
  <2>3. CASE PumpReturns(l)
    <3>. DEFINE a == [run |-> pump[l].run, token |-> pump[l].token]
                back == [pump[l] EXCEPT !.stage = "returning"]
    <3>1. {a} \subseteq Attempt
      BY <2>1 DEF Round, Attempt
    <3>2. back \in Round
      BY <2>1 DEF Round
    <3>3. pump' = [pump EXCEPT ![l] = back] /\ db' = db \cup Abandons(<<"pump", l>>, {a})
          /\ UNCHANGED <<held, down>>
      BY <1>1, <2>3 DEF PumpReturns, RoutesTyped
    <3>. HIDE DEF a, back
    <3>4. Abandons(<<"pump", l>>, {a}) \subseteq CallType
      BY <3>1, AbandonsAreTyped, Constants
    <3>5. RoutesTyped'
      BY <1>1, <2>2, <3>2, <3>3 DEF RoutesTyped
    <3>6. TasksTyped'
      BY <1>1, <2>2, <3>3, <3>4 DEF TasksTyped
    <3>. QED BY <2>2, <3>3, <3>5, <3>6, Untouched DEF Typed, network, state
  <2>4. CASE /\ held' = [held EXCEPT ![l][pump[l].run] = pump[l].token]
             /\ pump' = [pump EXCEPT ![l] = NoPump]
             /\ Sent(l, [type |-> "dispatch", run |-> pump[l].run, token |-> pump[l].token,
                         work |-> pump[l].work])
             /\ UNCHANGED db
    <3>. DEFINE frame == [type |-> "dispatch", run |-> pump[l].run, token |-> pump[l].token,
                          work |-> pump[l].work]
    <3>1. frame \in DownFrame
      BY <2>1 DEF Round, DownFrame
    <3>. HIDE DEF frame
    <3>2. down' \in [Link -> Seq(DownFrame)]
      BY <1>1, <2>4, <3>1, Sending DEF frame
    <3>3. LinksTyped'
      BY <1>1, <2>2, <3>2 DEF LinksTyped
    <3>4. held' \in [Link -> [RunId -> Token \cup {NoToken}]]
      BY <1>1, <2>1, <2>4 DEF SlotsTyped, Round
    <3>5. SlotsTyped'
      BY <1>1, <2>2, <3>4 DEF SlotsTyped, streams
    <3>6. RoutesTyped'
      BY <1>1, <2>2, <2>4 DEF RoutesTyped
    <3>. QED BY <2>2, <2>4, <3>3, <3>5, <3>6, Untouched DEF Typed, tasks
  <2>. QED BY <2>3, <2>4, Zenon
<1>4. CASE PumpReturned(l)
  <2>1. RoutesTyped'
    BY <1>1, <1>4 DEF PumpReturned, RoutesTyped
  <2>. QED BY <1>4, <2>1, Untouched DEF PumpReturned, Typed, network
<1>. QED BY <1>2, <1>3, <1>4

(* Database calls.                                                         *)
LEMMA WrittenIsRow ==
  ASSUME NEW row \in Row, NEW seen \in Row, NEW c \in CallType
  PROVE  Written(row, seen, c) \in Row
<1>1. c.op \in {"complete", "retry", "fatal", "abandon"} /\ c.work \in Work \cup {NoWork}
  BY DEF CallType, Ends, AnyWork
<1>2. /\ Completed(row, seen, c.work) \in Row /\ Abandoned(row, seen) \in Row
      /\ FailedRow(row, seen, TRUE) \in Row /\ FailedRow(row, seen, FALSE) \in Row
  BY <1>1, RowOperators
<1>. QED BY <1>1, <1>2 DEF Written

LEMMA TypedCalls ==
  ASSUME Typed, NEW c \in db, CallRuns(c) \/ CallReads(c) \/ CallWrites(c)
  PROVE  Typed'
<1>1. QueueTypeOK /\ RoutesTyped /\ TasksTyped
  BY DEF Typed
<1>2. c \in CallType /\ c.run \in RunId /\ c.seen \in Row /\ runs[c.run] \in Row
  BY <1>1 DEF TasksTyped, CallType, QueueTypeOK
<1>3. CASE CallRuns(c)
  <2>1. Written(runs[c.run], runs[c.run], c) \in Row
    BY <1>2, WrittenIsRow
  <2>2. QueueTypeOK'
    BY <1>1, <1>2, <1>3, <2>1 DEF CallRuns, QueueTypeOK
  <2>3. TasksTyped'
    BY <1>1, <1>3 DEF CallRuns, TasksTyped
  <2>. QED BY <1>3, <2>2, <2>3, Untouched DEF CallRuns, Typed, network, routes
<1>4. CASE CallReads(c)
  <2>1. [c EXCEPT !.seen = runs[c.run]] \in CallType
    BY <1>2 DEF CallType
  <2>2. TasksTyped'
    BY <1>1, <1>4, <2>1 DEF CallReads, TasksTyped
  <2>. QED BY <1>4, <2>2, Untouched DEF CallReads, Typed, network, routes
<1>5. CASE CallWrites(c)
  <2>1. Written(runs[c.run], c.seen, c) \in Row
    BY <1>2, WrittenIsRow
  <2>2. QueueTypeOK'
    BY <1>1, <1>2, <1>5, <2>1 DEF CallWrites, QueueTypeOK
  <2>3. TasksTyped'
    BY <1>1, <1>5 DEF CallWrites, TasksTyped
  <2>4. RoutesTyped'
    BY <1>1, <1>5 DEF CallWrites, RoutesTyped
  <2>. QED BY <1>5, <2>2, <2>3, <2>4, Untouched DEF CallWrites, Typed, network
<1>. QED BY <1>3, <1>4, <1>5

(* Boards, sweeps and the owner.                                           *)
LEMMA TypedSlots ==
  ASSUME Typed, ReserveSlot \/ ReleaseSlot
  PROVE  Typed'
<1>1. RoutesTyped /\ SlotsTyped /\ TasksTyped
  BY DEF Typed
<1>2. CASE ReserveSlot
  <2>. USE <1>2 DEF ReserveSlot
  <2>1. current \in Link
    BY <1>1 DEF RoutesTyped
  <2>2. boards' \in [Link -> Nat] /\ opened' \in 0 .. MaxBoards
        /\ \A l \in Link : boards'[l] <= opened'
    BY <1>1, <2>1, GatewayAssumption DEF SlotsTyped
  <2>3. CASE UNCHANGED <<held, db, preempts>>
    <3>1. SlotsTyped'
      BY <1>1, <2>2, <2>3 DEF SlotsTyped
    <3>2. TasksTyped'
      BY <1>1, <2>3 DEF TasksTyped
    <3>. QED BY <3>1, <3>2, Untouched DEF Typed, network, routes
  <2>4. CASE \E a \in OnSlots(current) :
             /\ held' = [held EXCEPT ![current][a.run] = NoToken]
             /\ preempts' = preempts \cup {a}
             /\ db' = db \cup Abandons(<<"preempt", a>>, {a})
    <3>1. PICK a \in OnSlots(current) :
             /\ held' = [held EXCEPT ![current][a.run] = NoToken]
             /\ preempts' = preempts \cup {a}
             /\ db' = db \cup Abandons(<<"preempt", a>>, {a})
      BY <2>4
    <3>2. a \in Attempt
      BY <1>1, <2>1, SlotsAreAttempts
    <3>3. Abandons(<<"preempt", a>>, {a}) \subseteq CallType
      BY <3>2, AbandonsAreTyped, Constants
    <3>4. held' \in [Link -> [RunId -> Token \cup {NoToken}]]
      BY <1>1, <2>1, <3>1 DEF SlotsTyped
    <3>5. SlotsTyped'
      BY <2>2, <3>4 DEF SlotsTyped
    <3>6. TasksTyped'
      BY <1>1, <3>1, <3>2, <3>3 DEF TasksTyped
    <3>. QED BY <3>5, <3>6, Untouched DEF Typed, network, routes
  <2>. QED BY <2>3, <2>4, Zenon
<1>3. CASE ReleaseSlot
  <2>1. SlotsTyped'
    BY <1>1, <1>3, GatewayAssumption DEF ReleaseSlot, SlotsTyped, RoutesTyped
  <2>. QED BY <1>3, <2>1, Untouched DEF ReleaseSlot, Typed, network, routes
<1>. QED BY <1>2, <1>3

LEMMA TypedPreempted ==
  ASSUME Typed, NEW a \in preempts, Preempted(a)
  PROVE  Typed'
<1>. USE DEF Preempted
<1>. DEFINE frame == [type |-> "cancel", run |-> a.run]
<1>1. LinksTyped /\ RoutesTyped /\ SlotsTyped /\ TasksTyped
  BY DEF Typed
<1>2. frame \in DownFrame
  BY <1>1 DEF TasksTyped, Attempt, DownFrame
<1>. HIDE DEF frame
<1>3. CASE current # NoLink /\ Sent(current, frame)
  <2>1. LinksTyped'
    BY <1>1, <1>2, <1>3, Sending DEF RoutesTyped, LinksTyped
  <2>2. TasksTyped'
    BY <1>1 DEF TasksTyped
  <2>. QED BY <2>1, <2>2, Untouched DEF Typed, network, routes
<1>4. CASE UNCHANGED down
  <2>1. LinksTyped'
    BY <1>1, <1>4 DEF LinksTyped
  <2>2. TasksTyped'
    BY <1>1 DEF TasksTyped
  <2>. QED BY <2>1, <2>2, Untouched DEF Typed, network, routes
<1>. QED BY <1>3, <1>4 DEF frame

LEMMA TypedReleases ==
  ASSUME Typed
  PROVE  /\ \A r \in releases : SweepReleases(r) => Typed'
         /\ \A i \in RunId : Cancelled(i) => Typed'
<1>1. LinksTyped /\ RoutesTyped /\ SlotsTyped /\ TasksTyped
  BY DEF Typed
<1>2. ASSUME NEW r \in releases, SweepReleases(r) PROVE Typed'
  <2>. DEFINE a == [run |-> r.run, token |-> r.token]
  <2>1. r.link \in Link /\ r.run \in RunId
    BY <1>1 DEF TasksTyped
  <2>2. a.run \in RunId
    BY <2>1
  <2>3. Release(r.link, a) /\ UNCHANGED <<wire, up, streams>>
    BY <1>2 DEF SweepReleases
  <2>. HIDE DEF a
  <2>4. LinksTyped' /\ SlotsTyped'
    BY <1>1, <2>1, <2>2, <2>3, TypedRelease DEF LinksTyped
  <2>5. TasksTyped'
    BY <1>1, <1>2 DEF SweepReleases, TasksTyped
  <2>. QED BY <1>2, <2>4, <2>5, Untouched DEF SweepReleases, Typed, network, routes
<1>3. ASSUME NEW i \in RunId, Cancelled(i) PROVE Typed'
  <2>. DEFINE a == [run |-> i, token |-> held[current][i]]
  <2>1. TasksTyped'
    BY <1>1, <1>3 DEF Cancelled, TasksTyped
  <2>2. CASE current # NoLink /\ Release(current, a)
    <3>1. a.run \in RunId
      OBVIOUS
    <3>. HIDE DEF a
    <3>2. LinksTyped' /\ SlotsTyped'
      BY <1>1, <1>3, <2>2, <3>1, TypedRelease DEF Cancelled, LinksTyped, RoutesTyped
    <3>. QED BY <1>3, <2>1, <3>2, Untouched DEF Cancelled, Typed, network, routes
  <2>3. CASE UNCHANGED <<held, down>>
    <3>1. LinksTyped' /\ SlotsTyped'
      BY <1>1, <1>3, <2>3 DEF Cancelled, LinksTyped, SlotsTyped, streams
    <3>. QED BY <1>3, <2>1, <3>1, Untouched DEF Cancelled, Typed, network, routes
  <2>. QED BY <1>3, <2>2, <2>3 DEF Cancelled
<1>. QED BY <1>2, <1>3


(* What only writes the table.                                             *)
LEMMA TypedRows ==
  ASSUME Typed
  PROVE  /\ \A i \in RunId : CancelRun(i) \/ GoQuiet(i) => Typed'
         /\ \A host \in AskedHosts : Ask(host) => Typed'
         /\ Sweep => Typed'
<1>1. QueueTypeOK /\ RoutesTyped /\ SlotsTyped /\ TasksTyped
  BY DEF Typed
<1>2. runs \in [RunId -> Row] /\ asked \in 0 .. MaxWorks
  BY <1>1 DEF QueueTypeOK
<1>3. ASSUME NEW i \in RunId, CancelRun(i) PROVE Typed'
  <2>1. runs' \in [RunId -> Row]
    BY <1>2, <1>3, QueueOperators DEF CancelRun
  <2>2. QueueTypeOK'
    BY <1>1, <1>3, <2>1 DEF CancelRun, QueueTypeOK
  <2>3. TasksTyped'
    BY <1>1, <1>3 DEF CancelRun, TasksTyped
  <2>. QED BY <1>3, <2>2, <2>3, Untouched DEF CancelRun, Typed, network, routes
<1>4. ASSUME NEW i \in RunId, GoQuiet(i) PROVE Typed'
  <2>1. [runs[i] EXCEPT !.quiet = TRUE] \in Row
    BY <1>2 DEF Row
  <2>2. QueueTypeOK'
    BY <1>1, <1>4, <2>1 DEF GoQuiet, QueueTypeOK
  <2>. QED BY <1>4, <2>2, Untouched DEF GoQuiet, Typed, network, routes
<1>5. ASSUME NEW host \in AskedHosts, Ask(host) PROVE Typed'
  <2>. DEFINE row == [Absent EXCEPT !.work = asked + 1, !.kind = "asked", !.host = host,
                                    !.status = "queued"]
  <2>1. asked < MaxWorks /\ asked' = asked + 1 /\ UNCHANGED paused
    BY <1>5 DEF Ask, RequestAnalysis
  <2>2. asked + 1 \in Work /\ asked' \in 0 .. MaxWorks
    BY <1>2, <2>1, QueueAssumption DEF Work
  <2>3. row \in Row
    <3>1. host \in Host /\ "asked" \in Kind /\ "queued" \in Status
      BY QueueAssumption DEF Kind, Status
    <3>. QED BY <2>2, <3>1, AbsentIsRow DEF Row
  <2>4. \E i \in RunId : runs' = [runs EXCEPT ![i] = row]
    BY <1>5, Zenon DEF Ask, RequestAnalysis
  <2>. HIDE DEF row
  <2>5. runs' \in [RunId -> Row]
    BY <1>2, <2>3, <2>4
  <2>6. QueueTypeOK'
    BY <1>1, <2>1, <2>2, <2>5 DEF QueueTypeOK
  <2>. QED BY <1>5, <2>6, Untouched DEF Ask, Typed, network, routes
<1>6. ASSUME Sweep PROVE Typed'
  <2>. DEFINE some == {j \in RunId : Stale(j) /\ current # NoLink /\ held[current][j] # NoToken}
              more == {[link |-> current, run |-> i, token |-> held[current][i]] : i \in some}
  <2>1. runs' \in [RunId -> Row]
    BY <1>2, <1>6, QueueOperators DEF Sweep
  <2>2. QueueTypeOK'
    BY <1>1, <1>6, <2>1 DEF Sweep, QueueTypeOK
  <2>3. ASSUME NEW r \in more PROVE r \in [link : Link, run : RunId, token : Token]
    <3>1. PICK i \in some : r = [link |-> current, run |-> i, token |-> held[current][i]]
      BY <2>3
    <3>2. current \in Link /\ held[current][i] \in Token
      BY <1>1 DEF RoutesTyped, SlotsTyped
    <3>. QED BY <3>1, <3>2
  <2>4. releases' = releases \cup more
    BY <1>6, Zenon DEF Sweep
  <2>. HIDE DEF more
  <2>5. TasksTyped'
    BY <1>1, <1>6, <2>3, <2>4 DEF Sweep, TasksTyped
  <2>. QED BY <1>6, <2>2, <2>5, Untouched DEF Sweep, Typed, network, routes
<1>. QED BY <1>3, <1>4, <1>5, <1>6

(* The link and the runner.                                                *)
LEMMA TypedLinks ==
  ASSUME Typed, NEW l \in Link, LinkBreaks(l) \/ Dial(l)
  PROVE  Typed'
<1>1. LinksTyped /\ RunnerTyped /\ HelloFirst
  BY DEF Typed
<1>2. CASE LinkBreaks(l)
  <2>. USE <1>2 DEF LinkBreaks
  <2>1. LinksTyped'
    BY <1>1, Cutting
  <2>2. PICK n \in 0 .. Len(up[l]) : up' = [up EXCEPT ![l] = SubSeq(@, 1, n)]
    BY DEF Cut
  <2>3. HelloFirst'
    <3>1. UNCHANGED serving
      BY DEF routes
    <3>2. wire' = [wire EXCEPT ![l] = "broken"]
      BY DEF Cut
    <3>3. \A k \in Link :
            /\ wire'[k] = "up" => wire[k] = "up"
            /\ \/ up'[k] = up[k]
               \/ wire'[k] # "up" /\ \E m \in 0 .. Len(up[k]) : up'[k] = SubSeq(up[k], 1, m)
      BY <1>1, <2>2, <3>2 DEF LinksTyped
    <3>. QED BY <1>1, <3>1, <3>3, StaysFirst
  <2>. QED BY <2>1, <2>3, Untouched DEF Typed, network, routes
<1>3. CASE Dial(l)
  <2>. USE <1>3 DEF Dial
  <2>. DEFINE frame == [type |-> "hello", active |-> Active]
  <2>1. frame \in UpFrame /\ frame.type = "hello"
    BY <1>1, ActiveIsAttempts DEF UpFrame
  <2>2. up' = [up EXCEPT ![l] = <<frame>>]
    OBVIOUS
  <2>. HIDE DEF frame
  <2>3. <<frame>> \in Seq(UpFrame) /\ <<frame>> # <<>> /\ Head(<<frame>>) = frame
    BY <2>1
  <2>4. LinksTyped'
    BY <1>1, <2>2, <2>3 DEF LinksTyped
  <2>5. HelloFirst'
    BY <1>1, <2>1, <2>2, <2>3 DEF HelloFirst, LinksTyped, routes
  <2>6. RunnerTyped'
    BY <1>1 DEF RunnerTyped
  <2>. QED BY <2>4, <2>5, <2>6, Untouched DEF Typed, network, routes
<1>. QED BY <1>2, <1>3

LEMMA TypedSays ==
  ASSUME Typed, NEW f \in UpFrame, Says(f), UNCHANGED <<wire, down, serving>>
  PROVE  LinksTyped' /\ HelloFirst'
<1>1. LinksTyped /\ RunnerTyped /\ HelloFirst
  BY DEF Typed
<1>2. LinksTyped'
  BY <1>1, Saying DEF LinksTyped, RunnerTyped
<1>3. HelloFirst'
  <2>1. CASE UNCHANGED up
    BY <1>1, <2>1 DEF HelloFirst
  <2>2. CASE sink # NoLink /\ wire[sink] = "up" /\ up' = [up EXCEPT ![sink] = Append(@, f)]
    <3>1. sink \in Link
      BY <1>1, <2>2 DEF RunnerTyped
    <3>2. ASSUME NEW k \in Link, serving'[k] = "none"
          PROVE  up'[k] = up[k] \/ (up[k] # <<>> /\ up'[k] = Append(up[k], f))
      BY <1>1, <2>2, <3>1, <3>2 DEF LinksTyped, HelloFirst
    <3>. QED BY <1>1, <3>2, StaysFirst
  <2>. QED BY <2>1, <2>2 DEF Says
<1>. QED BY <1>2, <1>3

LEMMA TypedRunner ==
  ASSUME Typed
  PROVE  /\ HangUp => Typed'
         /\ Hear => Typed'
         /\ \A i \in RunId, ends \in Ends : JobEnds(i, ends) => Typed'
         /\ \A i \in RunId : Report(i) => Typed'
<1>1. LinksTyped /\ RunnerTyped
  BY DEF Typed
<1>2. ASSUME HangUp PROVE Typed'
  <2>1. RunnerTyped'
    BY <1>1, <1>2 DEF HangUp, RunnerTyped
  <2>. QED BY <1>2, <2>1, Untouched DEF HangUp, Typed, network, routes
<1>3. ASSUME Hear PROVE Typed'
  <2>. USE <1>3 DEF Hear
  <2>. DEFINE f == Head(down[sink])
  <2>1. sink \in Link /\ down[sink] \in Seq(DownFrame) /\ down[sink] # <<>>
    BY <1>1 DEF LinksTyped, RunnerTyped
  <2>2. f \in DownFrame /\ Tail(down[sink]) \in Seq(DownFrame)
    BY <2>1, Sequences
  <2>3. /\ f.type = "cancel" => f.run \in RunId
        /\ f.type = "dispatch" => f.run \in RunId /\ f.token \in Token /\ f.work \in AnyWork
    BY <2>2, FramesByType
  <2>4. jobs' \in [RunId -> {NoJob} \cup [token : Token, work : AnyWork]]
    <3>1. CASE jobs' = [i \in RunId |-> IF i \in f.cancelled THEN NoJob ELSE jobs[i]]
      BY <1>1, <3>1 DEF RunnerTyped
    <3>2. CASE jobs' = [jobs EXCEPT ![f.run] = NoJob]
      BY <1>1, <3>2 DEF RunnerTyped
    <3>3. CASE f.type = "dispatch" /\ jobs' = [jobs EXCEPT ![f.run] = [token |-> f.token, work |-> f.work]]
      BY <1>1, <2>3, <3>3 DEF RunnerTyped
    <3>4. CASE UNCHANGED jobs
      BY <1>1, <3>4 DEF RunnerTyped
    <3>. QED BY <3>1, <3>2, <3>3, <3>4, Zenon
  <2>5. RunnerTyped'
    BY <1>1, <2>4 DEF RunnerTyped
  <2>6. LinksTyped'
    BY <1>1, <2>2 DEF LinksTyped
  <2>. QED BY <2>5, <2>6, Untouched DEF Typed, network, routes
<1>4. ASSUME NEW i \in RunId, NEW ends \in Ends, JobEnds(i, ends) PROVE Typed'
  <2>. DEFINE frame == [type |-> "answer", run |-> i, token |-> jobs[i].token,
                        work |-> jobs[i].work, ends |-> ends]
  <2>1. jobs[i] \in [token : Token, work : AnyWork]
    BY <1>1, <1>4 DEF JobEnds, RunnerTyped
  <2>2. frame \in UpFrame
    BY <2>1 DEF UpFrame
  <2>3. Says(frame) /\ UNCHANGED <<wire, down, serving>>
    BY <1>4 DEF JobEnds, routes
  <2>. HIDE DEF frame
  <2>4. LinksTyped' /\ HelloFirst'
    BY <2>2, <2>3, TypedSays
  <2>5. RunnerTyped'
    BY <1>1, <1>4 DEF JobEnds, RunnerTyped
  <2>. QED BY <1>4, <2>4, <2>5, Untouched DEF JobEnds, Typed
<1>5. ASSUME NEW i \in RunId, Report(i) PROVE Typed'
  <2>. DEFINE frame == [type |-> "progress", run |-> i, token |-> jobs[i].token]
  <2>1. jobs[i] \in [token : Token, work : AnyWork]
    BY <1>1, <1>5 DEF Report, RunnerTyped
  <2>2. frame \in UpFrame
    BY <2>1 DEF UpFrame
  <2>3. Says(frame) /\ UNCHANGED <<wire, down, serving>>
    BY <1>5 DEF Report, routes
  <2>. HIDE DEF frame
  <2>4. LinksTyped' /\ HelloFirst'
    BY <2>2, <2>3, TypedSays
  <2>. QED BY <1>5, <2>4, Untouched DEF Report, Typed
<1>. QED BY <1>2, <1>3, <1>4, <1>5

LEMMA TypedRestart == Typed /\ Restart => Typed'
<1>. SUFFICES ASSUME Typed, Restart PROVE Typed'
  OBVIOUS
<1>. USE DEF Restart
<1>1. QueueTypeOK /\ LinksTyped /\ SlotsTyped
  BY DEF Typed
<1>2. runs' \in [RunId -> Row]
  BY <1>1, QueueOperators DEF QueueTypeOK
<1>3. QueueTypeOK'
  BY <1>1, <1>2 DEF QueueTypeOK
<1>4. LinksTyped'
  BY <1>1, Constants DEF LinksTyped
<1>5. RoutesTyped'
  BY <1>1, Constants DEF RoutesTyped, NoLink
<1>6. SlotsTyped'
  BY <1>1, Constants DEF SlotsTyped
<1>7. TasksTyped'
  BY DEF TasksTyped
<1>8. HelloFirst'
  BY <1>1 DEF HelloFirst, LinksTyped
<1>. QED BY <1>3, <1>4, <1>5, <1>6, <1>7, <1>8, Untouched DEF Typed

LEMMA TypedStep == Typed /\ LockHeld /\ [Next]_vars => Typed'
<1>. SUFFICES ASSUME Typed, LockHeld, [Next]_vars PROVE Typed'
  OBVIOUS
<1>1. CASE \E l \in Link : Route(l) \/ HandsBack(l) \/ PumpClaims(l) \/ PumpGoesOn(l)
  BY <1>1, TypedAttachBegins, TypedAttachQueues, TypedAttachReconciles, TypedAttachInstalls,
     TypedTakeProgress, TypedTakeAnswer, TypedAnswered, TypedDetach, TypedPump
     DEF Route, HandsBack, PumpGoesOn
<1>2. CASE \E l \in Link : BeatDetaches(l) \/ LinkBreaks(l) \/ Dial(l)
  BY <1>2, TypedDetach, TypedLinks
<1>3. CASE \E c \in db : CallRuns(c) \/ CallReads(c) \/ CallWrites(c)
  BY <1>3, TypedCalls
<1>4. CASE \E a \in preempts : Preempted(a)
  BY <1>4, TypedPreempted
<1>5. CASE \E r \in releases : SweepReleases(r)
  BY <1>5, TypedReleases
<1>6. CASE \E i \in RunId : CancelRun(i) \/ Cancelled(i) \/ Report(i) \/ GoQuiet(i)
  BY <1>6, TypedRows, TypedReleases, TypedRunner
<1>7. CASE \E i \in RunId, ends \in Ends : JobEnds(i, ends)
  BY <1>7, TypedRunner
<1>8. CASE \E host \in AskedHosts : Ask(host)
  BY <1>8, TypedRows
<1>9. CASE Sweep \/ ReserveSlot \/ ReleaseSlot \/ HangUp \/ Hear \/ Restart
  BY <1>9, TypedRows, TypedSlots, TypedRunner, TypedRestart
<1>10. CASE UNCHANGED vars
  BY <1>10, Untouched DEF vars, Typed, network, routes
<1>. QED BY <1>1, <1>2, <1>3, <1>4, <1>5, <1>6, <1>7, <1>8, <1>9, <1>10, Zenon DEF Next


-----------------------------------------------------------------------------
(* The runner's lock.                                                      *)

Stands(line, who) == \E n \in 1 .. Len(line) : line[n] = who

LEMMA LockInit == Init => LockHeld
<1>. SUFFICES ASSUME Init PROVE LockHeld
  OBVIOUS
<1>1. current = NoLink
  BY DEF Init
<1>2. \A l \in Link : serving[l] = "none" /\ handing[l] = "no"
  BY DEF Init
<1>. QED BY <1>1, <1>2 DEF LockHeld, ServedIsListed

LEMMA LockUntouched ==
  LockHeld /\ UNCHANGED <<current, serving, handing, lock, listed>> => LockHeld'
<1>. SUFFICES ASSUME LockHeld, UNCHANGED <<current, serving, handing, lock, listed>>
              PROVE  LockHeld'
  OBVIOUS
<1>1. /\ current' = current /\ serving' = serving /\ handing' = handing
      /\ lock' = lock /\ listed' = listed
  OBVIOUS
<1>2. listed' <=> listed
  BY <1>1
<1>3. ASSUME NEW l \in Link
      PROVE  /\ serving'[l] = "waiting" => Stands(lock', <<"attach", l>>)
             /\ serving'[l] = "reconciling" => lock' # <<>> /\ Head(lock') = <<"attach", l>> /\ listed'
             /\ handing'[l] = "waiting" => Stands(lock', <<"handback", l>>)
             /\ handing'[l] = "writing" => lock' # <<>> /\ Head(lock') = <<"handback", l>>
  <2>1. /\ serving[l] = "waiting" => Stands(lock, <<"attach", l>>)
        /\ serving[l] = "reconciling" => lock # <<>> /\ Head(lock) = <<"attach", l>> /\ listed
        /\ handing[l] = "waiting" => Stands(lock, <<"handback", l>>)
        /\ handing[l] = "writing" => lock # <<>> /\ Head(lock) = <<"handback", l>>
    BY DEF LockHeld, Stands
  <2>. QED BY <1>1, <1>2, <2>1
<1>4. ServedIsListed'
  BY <1>1, <1>2 DEF LockHeld, ServedIsListed
<1>. QED BY <1>3, <1>4 DEF LockHeld, Stands

(* Somebody joins the line.                                                *)
LEMMA LockJoined ==
  ASSUME RoutesTyped, LockHeld, NEW who \in LockTask, lock' = Append(lock, who),
         UNCHANGED listed, current' # NoLink => current # NoLink,
         \A l \in Link :
           /\ serving'[l] = "waiting" => serving[l] = "waiting" \/ who = <<"attach", l>>
           /\ serving'[l] = "reconciling" => serving[l] = "reconciling"
           /\ handing'[l] = "waiting" => handing[l] = "waiting" \/ who = <<"handback", l>>
           /\ handing'[l] = "writing" => handing[l] = "writing"
  PROVE  LockHeld'
<1>1. lock \in Seq(LockTask)
  BY DEF RoutesTyped
<1>2. \A other : Stands(lock, other) \/ who = other => Stands(lock', other)
  BY <1>1, Lines DEF Stands
<1>3. lock # <<>> => lock' # <<>> /\ Head(lock') = Head(lock)
  BY <1>1, Lines
<1>4. ASSUME NEW l \in Link
      PROVE  /\ serving'[l] = "waiting" => Stands(lock', <<"attach", l>>)
             /\ serving'[l] = "reconciling" => lock' # <<>> /\ Head(lock') = <<"attach", l>> /\ listed'
             /\ handing'[l] = "waiting" => Stands(lock', <<"handback", l>>)
             /\ handing'[l] = "writing" => lock' # <<>> /\ Head(lock') = <<"handback", l>>
  <2>1. /\ serving[l] = "waiting" => Stands(lock, <<"attach", l>>)
        /\ serving[l] = "reconciling" => lock # <<>> /\ Head(lock) = <<"attach", l>> /\ listed
        /\ handing[l] = "waiting" => Stands(lock, <<"handback", l>>)
        /\ handing[l] = "writing" => lock # <<>> /\ Head(lock) = <<"handback", l>>
    BY DEF LockHeld, Stands
  <2>. QED BY <1>2, <1>3, <2>1
<1>. QED BY <1>4 DEF LockHeld, Stands, ServedIsListed

(* The head of the line, whose work was under way, leaves it.              *)
LEMMA LockLeft ==
  ASSUME RoutesTyped, LockHeld, NEW who, lock' = Tail(lock), Head(lock) = who,
         UNCHANGED listed,
         current' # NoLink => listed,
         \A l \in Link :
           /\ serving'[l] = "waiting" => serving[l] = "waiting" /\ who # <<"attach", l>>
           /\ serving'[l] = "reconciling" => serving[l] = "reconciling" /\ who # <<"attach", l>>
           /\ handing'[l] = "waiting" => handing[l] = "waiting" /\ who # <<"handback", l>>
           /\ handing'[l] = "writing" => handing[l] = "writing" /\ who # <<"handback", l>>
  PROVE  LockHeld'
<1>1. lock \in Seq(LockTask)
  BY DEF RoutesTyped
<1>2. \A other : Stands(lock, other) /\ who # other => Stands(lock', other)
  BY <1>1, Lines DEF Stands
<1>3. ASSUME NEW l \in Link
      PROVE  /\ serving'[l] = "waiting" => Stands(lock', <<"attach", l>>)
             /\ serving'[l] # "reconciling"
             /\ handing'[l] = "waiting" => Stands(lock', <<"handback", l>>)
             /\ handing'[l] # "writing"
  <2>1. /\ serving[l] = "waiting" => Stands(lock, <<"attach", l>>)
        /\ serving[l] = "reconciling" => Head(lock) = <<"attach", l>>
        /\ handing[l] = "waiting" => Stands(lock, <<"handback", l>>)
        /\ handing[l] = "writing" => Head(lock) = <<"handback", l>>
    BY DEF LockHeld, Stands
  <2>. QED BY <1>2, <2>1
<1>. QED BY <1>3 DEF LockHeld, Stands, ServedIsListed

(* The head of the line begins its work.                                   *)
LEMMA LockTaken ==
  ASSUME LockHeld, UNCHANGED <<current, lock>>, NEW l \in Link,
         \/ serving[l] = "waiting" /\ Head(lock) = <<"attach", l>> /\ listed'
            /\ serving' = [serving EXCEPT ![l] = "reconciling"] /\ UNCHANGED handing
         \/ handing[l] = "waiting" /\ Head(lock) = <<"handback", l>>
            /\ listed' = (listed /\ current # NoLink)
            /\ handing' = [handing EXCEPT ![l] = "writing"] /\ UNCHANGED serving,
         RoutesTyped
  PROVE  LockHeld'
<1>1. CASE serving[l] = "waiting" /\ Head(lock) = <<"attach", l>> /\ listed'
            /\ serving' = [serving EXCEPT ![l] = "reconciling"] /\ UNCHANGED handing
  <2>1. lock # <<>>
    BY <1>1, Lines DEF LockHeld, RoutesTyped
  <2>. QED BY <1>1, <2>1 DEF LockHeld, RoutesTyped, ServedIsListed
<1>2. CASE handing[l] = "waiting" /\ Head(lock) = <<"handback", l>>
            /\ listed' = (listed /\ current # NoLink)
            /\ handing' = [handing EXCEPT ![l] = "writing"] /\ UNCHANGED serving
  <2>1. lock # <<>>
    BY <1>2, Lines DEF LockHeld, RoutesTyped
  <2>2. \A k \in Link : serving[k] # "reconciling"
    BY <1>2 DEF LockHeld
  <2>3. ServedIsListed'
    BY <1>2 DEF LockHeld, ServedIsListed
  <2>. QED BY <1>2, <2>1, <2>2, <2>3 DEF LockHeld, RoutesTyped
<1>. QED BY <1>1, <1>2

LEMMA LockStep == Typed /\ LockHeld /\ [Next]_vars => LockHeld'
<1>. SUFFICES ASSUME Typed, LockHeld, [Next]_vars PROVE LockHeld'
  OBVIOUS
<1>1. RoutesTyped
  BY DEF Typed
<1>2. ASSUME NEW l \in Link, AttachBegins(l) PROVE LockHeld'
  <2>1. CASE current = NoLink
    <3>1. <<"attach", l>> \in LockTask /\ lock' = Append(lock, <<"attach", l>>)
      BY <1>2, <2>1, Constants DEF AttachBegins
    <3>2. UNCHANGED listed /\ current' = NoLink /\ UNCHANGED handing
      BY <1>2 DEF AttachBegins
    <3>3. serving' = [serving EXCEPT ![l] = "waiting"]
      BY <1>2, <2>1 DEF AttachBegins
    <3>. QED BY <1>1, <3>1, <3>2, <3>3, LockJoined DEF RoutesTyped
  <2>2. CASE current # NoLink
    <3>1. UNCHANGED <<handing, lock, listed>> /\ current' = NoLink
          /\ serving' = [serving EXCEPT ![l] = "closing"]
      BY <1>2, <2>2 DEF AttachBegins
    <3>. QED BY <1>1, <3>1 DEF LockHeld, ServedIsListed, RoutesTyped
  <2>. QED BY <2>1, <2>2
<1>3. ASSUME NEW l \in Link, AttachQueues(l) PROVE LockHeld'
  <2>1. <<"attach", l>> \in LockTask /\ lock' = Append(lock, <<"attach", l>>)
    BY <1>3, Constants DEF AttachQueues
  <2>2. UNCHANGED <<current, handing, listed>> /\ serving' = [serving EXCEPT ![l] = "waiting"]
    BY <1>3 DEF AttachQueues
  <2>. QED BY <1>1, <2>1, <2>2, LockJoined DEF RoutesTyped
<1>4. ASSUME NEW l \in Link, AttachReconciles(l) PROVE LockHeld'
  BY <1>1, <1>4, LockTaken DEF AttachReconciles
<1>5. ASSUME NEW l \in Link, AttachInstalls(l) PROVE LockHeld'
  <2>1. /\ serving[l] = "reconciling" /\ lock' = Tail(lock) /\ UNCHANGED listed
        /\ \/ serving' = [serving EXCEPT ![l] = "serving"] /\ UNCHANGED handing
           \/ /\ serving' = [serving EXCEPT ![l] = "gone"]
              /\ handing' = [handing EXCEPT ![l] = "settling"]
    BY <1>5 DEF AttachInstalls
  <2>2. Head(lock) = <<"attach", l>> /\ listed
    BY <2>1 DEF LockHeld
  <2>. QED BY <1>1, <2>1, <2>2, LockLeft DEF RoutesTyped
<1>6. ASSUME NEW l \in Link, RouteEnds(l) \/ BeatDetaches(l) PROVE LockHeld'
  <2>1. Dropped(l) /\ UNCHANGED <<lock, listed>>
        /\ (UNCHANGED serving \/ serving' = [serving EXCEPT ![l] = "gone"])
    BY <1>6 DEF RouteEnds, BeatDetaches
  <2>. QED BY <1>1, <2>1 DEF Dropped, LockHeld, ServedIsListed, RoutesTyped
<1>7. ASSUME NEW l \in Link, HandBackQueues(l) PROVE LockHeld'
  <2>1. <<"handback", l>> \in LockTask /\ lock' = Append(lock, <<"handback", l>>)
    BY <1>7, Constants DEF HandBackQueues
  <2>2. UNCHANGED <<current, serving, listed>> /\ handing' = [handing EXCEPT ![l] = "waiting"]
    BY <1>7 DEF HandBackQueues
  <2>. QED BY <1>1, <2>1, <2>2, LockJoined DEF RoutesTyped
<1>8. ASSUME NEW l \in Link, HandBack(l) PROVE LockHeld'
  BY <1>1, <1>8, LockTaken DEF HandBack
<1>9. ASSUME NEW l \in Link, HandedBack(l) PROVE LockHeld'
  <2>1. /\ handing[l] = "writing" /\ lock' = Tail(lock) /\ UNCHANGED <<current, serving, listed>>
        /\ handing' = [handing EXCEPT ![l] = "done"]
    BY <1>9 DEF HandedBack
  <2>2. Head(lock) = <<"handback", l>>
    BY <2>1 DEF LockHeld
  <2>3. \A k \in Link :
          /\ handing'[k] = "waiting" => handing[k] = "waiting" /\ k # l
          /\ handing'[k] = "writing" => handing[k] = "writing" /\ k # l
          /\ <<"handback", l>> # <<"attach", k>>
    BY <1>1, <2>1 DEF RoutesTyped
  <2>4. current' # NoLink => listed
    BY <2>1 DEF LockHeld, ServedIsListed
  <2>5. \A k \in Link : k # l => <<"handback", l>> # <<"handback", k>>
    OBVIOUS
  <2>. DEFINE who == <<"handback", l>>
  <2>6. /\ lock' = Tail(lock) /\ Head(lock) = who /\ UNCHANGED <<serving, listed>>
        /\ \A k \in Link : /\ who # <<"attach", k>>
                           /\ handing'[k] = "waiting" => handing[k] = "waiting" /\ who # <<"handback", k>>
                           /\ handing'[k] = "writing" => handing[k] = "writing" /\ who # <<"handback", k>>
    BY <2>1, <2>2, <2>3, <2>5
  <2>. HIDE DEF who
  <2>. QED BY <1>1, <2>4, <2>6, LockLeft
<1>10. CASE Restart
  BY <1>10 DEF Restart, LockHeld, ServedIsListed, NoLink
<1>11. CASE \E l \in Link : Route(l) \/ HandsBack(l) \/ PumpClaims(l) \/ PumpGoesOn(l)
  <2>1. ASSUME NEW l \in Link,
               \/ TakeProgress(l) \/ TakeAnswer(l) \/ Answered(l)
               \/ PumpClaims(l) \/ PumpPlaces(l) \/ PumpReturned(l)
        PROVE  LockHeld'
    BY <2>1, LockUntouched DEF TakeProgress, TakeAnswer, Answered, PumpClaims, PumpPlaces,
       PumpReturned, routes
  <2>. QED BY <1>2, <1>3, <1>4, <1>5, <1>6, <1>7, <1>8, <1>9, <1>11, <2>1
           DEF Route, HandsBack, PumpGoesOn
<1>12. CASE \E l \in Link : BeatDetaches(l) \/ LinkBreaks(l) \/ Dial(l)
  <2>1. ASSUME NEW l \in Link, LinkBreaks(l) \/ Dial(l) PROVE LockHeld'
    BY <2>1, LockUntouched DEF LinkBreaks, Dial, routes
  <2>. QED BY <1>6, <1>12, <2>1
<1>13. CASE \E c \in db : CallRuns(c) \/ CallReads(c) \/ CallWrites(c)
  BY <1>13, LockUntouched DEF CallRuns, CallReads, CallWrites, routes
<1>14. CASE (\E a \in preempts : Preempted(a)) \/ (\E r \in releases : SweepReleases(r))
  BY <1>14, LockUntouched DEF Preempted, SweepReleases, routes
<1>15. CASE \E i \in RunId : CancelRun(i) \/ Cancelled(i) \/ Report(i) \/ GoQuiet(i)
  BY <1>15, LockUntouched DEF CancelRun, Cancelled, Report, GoQuiet, routes
<1>16. CASE (\E i \in RunId, ends \in Ends : JobEnds(i, ends)) \/ (\E host \in AskedHosts : Ask(host))
  BY <1>16, LockUntouched DEF JobEnds, Ask, routes
<1>17. CASE Sweep \/ ReserveSlot \/ ReleaseSlot \/ HangUp \/ Hear
  BY <1>17, LockUntouched DEF Sweep, ReserveSlot, ReleaseSlot, HangUp, Hear, routes
<1>18. CASE UNCHANGED vars
  BY <1>18, LockUntouched DEF vars, routes
<1>. QED BY <1>10, <1>11, <1>12, <1>13, <1>14, <1>15, <1>16, <1>17, <1>18, Zenon DEF Next

(* The two together are inductive.                                         *)
LEMMA LoopIsSound == Spec => [](Typed /\ LockHeld)
<1>1. Init => Typed /\ LockHeld
  BY TypedInit, LockInit
<1>2. Typed /\ LockHeld /\ [Next]_vars => (Typed /\ LockHeld)'
  BY TypedStep, LockStep
<1>. QED BY <1>1, <1>2, PTL DEF Spec

(* Every variable of the gateway, the runner and the link between them     *)
(* keeps its type, and only a link that attached is the runner's.          *)
THEOREM TypeCorrect == Spec => []TypeOK
BY LoopIsSound, TypedIsTypeOK, PTL

(* A runner the server serves is one the database lists: whatever number   *)
(* of links attach and are handed back over each other, the row's last     *)
(* word is the newest link's.                                              *)
THEOREM ServedIsAlwaysListed == Spec => []ServedIsListed
<1>1. LockHeld => ServedIsListed
  BY DEF LockHeld
<1>. QED BY <1>1, LoopIsSound, PTL


-----------------------------------------------------------------------------
(* Whose search a row stores.  The claim under a fresh token apart, a step *)
(* leaves a run that is running as it was, so what was true of it stays    *)
(* true wherever it is said.                                               *)

LEMMA StaysTrue ==
  ASSUME TableAges, NEW i \in RunId, NEW token, NEW work, Truly(i, token, work)
  PROVE  Truly(i, token, work)'
BY DEF TableAges, Ages, Truly, Holds

(* The primed variables say nothing that was not true before the step.     *)
SaidBefore ==
  /\ \A i \in RunId : jobs'[i] # NoJob => Truly(i, jobs'[i].token, jobs'[i].work)
  /\ \A l \in Link : pump'[l].stage # "off" =>
       Truly(pump'[l].run, pump'[l].token, pump'[l].work)
  /\ \A l \in Link : \A f \in Range(up'[l]) : Working(f) => Truly(f.run, f.token, f.work)
  /\ \A l \in Link : \A f \in Range(down'[l]) : Working(f) => Truly(f.run, f.token, f.work)
  /\ \A c \in db' : c.op = "complete" => Truly(c.run, c.token, c.work)

AllNamed ==
  /\ \A l \in Link : pump[l].stage # "off" => pump[l].run \in RunId
  /\ \A l \in Link : \A f \in Range(up[l]) : f \in UpFrame /\ (Working(f) => f.run \in RunId)
  /\ \A l \in Link : \A f \in Range(down[l]) : f \in DownFrame /\ (Working(f) => f.run \in RunId)
  /\ \A c \in db : c.run \in RunId

LEMMA RunsNamed == Typed => AllNamed
<1>. SUFFICES ASSUME Typed PROVE AllNamed
  OBVIOUS
<1>1. ASSUME NEW l \in Link
      PROVE  Range(up[l]) \subseteq UpFrame /\ Range(down[l]) \subseteq DownFrame
  BY Sequences DEF Typed, LinksTyped
<1>2. \A f \in UpFrame : Working(f) => f.run \in RunId
  BY DEF UpFrame, Working
<1>3. \A f \in DownFrame : Working(f) => f.run \in RunId
  BY DEF DownFrame, Working
<1>4. \A l \in Link : pump[l].stage # "off" => pump[l].run \in RunId
  BY DEF Typed, RoutesTyped, Round, NoPump
<1>5. \A c \in db : c.run \in RunId
  BY DEF Typed, TasksTyped, CallType
<1>. QED BY <1>1, <1>2, <1>3, <1>4, <1>5 DEF AllNamed

LEMMA SaidStays ==
  ASSUME Typed', TableAges, SaidBefore
  PROVE  (JobsTrue /\ RoundsTrue /\ UpTrue /\ DownTrue /\ CallsTrue)'
<1>1. AllNamed'
  BY RunsNamed, PTL
<1>2. \A i \in RunId : \A token, work : Truly(i, token, work) => Truly(i, token, work)'
  BY StaysTrue
<1>3. JobsTrue'
  BY <1>2 DEF SaidBefore, JobsTrue
<1>4. RoundsTrue'
  BY <1>1, <1>2 DEF SaidBefore, RoundsTrue, AllNamed
<1>5. UpTrue'
  BY <1>1, <1>2 DEF SaidBefore, UpTrue, AllNamed
<1>6. DownTrue'
  BY <1>1, <1>2 DEF SaidBefore, DownTrue, AllNamed
<1>7. CallsTrue'
  BY <1>1, <1>2 DEF SaidBefore, CallsTrue, AllNamed
<1>. QED BY <1>3, <1>4, <1>5, <1>6, <1>7


LEMMA ReadsStay ==
  ASSUME Typed, Typed', ReadsTrue, TableAges, \A c \in db' : c.seen = Absent \/ c \in db
  PROVE  ReadsTrue'
<1>. SUFFICES ASSUME NEW c \in db', c.seen # Absent
              PROVE  /\ "gap" \in Faults /\ c.seen.status = "running"
                     /\ c.op = "complete" /\ Present(c.run)' => c.work = runs'[c.run].work
  BY DEF ReadsTrue
<1>1. c \in db /\ c.run \in RunId
  BY RunsNamed DEF AllNamed
<1>2. /\ "gap" \in Faults /\ c.seen.status = "running"
      /\ c.op = "complete" /\ Present(c.run) => c.work = runs[c.run].work
  BY <1>1 DEF ReadsTrue
<1>3. Present(c.run)' => Present(c.run) /\ runs'[c.run].work = runs[c.run].work
  BY <1>1 DEF TableAges, Ages, Present
<1>. QED BY <1>2, <1>3

LEMMA EvalsStay ==
  ASSUME Typed, Typed', NoForeignEvals, TableAges
  PROVE  NoForeignEvals'
<1>1. DOMAIN runs = RunId /\ DOMAIN runs' = RunId
  BY DEF Typed, QueueTypeOK
<1>2. ASSUME NEW i \in RunId, runs'[i].status = "done" PROVE runs'[i].evals = runs'[i].work
  <2>1. Ages(runs[i], runs'[i])
    BY DEF TableAges
  <2>. QED BY <1>1, <1>2, <2>1 DEF Ages, NoForeignEvals
<1>. QED BY <1>1, <1>2 DEF NoForeignEvals

LEMMA Quietly ==
  ASSUME Typed, Typed', Sound, TableAges, SaidBefore, \A c \in db' : c.seen = Absent \/ c \in db
  PROVE  Sound'
<1>1. ReadsTrue' /\ NoForeignEvals'
  BY ReadsStay, EvalsStay DEF Sound, WordsTrue
<1>2. (JobsTrue /\ RoundsTrue /\ UpTrue /\ DownTrue /\ CallsTrue)'
  BY SaidStays
<1>. QED BY <1>1, <1>2 DEF Sound, WordsTrue

FewerJobs == \A i \in RunId : jobs'[i] = NoJob \/ jobs'[i] = jobs[i]
FewerRounds ==
  \A l \in Link : pump'[l].stage # "off" =>
    /\ pump[l].stage # "off" /\ pump'[l].run = pump[l].run
    /\ pump'[l].token = pump[l].token /\ pump'[l].work = pump[l].work
FewerUp == \A l \in Link : \A f \in Range(up'[l]) : f \in Range(up[l]) \/ ~Working(f)
FewerDown == \A l \in Link : \A f \in Range(down'[l]) : f \in Range(down[l]) \/ ~Working(f)
FewerCalls == \A c \in db' : c \in db \/ (c.op # "complete" /\ c.seen = Absent)

LEMMA Unsaid ==
  /\ UNCHANGED runner => FewerJobs
  /\ UNCHANGED pump => FewerRounds
  /\ UNCHANGED up => FewerUp
  /\ UNCHANGED down => FewerDown
  /\ UNCHANGED db => FewerCalls
BY DEF FewerJobs, FewerRounds, FewerUp, FewerDown, FewerCalls, runner

(* A step that claims no run and passes no word on keeps what is said.     *)
LEMMA NothingNew ==
  ASSUME Typed, Typed', Sound, TableAges,
         FewerJobs, FewerRounds, FewerUp, FewerDown, FewerCalls
  PROVE  Sound'
<1>1. \A i \in RunId : jobs'[i] # NoJob => Truly(i, jobs'[i].token, jobs'[i].work)
  BY DEF Sound, WordsTrue, JobsTrue, FewerJobs
<1>2. \A l \in Link : pump'[l].stage # "off" => Truly(pump'[l].run, pump'[l].token, pump'[l].work)
  BY DEF Sound, WordsTrue, RoundsTrue, FewerRounds
<1>3. \A l \in Link : \A f \in Range(up'[l]) : Working(f) => Truly(f.run, f.token, f.work)
  BY DEF Sound, WordsTrue, UpTrue, FewerUp
<1>4. \A l \in Link : \A f \in Range(down'[l]) : Working(f) => Truly(f.run, f.token, f.work)
  BY DEF Sound, WordsTrue, DownTrue, FewerDown
<1>5. /\ \A c \in db' : c.op = "complete" => Truly(c.run, c.token, c.work)
      /\ \A c \in db' : c.seen = Absent \/ c \in db
  BY DEF Sound, WordsTrue, CallsTrue, FewerCalls
<1>6. SaidBefore
  BY <1>1, <1>2, <1>3, <1>4, <1>5 DEF SaidBefore
<1>. QED BY <1>5, <1>6, Quietly

LEMMA AbandonsAreQuiet ==
  ASSUME NEW by \in Caller, NEW as, as \subseteq Attempt, db' = db \cup Abandons(by, as)
  PROVE  FewerCalls
BY AbandonsAreTyped DEF FewerCalls

LEMMA TypedTable == Typed => runs \in [RunId -> Row]
BY DEF Typed, QueueTypeOK

-----------------------------------------------------------------------------
(* The actions, one by one.                                                *)

LEMMA SoundAttach ==
  ASSUME Typed, Typed', Sound, NEW l \in Link,
         AttachBegins(l) \/ AttachQueues(l) \/ AttachReconciles(l) \/ AttachInstalls(l)
  PROVE  Sound'
<1>1. LinksTyped /\ RoutesTyped /\ SlotsTyped
  BY DEF Typed
<1>2. TableAges /\ FewerJobs /\ FewerRounds
  BY TypedTable, QueueAges, Unsaid DEF AttachBegins, AttachQueues, AttachReconciles, AttachInstalls
<1>3. FewerUp /\ FewerDown
  <2>1. CASE AttachBegins(l)
    <3>1. up[l] \in Seq(UpFrame) /\ up[l] # <<>>
      BY <1>1, <2>1 DEF AttachBegins, LinksTyped
    <3>2. Range(Tail(up[l])) \subseteq Range(up[l])
      BY <3>1, Sequences
    <3>3. CASE current = NoLink
      BY <1>1, <2>1, <3>2, <3>3, Unsaid DEF AttachBegins, FewerUp, LinksTyped
    <3>4. CASE current # NoLink
      <4>1. current \in Link /\ current # l
        BY <1>1, <2>1, <3>4 DEF RoutesTyped, AttachBegins
      <4>2. PICK n \in 0 .. Len(up[current]) :
              up' = [up EXCEPT ![l] = Tail(@), ![current] = SubSeq(@, 1, n)]
        BY <2>1, <3>4 DEF AttachBegins
      <4>3. up[current] \in Seq(UpFrame)
        BY <1>1, <4>1 DEF LinksTyped
      <4>4. Range(SubSeq(up[current], 1, n)) \subseteq Range(up[current])
        BY <4>3, Sequences
      <4>5. FewerUp
        BY <1>1, <3>2, <4>1, <4>2, <4>4 DEF FewerUp, LinksTyped
      <4>6. Range(<<>>) = {} /\ down' = [down EXCEPT ![current] = <<>>]
        BY <2>1, <3>4 DEF Range, AttachBegins
      <4>7. FewerDown
        BY <1>1, <4>1, <4>6 DEF FewerDown, LinksTyped
      <4>. QED BY <4>5, <4>7
    <3>. QED BY <3>3, <3>4
  <2>2. CASE AttachQueues(l) \/ AttachReconciles(l)
    BY <2>2, Unsaid DEF AttachQueues, AttachReconciles, network
  <2>3. CASE AttachInstalls(l)
    <3>. DEFINE frame == [type |-> "welcome", cancelled |-> hello[l].cancelled]
    <3>1. frame \in DownFrame /\ ~Working(frame)
      BY <1>1 DEF RoutesTyped, Hello, DownFrame, Working
    <3>. HIDE DEF frame
    <3>2. Sent(l, frame) \/ UNCHANGED down
      BY <2>3 DEF AttachInstalls, frame
    <3>3. FewerDown
      BY <1>1, <3>1, <3>2, Sending, Unsaid DEF FewerDown
    <3>. QED BY <2>3, <3>3, Unsaid DEF AttachInstalls
  <2>. QED BY <2>1, <2>2, <2>3
<1>4. FewerCalls
  <2>1. CASE AttachReconciles(l)
    <3>. DEFINE resumed == {a \in hello[l].reported : Holds(runs[a.run], a.token)}
                ids == {a.run : a \in resumed}
                lost == {a \in hello[l].known : a.run \notin ids}
    <3>1. lost \subseteq Attempt
      BY <1>1 DEF RoutesTyped, Hello
    <3>2. db' = db \cup Abandons(<<"attach", l>>, lost)
      BY <2>1, Zenon DEF AttachReconciles
    <3>. HIDE DEF lost
    <3>. QED BY <3>1, <3>2, AbandonsAreQuiet, Constants
  <2>2. CASE AttachBegins(l) \/ AttachQueues(l) \/ AttachInstalls(l)
    BY <2>2, Unsaid DEF AttachBegins, AttachQueues, AttachInstalls, tasks
  <2>. QED BY <2>1, <2>2
<1>. QED BY <1>2, <1>3, <1>4, NothingNew


LEMMA QuietReleases ==
  ASSUME Typed, NEW l \in Link, NEW a, a.run \in RunId, Release(l, a)
  PROVE  FewerDown
<1>1. \A k \in Link : \A f \in Range(down'[k]) : f \in Range(down[k]) \/ ~Working(f)
  BY Releasing DEF Typed
<1>. QED BY <1>1 DEF FewerDown

LEMMA SoundTakeProgress ==
  ASSUME Typed, Typed', Sound, NEW l \in Link, TakeProgress(l)
  PROVE  Sound'
<1>. USE DEF TakeProgress
<1>. DEFINE a == Head(up[l])
<1>1. LinksTyped /\ RoutesTyped
  BY DEF Typed
<1>2. FewerUp /\ a \in UpFrame
  BY <1>1, TakingFromUp DEF FewerUp
<1>3. a.run \in RunId
  BY <1>2, FramesByType
<1>4. FewerJobs /\ FewerRounds /\ FewerCalls
  BY Unsaid DEF routes, tasks
<1>. HIDE DEF a
<1>5. CASE HeartbeatRuns({a.run}) /\ UNCHANGED <<held, down>>
  <2>1. TableAges /\ FewerDown
    BY <1>5, TypedTable, QueueAges, Unsaid
  <2>. QED BY <1>2, <1>4, <2>1, NothingNew
<1>6. CASE current # NoLink /\ Release(current, a) /\ UNCHANGED runs
  <2>1. current \in Link
    BY <1>1, <1>6 DEF RoutesTyped
  <2>2. TableAges /\ FewerDown
    BY <1>3, <1>6, <2>1, TypedTable, QueueAges, QuietReleases
  <2>. QED BY <1>2, <1>4, <2>2, NothingNew
<1>7. CASE UNCHANGED <<runs, held, down>>
  <2>1. TableAges /\ FewerDown
    BY <1>7, TypedTable, QueueAges, Unsaid
  <2>. QED BY <1>2, <1>4, <2>1, NothingNew
<1>. QED BY <1>5, <1>6, <1>7, Zenon DEF a

(* A result's call says of the run what the frame said.                    *)
LEMMA SoundTakeAnswer ==
  ASSUME Typed, Typed', Sound, NEW l \in Link, TakeAnswer(l)
  PROVE  Sound'
<1>. USE DEF TakeAnswer
<1>. DEFINE f == Head(up[l])
            a == [run |-> f.run, token |-> f.token]
            c == [Call(<<"socket", l>>, f.ends, a) EXCEPT !.work = f.work]
<1>1. LinksTyped
  BY DEF Typed
<1>2. /\ \A k \in Link : Range(up'[k]) \subseteq Range(up[k])
      /\ f \in UpFrame /\ f \in Range(up[l])
  BY <1>1, TakingFromUp
<1>3. Truly(f.run, f.token, f.work)
  BY <1>2 DEF Sound, WordsTrue, UpTrue, Working
<1>4. c.run = f.run /\ c.token = f.token /\ c.work = f.work /\ c.seen = Absent
  BY DEF Call
<1>5. db' = db \cup {c}
  BY Zenon
<1>. HIDE DEF f, a, c
<1>6. TableAges
  BY TypedTable, QueueAges
<1>7. UNCHANGED <<jobs, pump, down>>
  BY DEF runner
<1>8. SaidBefore
  <2>1. \A i \in RunId : jobs'[i] # NoJob => Truly(i, jobs'[i].token, jobs'[i].work)
    BY <1>7 DEF Sound, WordsTrue, JobsTrue
  <2>2. \A k \in Link : pump'[k].stage # "off" => Truly(pump'[k].run, pump'[k].token, pump'[k].work)
    BY <1>7 DEF Sound, WordsTrue, RoundsTrue
  <2>3. \A k \in Link : \A g \in Range(up'[k]) : Working(g) => Truly(g.run, g.token, g.work)
    BY <1>2 DEF Sound, WordsTrue, UpTrue
  <2>4. \A k \in Link : \A g \in Range(down'[k]) : Working(g) => Truly(g.run, g.token, g.work)
    BY <1>7 DEF Sound, WordsTrue, DownTrue
  <2>5. \A d \in db' : d.op = "complete" => Truly(d.run, d.token, d.work)
    BY <1>3, <1>4, <1>5 DEF Sound, WordsTrue, CallsTrue
  <2>. QED BY <2>1, <2>2, <2>3, <2>4, <2>5 DEF SaidBefore
<1>9. \A d \in db' : d.seen = Absent \/ d \in db
  BY <1>4, <1>5
<1>. QED BY <1>6, <1>8, <1>9, Quietly

LEMMA SoundEnds ==
  ASSUME Typed, Typed', Sound, NEW l \in Link,
         \/ Answered(l) \/ RouteEnds(l) \/ BeatDetaches(l)
         \/ HandBackQueues(l) \/ HandBack(l) \/ HandedBack(l)
  PROVE  Sound'
<1>1. LinksTyped /\ SlotsTyped
  BY DEF Typed
<1>2. TableAges /\ FewerJobs /\ FewerRounds
  BY TypedTable, QueueAges, Unsaid
     DEF Answered, RouteEnds, BeatDetaches, HandBackQueues, HandBack, HandedBack
<1>3. FewerUp /\ FewerDown
  <2>1. CASE BeatDetaches(l) /\ Cut(l)
    BY <1>1, <2>1, Cutting DEF FewerUp, FewerDown
  <2>2. CASE UNCHANGED network
    BY <2>2, Unsaid DEF network
  <2>. QED BY <2>1, <2>2 DEF Answered, RouteEnds, BeatDetaches, HandBackQueues, HandBack, HandedBack
<1>4. FewerCalls
  <2>1. CASE HandBack(l)
    <3>. DEFINE as == {a \in OnSlots(l) : current = NoLink \/ held[current][a.run] = NoToken}
    <3>1. as \subseteq Attempt
      BY <1>1, SlotsAreAttempts
    <3>2. db' = db \cup Abandons(<<"handback", l>>, as)
      BY <2>1 DEF HandBack
    <3>. HIDE DEF as
    <3>. QED BY <3>1, <3>2, AbandonsAreQuiet, Constants
  <2>2. CASE Answered(l) \/ RouteEnds(l) \/ BeatDetaches(l) \/ HandBackQueues(l) \/ HandedBack(l)
    BY <2>2, Unsaid DEF Answered, RouteEnds, BeatDetaches, HandBackQueues, HandedBack, tasks
  <2>. QED BY <2>1, <2>2
<1>. QED BY <1>2, <1>3, <1>4, NothingNew

(* The claim: nothing speaks of its token yet, and the round it is for     *)
(* says what the row says.                                                 *)
LEMMA SoundClaim ==
  ASSUME Typed, Typed', Sound, NEW l \in Link, PumpClaims(l)
  PROVE  Sound'
<1>. USE DEF PumpClaims
<1>1. FreshTokens # {} /\ UNCHANGED <<up, down, db, jobs>>
  BY DEF network, tasks, runner
<1>2. PICK i \in RunId :
        /\ IsNextRun(i, {"runner", "browser"})
        /\ \/ /\ runs' = [runs EXCEPT ![i] = Claimed(@, FreshToken)]
              /\ pump' = [pump EXCEPT ![l] = [stage |-> "claimed", run |-> i,
                                              token |-> FreshToken, work |-> runs[i].work]]
           \/ /\ LET row == Claimed(runs[i], FreshToken) IN
                   runs' = [runs EXCEPT ![i] = FailedRow(row, row, FALSE)]
              /\ UNCHANGED pump
  BY Zenon
<1>3. runs \in [RunId -> Row] /\ runs[i] \in Row /\ runs[i].status = "queued"
  BY <1>2, TypedTable DEF IsNextRun, Claimable
<1>. DEFINE row == Claimed(runs[i], FreshToken)
<1>4. /\ row \in Row /\ row.status = "running" /\ row.token = FreshToken
      /\ row.work = runs[i].work /\ row.evals = runs[i].evals
  BY <1>1, <1>3, FreshIsFree, RowOperators, ClaimedRow
<1>5. CASE /\ runs' = [runs EXCEPT ![i] = row]
           /\ pump' = [pump EXCEPT ![l] = [stage |-> "claimed", run |-> i,
                                           token |-> FreshToken, work |-> runs[i].work]]
  <2>. HIDE DEF row, PumpClaims
  <2>1. runs'[i] = row /\ \A j \in RunId : j # i => runs'[j] = runs[j]
    BY <1>3, <1>5
  <2>2. ASSUME NEW j \in RunId, NEW token, NEW work, Truly(j, token, work), token # FreshToken
        PROVE  Truly(j, token, work)'
    BY <1>4, <2>1, <2>2 DEF Truly, Holds
  <2>3. AllNamed
    BY RunsNamed
  <2>4. JobsTrue'
    BY <1>1, <2>2, FreshIsFree DEF JobsTrue, Sound, WordsTrue
  <2>5. RoundsTrue'
    <3>1. pump \in [Link -> Round \cup {NoPump}]
      BY DEF Typed, RoutesTyped
    <3>2. \A k \in Link : k # l => pump'[k] = pump[k]
      BY <1>5, <3>1
    <3>3. pump'[l].run = i /\ pump'[l].token = FreshToken /\ pump'[l].work = runs[i].work
      BY <1>5, <3>1
    <3>4. \A j \in RunId : \A token, work :
            Truly(j, token, work) /\ token # FreshToken =>
              (Holds(runs'[j], token) => work = runs'[j].work)
      BY <2>2 DEF Truly
    <3>5. ASSUME NEW k \in Link, pump'[k].stage # "off"
          PROVE  Holds(runs'[pump'[k].run], pump'[k].token) =>
                   pump'[k].work = runs'[pump'[k].run].work
      <4>1. CASE k = l
        BY <2>1, <1>4, <3>3, <4>1
      <4>2. CASE k # l
        <5>1. pump'[k] = pump[k] /\ pump[k].stage # "off"
          BY <3>2, <3>5, <4>2
        <5>2. pump[k].run \in RunId /\ pump[k].token # FreshToken
          BY <1>1, <2>3, <5>1, FreshIsFree DEF AllNamed
        <5>3. Truly(pump[k].run, pump[k].token, pump[k].work)
          BY <5>1 DEF RoundsTrue, Sound, WordsTrue
        <5>. QED BY <3>4, <5>1, <5>2, <5>3
      <4>. QED BY <4>1, <4>2
    <3>. QED BY <3>5 DEF RoundsTrue, Truly
  <2>6. UpTrue'
    BY <1>1, <2>2, <2>3, FreshIsFree DEF UpTrue, Sound, WordsTrue, AllNamed
  <2>7. DownTrue'
    BY <1>1, <2>2, <2>3, FreshIsFree DEF DownTrue, Sound, WordsTrue, AllNamed
  <2>8. CallsTrue'
    BY <1>1, <2>2, <2>3, FreshIsFree DEF CallsTrue, Sound, WordsTrue, AllNamed
  <2>9. ReadsTrue'
    <3>1. \A j \in RunId : Present(j)' => Present(j) /\ runs'[j].work = runs[j].work
      BY <1>3, <1>4, <2>1 DEF Present
    <3>. QED BY <1>1, <2>3, <3>1 DEF ReadsTrue, Sound, WordsTrue, AllNamed
  <2>10. NoForeignEvals'
    <3>1. DOMAIN runs = RunId /\ DOMAIN runs' = RunId
      BY <1>3, <1>5
    <3>. QED BY <1>4, <2>1, <3>1 DEF NoForeignEvals, Sound
  <2>. QED BY <2>4, <2>5, <2>6, <2>7, <2>8, <2>9, <2>10 DEF Sound, WordsTrue
<1>6. CASE runs' = [runs EXCEPT ![i] = FailedRow(row, row, FALSE)] /\ UNCHANGED pump
  <2>. HIDE DEF row, PumpClaims
  <2>1. Ages(row, FailedRow(row, row, FALSE))
    BY <1>4, RowsAge
  <2>2. FailedRow(row, row, FALSE).status = "failed" /\ FailedRow(row, row, FALSE).work = row.work
    BY <1>4 DEF FailedRow, Assigned, Row
  <2>3. Ages(runs[i], FailedRow(row, row, FALSE))
    BY <1>3, <1>4, <2>2 DEF Ages
  <2>4. TableAges
    BY <1>3, <1>6, <2>3, RowsAge DEF TableAges
  <2>. QED BY <1>1, <1>6, <2>4, Unsaid, NothingNew DEF runner, FewerJobs
<1>. QED BY <1>2, <1>5, <1>6


LEMMA SoundPump ==
  ASSUME Typed, Typed', Sound, NEW l \in Link, PumpPlaces(l) \/ PumpReturned(l)
  PROVE  Sound'
<1>1. LinksTyped /\ RoutesTyped
  BY DEF Typed
<1>2. TableAges /\ FewerJobs /\ FewerUp
  BY TypedTable, QueueAges, Unsaid DEF PumpPlaces, PumpReturned, network
<1>3. CASE PumpReturned(l)
  <2>1. FewerRounds
    BY <1>1, <1>3 DEF PumpReturned, FewerRounds, NoPump, RoutesTyped
  <2>. QED BY <1>2, <1>3, <2>1, Unsaid, NothingNew DEF PumpReturned, network, tasks
<1>4. CASE PumpPlaces(l)
  <2>1. pump[l] \in Round /\ pump[l].stage = "claimed"
    BY <1>1, <1>4 DEF PumpPlaces, RoutesTyped, NoPump
  <2>2. CASE PumpReturns(l)
    <3>. DEFINE a == [run |-> pump[l].run, token |-> pump[l].token]
    <3>1. {a} \subseteq Attempt
      BY <2>1 DEF Round, Attempt
    <3>2. db' = db \cup Abandons(<<"pump", l>>, {a}) /\ UNCHANGED down
          /\ pump' = [pump EXCEPT ![l].stage = "returning"]
      BY <2>2 DEF PumpReturns
    <3>. HIDE DEF a
    <3>3. FewerCalls
      BY <3>1, <3>2, AbandonsAreQuiet, Constants
    <3>4. FewerRounds
      BY <1>1, <2>1, <3>2 DEF FewerRounds, RoutesTyped, Round
    <3>. QED BY <1>2, <3>2, <3>3, <3>4, Unsaid, NothingNew
  <2>3. CASE /\ pump' = [pump EXCEPT ![l] = NoPump]
             /\ Sent(l, [type |-> "dispatch", run |-> pump[l].run, token |-> pump[l].token,
                         work |-> pump[l].work])
             /\ UNCHANGED db
    <3>. DEFINE frame == [type |-> "dispatch", run |-> pump[l].run, token |-> pump[l].token,
                          work |-> pump[l].work]
    <3>1. /\ frame \in DownFrame /\ frame.run = pump[l].run /\ frame.token = pump[l].token
          /\ frame.work = pump[l].work
      BY <2>1 DEF Round, DownFrame
    <3>2. Truly(frame.run, frame.token, frame.work)
      BY <2>1, <3>1 DEF Sound, WordsTrue, RoundsTrue
    <3>. HIDE DEF frame
    <3>3. \A k \in Link : Range(down'[k]) \subseteq Range(down[k]) \cup {frame}
      BY <1>1, <2>3, <3>1, Sending DEF frame
    <3>4. UNCHANGED <<jobs, up, db>>
      BY <1>4, <2>3 DEF PumpPlaces, runner
    <3>5. SaidBefore
      <4>1. \A i \in RunId : jobs'[i] # NoJob => Truly(i, jobs'[i].token, jobs'[i].work)
        BY <3>4 DEF Sound, WordsTrue, JobsTrue
      <4>2. \A k \in Link : pump'[k].stage # "off" =>
              Truly(pump'[k].run, pump'[k].token, pump'[k].work)
        BY <1>1, <2>3 DEF Sound, WordsTrue, RoundsTrue, RoutesTyped, NoPump
      <4>3. \A k \in Link : \A g \in Range(up'[k]) : Working(g) => Truly(g.run, g.token, g.work)
        BY <3>4 DEF Sound, WordsTrue, UpTrue
      <4>4. \A k \in Link : \A g \in Range(down'[k]) : Working(g) => Truly(g.run, g.token, g.work)
        BY <3>2, <3>3 DEF Sound, WordsTrue, DownTrue
      <4>5. \A d \in db' : d.op = "complete" => Truly(d.run, d.token, d.work)
        BY <3>4 DEF Sound, WordsTrue, CallsTrue
      <4>. QED BY <4>1, <4>2, <4>3, <4>4, <4>5 DEF SaidBefore
    <3>. QED BY <1>2, <3>4, <3>5, Quietly
  <2>. QED BY <1>4, <2>2, <2>3, Zenon DEF PumpPlaces
<1>. QED BY <1>3, <1>4

(* A call writes what it was told of the run it names: at once while the   *)
(* row is under its token, or later what it has read there.                *)
LEMMA WrittenAges ==
  ASSUME NEW row \in Row, NEW seen \in Row, NEW c \in CallType,
         row.status # "absent", seen.status = "running",
         c.op = "complete" => c.work = row.work
  PROVE  Ages(row, Written(row, seen, c))
<1>1. c.op \in {"complete", "retry", "fatal", "abandon"}
  BY DEF CallType, Ends
<1>2. /\ Ages(row, FailedRow(row, seen, TRUE)) /\ Ages(row, FailedRow(row, seen, FALSE))
      /\ Ages(row, Abandoned(row, seen)) /\ Ages(row, Completed(row, seen, row.work))
  BY RowsAge
<1>. QED BY <1>1, <1>2 DEF Written

LEMMA SoundCalls ==
  ASSUME Typed, Typed', Sound, NEW c \in db, CallRuns(c) \/ CallReads(c) \/ CallWrites(c)
  PROVE  Sound'
<1>1. runs \in [RunId -> Row] /\ c \in CallType /\ c.run \in RunId /\ runs[c.run] \in Row
      /\ c.seen \in Row
  BY DEF Typed, QueueTypeOK, TasksTyped, CallType
<1>2. FewerJobs /\ FewerRounds /\ FewerUp /\ FewerDown
  BY Unsaid DEF CallRuns, CallReads, CallWrites, network, routes
<1>3. \A i \in RunId : Ages(runs[i], runs[i])
  BY <1>1, RowsAge
<1>4. CASE CallRuns(c)
  <2>1. FewerCalls
    BY <1>4 DEF CallRuns, FewerCalls
  <2>2. CASE Holds(runs[c.run], c.token)
    <3>1. c.op = "complete" => c.work = runs[c.run].work
      BY <2>2 DEF Sound, WordsTrue, CallsTrue, Truly
    <3>2. Ages(runs[c.run], Written(runs[c.run], runs[c.run], c))
      BY <1>1, <2>2, <3>1, WrittenAges DEF Holds
    <3>3. runs' = [runs EXCEPT ![c.run] = Written(@, @, c)]
      BY <1>4, <2>2 DEF CallRuns
    <3>4. TableAges
      BY <1>1, <1>3, <3>2, <3>3 DEF TableAges
    <3>. QED BY <1>2, <2>1, <3>4, NothingNew
  <2>3. CASE ~Holds(runs[c.run], c.token)
    <3>1. TableAges
      BY <1>1, <1>4, <2>3, QueueAges DEF CallRuns
    <3>. QED BY <1>2, <2>1, <3>1, NothingNew
  <2>. QED BY <2>2, <2>3
<1>5. CASE CallWrites(c)
  <2>1. FewerCalls
    BY <1>5 DEF CallWrites, FewerCalls
  <2>2. CASE /\ Present(c.run)
             /\ runs' = [runs EXCEPT ![c.run] = Written(@, c.seen, c)]
    <3>1. /\ c.seen.status = "running"
          /\ c.op = "complete" => c.work = runs[c.run].work
      BY <1>5, <2>2 DEF Sound, WordsTrue, ReadsTrue, CallWrites
    <3>2. Ages(runs[c.run], Written(runs[c.run], c.seen, c))
      BY <1>1, <2>2, <3>1, WrittenAges DEF Present
    <3>3. TableAges
      BY <1>1, <1>3, <2>2, <3>2 DEF TableAges
    <3>. QED BY <1>2, <2>1, <3>3, NothingNew
  <2>3. CASE UNCHANGED runs
    BY <1>1, <1>2, <2>1, <2>3, QueueAges, NothingNew
  <2>. QED BY <1>5, <2>2, <2>3 DEF CallWrites
<1>6. CASE CallReads(c)
  <2>. USE <1>6 DEF CallReads
  <2>1. UNCHANGED <<runs, jobs, pump, up, down>>
    BY DEF network, routes, runner
  <2>2. TableAges
    BY <1>1, <2>1, QueueAges
  <2>. DEFINE read == [c EXCEPT !.seen = runs[c.run]]
  <2>3. /\ read.op = c.op /\ read.run = c.run /\ read.token = c.token /\ read.work = c.work
        /\ read.seen = runs[c.run]
    BY <1>1 DEF CallType
  <2>4. \A d \in db' : d \in db \/ (Holds(runs[c.run], c.token) /\ d = read)
    OBVIOUS
  <2>5. "gap" \in Faults
    OBVIOUS
  <2>. HIDE DEF read, CallReads
  <2>6. \A d \in db' : d.op = "complete" => Truly(d.run, d.token, d.work)
    BY <2>3, <2>4 DEF Sound, WordsTrue, CallsTrue
  <2>7. SaidBefore
    BY <2>1, <2>6 DEF Sound, WordsTrue, JobsTrue, RoundsTrue, UpTrue, DownTrue, SaidBefore
  <2>8. (JobsTrue /\ RoundsTrue /\ UpTrue /\ DownTrue /\ CallsTrue)'
    BY <2>2, <2>7, SaidStays
  <2>9. ReadsTrue'
    <3>1. ASSUME NEW d \in db', d.seen # Absent
          PROVE  /\ d.seen.status = "running"
                 /\ d.op = "complete" /\ Present(d.run) => d.work = runs[d.run].work
      <4>1. CASE d \in db
        BY <3>1, <4>1 DEF Sound, WordsTrue, ReadsTrue
      <4>2. CASE Holds(runs[c.run], c.token) /\ d = read
        BY <2>3, <4>2 DEF Sound, WordsTrue, CallsTrue, Truly, Holds
      <4>. QED BY <2>4, <4>1, <4>2
    <3>. QED BY <2>1, <2>5, <3>1 DEF ReadsTrue, Present
  <2>10. NoForeignEvals'
    BY <2>2, EvalsStay DEF Sound
  <2>. QED BY <2>8, <2>9, <2>10 DEF Sound, WordsTrue
<1>. QED BY <1>4, <1>5, <1>6


LEMMA SoundSlots ==
  ASSUME Typed, Typed', Sound, ReserveSlot \/ ReleaseSlot
  PROVE  Sound'
<1>1. TableAges /\ FewerJobs /\ FewerRounds /\ FewerUp /\ FewerDown
  BY TypedTable, QueueAges, Unsaid DEF ReserveSlot, ReleaseSlot, network, routes
<1>2. FewerCalls
  <2>1. CASE UNCHANGED db
    BY <2>1, Unsaid
  <2>2. CASE ReserveSlot /\ \E a \in OnSlots(current) : db' = db \cup Abandons(<<"preempt", a>>, {a})
    <3>1. PICK a \in OnSlots(current) : db' = db \cup Abandons(<<"preempt", a>>, {a})
      BY <2>2
    <3>2. current \in Link
      BY <2>2 DEF ReserveSlot, Typed, RoutesTyped
    <3>3. a \in Attempt
      BY <3>2, SlotsAreAttempts DEF Typed
    <3>. QED BY <3>1, <3>3, AbandonsAreQuiet, Constants
  <2>. QED BY <2>1, <2>2 DEF ReserveSlot, ReleaseSlot, tasks
<1>. QED BY <1>1, <1>2, NothingNew

LEMMA SoundReleases ==
  ASSUME Typed, Typed', Sound
  PROVE  /\ \A a \in preempts : Preempted(a) => Sound'
         /\ \A r \in releases : SweepReleases(r) => Sound'
         /\ \A i \in RunId : Cancelled(i) => Sound'
<1>1. LinksTyped /\ RoutesTyped /\ TasksTyped
  BY DEF Typed
<1>2. ASSUME NEW a \in preempts, Preempted(a) PROVE Sound'
  <2>. DEFINE frame == [type |-> "cancel", run |-> a.run]
  <2>1. frame \in DownFrame /\ ~Working(frame)
    BY <1>1 DEF TasksTyped, Attempt, DownFrame, Working
  <2>. HIDE DEF frame
  <2>2. (current \in Link /\ Sent(current, frame)) \/ UNCHANGED down
    BY <1>1, <1>2 DEF Preempted, RoutesTyped, frame
  <2>3. FewerDown
    BY <1>1, <2>1, <2>2, Sending, Unsaid DEF FewerDown
  <2>. QED BY <1>2, <2>3, TypedTable, QueueAges, Unsaid, NothingNew DEF Preempted, routes
<1>3. ASSUME NEW r \in releases, SweepReleases(r) PROVE Sound'
  <2>. DEFINE a == [run |-> r.run, token |-> r.token]
  <2>1. r.link \in Link /\ a.run \in RunId /\ Release(r.link, a)
    BY <1>1, <1>3 DEF TasksTyped, SweepReleases
  <2>. HIDE DEF a
  <2>2. FewerDown
    BY <2>1, QuietReleases
  <2>. QED BY <1>3, <2>2, TypedTable, QueueAges, Unsaid, NothingNew DEF SweepReleases, routes
<1>4. ASSUME NEW i \in RunId, Cancelled(i) PROVE Sound'
  <2>. DEFINE a == [run |-> i, token |-> held[current][i]]
  <2>1. a.run \in RunId /\ ((current \in Link /\ Release(current, a)) \/ UNCHANGED down)
    BY <1>1, <1>4 DEF Cancelled, RoutesTyped
  <2>. HIDE DEF a
  <2>2. FewerDown
    BY <2>1, QuietReleases, Unsaid
  <2>. QED BY <1>4, <2>2, TypedTable, QueueAges, Unsaid, NothingNew DEF Cancelled, routes
<1>. QED BY <1>2, <1>3, <1>4

LEMMA SoundRows ==
  ASSUME Typed, Typed', Sound
  PROVE  /\ \A i \in RunId : CancelRun(i) \/ GoQuiet(i) => Sound'
         /\ Sweep => Sound'
<1>1. runs \in [RunId -> Row] /\ \A i \in RunId : runs[i] \in Row
  BY TypedTable
<1>2. ASSUME NEW i \in RunId, CancelRun(i) PROVE Sound'
  BY <1>1, <1>2, QueueAges, Unsaid, NothingNew DEF CancelRun, network, routes
<1>3. ASSUME NEW i \in RunId, GoQuiet(i) PROVE Sound'
  <2>1. \A j \in RunId : Ages(runs[j], runs[j]) /\ Ages(runs[j], [runs[j] EXCEPT !.quiet = TRUE])
    BY <1>1, RowsAge
  <2>2. TableAges
    BY <1>1, <1>3, <2>1 DEF GoQuiet, TableAges
  <2>. QED BY <1>3, <2>2, Unsaid, NothingNew DEF GoQuiet, network, routes, tasks
<1>4. ASSUME Sweep PROVE Sound'
  BY <1>1, <1>4, QueueAges, Unsaid, NothingNew DEF Sweep, network, routes
<1>. QED BY <1>2, <1>3, <1>4

(* A new row: no call that has read a row of its id is still under way, or *)
(* calls do not read before they write.                                    *)
LEMMA SoundAsk ==
  ASSUME Typed, Typed', Sound, ~({"gap", "reuse"} \subseteq Faults),
         NEW host \in AskedHosts, Ask(host)
  PROVE  Sound'
<1>. USE DEF Ask
<1>. DEFINE row == [Absent EXCEPT !.work = asked + 1, !.kind = "asked", !.host = host,
                                  !.status = "queued"]
<1>1. PICK i \in RunId : IsNewId(i) /\ runs' = [runs EXCEPT ![i] = row]
  BY Zenon DEF RequestAnalysis
<1>2. UNCHANGED <<jobs, pump, up, down, db>> /\ ("reuse" \notin Faults => ~Spoken(i))
  BY <1>1 DEF network, routes, runner, tasks
<1>3. row.status = "queued"
  BY DEF Absent
<1>4. runs \in [RunId -> Row] /\ runs' \in [RunId -> Row]
  BY TypedTable DEF Typed, QueueTypeOK
<1>. HIDE DEF row, Ask
<1>5. runs'[i].status = "queued" /\ \A j \in RunId : j # i => runs'[j] = runs[j]
  BY <1>1, <1>3, <1>4
<1>6. \A j \in RunId : \A token : Holds(runs'[j], token) => j # i /\ Holds(runs[j], token)
  BY <1>5 DEF Holds
<1>7. \A j \in RunId : \A token, work :
        Truly(j, token, work) => (Holds(runs'[j], token) => work = runs'[j].work)
  BY <1>5, <1>6 DEF Truly
<1>8. AllNamed
  BY RunsNamed
<1>9. JobsTrue'
  BY <1>2, <1>7 DEF JobsTrue, Truly, Sound, WordsTrue
<1>10. RoundsTrue'
  BY <1>2, <1>7, <1>8 DEF RoundsTrue, Truly, Sound, WordsTrue, AllNamed
<1>11. UpTrue'
  BY <1>2, <1>7, <1>8 DEF UpTrue, Truly, Sound, WordsTrue, AllNamed
<1>12. DownTrue'
  BY <1>2, <1>7, <1>8 DEF DownTrue, Truly, Sound, WordsTrue, AllNamed
<1>13. CallsTrue'
  BY <1>2, <1>7, <1>8 DEF CallsTrue, Truly, Sound, WordsTrue, AllNamed
<1>14. ReadsTrue'
  <2>1. ASSUME NEW c \in db, c.seen # Absent PROVE c.run # i
    <3>1. "gap" \in Faults
      BY <2>1 DEF Sound, WordsTrue, ReadsTrue
    <3>2. ~Spoken(i)
      BY <1>2, <3>1
    <3>. QED BY <3>2 DEF Spoken
  <2>. QED BY <1>2, <1>5, <1>8, <2>1 DEF ReadsTrue, Present, Sound, WordsTrue, AllNamed
<1>15. NoForeignEvals'
  BY <1>4, <1>5 DEF NoForeignEvals, Sound
<1>. QED BY <1>9, <1>10, <1>11, <1>12, <1>13, <1>14, <1>15 DEF Sound, WordsTrue

LEMMA SoundLinks ==
  ASSUME Typed, Typed', Sound, NEW l \in Link, LinkBreaks(l) \/ Dial(l)
  PROVE  Sound'
<1>1. LinksTyped
  BY DEF Typed
<1>2. TableAges /\ FewerJobs /\ FewerRounds /\ FewerCalls
  BY TypedTable, QueueAges, Unsaid DEF LinkBreaks, Dial, routes, tasks, runner, FewerJobs
<1>3. FewerUp /\ FewerDown
  <2>1. CASE LinkBreaks(l)
    BY <1>1, <2>1, Cutting DEF LinkBreaks, FewerUp, FewerDown
  <2>2. CASE Dial(l)
    <3>. DEFINE frame == [type |-> "hello", active |-> Active]
    <3>1. ~Working(frame)
      BY DEF Working
    <3>2. up' = [up EXCEPT ![l] = <<frame>>] /\ UNCHANGED down
      BY <2>2 DEF Dial
    <3>. HIDE DEF frame
    <3>3. Range(<<frame>>) = {frame}
      BY DEF Range
    <3>. QED BY <1>1, <3>1, <3>2, <3>3 DEF FewerUp, FewerDown, LinksTyped
  <2>. QED BY <2>1, <2>2
<1>. QED BY <1>2, <1>3, NothingNew

(* What the runner passes on: the work of a dispatch to a job, and of a    *)
(* job to its answer.                                                      *)
LEMMA SoundRunner ==
  ASSUME Typed, Typed', Sound
  PROVE  /\ HangUp => Sound'
         /\ Hear => Sound'
         /\ \A i \in RunId, ends \in Ends : JobEnds(i, ends) => Sound'
         /\ \A i \in RunId : Report(i) => Sound'
<1>1. LinksTyped /\ RunnerTyped
  BY DEF Typed
<1>2. ASSUME HangUp PROVE Sound'
  BY <1>2, TypedTable, QueueAges, Unsaid, NothingNew DEF HangUp, network, routes, tasks, FewerJobs
<1>3. ASSUME Hear PROVE Sound'
  <2>. USE <1>3 DEF Hear
  <2>. DEFINE f == Head(down[sink])
  <2>1. sink \in Link /\ down[sink] \in Seq(DownFrame) /\ down[sink] # <<>>
    BY <1>1 DEF LinksTyped, RunnerTyped
  <2>2. f \in Range(down[sink]) /\ Range(Tail(down[sink])) \subseteq Range(down[sink])
    BY <2>1, Sequences
  <2>3. down' = [down EXCEPT ![sink] = Tail(@)] /\ UNCHANGED <<pump, up, db>>
    BY DEF routes, tasks
  <2>4. \/ \A i \in RunId : jobs'[i] = NoJob \/ jobs'[i] = jobs[i]
        \/ f.type = "dispatch" /\ jobs' = [jobs EXCEPT ![f.run] = [token |-> f.token, work |-> f.work]]
    <3>1. CASE jobs' = [i \in RunId |-> IF i \in f.cancelled THEN NoJob ELSE jobs[i]]
      BY <3>1
    <3>2. CASE jobs' = [jobs EXCEPT ![f.run] = NoJob]
      BY <1>1, <3>2 DEF RunnerTyped
    <3>3. CASE UNCHANGED jobs
      BY <3>3
    <3>. QED BY <3>1, <3>2, <3>3, Zenon
  <2>5. TableAges
    BY TypedTable, QueueAges
  <2>6. \A k \in Link : Range(down'[k]) \subseteq Range(down[k])
    BY <1>1, <2>2, <2>3 DEF LinksTyped
  <2>7. \A i \in RunId : jobs'[i] # NoJob => Truly(i, jobs'[i].token, jobs'[i].work)
    <3>1. CASE \A i \in RunId : jobs'[i] = NoJob \/ jobs'[i] = jobs[i]
      BY <3>1 DEF Sound, WordsTrue, JobsTrue
    <3>2. CASE f.type = "dispatch" /\ jobs' = [jobs EXCEPT ![f.run] = [token |-> f.token, work |-> f.work]]
      <4>1. Truly(f.run, f.token, f.work)
        BY <2>1, <2>2, <3>2 DEF Sound, WordsTrue, DownTrue, Working
      <4>. HIDE DEF f, Hear
      <4>2. ASSUME NEW i \in RunId, jobs'[i] # NoJob
            PROVE  Truly(i, jobs'[i].token, jobs'[i].work)
        <5>1. CASE i = f.run
          <6>1. jobs'[i] = [token |-> f.token, work |-> f.work]
            BY <1>1, <3>2, <5>1 DEF RunnerTyped
          <6>. QED BY <4>1, <5>1, <6>1
        <5>2. CASE i # f.run
          BY <1>1, <3>2, <4>2, <5>2 DEF RunnerTyped, Sound, WordsTrue, JobsTrue
        <5>. QED BY <5>1, <5>2
      <4>. QED BY <4>2
    <3>. QED BY <2>4, <3>1, <3>2
  <2>. HIDE DEF f, Hear
  <2>8. SaidBefore
    <3>1. \A k \in Link : \A g \in Range(down'[k]) : Working(g) => Truly(g.run, g.token, g.work)
      BY <2>6 DEF Sound, WordsTrue, DownTrue
    <3>. QED BY <2>3, <2>7, <3>1 DEF SaidBefore, Sound, WordsTrue, RoundsTrue, UpTrue, CallsTrue
  <2>. QED BY <2>3, <2>5, <2>8, Quietly
<1>4. ASSUME NEW i \in RunId, NEW ends \in Ends, JobEnds(i, ends) PROVE Sound'
  <2>. DEFINE frame == [type |-> "answer", run |-> i, token |-> jobs[i].token,
                        work |-> jobs[i].work, ends |-> ends]
  <2>1. jobs[i] \in [token : Token, work : AnyWork] /\ jobs[i] # NoJob
    BY <1>1, <1>4 DEF JobEnds, RunnerTyped
  <2>2. frame \in UpFrame
    BY <2>1 DEF UpFrame
  <2>3. Truly(frame.run, frame.token, frame.work)
    BY <2>1 DEF Sound, WordsTrue, JobsTrue
  <2>4. Says(frame)
    BY <1>4 DEF JobEnds
  <2>. HIDE DEF frame
  <2>5. UNCHANGED <<runs, pump, down, db>> /\ \A j \in RunId : jobs'[j] = NoJob \/ jobs'[j] = jobs[j]
    BY <1>1, <1>4 DEF JobEnds, routes, tasks, RunnerTyped
  <2>6. \A k \in Link : Range(up'[k]) \subseteq Range(up[k]) \cup {frame}
    BY <1>1, <2>2, <2>4, Saying DEF RunnerTyped
  <2>7. SaidBefore
    <3>1. \A k \in Link : \A g \in Range(up'[k]) : Working(g) => Truly(g.run, g.token, g.work)
      BY <2>3, <2>6 DEF Sound, WordsTrue, UpTrue
    <3>2. \A j \in RunId : jobs'[j] # NoJob => Truly(j, jobs'[j].token, jobs'[j].work)
      BY <2>5 DEF Sound, WordsTrue, JobsTrue
    <3>. QED BY <2>5, <3>1, <3>2 DEF SaidBefore, Sound, WordsTrue, RoundsTrue, DownTrue, CallsTrue
  <2>. QED BY <2>5, <2>7, TypedTable, QueueAges, Quietly
<1>5. ASSUME NEW i \in RunId, Report(i) PROVE Sound'
  <2>. DEFINE frame == [type |-> "progress", run |-> i, token |-> jobs[i].token]
  <2>1. jobs[i] \in [token : Token, work : AnyWork]
    BY <1>1, <1>5 DEF Report, RunnerTyped
  <2>2. frame \in UpFrame /\ ~Working(frame)
    BY <2>1 DEF UpFrame, Working
  <2>3. Says(frame)
    BY <1>5 DEF Report
  <2>. HIDE DEF frame
  <2>4. \A k \in Link : Range(up'[k]) \subseteq Range(up[k]) \cup {frame}
    BY <1>1, <2>2, <2>3, Saying DEF RunnerTyped
  <2>5. FewerUp
    BY <2>2, <2>4 DEF FewerUp
  <2>. QED BY <1>5, <2>5, TypedTable, QueueAges, Unsaid, NothingNew DEF Report, routes, tasks
<1>. QED BY <1>2, <1>3, <1>4, <1>5

LEMMA SoundRestart ==
  ASSUME Typed, Typed', Sound, Restart
  PROVE  Sound'
<1>. USE DEF Restart
<1>1. TableAges /\ FewerJobs
  BY TypedTable, QueueAges, Unsaid
<1>2. Range(<<>>) = {}
  BY DEF Range
<1>3. FewerRounds /\ FewerUp /\ FewerDown /\ FewerCalls
  BY <1>2 DEF FewerRounds, FewerUp, FewerDown, FewerCalls, NoPump
<1>. QED BY <1>1, <1>3, NothingNew

LEMMA SoundInit == Init => Sound
<1>. SUFFICES ASSUME Init PROVE Sound
  OBVIOUS
<1>1. Range(<<>>) = {}
  BY DEF Range
<1>2. JobsTrue /\ RoundsTrue /\ CallsTrue /\ ReadsTrue
  BY DEF Init, JobsTrue, RoundsTrue, CallsTrue, ReadsTrue, NoPump
<1>3. UpTrue /\ DownTrue
  BY <1>1 DEF Init, UpTrue, DownTrue
<1>4. NoForeignEvals
  BY DEF Init, QueueInit, NoForeignEvals, Absent
<1>. QED BY <1>2, <1>3, <1>4 DEF Sound, WordsTrue

LEMMA SoundStep ==
  ~({"gap", "reuse"} \subseteq Faults) /\ Typed /\ Typed' /\ Sound /\ [Next]_vars => Sound'
<1>. SUFFICES ASSUME ~({"gap", "reuse"} \subseteq Faults), Typed, Typed', Sound, [Next]_vars
              PROVE  Sound'
  OBVIOUS
<1>1. CASE \E l \in Link : Route(l) \/ HandsBack(l) \/ PumpClaims(l) \/ PumpGoesOn(l)
  BY <1>1, SoundAttach, SoundTakeProgress, SoundTakeAnswer, SoundEnds, SoundClaim, SoundPump
     DEF Route, HandsBack, PumpGoesOn
<1>2. CASE \E l \in Link : BeatDetaches(l) \/ LinkBreaks(l) \/ Dial(l)
  BY <1>2, SoundEnds, SoundLinks
<1>3. CASE \E c \in db : CallRuns(c) \/ CallReads(c) \/ CallWrites(c)
  BY <1>3, SoundCalls
<1>4. CASE (\E a \in preempts : Preempted(a)) \/ (\E r \in releases : SweepReleases(r))
  BY <1>4, SoundReleases
<1>5. CASE \E i \in RunId : CancelRun(i) \/ Cancelled(i) \/ Report(i) \/ GoQuiet(i)
  BY <1>5, SoundRows, SoundReleases, SoundRunner
<1>6. CASE (\E i \in RunId, ends \in Ends : JobEnds(i, ends)) \/ (\E host \in AskedHosts : Ask(host))
  BY <1>6, SoundRunner, SoundAsk
<1>7. CASE Sweep \/ ReserveSlot \/ ReleaseSlot \/ HangUp \/ Hear \/ Restart
  BY <1>7, SoundRows, SoundSlots, SoundRunner, SoundRestart
<1>8. CASE UNCHANGED vars
  BY <1>8, TypedTable, QueueAges, Unsaid, NothingNew DEF vars, network, routes, tasks
<1>. QED BY <1>1, <1>2, <1>3, <1>4, <1>5, <1>6, <1>7, <1>8, Zenon DEF Next

LEMMA InvInit == Init => Inv
BY TypedInit, LockInit, SoundInit DEF Inv

LEMMA InvStep == ~({"gap", "reuse"} \subseteq Faults) /\ Inv /\ [Next]_vars => Inv'
<1>1. Typed /\ LockHeld /\ [Next]_vars => Typed' /\ LockHeld'
  BY TypedStep, LockStep
<1>. QED BY <1>1, SoundStep DEF Inv

(* What a finished run stores was searched for the request it stands for:  *)
(* attempts are cut off, handed back and claimed again, frames arrive late *)
(* and rows are written by id, but an answer is taken only under the token *)
(* its row runs under, and a token means one request.  Left out is what is *)
(* not so: a call that has read its row while the id goes to another.      *)
THEOREM EvalsAreNeverForeign ==
  ASSUME ~({"gap", "reuse"} \subseteq Faults)
  PROVE  Spec => []NoForeignEvals
<1>1. Init => Inv
  BY InvInit
<1>2. Inv /\ [Next]_vars => Inv'
  BY InvStep
<1>3. Inv => NoForeignEvals
  BY DEF Inv, Sound
<1>. QED BY <1>1, <1>2, <1>3, PTL DEF Spec

DoneKept == \A i \in RunId : runs[i].status = "done" => runs'[i].status = "done"

LEMMA DoneStep == "gap" \notin Faults /\ Inv /\ [Next]_vars => DoneKept
<1>. SUFFICES ASSUME "gap" \notin Faults, Inv, [Next]_vars PROVE DoneKept
  OBVIOUS
<1>1. runs \in [RunId -> Row]
  BY TypedTable DEF Inv
<1>2. UNCHANGED runs => DoneKept
  BY DEF DoneKept
<1>3. \A ids : HeartbeatRuns(ids) => DoneKept
  BY <1>1 DEF HeartbeatRuns, DoneKept
<1>4. \A hosts, kept : RequeueStaleRuns(hosts, kept) => DoneKept
  BY <1>1 DEF RequeueStaleRuns, Stale, DoneKept
<1>5. ASSUME NEW c \in db, CallRuns(c) \/ CallReads(c) \/ CallWrites(c) PROVE DoneKept
  <2>1. c.seen = Absent
    BY DEF Inv, Sound, WordsTrue, ReadsTrue
  <2>2. CallRuns(c)
    BY <1>5, <2>1 DEF CallReads, CallWrites
  <2>. QED BY <1>1, <2>2 DEF CallRuns, Holds, DoneKept
<1>6. ASSUME NEW l \in Link, PumpClaims(l) PROVE DoneKept
  <2>1. PICK i \in RunId :
          /\ IsNextRun(i, {"runner", "browser"})
          /\ \E row : runs' = [runs EXCEPT ![i] = row]
    BY <1>6, Zenon DEF PumpClaims
  <2>. QED BY <1>1, <2>1 DEF IsNextRun, Claimable, DoneKept
<1>7. ASSUME NEW l \in Link, TakeProgress(l) PROVE DoneKept
  BY <1>2, <1>3, <1>7, Zenon DEF TakeProgress
<1>8. ASSUME NEW host \in AskedHosts, Ask(host) PROVE DoneKept
  <2>1. PICK i \in RunId : IsNewId(i) /\ \E row : runs' = [runs EXCEPT ![i] = row]
    BY <1>8, Zenon DEF Ask, RequestAnalysis
  <2>2. runs[i].status = "absent"
    BY <2>1 DEF IsNewId, Present, RunId
  <2>. QED BY <1>1, <2>1, <2>2 DEF DoneKept
<1>9. ASSUME NEW i \in RunId, CancelRun(i) \/ GoQuiet(i) PROVE DoneKept
  BY <1>1, <1>9, SMTT(30) DEF CancelRun, Deleting, GoQuiet, DoneKept
<1>10. CASE \E l \in Link : Route(l) \/ HandsBack(l) \/ PumpClaims(l) \/ PumpGoesOn(l)
  BY <1>2, <1>6, <1>7, <1>10 DEF Route, HandsBack, PumpGoesOn, AttachBegins, AttachQueues,
     AttachReconciles, AttachInstalls, TakeAnswer, Answered, RouteEnds, HandBackQueues, HandBack,
     HandedBack, PumpPlaces, PumpReturned
<1>11. CASE \E l \in Link : BeatDetaches(l) \/ LinkBreaks(l) \/ Dial(l)
  BY <1>2, <1>11 DEF BeatDetaches, LinkBreaks, Dial
<1>12. CASE \E c \in db : CallRuns(c) \/ CallReads(c) \/ CallWrites(c)
  BY <1>5, <1>12
<1>13. CASE (\E a \in preempts : Preempted(a)) \/ (\E r \in releases : SweepReleases(r))
  BY <1>2, <1>13 DEF Preempted, SweepReleases
<1>14. CASE \E i \in RunId : CancelRun(i) \/ Cancelled(i) \/ Report(i) \/ GoQuiet(i)
  BY <1>2, <1>9, <1>14 DEF Cancelled, Report
<1>15. CASE (\E i \in RunId, ends \in Ends : JobEnds(i, ends)) \/ (\E host \in AskedHosts : Ask(host))
  BY <1>2, <1>8, <1>15 DEF JobEnds
<1>16. CASE Sweep \/ ReserveSlot \/ ReleaseSlot \/ HangUp \/ Hear \/ Restart
  BY <1>2, <1>4, <1>16 DEF Sweep, ReserveSlot, ReleaseSlot, HangUp, Hear, Restart
<1>17. CASE UNCHANGED vars
  BY <1>2, <1>17 DEF vars
<1>. QED BY <1>10, <1>11, <1>12, <1>13, <1>14, <1>15, <1>16, <1>17, Zenon DEF Next

(* A finished run stays finished while no two database calls come between  *)
(* each other's reads and writes: neither a late answer nor a hand-back, a *)
(* sweep, a preemption or a cancel takes it back.                          *)
THEOREM DoneStaysDone ==
  ASSUME "gap" \notin Faults
  PROVE  Spec => DoneIsFinal
<1>1. Init => Inv
  BY InvInit
<1>2. Inv /\ [Next]_vars => Inv'
  BY InvStep
<1>3. Inv /\ [Next]_vars => [DoneKept]_vars
  BY DoneStep
<1>4. Spec => [][DoneKept]_vars
  BY <1>1, <1>2, <1>3, PTL DEF Spec
<1>. QED BY <1>4 DEF DoneIsFinal, DoneKept

-----------------------------------------------------------------------------
(* Who is told to stop.  While no board preempts and no two attaches meet, *)
(* only the link that is the runner's carries anything to it, a cancel is  *)
(* sent when its run's slot is empty, and what takes the slot after it is  *)
(* behind it on the same link.                                             *)

Alone == "overlap" \notin Faults   \* no two attaches meet

OneLink ==
  /\ \A l \in Link : serving[l] \in Attaching =>
       current = NoLink /\ \A m \in Link : m # l => serving[m] \notin Attaching
  /\ \A l \in Link : serving[l] \in {"serving", "gone"} /\ l # current => wire[l] = "broken"
  /\ \A l \in Link : down[l] # <<>> => wire[l] = "up" /\ l = current
  /\ \A l \in Link : wire[l] = "unused" => serving[l] = "none" /\ up[l] = <<>>
  /\ \A r \in releases : serving[r.link] \in {"serving", "gone"}

(* A dispatch that a round has not sent is known to nobody else.           *)
Unsent ==
  \A l \in Link : pump[l].stage = "claimed" =>
    /\ \A i \in RunId : jobs[i].token # pump[l].token
    /\ \A m \in Link : \A f \in Range(down[m]) : f.type = "dispatch" => f.token # pump[l].token
    /\ \A m \in Link : m # l /\ pump[m].stage = "claimed" => pump[m].token # pump[l].token

(* The attempt on a run's slot is neither at the runner when a cancel of   *)
(* the run is under way, nor in front of it.                               *)
Trails(slot, job, line, k) ==
  line[k].type = "cancel" /\ slot[line[k].run] # NoToken =>
    /\ job[line[k].run].token # slot[line[k].run]
    /\ \A n \in 1 .. k - 1 : line[n].type = "dispatch" /\ line[n].run = line[k].run =>
         line[n].token # slot[line[k].run]

CancelsTrail ==
  \A l \in Link : \A k \in 1 .. Len(down[l]) : Trails(held[l], jobs, down[l], k)

(* A send on the runner's link, or on a broken one.                        *)
LEMMA SendsOnOne ==
  ASSUME LinksTyped, OneLink, NEW l \in Link, NEW f, Sent(l, f),
         l = current \/ wire[l] = "broken"
  PROVE  \A m \in Link : down'[m] # <<>> => wire[m] = "up" /\ m = current
BY DEF Sent, LinksTyped, OneLink

LEMMA ReleasesOnOne ==
  ASSUME LinksTyped, OneLink, NEW l \in Link, NEW a, Release(l, a),
         l = current \/ wire[l] = "broken"
  PROVE  \A m \in Link : down'[m] # <<>> => wire[m] = "up" /\ m = current
<1>1. CASE UNCHANGED <<held, down>>
  BY <1>1 DEF OneLink
<1>2. CASE Sent(l, [type |-> "cancel", run |-> a.run])
  <2>. DEFINE f == [type |-> "cancel", run |-> a.run]
  <2>1. Sent(l, f)
    BY <1>2
  <2>. HIDE DEF f
  <2>. QED BY <2>1, SendsOnOne
<1>. QED BY <1>1, <1>2, Zenon DEF Release

(* No step but an attach, a detachment and what the network does changes   *)
(* which link is the runner's.                                             *)
LEMMA OneLinkStays ==
  ASSUME OneLink, UNCHANGED <<wire, current, serving>>, releases' \subseteq releases,
         \/ UNCHANGED down
         \/ \A m \in Link : down'[m] # <<>> => wire[m] = "up" /\ m = current,
         \A m \in Link : wire[m] = "unused" => up'[m] = up[m]
  PROVE  OneLink'
<1>1. \A m \in Link : down'[m] # <<>> => wire[m] = "up" /\ m = current
  BY DEF OneLink
<1>. QED BY <1>1 DEF OneLink

LEMMA OneLinkAttach ==
  ASSUME Alone, Typed, OneLink, NEW l \in Link,
         AttachBegins(l) \/ AttachQueues(l) \/ AttachReconciles(l) \/ AttachInstalls(l)
  PROVE  OneLink'
<1>1. LinksTyped /\ RoutesTyped /\ NoLink \notin Link /\ \A r \in releases : r.link \in Link
  BY DEF Typed, TasksTyped, NoLink, Link
<1>2. releases' = releases
  BY DEF AttachBegins, AttachQueues, AttachReconciles, AttachInstalls, tasks
<1>3. ASSUME AttachBegins(l) PROVE OneLink'
  <2>1. /\ serving[l] = "none" /\ current' = NoLink
        /\ \A k \in Link : serving[k] \notin Attaching
    BY <1>3 DEF AttachBegins, Alone
  <2>2. /\ \A k \in Link : k # l => serving'[k] = serving[k]
        /\ serving'[l] \in Attaching
    BY <1>1, <1>3 DEF AttachBegins, RoutesTyped, Attaching
  <2>3. current # NoLink => current \in Link /\ serving[current] = "serving"
    BY <1>1 DEF RoutesTyped
  <2>4. CASE current = NoLink
    <3>1. /\ UNCHANGED <<wire, down>>
          /\ up[l] # <<>> /\ \A m \in Link : m # l => up'[m] = up[m]
      BY <1>1, <1>3, <2>4 DEF AttachBegins, LinksTyped
    <3>. QED BY <1>1, <1>2, <2>1, <2>2, <2>4, <3>1 DEF OneLink, Attaching
  <2>5. CASE current # NoLink
    <3>0. PICK n \in 0 .. Len(up[current]) :
            up' = [up EXCEPT ![l] = Tail(@), ![current] = SubSeq(@, 1, n)]
      BY <1>3, <2>5, Zenon DEF AttachBegins
    <3>1. /\ wire' = [wire EXCEPT ![current] = "broken"]
          /\ down' = [down EXCEPT ![current] = <<>>]
      BY <1>3, <2>5 DEF AttachBegins
    <3>4. up[l] # <<>>
      BY <1>3 DEF AttachBegins
    <3>5. \A m \in Link : m # l /\ m # current => up'[m] = up[m]
      BY <1>1, <2>3, <2>5, <3>0 DEF LinksTyped
    <3>2. \A m \in Link : down'[m] = <<>>
      BY <1>1, <2>3, <2>5, <3>1 DEF OneLink, LinksTyped
    <3>3. \A m \in Link : wire'[m] = IF m = current THEN "broken" ELSE wire[m]
      BY <1>1, <2>3, <2>5, <3>1 DEF LinksTyped
    <3>. QED BY <1>1, <1>2, <2>1, <2>2, <2>3, <2>5, <3>2, <3>3, <3>4, <3>5 DEF OneLink, Attaching
  <2>. QED BY <2>4, <2>5
<1>4. ASSUME AttachQueues(l) \/ AttachReconciles(l) PROVE OneLink'
  <2>1. /\ UNCHANGED <<wire, up, down, current>> /\ serving[l] \in Attaching
        /\ \A k \in Link : k # l => serving'[k] = serving[k]
        /\ serving'[l] \in Attaching
    BY <1>1, <1>4 DEF AttachQueues, AttachReconciles, network, RoutesTyped, Attaching
  <2>. QED BY <1>1, <1>2, <2>1 DEF OneLink, Attaching
<1>5. ASSUME AttachInstalls(l) PROVE OneLink'
  <2>1. serving[l] \in Attaching /\ UNCHANGED <<wire, up>>
    BY <1>5 DEF AttachInstalls, Attaching
  <2>2. current = NoLink /\ \A m \in Link : down[m] = <<>>
    BY <1>1, <2>1 DEF OneLink
  <2>3. CASE /\ current' = l
             /\ serving' = [serving EXCEPT ![l] = "serving"]
             /\ Sent(l, [type |-> "welcome", cancelled |-> hello[l].cancelled])
    <3>1. \A m \in Link : down'[m] # <<>> => wire[m] = "up" /\ m = l
      BY <1>1, <2>2, <2>3 DEF Sent, LinksTyped
    <3>2. \A k \in Link : serving'[k] = IF k = l THEN "serving" ELSE serving[k]
      BY <1>1, <2>3 DEF RoutesTyped
    <3>. QED BY <1>1, <1>2, <2>1, <2>2, <2>3, <3>1, <3>2 DEF OneLink, Attaching
  <2>4. CASE /\ wire[l] = "broken" /\ current' = NoLink /\ UNCHANGED down
             /\ serving' = [serving EXCEPT ![l] = "gone"]
    <3>1. \A k \in Link : serving'[k] = IF k = l THEN "gone" ELSE serving[k]
      BY <1>1, <2>4 DEF RoutesTyped
    <3>. QED BY <1>1, <1>2, <2>1, <2>2, <2>4, <3>1 DEF OneLink, Attaching
  <2>. QED BY <1>5, <2>3, <2>4, Zenon DEF AttachInstalls
<1>. QED BY <1>3, <1>4, <1>5

LEMMA OneLinkLost ==
  ASSUME Typed, OneLink, NEW l \in Link,
         RouteEnds(l) \/ BeatDetaches(l) \/ LinkBreaks(l) \/ Dial(l)
  PROVE  OneLink'
<1>1. LinksTyped /\ RoutesTyped /\ NoLink \notin Link /\ \A r \in releases : r.link \in Link
  BY DEF Typed, TasksTyped, NoLink, Link
<1>2. releases' = releases
  BY DEF RouteEnds, BeatDetaches, LinkBreaks, Dial, tasks
<1>3. ASSUME RouteEnds(l) PROVE OneLink'
  <2>1. /\ wire[l] = "broken" /\ serving[l] = "serving" /\ UNCHANGED <<wire, up, down>>
        /\ current' = IF current = l THEN NoLink ELSE current
        /\ \A k \in Link : serving'[k] = IF k = l THEN "gone" ELSE serving[k]
    BY <1>1, <1>3 DEF RouteEnds, Dropped, network, RoutesTyped
  <2>. QED BY <1>1, <1>2, <2>1 DEF OneLink, Attaching
<1>4. ASSUME BeatDetaches(l) PROVE OneLink'
  <2>1. current = l /\ current' = NoLink /\ UNCHANGED serving
    BY <1>4 DEF BeatDetaches, Dropped
  <2>2. /\ wire'[l] = "broken" /\ down'[l] = <<>>
        /\ \A m \in Link : m # l => wire'[m] = wire[m] /\ down'[m] = down[m] /\ up'[m] = up[m]
    <3>1. CASE wire[l] = "up"
      BY <1>1, <1>4, <3>1 DEF BeatDetaches, Cut, LinksTyped
    <3>2. CASE wire[l] # "up"
      <4>1. wire[l] = "broken" /\ down[l] = <<>>
        BY <1>1, <2>1, <3>2 DEF RoutesTyped, LinksTyped, OneLink
      <4>. QED BY <1>1, <1>4, <3>2, <4>1 DEF BeatDetaches, network, LinksTyped
    <3>. QED BY <3>1, <3>2
  <2>. QED BY <1>1, <1>2, <2>1, <2>2 DEF OneLink, Attaching
<1>5. ASSUME LinkBreaks(l) PROVE OneLink'
  <2>1. /\ wire'[l] = "broken" /\ down'[l] = <<>> /\ UNCHANGED <<current, serving>>
        /\ \A m \in Link : m # l => wire'[m] = wire[m] /\ down'[m] = down[m] /\ up'[m] = up[m]
    BY <1>1, <1>5 DEF LinkBreaks, Cut, LinksTyped, routes
  <2>. QED BY <1>1, <1>2, <2>1 DEF OneLink, Attaching
<1>6. ASSUME Dial(l) PROVE OneLink'
  <2>1. /\ wire[l] = "unused" /\ UNCHANGED <<current, serving, down>>
        /\ wire'[l] = "up" /\ \A m \in Link : m # l => wire'[m] = wire[m] /\ up'[m] = up[m]
    BY <1>1, <1>6 DEF Dial, LinksTyped, routes
  <2>. QED BY <1>1, <1>2, <2>1 DEF OneLink, Attaching
<1>. QED BY <1>3, <1>4, <1>5, <1>6

LEMMA OneLinkRest ==
  ASSUME Alone, Typed, OneLink, [Next]_vars,
         \A l \in Link :
           /\ ~AttachBegins(l) /\ ~AttachQueues(l) /\ ~AttachReconciles(l) /\ ~AttachInstalls(l)
           /\ ~RouteEnds(l) /\ ~BeatDetaches(l) /\ ~LinkBreaks(l) /\ ~Dial(l)
  PROVE  OneLink'
<1>1. LinksTyped /\ RoutesTyped /\ NoLink \notin Link /\ \A r \in releases : r.link \in Link
  BY DEF Typed, TasksTyped, NoLink, Link
<1>3. \A l \in Link : wire[l] = "unused" => up[l] = <<>> /\ serving[l] = "none"
  BY DEF OneLink
<1>4. current # NoLink => current \in Link /\ serving[current] = "serving"
  BY <1>1 DEF RoutesTyped
<1>5. ASSUME NEW l \in Link, TakeProgress(l) PROVE OneLink'
  <2>1. /\ UNCHANGED <<wire, current, serving, releases>>
        /\ up[l] # <<>> /\ up' = [up EXCEPT ![l] = Tail(@)]
    BY <1>5 DEF TakeProgress, routes, tasks
  <2>2. \/ UNCHANGED down
        \/ current # NoLink /\ Release(current, Head(up[l]))
    BY <1>5, Zenon DEF TakeProgress
  <2>3. \/ UNCHANGED down
        \/ \A m \in Link : down'[m] # <<>> => wire[m] = "up" /\ m = current
    BY <1>1, <1>4, <2>2, ReleasesOnOne
  <2>4. \A m \in Link : wire[m] = "unused" => up'[m] = up[m]
    BY <1>1, <1>3, <2>1 DEF LinksTyped
  <2>. QED BY <2>1, <2>3, <2>4, OneLinkStays
<1>6. ASSUME NEW l \in Link, TakeAnswer(l) PROVE OneLink'
  <2>1. /\ UNCHANGED <<wire, current, serving, releases, down>>
        /\ up[l] # <<>> /\ up' = [up EXCEPT ![l] = Tail(@)]
    BY <1>6 DEF TakeAnswer
  <2>2. \A m \in Link : wire[m] = "unused" => up'[m] = up[m]
    BY <1>1, <1>3, <2>1 DEF LinksTyped
  <2>. QED BY <2>1, <2>2, OneLinkStays
<1>7. ASSUME UNCHANGED <<wire, up, current, serving>>, releases' \subseteq releases,
             \/ UNCHANGED down
             \/ \A m \in Link : down'[m] # <<>> => wire[m] = "up" /\ m = current
      PROVE  OneLink'
  BY <1>7, OneLinkStays
<1>8. ASSUME NEW l \in Link,
             \/ Answered(l) \/ HandBackQueues(l) \/ HandBack(l) \/ HandedBack(l)
             \/ PumpClaims(l) \/ PumpReturned(l)
      PROVE  OneLink'
  BY <1>7, <1>8 DEF Answered, HandBackQueues, HandBack, HandedBack, PumpClaims, PumpReturned,
     network, tasks
<1>9. ASSUME NEW l \in Link, PumpPlaces(l) PROVE OneLink'
  <2>1. UNCHANGED <<wire, up, current, serving, releases>>
    BY <1>9 DEF PumpPlaces
  <2>. DEFINE f == [type |-> "dispatch", run |-> pump[l].run, token |-> pump[l].token,
                    work |-> pump[l].work]
  <2>2. UNCHANGED down \/ (current = l /\ Sent(l, f))
    BY <1>9, Zenon DEF PumpPlaces, PumpReturns
  <2>. HIDE DEF f
  <2>. QED BY <1>1, <1>7, <2>1, <2>2, SendsOnOne
<1>10. ASSUME NEW c \in db, CallRuns(c) \/ CallReads(c) \/ CallWrites(c) PROVE OneLink'
  BY <1>7, <1>10 DEF CallRuns, CallReads, CallWrites, network, routes
<1>11. ASSUME NEW r \in releases, SweepReleases(r) PROVE OneLink'
  <2>1. /\ UNCHANGED <<wire, up, current, serving>> /\ releases' \subseteq releases
        /\ Release(r.link, [run |-> r.run, token |-> r.token])
    BY <1>11 DEF SweepReleases, routes
  <2>2. r.link \in Link /\ (r.link = current \/ wire[r.link] = "broken")
    BY <1>1 DEF OneLink
  <2>. QED BY <1>1, <1>7, <2>1, <2>2, ReleasesOnOne
<1>12. ASSUME NEW i \in RunId, CancelRun(i) \/ GoQuiet(i) PROVE OneLink'
  BY <1>7, <1>12 DEF CancelRun, GoQuiet, network, routes, tasks
<1>13. ASSUME NEW i \in RunId, Cancelled(i) PROVE OneLink'
  <2>1. /\ UNCHANGED <<wire, up, current, serving, releases>>
        /\ \/ current # NoLink /\ Release(current, [run |-> i, token |-> held[current][i]])
           \/ UNCHANGED down
    BY <1>13 DEF Cancelled, routes
  <2>. QED BY <1>1, <1>4, <1>7, <2>1, ReleasesOnOne
<1>14. ASSUME NEW i \in RunId, Report(i) \/ (\E ends \in Ends : JobEnds(i, ends)) PROVE OneLink'
  <2>1. UNCHANGED <<wire, current, serving, releases, down>>
    BY <1>14 DEF Report, JobEnds, routes, tasks
  <2>2. \E f : Says(f)
    BY <1>14 DEF Report, JobEnds
  <2>3. \A m \in Link : wire[m] = "unused" => up'[m] = up[m]
    BY <1>1, <2>2 DEF Says, LinksTyped
  <2>. QED BY <2>1, <2>3, OneLinkStays
<1>15. ASSUME NEW host \in AskedHosts, Ask(host) PROVE OneLink'
  BY <1>7, <1>15 DEF Ask, network, routes, tasks
<1>16. ASSUME Sweep PROVE OneLink'
  <2>1. /\ UNCHANGED <<wire, up, down, current, serving>>
        /\ \A r \in releases' : r \in releases \/ (r.link = current /\ current # NoLink)
    BY <1>16 DEF Sweep, network, routes
  <2>. QED BY <1>1, <1>4, <2>1 DEF OneLink
<1>17. ASSUME Hear PROVE OneLink'
  <2>1. /\ UNCHANGED <<wire, up, current, serving, releases>>
        /\ down[sink] # <<>> /\ sink # NoLink /\ down' = [down EXCEPT ![sink] = Tail(@)]
    BY <1>17 DEF Hear, routes, tasks
  <2>2. sink \in Link
    BY <2>1 DEF Typed, RunnerTyped
  <2>3. \A m \in Link : down'[m] # <<>> => down[m] # <<>>
    BY <1>1, <2>1, <2>2 DEF LinksTyped
  <2>4. \A m \in Link : down'[m] # <<>> => wire[m] = "up" /\ m = current
    BY <2>3 DEF OneLink
  <2>. QED BY <1>7, <2>1, <2>4
<1>18. ASSUME Restart PROVE OneLink'
  BY <1>1, <1>18 DEF Restart, OneLink, NoLink, Attaching, LinksTyped, runner
<1>19. ASSUME ReleaseSlot \/ HangUp PROVE OneLink'
  BY <1>7, <1>19 DEF ReleaseSlot, HangUp, network, routes, tasks
<1>21. ASSUME ReserveSlot PROVE OneLink'
  BY <1>7, <1>21 DEF ReserveSlot, network, routes
<1>22. ASSUME NEW a \in preempts, Preempted(a) PROVE OneLink'
  <2>. DEFINE f == [type |-> "cancel", run |-> a.run]
  <2>1. /\ UNCHANGED <<wire, up, current, serving, releases>>
        /\ UNCHANGED down \/ (current # NoLink /\ Sent(current, f))
    BY <1>22 DEF Preempted, routes
  <2>. HIDE DEF f
  <2>. QED BY <1>1, <1>4, <1>7, <2>1, SendsOnOne
<1>20. ASSUME UNCHANGED vars PROVE OneLink'
  BY <1>7, <1>20 DEF vars, network, routes, tasks
<1>. QED
  <2>1. CASE \E l \in Link : Route(l) \/ HandsBack(l) \/ PumpClaims(l) \/ PumpGoesOn(l)
    BY <1>5, <1>6, <1>8, <1>9, <2>1 DEF Route, HandsBack, PumpGoesOn
  <2>2. CASE \E c \in db : CallRuns(c) \/ CallReads(c) \/ CallWrites(c)
    BY <1>10, <2>2
  <2>3. CASE \E i \in RunId : CancelRun(i) \/ Cancelled(i) \/ Report(i) \/ GoQuiet(i)
    BY <1>12, <1>13, <1>14, <2>3
  <2>. QED
    BY <1>21, <1>22, <1>11, <1>14, <1>15, <1>16, <1>17, <1>18, <1>19, <1>20, <2>1, <2>2, <2>3, Zenon DEF Next

LEMMA OneLinkStep == Alone /\ Typed /\ OneLink /\ [Next]_vars => OneLink'
BY OneLinkAttach, OneLinkLost, OneLinkRest

-----------------------------------------------------------------------------

(* Which link is the runner's, and what attaches and rounds have in hand.  *)
LEMMA Loop ==
  ASSUME Typed, [Next]_vars, ~Restart
  PROVE  /\ \/ UNCHANGED current \/ current' = NoLink
            \/ \E l \in Link : AttachInstalls(l) /\ current' = l
         /\ \A l \in Link : serving'[l] = "reconciling" =>
              \/ serving[l] = "reconciling" /\ hello'[l] = hello[l]
              \/ AttachReconciles(l)
         /\ \A l \in Link : pump'[l].stage = "claimed" =>
              \/ pump'[l] = pump[l]
              \/ PumpClaims(l)
         /\ \A l \in Link :
              /\ hello'[l] = hello[l] \/ AttachBegins(l) \/ AttachReconciles(l) \/ AttachInstalls(l)
              /\ pump'[l] = pump[l] \/ PumpClaims(l) \/ PumpPlaces(l) \/ PumpReturned(l)
              /\ \/ serving'[l] = serving[l]
                 \/ AttachBegins(l) \/ AttachQueues(l) \/ AttachReconciles(l) \/ AttachInstalls(l)
                 \/ RouteEnds(l)
<1>1. RoutesTyped
  BY DEF Typed
<1>2. ASSUME NEW l \in Link, AttachBegins(l)
      PROVE  /\ current' = NoLink /\ UNCHANGED pump /\ serving'[l] # "reconciling"
             /\ \A m \in Link : m # l => serving'[m] = serving[m] /\ hello'[m] = hello[m]
  BY <1>1, <1>2 DEF AttachBegins, RoutesTyped
<1>3. ASSUME NEW l \in Link, AttachQueues(l)
      PROVE  /\ UNCHANGED <<current, pump, hello>> /\ serving'[l] # "reconciling"
             /\ \A m \in Link : m # l => serving'[m] = serving[m]
  BY <1>1, <1>3 DEF AttachQueues, RoutesTyped
<1>4. ASSUME NEW l \in Link, AttachReconciles(l)
      PROVE  /\ UNCHANGED <<current, pump>>
             /\ \A m \in Link : m # l => serving'[m] = serving[m] /\ hello'[m] = hello[m]
  BY <1>1, <1>4 DEF AttachReconciles, RoutesTyped
<1>5. ASSUME NEW l \in Link, AttachInstalls(l)
      PROVE  /\ UNCHANGED pump /\ current' \in {l, NoLink} /\ serving'[l] # "reconciling"
             /\ \A m \in Link : m # l => serving'[m] = serving[m] /\ hello'[m] = hello[m]
  BY <1>1, <1>5 DEF AttachInstalls, RoutesTyped
<1>6. ASSUME NEW l \in Link, RouteEnds(l)
      PROVE  /\ UNCHANGED <<pump, hello>> /\ current' \in {current, NoLink} /\ serving'[l] # "reconciling"
             /\ \A m \in Link : m # l => serving'[m] = serving[m]
  BY <1>1, <1>6 DEF RouteEnds, Dropped, RoutesTyped
<1>7. ASSUME NEW l \in Link, BeatDetaches(l)
      PROVE  UNCHANGED <<pump, hello, serving>> /\ current' \in {current, NoLink}
  BY <1>7 DEF BeatDetaches, Dropped
<1>8. ASSUME NEW l \in Link, PumpClaims(l) \/ PumpPlaces(l) \/ PumpReturned(l)
      PROVE  /\ UNCHANGED <<serving, hello, current>>
             /\ \A m \in Link : m # l => pump'[m] = pump[m]
             /\ PumpClaims(l) \/ pump'[l].stage # "claimed"
  <2>1. UNCHANGED <<serving, hello, current>>
    BY <1>8 DEF PumpClaims, PumpPlaces, PumpReturned
  <2>2. CASE PumpClaims(l)
    BY <1>1, <2>1, <2>2 DEF PumpClaims, RoutesTyped
  <2>3. ASSUME pump' = [pump EXCEPT ![l] = NoPump]
        PROVE  (\A m \in Link : m # l => pump'[m] = pump[m]) /\ pump'[l].stage # "claimed"
    BY <1>1, <2>3 DEF RoutesTyped, NoPump
  <2>4. ASSUME PumpReturns(l), pump[l].stage = "claimed"
        PROVE  (\A m \in Link : m # l => pump'[m] = pump[m]) /\ pump'[l].stage # "claimed"
    <3>1. pump[l] \in Round
      BY <1>1, <2>4 DEF RoutesTyped, NoPump
    <3>. DEFINE back == [pump[l] EXCEPT !.stage = "returning"]
    <3>2. back.stage = "returning"
      BY <3>1 DEF Round
    <3>3. pump' = [pump EXCEPT ![l] = back]
      BY <1>1, <2>4 DEF PumpReturns, RoutesTyped
    <3>. HIDE DEF back
    <3>. QED BY <1>1, <3>2, <3>3 DEF RoutesTyped
  <2>. QED BY <1>8, <2>1, <2>2, <2>3, <2>4, Zenon DEF PumpPlaces, PumpReturned
<1>9. ASSUME NEW l \in Link,
             \/ TakeProgress(l) \/ TakeAnswer(l) \/ Answered(l) \/ LinkBreaks(l) \/ Dial(l)
             \/ HandBackQueues(l) \/ HandBack(l) \/ HandedBack(l)
      PROVE  UNCHANGED <<serving, hello, current, pump>>
  BY <1>9 DEF TakeProgress, TakeAnswer, Answered, LinkBreaks, Dial, HandBackQueues, HandBack,
     HandedBack, routes
<1>10. ASSUME NEW c \in db, CallRuns(c) \/ CallReads(c) \/ CallWrites(c)
       PROVE  UNCHANGED <<serving, hello, current, pump>>
  BY <1>10 DEF CallRuns, CallReads, CallWrites, routes
<1>11. ASSUME NEW i \in RunId, CancelRun(i) \/ Cancelled(i) \/ Report(i) \/ GoQuiet(i)
       PROVE  UNCHANGED <<serving, hello, current, pump>>
  BY <1>11 DEF CancelRun, Cancelled, Report, GoQuiet, routes
<1>12. ASSUME \/ \E a \in preempts : Preempted(a)
              \/ \E r \in releases : SweepReleases(r)
              \/ \E i \in RunId, ends \in Ends : JobEnds(i, ends)
              \/ \E host \in AskedHosts : Ask(host)
              \/ Sweep \/ ReserveSlot \/ ReleaseSlot \/ HangUp \/ Hear \/ UNCHANGED vars
       PROVE  UNCHANGED <<serving, hello, current, pump>>
  BY <1>12 DEF Preempted, SweepReleases, JobEnds, Ask, Sweep, ReserveSlot, ReleaseSlot, HangUp, Hear,
     vars, routes
<1>. QED
  <2>1. CASE \E l \in Link : Route(l) \/ HandsBack(l) \/ PumpClaims(l) \/ PumpGoesOn(l)
    <3>1. CASE \E l \in Link : PumpClaims(l) \/ PumpPlaces(l) \/ PumpReturned(l)
      BY <1>8, <3>1
    <3>2. CASE \E l \in Link :
                 \/ AttachBegins(l) \/ AttachQueues(l) \/ AttachReconciles(l) \/ AttachInstalls(l)
                 \/ RouteEnds(l)
      BY <1>2, <1>3, <1>4, <1>5, <1>6, <3>2
    <3>3. CASE \E l \in Link :
                 \/ TakeProgress(l) \/ TakeAnswer(l) \/ Answered(l)
                 \/ HandBackQueues(l) \/ HandBack(l) \/ HandedBack(l)
      BY <1>9, <3>3
    <3>. QED BY <2>1, <3>1, <3>2, <3>3, Zenon DEF Route, HandsBack, PumpGoesOn
  <2>2. CASE \E l \in Link : BeatDetaches(l) \/ LinkBreaks(l) \/ Dial(l)
    BY <1>7, <1>9, <2>2
  <2>3. CASE \E c \in db : CallRuns(c) \/ CallReads(c) \/ CallWrites(c)
    BY <1>10, <2>3
  <2>4. CASE \E i \in RunId : CancelRun(i) \/ Cancelled(i) \/ Report(i) \/ GoQuiet(i)
    BY <1>11, <2>4
  <2>. QED BY <1>12, <2>1, <2>2, <2>3, <2>4, Zenon DEF Next

LEMMA UnsentStays ==
  ASSUME Typed, Unsent, FewerDown, FewerJobs,
         \A l \in Link : pump'[l].stage = "claimed" => pump'[l] = pump[l]
  PROVE  Unsent'
<1>. SUFFICES ASSUME NEW l \in Link, pump'[l].stage = "claimed"
              PROVE  /\ \A i \in RunId : jobs'[i].token # pump[l].token
                     /\ \A m \in Link : \A f \in Range(down'[m]) :
                          f.type = "dispatch" => f.token # pump[l].token
                     /\ \A m \in Link : m # l /\ pump'[m].stage = "claimed" =>
                          pump'[m].token # pump[l].token
  BY DEF Unsent
<1>1. pump[l].stage = "claimed" /\ pump[l].token \in Token
  BY DEF Typed, RoutesTyped, NoPump, Round
<1>2. \A i \in RunId : jobs'[i].token # pump[l].token
  BY <1>1, QueueAssumption DEF Unsent, FewerJobs, NoJob
<1>3. \A m \in Link : \A f \in Range(down'[m]) : f.type = "dispatch" => f.token # pump[l].token
  BY <1>1 DEF Unsent, FewerDown, Working
<1>. QED BY <1>1, <1>2, <1>3 DEF Unsent

LEMMA UnsentClaim ==
  ASSUME Typed, Unsent, NEW l \in Link, PumpClaims(l)
  PROVE  Unsent'
<1>1. FreshTokens # {} /\ UNCHANGED <<down, jobs>> /\ pump[l].stage = "off"
  BY DEF PumpClaims, MayClaim, network, runner
<1>2. \/ UNCHANGED pump
      \/ \E i \in RunId : pump' = [pump EXCEPT ![l] = [stage |-> "claimed", run |-> i,
                                     token |-> FreshToken, work |-> runs[i].work]]
  BY Zenon DEF PumpClaims
<1>3. CASE UNCHANGED pump
  BY <1>1, <1>3, UnsentStays DEF FewerDown, FewerJobs
<1>4. CASE \E i \in RunId : pump' = [pump EXCEPT ![l] = [stage |-> "claimed", run |-> i,
                                     token |-> FreshToken, work |-> runs[i].work]]
  <2>1. /\ pump'[l].token = FreshToken
        /\ \A m \in Link : m # l => pump'[m] = pump[m]
    BY <1>4 DEF Typed, RoutesTyped
  <2>2. /\ \A i \in RunId : jobs[i].token # FreshToken
        /\ \A m \in Link : pump[m].token # FreshToken
        /\ \A m \in Link : \A f \in Range(down[m]) : f.type = "dispatch" => f.token # FreshToken
    BY <1>1, FreshIsFree DEF Working
  <2>. QED BY <1>1, <2>1, <2>2 DEF Unsent
<1>. QED BY <1>2, <1>3, <1>4

LEMMA UnsentPlaces ==
  ASSUME Typed, Unsent, NEW l \in Link, PumpPlaces(l)
  PROVE  Unsent'
<1>1. LinksTyped /\ RoutesTyped /\ pump[l] \in Round /\ pump[l].stage = "claimed"
  BY DEF Typed, RoutesTyped, PumpPlaces, NoPump
<1>2. UNCHANGED jobs
  BY DEF PumpPlaces, runner
<1>3. CASE PumpReturns(l)
  <2>1. UNCHANGED down /\ \A m \in Link : pump'[m].stage = "claimed" => pump'[m] = pump[m]
    BY <1>1, <1>3 DEF PumpReturns, RoutesTyped
  <2>. QED BY <1>2, <2>1, UnsentStays DEF FewerDown, FewerJobs
<1>4. CASE /\ pump' = [pump EXCEPT ![l] = NoPump]
           /\ Sent(l, [type |-> "dispatch", run |-> pump[l].run, token |-> pump[l].token,
                       work |-> pump[l].work])
  <2>. DEFINE frame == [type |-> "dispatch", run |-> pump[l].run, token |-> pump[l].token,
                        work |-> pump[l].work]
  <2>1. frame \in DownFrame /\ frame.token = pump[l].token
    BY <1>1 DEF Round, DownFrame
  <2>2. Sent(l, frame)
    BY <1>4
  <2>. HIDE DEF frame
  <2>3. \A m \in Link : Range(down'[m]) \subseteq Range(down[m]) \cup {frame}
    BY <1>1, <2>1, <2>2, Sending
  <2>4. \A m \in Link : pump'[m].stage = "claimed" => m # l /\ pump'[m] = pump[m]
    BY <1>1, <1>4 DEF RoutesTyped, NoPump
  <2>. QED BY <1>1, <1>2, <2>1, <2>3, <2>4, SMTT(30) DEF Unsent
<1>. QED BY <1>3, <1>4, Zenon DEF PumpPlaces

LEMMA UnsentHear ==
  ASSUME Typed, Unsent, Hear
  PROVE  Unsent'
<1>1. LinksTyped /\ RunnerTyped
  BY DEF Typed
<1>. DEFINE f == Head(down[sink])
<1>2. sink \in Link /\ down[sink] \in Seq(DownFrame) /\ down[sink] # <<>>
  BY <1>1 DEF Hear, LinksTyped, RunnerTyped
<1>3. f \in Range(down[sink]) /\ Range(Tail(down[sink])) \subseteq Range(down[sink])
  BY <1>2, Sequences
<1>4. down' = [down EXCEPT ![sink] = Tail(@)] /\ UNCHANGED pump
  BY DEF Hear, routes
<1>5. \/ \A i \in RunId : jobs'[i] = NoJob \/ jobs'[i] = jobs[i]
      \/ f.type = "dispatch" /\ jobs' = [jobs EXCEPT ![f.run] = [token |-> f.token, work |-> f.work]]
  <2>1. CASE jobs' = [i \in RunId |-> IF i \in f.cancelled THEN NoJob ELSE jobs[i]]
    BY <2>1
  <2>2. CASE jobs' = [jobs EXCEPT ![f.run] = NoJob]
    BY <1>1, <2>2 DEF RunnerTyped
  <2>3. CASE UNCHANGED jobs
    BY <2>3
  <2>. QED BY <2>1, <2>2, <2>3, Zenon DEF Hear
<1>6. \A m \in Link : Range(down'[m]) \subseteq Range(down[m])
  BY <1>1, <1>3, <1>4 DEF LinksTyped
<1>7. CASE \A i \in RunId : jobs'[i] = NoJob \/ jobs'[i] = jobs[i]
  BY <1>4, <1>6, <1>7, UnsentStays DEF FewerDown, FewerJobs
<1>8. CASE f.type = "dispatch" /\ jobs' = [jobs EXCEPT ![f.run] = [token |-> f.token, work |-> f.work]]
  <2>. HIDE DEF f
  <2>1. \A i \in RunId : jobs'[i] = jobs[i] \/ jobs'[i].token = f.token
    BY <1>1, <1>8 DEF RunnerTyped
  <2>. QED BY <1>2, <1>3, <1>4, <1>6, <1>8, <2>1 DEF Unsent
<1>. QED BY <1>5, <1>7, <1>8

(* Only a round sends a dispatch, and only one that is heard starts a job. *)
LEMMA FewerSaid ==
  ASSUME Typed, [Next]_vars, ~Hear, \A l \in Link : ~PumpPlaces(l)
  PROVE  FewerDown /\ FewerJobs
<1>1. LinksTyped /\ RoutesTyped /\ SlotsTyped /\ TasksTyped /\ RunnerTyped
  BY DEF Typed
<1>2. ASSUME UNCHANGED <<down, jobs>> PROVE FewerDown /\ FewerJobs
  BY <1>2 DEF FewerDown, FewerJobs
<1>3. ASSUME UNCHANGED jobs, FewerDown PROVE FewerDown /\ FewerJobs
  BY <1>3 DEF FewerJobs
<1>4. current # NoLink => current \in Link
  BY <1>1 DEF RoutesTyped
<1>5. ASSUME NEW l \in Link, AttachBegins(l) PROVE FewerDown /\ FewerJobs
  <2>1. UNCHANGED jobs /\ (UNCHANGED down \/ down' = [down EXCEPT ![current] = <<>>])
    BY <1>5, Zenon DEF AttachBegins, runner
  <2>2. Range(<<>>) = {}
    BY DEF Range
  <2>. QED BY <1>1, <1>2, <1>3, <2>1, <2>2 DEF FewerDown, LinksTyped
<1>6. ASSUME NEW l \in Link, AttachInstalls(l) PROVE FewerDown /\ FewerJobs
  <2>. DEFINE f == [type |-> "welcome", cancelled |-> hello[l].cancelled]
  <2>1. UNCHANGED jobs /\ (UNCHANGED down \/ Sent(l, f))
    BY <1>6, Zenon DEF AttachInstalls, runner
  <2>2. f \in DownFrame /\ ~Working(f)
    BY <1>1 DEF DownFrame, RoutesTyped, Hello, Working
  <2>. HIDE DEF f
  <2>3. FewerDown
    BY <1>1, <2>1, <2>2, Sending DEF FewerDown
  <2>. QED BY <1>3, <2>1, <2>3
<1>7. ASSUME NEW l \in Link, NEW a, a.run \in RunId, Release(l, a) PROVE FewerDown
  BY <1>1, <1>7, Releasing DEF FewerDown
<1>8. ASSUME NEW l \in Link, TakeProgress(l) PROVE FewerDown /\ FewerJobs
  <2>1. UNCHANGED jobs /\ up[l] # <<>> /\ Head(up[l]).type = "progress"
        /\ (UNCHANGED down \/ (current # NoLink /\ Release(current, Head(up[l]))))
    BY <1>8, Zenon DEF TakeProgress, routes, runner
  <2>2. Head(up[l]) \in UpFrame
    BY <1>1, <2>1, Sequences DEF LinksTyped
  <2>3. Head(up[l]).run \in RunId
    BY <2>1, <2>2, FramesByType
  <2>. QED BY <1>2, <1>3, <1>4, <1>7, <2>1, <2>3
<1>9. ASSUME NEW i \in RunId, Cancelled(i) PROVE FewerDown /\ FewerJobs
  <2>. DEFINE a == [run |-> i, token |-> held[current][i]]
  <2>1. UNCHANGED jobs /\ (UNCHANGED down \/ (current # NoLink /\ Release(current, a)))
        /\ a.run \in RunId
    BY <1>9 DEF Cancelled, routes, runner
  <2>. HIDE DEF a
  <2>. QED BY <1>2, <1>3, <1>4, <1>7, <2>1
<1>10. ASSUME NEW r \in releases, SweepReleases(r) PROVE FewerDown /\ FewerJobs
  <2>. DEFINE a == [run |-> r.run, token |-> r.token]
  <2>1. UNCHANGED jobs /\ Release(r.link, a) /\ a.run \in RunId /\ r.link \in Link
    BY <1>1, <1>10 DEF SweepReleases, routes, runner, TasksTyped
  <2>. HIDE DEF a
  <2>. QED BY <1>3, <1>7, <2>1
<1>11. ASSUME NEW a \in preempts, Preempted(a) PROVE FewerDown /\ FewerJobs
  <2>. DEFINE f == [type |-> "cancel", run |-> a.run]
  <2>1. UNCHANGED jobs /\ (UNCHANGED down \/ (current # NoLink /\ Sent(current, f)))
    BY <1>11 DEF Preempted, routes, runner
  <2>2. f \in DownFrame /\ ~Working(f)
    BY <1>1, <1>11 DEF DownFrame, TasksTyped, Attempt, Working
  <2>. HIDE DEF f
  <2>. QED BY <1>1, <1>2, <1>3, <1>4, <2>1, <2>2, Sending DEF FewerDown
<1>12. ASSUME NEW l \in Link, BeatDetaches(l) \/ LinkBreaks(l) PROVE FewerDown /\ FewerJobs
  <2>1. UNCHANGED jobs /\ (Cut(l) \/ UNCHANGED down)
    BY <1>12 DEF BeatDetaches, LinkBreaks, routes, runner, network
  <2>. QED BY <1>1, <1>2, <1>3, <2>1, Cutting DEF FewerDown
<1>14. ASSUME NEW i \in RunId, NEW ends \in Ends, JobEnds(i, ends) PROVE FewerDown /\ FewerJobs
  <2>1. UNCHANGED down /\ FewerJobs
    BY <1>1, <1>14 DEF JobEnds, RunnerTyped, FewerJobs
  <2>. QED BY <2>1 DEF FewerDown
<1>15. ASSUME Restart PROVE FewerDown /\ FewerJobs
  BY <1>15 DEF Restart, FewerDown, FewerJobs, Range, runner
<1>16. ASSUME NEW l \in Link,
              \/ AttachQueues(l) \/ AttachReconciles(l) \/ TakeAnswer(l) \/ Answered(l)
              \/ RouteEnds(l) \/ HandBackQueues(l) \/ HandBack(l) \/ HandedBack(l) \/ Dial(l)
              \/ PumpClaims(l) \/ PumpReturned(l)
       PROVE  UNCHANGED <<down, jobs>>
  BY <1>16 DEF AttachQueues, AttachReconciles, TakeAnswer, Answered, RouteEnds, HandBackQueues,
     HandBack, HandedBack, Dial, PumpClaims, PumpReturned, network, runner
<1>17. ASSUME NEW c \in db, CallRuns(c) \/ CallReads(c) \/ CallWrites(c)
       PROVE  UNCHANGED <<down, jobs>>
  BY <1>17 DEF CallRuns, CallReads, CallWrites, network, routes, runner
<1>18. ASSUME NEW i \in RunId, CancelRun(i) \/ Report(i) \/ GoQuiet(i)
       PROVE  UNCHANGED <<down, jobs>>
  BY <1>18 DEF CancelRun, Report, GoQuiet, network, routes, runner
<1>19. ASSUME (\E host \in AskedHosts : Ask(host)) \/ Sweep \/ ReserveSlot \/ ReleaseSlot
              \/ HangUp \/ UNCHANGED vars
       PROVE  UNCHANGED <<down, jobs>>
  BY <1>19 DEF Ask, Sweep, ReserveSlot, ReleaseSlot, HangUp, vars, network, routes, runner
<1>. QED
  <2>1. CASE \E l \in Link : Route(l) \/ HandsBack(l) \/ PumpClaims(l) \/ PumpGoesOn(l)
    BY <1>2, <1>5, <1>6, <1>8, <1>16, <2>1 DEF Route, HandsBack, PumpGoesOn
  <2>2. CASE \E l \in Link : BeatDetaches(l) \/ LinkBreaks(l) \/ Dial(l)
    BY <1>2, <1>12, <1>16, <2>2
  <2>3. CASE \E c \in db : CallRuns(c) \/ CallReads(c) \/ CallWrites(c)
    BY <1>2, <1>17, <2>3
  <2>4. CASE \E i \in RunId : CancelRun(i) \/ Cancelled(i) \/ Report(i) \/ GoQuiet(i)
    BY <1>2, <1>9, <1>18, <2>4
  <2>. QED
    BY <1>2, <1>10, <1>11, <1>14, <1>15, <1>19, <2>1, <2>2, <2>3, <2>4, Zenon DEF Next

LEMMA UnsentRest ==
  ASSUME Typed, Unsent, [Next]_vars, ~Hear,
         \A l \in Link : ~PumpClaims(l) /\ ~PumpPlaces(l)
  PROVE  Unsent'
<1>1. CASE Restart
  BY <1>1 DEF Restart, Unsent, NoPump
<1>2. CASE ~Restart
  <2>1. \A l \in Link : pump'[l].stage = "claimed" => pump'[l] = pump[l]
    BY <1>2, Loop
  <2>. QED BY <2>1, FewerSaid, UnsentStays
<1>. QED BY <1>1, <1>2

LEMMA UnsentStep == Typed /\ Unsent /\ [Next]_vars => Unsent'
BY UnsentClaim, UnsentPlaces, UnsentHear, UnsentRest

-----------------------------------------------------------------------------

(* A slot is emptied, a job ends, a line loses all there was or says only  *)
(* what is no cancel: what trailed a cancel still does.                    *)
Quiet(line) == \A k \in 1 .. Len(line) : line[k].type # "cancel"

LEMMA TrailKept ==
  ASSUME Typed, CancelsTrail, FewerJobs,
         \A l \in Link : \/ Quiet(down'[l])
                         \/ /\ down'[l] = down[l]
                            /\ \A i \in RunId : held'[l][i] \in {NoToken, held[l][i]}
  PROVE  CancelsTrail'
<1>. SUFFICES ASSUME NEW l \in Link, NEW k \in 1 .. Len(down'[l]), down'[l][k].type = "cancel"
              PROVE  Trails(held'[l], jobs', down'[l], k)
  BY DEF CancelsTrail, Trails
<1>1. /\ down'[l] = down[l] /\ k \in 1 .. Len(down[l])
      /\ \A i \in RunId : held'[l][i] \in {NoToken, held[l][i]}
  BY DEF Quiet
<1>2. Trails(held[l], jobs, down[l], k)
  BY <1>1 DEF CancelsTrail
<1>3. down[l] \in Seq(DownFrame)
  BY DEF Typed, LinksTyped
<1>4. down[l][k] \in DownFrame
  BY <1>1, <1>3
<1>5. down[l][k].run \in RunId
  BY <1>1, <1>4, FramesByType
<1>. DEFINE i == down[l][k].run
<1>6. held[l][i] \in Token \cup {NoToken}
  BY <1>5 DEF Typed, SlotsTyped
<1>7. i \in RunId /\ down'[l][k].run = i
  BY <1>1, <1>5
<1>8. CASE held'[l][i] = NoToken
  BY <1>1, <1>8 DEF Trails
<1>9. CASE held'[l][i] # NoToken
  <2>1. held'[l][i] = held[l][i]
    BY <1>1, <1>7, <1>9
  <2>2. jobs'[i].token # held[l][i]
    <3>1. jobs[i].token # held[l][i]
      BY <1>1, <1>2, <1>9, <2>1 DEF Trails
    <3>. QED BY <1>7, <1>9, <2>1, <3>1 DEF FewerJobs, NoJob
  <2>. QED BY <1>1, <1>2, <1>9, <2>1, <2>2 DEF Trails
<1>. QED BY <1>8, <1>9

(* A frame more on one link: those in front of it stand where they stood.  *)
LEMMA Behind ==
  ASSUME NEW S, NEW s \in Seq(S), NEW f
  PROVE  /\ Len(Append(s, f)) = Len(s) + 1 /\ Append(s, f)[Len(s) + 1] = f
         /\ \A k \in 1 .. Len(s) : Append(s, f)[k] = s[k]
OBVIOUS

LEMMA TrailReleased ==
  ASSUME Typed, OneLink, CancelsTrail, FewerJobs, NEW l \in Link, NEW a, a.run \in RunId,
         Release(l, a), l = current \/ wire[l] = "broken"
  PROVE  CancelsTrail'
<1>1. LinksTyped /\ SlotsTyped
  BY DEF Typed
<1>2. CASE UNCHANGED <<held, down>>
  BY <1>2, TrailKept
<1>3. CASE /\ held[l][a.run] \in {NoToken, a.token}
           /\ held' = Forgotten(a) /\ Sent(l, [type |-> "cancel", run |-> a.run])
  <2>. DEFINE f == [type |-> "cancel", run |-> a.run]
  <2>1. \A m \in Link : \A i \in RunId : held'[m][i] \in {NoToken, held[m][i]}
    BY <1>1, <1>3 DEF Forgotten, SlotsTyped
  <2>2. CASE wire[l] # "up"
    <3>1. UNCHANGED down
      BY <1>3, <2>2 DEF Sent
    <3>. QED BY <2>1, <3>1, TrailKept
  <2>3. CASE wire[l] = "up"
    <3>1. l = current /\ l # NoLink
      BY <2>3 DEF Link, NoLink
    <3>2. held'[l][a.run] = NoToken
      BY <1>1, <1>3, <3>1 DEF Forgotten, SlotsTyped
    <3>3. down'[l] = Append(down[l], f) /\ \A m \in Link : m # l => down'[m] = down[m]
      BY <1>1, <1>3, <2>3 DEF Sent, LinksTyped
    <3>4. \A m \in Link : m # l => down[m] = <<>>
      BY <3>1 DEF OneLink
    <3>5. down[l] \in Seq(DownFrame) /\ Len(down[l]) \in Nat
      BY <1>1 DEF LinksTyped
    <3>6. ASSUME NEW k \in 1 .. Len(down'[l]), down'[l][k].type = "cancel"
          PROVE  Trails(held'[l], jobs', down'[l], k)
      <4>. HIDE DEF f
      <4>1. CASE k = Len(down[l]) + 1
        <5>1. down'[l][k] = f
          BY <3>3, <3>5, <4>1, Behind
        <5>2. down'[l][k].run = a.run
          BY <5>1 DEF f
        <5>. QED BY <3>2, <5>2 DEF Trails
      <4>2. CASE k # Len(down[l]) + 1
        <5>1. k \in 1 .. Len(down[l])
          BY <3>3, <3>5, <4>2, Behind
        <5>2. \A n \in 1 .. k : n \in 1 .. Len(down[l]) /\ down'[l][n] = down[l][n]
          BY <3>3, <3>5, <5>1, Behind
        <5>3. Trails(held[l], jobs, down[l], k)
          BY <5>1 DEF CancelsTrail
        <5>4. down'[l][k] = down[l][k] /\ down[l][k] \in DownFrame
          BY <3>5, <5>1, <5>2
        <5>5. down[l][k].run \in RunId
          BY <3>6, <5>4, FramesByType
        <5>. DEFINE i == down[l][k].run
        <5>6. CASE held'[l][i] = NoToken
          BY <5>4, <5>6 DEF Trails
        <5>7. CASE held'[l][i] # NoToken
          <6>1. held'[l][i] = held[l][i]
            BY <2>1, <5>5, <5>7
          <6>2. jobs'[i].token # held[l][i]
            BY <3>6, <5>3, <5>4, <5>5, <5>7, <6>1 DEF Trails, FewerJobs, NoJob
          <6>. QED BY <3>6, <5>2, <5>3, <5>4, <5>7, <6>1, <6>2 DEF Trails
        <5>. QED BY <5>6, <5>7
      <4>. QED BY <4>1, <4>2
    <3>7. ASSUME NEW m \in Link, m # l, NEW k \in 1 .. Len(down'[m])
          PROVE  Trails(held'[m], jobs', down'[m], k)
      BY <3>3, <3>4, <3>7
    <3>8. ASSUME NEW k \in 1 .. Len(down'[l]) PROVE Trails(held'[l], jobs', down'[l], k)
      BY <3>6, <3>8 DEF Trails
    <3>. QED BY <3>7, <3>8 DEF CancelsTrail
  <2>. QED BY <2>2, <2>3
<1>. QED BY <1>2, <1>3, Zenon DEF Release

LEMMA TrailPlaces ==
  ASSUME Typed, OneLink, Unsent, CancelsTrail, NEW l \in Link, PumpPlaces(l)
  PROVE  CancelsTrail'
<1>1. LinksTyped /\ RoutesTyped /\ SlotsTyped /\ pump[l] \in Round /\ pump[l].stage = "claimed"
  BY DEF Typed, RoutesTyped, PumpPlaces, NoPump
<1>2. UNCHANGED <<jobs, wire>> /\ FewerJobs
  BY DEF PumpPlaces, runner, FewerJobs
<1>3. CASE PumpReturns(l)
  BY <1>2, <1>3, TrailKept DEF PumpReturns
<1>4. CASE /\ current = l
           /\ held' = [held EXCEPT ![l][pump[l].run] = pump[l].token]
           /\ Sent(l, [type |-> "dispatch", run |-> pump[l].run, token |-> pump[l].token,
                       work |-> pump[l].work])
  <2>. DEFINE f == [type |-> "dispatch", run |-> pump[l].run, token |-> pump[l].token,
                    work |-> pump[l].work]
              t == pump[l].token
  <2>1. /\ \A i \in RunId : held'[l][i] \in {t, held[l][i]}
        /\ t \in Token /\ f.type = "dispatch"
    BY <1>1, <1>4 DEF SlotsTyped, Round
  <2>2. \A m \in Link : m # l => down'[m] = down[m] /\ down[m] = <<>>
    BY <1>1, <1>4 DEF Sent, LinksTyped, OneLink
  <2>3. down[l] \in Seq(DownFrame) /\ Len(down[l]) \in Nat
    BY <1>1 DEF LinksTyped
  <2>4. down'[l] = down[l] \/ down'[l] = Append(down[l], f)
    BY <1>1, <1>4 DEF Sent, LinksTyped
  <2>. HIDE DEF f
  <2>5. ASSUME NEW k \in 1 .. Len(down'[l]), down'[l][k].type = "cancel"
        PROVE  Trails(held'[l], jobs', down'[l], k)
    <3>1. k \in 1 .. Len(down[l])
      <4>1. CASE down'[l] = down[l]
        BY <4>1
      <4>2. CASE down'[l] = Append(down[l], f)
        <5>1. Len(down'[l]) = Len(down[l]) + 1 /\ down'[l][Len(down[l]) + 1] = f
          BY <2>3, <4>2, Behind
        <5>2. k # Len(down[l]) + 1
          BY <2>1, <2>5, <5>1
        <5>. QED BY <2>3, <5>1, <5>2
      <4>. QED BY <2>4, <4>1, <4>2
    <3>2. \A n \in 1 .. k : n \in 1 .. Len(down[l]) /\ down'[l][n] = down[l][n]
      <4>1. \A n \in 1 .. k : n \in 1 .. Len(down[l])
        BY <2>3, <3>1
      <4>. QED BY <2>3, <2>4, <4>1, Behind
    <3>3. Trails(held[l], jobs, down[l], k)
      BY <3>1 DEF CancelsTrail
    <3>4. down'[l][k] = down[l][k] /\ down[l][k] \in DownFrame
      BY <2>3, <3>1, <3>2
    <3>5. down[l][k].run \in RunId
      BY <2>5, <3>4, FramesByType
    <3>. DEFINE i == down[l][k].run
    <3>6. CASE held'[l][i] = t
      <4>1. jobs[i].token # t
        BY <1>1, <3>5 DEF Unsent
      <4>2. ASSUME NEW n \in 1 .. k - 1, down'[l][n].type = "dispatch" PROVE down'[l][n].token # t
        <5>1. n \in 1 .. k
          BY <3>1
        <5>2. down[l][n] \in Range(down[l]) /\ down'[l][n] = down[l][n]
          BY <2>3, <3>2, <5>1 DEF Range
        <5>. QED BY <1>1, <4>2, <5>2 DEF Unsent
      <4>. QED BY <1>2, <3>4, <3>6, <4>1, <4>2 DEF Trails
    <3>7. CASE held'[l][i] = held[l][i]
      <4>1. \A n \in 1 .. k - 1 : down'[l][n] = down[l][n]
        BY <3>1, <3>2
      <4>. HIDE DEF i
      <4>2. down[l][k].run = i /\ down'[l][k].run = i
        BY <3>4 DEF i
      <4>. QED BY <1>2, <2>5, <3>3, <3>4, <3>7, <4>1, <4>2 DEF Trails
    <3>. QED BY <2>1, <3>5, <3>6, <3>7
  <2>6. ASSUME NEW m \in Link, m # l, NEW k \in 1 .. Len(down'[m])
        PROVE  Trails(held'[m], jobs', down'[m], k)
    BY <2>2, <2>6
  <2>7. ASSUME NEW k \in 1 .. Len(down'[l]) PROVE Trails(held'[l], jobs', down'[l], k)
    BY <2>5, <2>7 DEF Trails
  <2>. QED BY <2>6, <2>7 DEF CancelsTrail
<1>. QED BY <1>3, <1>4, Zenon DEF PumpPlaces

LEMMA TrailHear ==
  ASSUME Typed, OneLink, CancelsTrail, Hear
  PROVE  CancelsTrail'
<1>1. LinksTyped /\ RunnerTyped /\ SlotsTyped
  BY DEF Typed
<1>. DEFINE s == down[sink]
            f == Head(s)
<1>2. sink \in Link /\ s \in Seq(DownFrame) /\ s # <<>>
  BY <1>1 DEF Hear, LinksTyped, RunnerTyped
<1>3. f = s[1] /\ f \in DownFrame
  BY <1>2
<1>4. down'[sink] = Tail(s) /\ UNCHANGED held
  BY <1>1, <1>2 DEF Hear, LinksTyped, state
<1>5. \A m \in Link : m # sink => down'[m] = down[m] /\ down[m] = <<>>
  BY <1>1, <1>2 DEF Hear, LinksTyped, OneLink
<1>6. \A i \in RunId :
        \/ jobs'[i] = NoJob \/ jobs'[i] = jobs[i]
        \/ f.type = "dispatch" /\ f.run = i /\ jobs'[i].token = f.token
  <2>1. CASE jobs' = [i \in RunId |-> IF i \in f.cancelled THEN NoJob ELSE jobs[i]]
    BY <2>1
  <2>2. CASE jobs' = [jobs EXCEPT ![f.run] = NoJob]
    BY <1>1, <2>2 DEF RunnerTyped
  <2>3. CASE UNCHANGED jobs
    BY <2>3
  <2>4. CASE f.type = "dispatch" /\ jobs' = [jobs EXCEPT ![f.run] = [token |-> f.token, work |-> f.work]]
    BY <1>1, <2>4 DEF RunnerTyped
  <2>. QED BY <2>1, <2>2, <2>3, <2>4, Zenon DEF Hear
<1>. HIDE DEF f
<1>7. ASSUME NEW k \in 1 .. Len(down'[sink]), down'[sink][k].type = "cancel",
             held'[sink][down'[sink][k].run] # NoToken
      PROVE  Trails(held'[sink], jobs', down'[sink], k)
  <2>1. Len(Tail(s)) = Len(s) - 1 /\ Len(s) \in Nat
    BY <1>2
  <2>2. k \in Nat /\ k + 1 \in 2 .. Len(s) /\ \A n \in 1 .. k : down'[sink][n] = s[n + 1]
    BY <1>2, <1>4, <2>1
  <2>3. Trails(held[sink], jobs, s, k + 1)
    BY <1>2, <2>2 DEF CancelsTrail
  <2>4. down'[sink][k] = s[k + 1] /\ s[k + 1] \in DownFrame
    BY <1>2, <2>2
  <2>5. s[k + 1].run \in RunId
    BY <1>7, <2>4, FramesByType
  <2>. DEFINE i == s[k + 1].run
              t == held[sink][i]
  <2>6. /\ t # NoToken /\ jobs[i].token # t
        /\ \A n \in 1 .. k : s[n].type = "dispatch" /\ s[n].run = i => s[n].token # t
    <3>1. t # NoToken /\ s[k + 1].type = "cancel"
      BY <1>4, <1>7, <2>4
    <3>2. \A n \in 1 .. k : n \in 1 .. (k + 1) - 1
      BY <2>2
    <3>. QED BY <2>3, <3>1, <3>2 DEF Trails
  <2>. HIDE DEF s
  <2>7. jobs'[i].token # t
    <3>1. 1 \in 1 .. k
      BY <2>2
    <3>2. f.type = "dispatch" /\ f.run = i => f.token # t
      BY <1>3, <2>6, <3>1
    <3>. HIDE DEF i, t
    <3>3. i \in RunId
      BY <2>5 DEF i
    <3>. QED BY <1>6, <2>6, <3>2, <3>3 DEF NoJob
  <2>8. ASSUME NEW n \in 1 .. k - 1, down'[sink][n].type = "dispatch", down'[sink][n].run = i
        PROVE  down'[sink][n].token # t
    <3>1. n \in 1 .. k /\ n + 1 \in 1 .. k
      BY <2>2
    <3>2. down'[sink][n] = s[n + 1]
      BY <2>2, <3>1
    <3>. HIDE DEF i, t
    <3>. QED BY <2>6, <2>8, <3>1, <3>2
  <2>. QED BY <1>4, <2>4, <2>7, <2>8 DEF Trails
<1>8. \A m \in Link : \A k \in 1 .. Len(down'[m]) : Trails(held'[m], jobs', down'[m], k)
  <2>1. ASSUME NEW k \in 1 .. Len(down'[sink]) PROVE Trails(held'[sink], jobs', down'[sink], k)
    BY <1>7, <2>1 DEF Trails
  <2>2. ASSUME NEW m \in Link, m # sink, NEW k \in 1 .. Len(down'[m])
        PROVE  Trails(held'[m], jobs', down'[m], k)
    BY <1>5, <2>2
  <2>. QED BY <2>1, <2>2
<1>. QED BY <1>8 DEF CancelsTrail

LEMMA TrailAttach ==
  ASSUME Alone, Typed, OneLink, CancelsTrail, NEW l \in Link, AttachBegins(l) \/ AttachInstalls(l)
  PROVE  CancelsTrail'
<1>1. LinksTyped /\ SlotsTyped /\ RoutesTyped /\ Quiet(<<>>)
  BY DEF Typed, Quiet
<1>2. FewerJobs
  BY DEF AttachBegins, AttachInstalls, runner, FewerJobs
<1>3. ASSUME AttachBegins(l) PROVE CancelsTrail'
  <2>1. CASE current = NoLink
    <3>1. UNCHANGED <<held, down>>
      BY <1>3, <2>1 DEF AttachBegins
    <3>. QED BY <1>2, <3>1, TrailKept
  <2>2. CASE current # NoLink
    <3>1. current \in Link /\ down' = [down EXCEPT ![current] = <<>>]
      BY <1>1, <1>3, <2>2 DEF AttachBegins, RoutesTyped
    <3>2. \A m \in Link : down'[m] = <<>>
      BY <1>1, <3>1 DEF LinksTyped, OneLink
    <3>. QED BY <1>1, <1>2, <3>2, TrailKept
  <2>. QED BY <2>1, <2>2
<1>4. ASSUME AttachInstalls(l) PROVE CancelsTrail'
  <2>1. serving[l] \in Attaching
    BY <1>4 DEF AttachInstalls, Attaching
  <2>2. \A m \in Link : down[m] = <<>>
    BY <2>1 DEF OneLink, NoLink, Link
  <2>. DEFINE f == [type |-> "welcome", cancelled |-> hello[l].cancelled]
  <2>3. UNCHANGED down \/ Sent(l, f)
    BY <1>4, Zenon DEF AttachInstalls
  <2>4. f.type # "cancel"
    OBVIOUS
  <2>. HIDE DEF f
  <2>5. \A m \in Link : down'[m] = <<>> \/ down'[m] = Append(<<>>, f)
    BY <1>1, <2>2, <2>3 DEF Sent, LinksTyped
  <2>6. Append(<<>>, f) = <<f>> /\ Quiet(<<f>>)
    BY <2>4 DEF Quiet
  <2>. QED BY <1>1, <1>2, <2>5, <2>6, TrailKept
<1>. QED BY <1>3, <1>4

LEMMA TrailRest ==
  ASSUME Typed, OneLink, CancelsTrail, [Next]_vars, ~Hear, ~ReserveSlot, preempts = {},
         \A l \in Link : ~PumpPlaces(l) /\ ~AttachBegins(l) /\ ~AttachInstalls(l)
  PROVE  CancelsTrail'
<1>1. LinksTyped /\ RoutesTyped /\ SlotsTyped /\ TasksTyped /\ RunnerTyped /\ Quiet(<<>>)
  BY DEF Typed, Quiet
<1>3. current # NoLink => current \in Link
  BY <1>1 DEF RoutesTyped
<1>4. ASSUME UNCHANGED <<down, jobs, held>> PROVE CancelsTrail'
  BY <1>4, TrailKept DEF FewerJobs
<1>5. ASSUME NEW l \in Link, TakeProgress(l) PROVE CancelsTrail'
  <2>1. UNCHANGED jobs /\ up[l] # <<>> /\ Head(up[l]).type = "progress"
        /\ (UNCHANGED <<down, held>> \/ (current # NoLink /\ Release(current, Head(up[l]))))
    BY <1>5, Zenon DEF TakeProgress, routes, runner
  <2>2. Head(up[l]) \in UpFrame
    BY <1>1, <2>1, Sequences DEF LinksTyped
  <2>3. Head(up[l]).run \in RunId
    BY <2>1, <2>2, FramesByType
  <2>. QED BY <1>3, <1>4, <2>1, <2>3, TrailReleased DEF FewerJobs
<1>6. ASSUME NEW i \in RunId, Cancelled(i) PROVE CancelsTrail'
  <2>. DEFINE a == [run |-> i, token |-> held[current][i]]
  <2>1. /\ UNCHANGED jobs /\ a.run \in RunId
        /\ (UNCHANGED <<down, held>> \/ (current # NoLink /\ Release(current, a)))
    BY <1>6 DEF Cancelled, routes, runner
  <2>. HIDE DEF a
  <2>. QED BY <1>3, <1>4, <2>1, TrailReleased DEF FewerJobs
<1>7. ASSUME NEW r \in releases, SweepReleases(r) PROVE CancelsTrail'
  <2>. DEFINE a == [run |-> r.run, token |-> r.token]
  <2>1. UNCHANGED jobs /\ Release(r.link, a) /\ a.run \in RunId /\ r.link \in Link
    BY <1>1, <1>7 DEF SweepReleases, routes, runner, TasksTyped
  <2>2. r.link = current \/ wire[r.link] = "broken"
    BY <2>1 DEF OneLink
  <2>. HIDE DEF a
  <2>. QED BY <2>1, <2>2, TrailReleased DEF FewerJobs
<1>8. ASSUME NEW l \in Link, BeatDetaches(l) \/ LinkBreaks(l) PROVE CancelsTrail'
  <2>1. UNCHANGED <<jobs, held>> /\ (Cut(l) \/ UNCHANGED down)
    BY <1>8 DEF BeatDetaches, LinkBreaks, routes, runner, network, state
  <2>2. \A m \in Link : down'[m] = down[m] \/ down'[m] = <<>>
    BY <1>1, <2>1 DEF Cut, LinksTyped
  <2>. QED BY <1>1, <2>1, <2>2, TrailKept DEF FewerJobs
<1>9. ASSUME NEW l \in Link, Answered(l) \/ HandedBack(l) PROVE CancelsTrail'
  <2>1. UNCHANGED <<jobs, down>> /\ (held' = Forgotten(socket[l]) \/ held' = [held EXCEPT ![l] = Free])
    BY <1>9 DEF Answered, HandedBack, network, runner
  <2>2. \A i \in RunId : Free[i] = NoToken
    BY DEF Free
  <2>3. CASE held' = [held EXCEPT ![l] = Free]
    <3>1. \A m \in Link : \A i \in RunId : held'[m][i] \in {NoToken, held[m][i]}
      BY <1>1, <2>2, <2>3 DEF SlotsTyped
    <3>. QED BY <2>1, <3>1, TrailKept DEF FewerJobs
  <2>4. CASE held' = Forgotten(socket[l])
    <3>1. \A m \in Link : \A i \in RunId : held'[m][i] \in {NoToken, held[m][i]}
      BY <1>1, <2>4 DEF Forgotten, SlotsTyped
    <3>. QED BY <2>1, <3>1, TrailKept DEF FewerJobs
  <2>. QED BY <2>1, <2>3, <2>4
<1>10. ASSUME NEW i \in RunId, NEW ends \in Ends, JobEnds(i, ends) PROVE CancelsTrail'
  <2>1. UNCHANGED <<down, held>> /\ FewerJobs
    BY <1>1, <1>10 DEF JobEnds, state, RunnerTyped, FewerJobs
  <2>. QED BY <2>1, TrailKept
<1>11. ASSUME Restart PROVE CancelsTrail'
  BY <1>1, <1>11, TrailKept DEF Restart, runner, FewerJobs
<1>12. ASSUME NEW l \in Link,
              \/ AttachQueues(l) \/ AttachReconciles(l) \/ TakeAnswer(l)
              \/ RouteEnds(l) \/ HandBackQueues(l) \/ HandBack(l) \/ Dial(l)
              \/ PumpClaims(l) \/ PumpReturned(l)
       PROVE  UNCHANGED <<down, jobs, held>>
  BY <1>12 DEF AttachQueues, AttachReconciles, TakeAnswer, RouteEnds, HandBackQueues,
     HandBack, Dial, PumpClaims, PumpReturned, network, state, runner
<1>13. ASSUME NEW c \in db, CallRuns(c) \/ CallReads(c) \/ CallWrites(c)
       PROVE  UNCHANGED <<down, jobs, held>>
  BY <1>13 DEF CallRuns, CallReads, CallWrites, network, state, runner
<1>14. ASSUME NEW i \in RunId, CancelRun(i) \/ Report(i) \/ GoQuiet(i)
       PROVE  UNCHANGED <<down, jobs, held>>
  BY <1>14 DEF CancelRun, Report, GoQuiet, network, state, runner
<1>15. ASSUME (\E host \in AskedHosts : Ask(host)) \/ Sweep \/ ReleaseSlot \/ HangUp \/ UNCHANGED vars
       PROVE  UNCHANGED <<down, jobs, held>>
  BY <1>15 DEF Ask, Sweep, ReleaseSlot, HangUp, vars, network, state, runner
<1>. QED
  <2>1. CASE \E l \in Link : Route(l) \/ HandsBack(l) \/ PumpClaims(l) \/ PumpGoesOn(l)
    BY <1>4, <1>5, <1>9, <1>12, <2>1 DEF Route, HandsBack, PumpGoesOn
  <2>2. CASE \E l \in Link : BeatDetaches(l) \/ LinkBreaks(l) \/ Dial(l)
    BY <1>4, <1>8, <1>12, <2>2
  <2>3. CASE \E c \in db : CallRuns(c) \/ CallReads(c) \/ CallWrites(c)
    BY <1>4, <1>13, <2>3
  <2>4. CASE \E i \in RunId : CancelRun(i) \/ Cancelled(i) \/ Report(i) \/ GoQuiet(i)
    BY <1>4, <1>6, <1>14, <2>4
  <2>. QED
    BY <1>4, <1>7, <1>10, <1>11, <1>15, <2>1, <2>2, <2>3, <2>4, Zenon DEF Next

Spared == Typed /\ LockHeld /\ OneLink /\ Unsent /\ CancelsTrail /\ preempts = {}

(* Where there are no boards nothing is preempted.                         *)
LEMMA NoPreempts ==
  ASSUME MaxBoards = 0, Typed, preempts = {}, [Next]_vars
  PROVE  ~ReserveSlot /\ preempts' = {}
<1>1. ~ReserveSlot
  <2>1. opened \in 0 .. MaxBoards
    BY DEF Typed, SlotsTyped
  <2>2. ~(opened < MaxBoards)
    BY <2>1, SMTT(30)
  <2>. QED BY <2>2 DEF ReserveSlot
<1>2. ASSUME NEW l \in Link, Route(l) \/ HandsBack(l) \/ PumpClaims(l) \/ PumpGoesOn(l)
      PROVE  UNCHANGED preempts
  BY <1>2 DEF Route, HandsBack, PumpGoesOn, AttachBegins, AttachQueues, AttachReconciles,
     AttachInstalls, TakeProgress, TakeAnswer, Answered, RouteEnds, HandBackQueues, HandBack,
     HandedBack, PumpClaims, PumpPlaces, PumpReturned, tasks
<1>3. ASSUME NEW l \in Link, BeatDetaches(l) \/ LinkBreaks(l) \/ Dial(l) PROVE UNCHANGED preempts
  BY <1>3 DEF BeatDetaches, LinkBreaks, Dial, tasks
<1>4. ASSUME NEW c \in db, CallRuns(c) \/ CallReads(c) \/ CallWrites(c) PROVE UNCHANGED preempts
  BY <1>4 DEF CallRuns, CallReads, CallWrites
<1>5. ASSUME NEW i \in RunId, CancelRun(i) \/ Cancelled(i) \/ Report(i) \/ GoQuiet(i)
      PROVE  UNCHANGED preempts
  BY <1>5 DEF CancelRun, Cancelled, Report, GoQuiet, tasks
<1>6. ASSUME \/ \E r \in releases : SweepReleases(r)
             \/ \E i \in RunId, ends \in Ends : JobEnds(i, ends)
             \/ \E host \in AskedHosts : Ask(host)
             \/ Sweep \/ ReleaseSlot \/ HangUp \/ Hear \/ UNCHANGED vars
      PROVE  UNCHANGED preempts
  BY <1>6 DEF SweepReleases, JobEnds, Ask, Sweep, ReleaseSlot, HangUp, Hear, vars, tasks
<1>7. Restart => preempts' = {}
  BY DEF Restart
<1>. QED BY <1>1, <1>2, <1>3, <1>4, <1>5, <1>6, <1>7, Zenon DEF Next

LEMMA SparedInit == Init => Spared
<1>. SUFFICES ASSUME Init PROVE Spared
  OBVIOUS
<1>1. Typed /\ LockHeld
  BY TypedInit, LockInit
<1>2. OneLink
  BY DEF Init, OneLink, Attaching
<1>3. Unsent /\ CancelsTrail
  BY DEF Init, Unsent, CancelsTrail, NoPump
<1>. QED BY <1>1, <1>2, <1>3 DEF Spared, Init

LEMMA SparedStep == Alone /\ MaxBoards = 0 /\ Spared /\ [Next]_vars => Spared'
<1>. SUFFICES ASSUME Alone, MaxBoards = 0, Spared, [Next]_vars PROVE Spared'
  OBVIOUS
<1>1. Typed' /\ LockHeld' /\ OneLink' /\ Unsent'
  BY TypedStep, LockStep, OneLinkStep, UnsentStep DEF Spared
<1>2. ~ReserveSlot /\ preempts' = {}
  BY NoPreempts DEF Spared
<1>3. CancelsTrail'
  BY <1>2, TrailHear, TrailPlaces, TrailAttach, TrailRest DEF Spared
<1>. QED BY <1>1, <1>2, <1>3 DEF Spared

(* The least of a set of places is one of them.                            *)
LEMMA FirstPlace ==
  ASSUME NEW n \in Nat, NEW I \in SUBSET (1 .. n), I # {}
  PROVE  Min(I) \in I
<1>. DEFINE R == {ss \in Nat \X Nat : ss[1] < ss[2]}
<1>1. IsWellFoundedOn(R, Nat)
  BY NatLessThanWellFounded DEF OpToRel
<1>2. PICK k \in I : \A i \in I : <<i, k>> \notin R
  <2>. HIDE DEF R
  <2>1. I \subseteq Nat
    OBVIOUS
  <2>. QED BY <1>1, <2>1, WFMin
<1>3. ASSUME NEW i \in I PROVE k <= i
  <2>1. i \in Nat /\ k \in Nat /\ <<i, k>> \notin R
    BY <1>2
  <2>. QED BY <2>1
<1>. QED BY <1>2, <1>3 DEF Min

LEMMA SparedSpares == Spared => CancelSparesHeld
<1>. SUFFICES ASSUME Spared, NEW l \in Link, NEW k \in 1 .. Len(down[l]),
                     down[l][k].type = "cancel", held[l][down[l][k].run] # NoToken
              PROVE  JobAt(l, down[l][k].run, k) # held[l][down[l][k].run]
  BY DEF CancelSparesHeld
<1>. DEFINE i == down[l][k].run
            sent == {n \in 1 .. k - 1 : down[l][n].type = "dispatch" /\ down[l][n].run = i}
<1>1. Trails(held[l], jobs, down[l], k)
  BY DEF Spared, CancelsTrail
<1>2. /\ jobs[i].token # held[l][i]
      /\ \A n \in sent : down[l][n].token # held[l][i]
  BY <1>1 DEF Trails
<1>3. sent # {} => Min(sent) \in sent
  <2>1. k - 1 \in Nat /\ sent \in SUBSET (1 .. k - 1)
    OBVIOUS
  <2>. HIDE DEF sent
  <2>. QED BY <2>1, FirstPlace
<1>. QED BY <1>2, <1>3 DEF JobAt

(* A cancel names a run and no attempt; still it stops no attempt that has *)
(* the run's slot, however late an answer, a sweep or a word of progress   *)
(* sends it, over whichever link, and whatever claims the run meanwhile.   *)
(* Left out is what is not so: a board that preempts, whose cancel leaves  *)
(* after its run may be back, and attaches that meet, which bring an older *)
(* link into the place of a newer one that carries frames.                 *)
THEOREM CancelsSpareTheHeld ==
  ASSUME MaxBoards = 0, "overlap" \notin Faults
  PROVE  Spec => []CancelSparesHeld
<1>1. Init => Spared
  BY SparedInit
<1>2. Spared /\ [Next]_vars => Spared'
  BY SparedStep DEF Alone
<1>3. Spared => CancelSparesHeld
  BY SparedSpares
<1>. QED BY <1>1, <1>2, <1>3, PTL DEF Spec

-----------------------------------------------------------------------------
(* Nothing is dropped.  While the process lives, attaches do not meet and  *)
(* no id comes again, whoever takes an attempt off a slot has it ended,    *)
(* has asked the database to hand it back, or passes it on.                *)

Steady == {"overlap", "restart", "reuse"} \cap Faults = {}

Over(i, t) == ~Holds(runs[i], t)
Called(i, t) == \E c \in db : c.run = i /\ c.token = t

(* An attach has heard and decided something, a hand-back is under way and *)
(* a round claims only in its link's time.                                 *)
InOrder ==
  \A l \in Link :
    /\ serving[l] \notin Attaching => hello[l] = NoHello
    /\ serving[l] # "reconciling" => hello[l].resumed = Free
    /\ handing[l] # "no" => serving[l] \in {"serving", "gone"} /\ l # current
    /\ pump[l].stage # "off" => serving[l] \in {"serving", "gone"}

RunningIsNamed == \A i \in RunId : runs[i].status = "running" => runs[i].token \in Token

CancelsEnd == \A i \in told : runs[i].status = "absent"
SweepsEnd == \A r \in releases : Over(r.run, r.token)
AnswersEnd ==
  \A l \in Link : socket[l] # Idle =>
    \/ Over(socket[l].run, socket[l].token)
    \/ \E c \in db : c.by = <<"socket", l>> /\ c.run = socket[l].run /\ c.token = socket[l].token

(* What an attach has decided under the lock: all it inherited is resumed, *)
(* or on its way back; what it resumes is on no slot under another token   *)
(* that still runs.                                                        *)
Settled ==
  \A l \in Link : serving[l] = "reconciling" =>
    /\ \A a \in hello[l].known :
         Over(a.run, a.token) \/ hello[l].resumed[a.run] = a.token \/ Called(a.run, a.token)
    /\ \A m \in Link, i \in RunId : hello[l].resumed[i] # NoToken /\ held[m][i] # NoToken =>
         hello[l].resumed[i] = held[m][i] \/ Over(i, held[m][i])

(* Nor is what the runner's link holds, or is about to.                    *)
OneHolder ==
  current # NoLink =>
    /\ \A l \in Link, i \in RunId : held[current][i] # NoToken /\ held[l][i] # NoToken =>
         held[l][i] = held[current][i] \/ Over(i, held[l][i])
    /\ pump[current].stage = "claimed" =>
         \A l \in Link : held[l][pump[current].run] # NoToken =>
           Over(pump[current].run, held[l][pump[current].run])

Kept == InOrder /\ RunningIsNamed /\ CancelsEnd /\ SweepsEnd /\ AnswersEnd /\ Settled /\ OneHolder

-----------------------------------------------------------------------------
(* The table: only a claim has a run under a token it did not run under.   *)

Lasting == \A i \in RunId : \A t : Holds(runs'[i], t) => Holds(runs[i], t)
StaysAbsent == \A i \in RunId : runs[i].status = "absent" => runs'[i].status = "absent"

LEMMA WrittenIsOver ==
  ASSUME NEW row \in Row, NEW seen \in Row, NEW c \in CallType
  PROVE  /\ Written(row, seen, c).token = row.token
         /\ Written(row, seen, c).status = "running" => row.status = "running"
         /\ seen.status = "running" => Written(row, seen, c).status # "running"
<1>1. c.op \in {"complete", "retry", "fatal", "abandon"}
  BY DEF CallType, Ends
<1>2. CASE c.op = "complete"
  BY <1>2 DEF Written, Completed, Assigned, Row
<1>3. CASE c.op = "retry"
  BY <1>3 DEF Written, FailedRow, Assigned, Row
<1>4. CASE c.op = "fatal"
  BY <1>4 DEF Written, FailedRow, Assigned, Row
<1>5. CASE c.op = "abandon"
  BY <1>5 DEF Written, Abandoned, Assigned, Row
<1>. QED BY <1>1, <1>2, <1>3, <1>4, <1>5

LEMMA SweptRow ==
  ASSUME NEW row \in Row
  PROVE  Collected(row).status \in {"queued", "failed"}
BY DEF Collected, Row

LEMMA CallsLast ==
  ASSUME Inv, NEW c \in db, CallRuns(c) \/ CallReads(c) \/ CallWrites(c)
  PROVE  /\ Lasting /\ StaysAbsent
         /\ \A d \in db : \/ \E e \in db' : e.by = d.by /\ e.run = d.run /\ e.token = d.token
                          \/ ~Holds(runs'[d.run], d.token)
<1>1. runs \in [RunId -> Row] /\ c \in CallType /\ c.run \in RunId /\ c.seen \in Row
  BY TypedTable DEF Inv, Typed, TasksTyped, CallType
<1>2. c.seen # Absent => c.seen.status = "running"
  BY DEF Inv, Sound, WordsTrue, ReadsTrue
<1>3. \A d \in db \ {c} : d \in db'
  BY DEF CallRuns, CallReads, CallWrites
<1>4. CASE CallRuns(c)
  <2>1. CASE Holds(runs[c.run], c.token)
    <3>1. runs' = [runs EXCEPT ![c.run] = Written(@, @, c)]
      BY <1>4, <2>1 DEF CallRuns
    <3>2. runs[c.run] \in Row /\ runs[c.run].status = "running"
      BY <1>1, <2>1 DEF Holds
    <3>. DEFINE row == Written(runs[c.run], runs[c.run], c)
    <3>3. row.status # "running"
      BY <1>1, <3>2, WrittenIsOver
    <3>. HIDE DEF row
    <3>4. \A i \in RunId : runs'[i] = IF i = c.run THEN row ELSE runs[i]
      BY <1>1, <3>1 DEF row
    <3>. QED BY <1>1, <1>3, <3>2, <3>3, <3>4 DEF Lasting, StaysAbsent, Holds
  <2>2. CASE ~Holds(runs[c.run], c.token)
    <3>1. UNCHANGED runs
      BY <1>4, <2>2 DEF CallRuns
    <3>. QED BY <1>3, <2>2, <3>1 DEF Lasting, StaysAbsent
  <2>. QED BY <2>1, <2>2
<1>5. CASE CallReads(c)
  <2>1. UNCHANGED runs
    BY <1>5 DEF CallReads
  <2>2. CASE Holds(runs[c.run], c.token)
    <3>. DEFINE e == [c EXCEPT !.seen = runs[c.run]]
    <3>1. e \in db' /\ e.by = c.by /\ e.run = c.run /\ e.token = c.token
      BY <1>1, <1>5, <2>2 DEF CallReads, CallType
    <3>. HIDE DEF e
    <3>. QED BY <1>3, <2>1, <3>1 DEF Lasting, StaysAbsent
  <2>3. CASE ~Holds(runs[c.run], c.token)
    BY <1>3, <2>1, <2>3 DEF Lasting, StaysAbsent
  <2>. QED BY <2>2, <2>3
<1>6. CASE CallWrites(c)
  <2>1. CASE Present(c.run) /\ runs' = [runs EXCEPT ![c.run] = Written(@, c.seen, c)]
    <3>1. runs[c.run] \in Row /\ runs[c.run].status # "absent" /\ c.seen.status = "running"
      BY <1>1, <1>2, <1>6, <2>1 DEF CallWrites, Present
    <3>. DEFINE row == Written(runs[c.run], c.seen, c)
    <3>2. row.status # "running"
      BY <1>1, <3>1, WrittenIsOver
    <3>. HIDE DEF row
    <3>3. \A i \in RunId : runs'[i] = IF i = c.run THEN row ELSE runs[i]
      BY <1>1, <2>1 DEF row
    <3>. QED BY <1>1, <1>3, <3>1, <3>2, <3>3 DEF Lasting, StaysAbsent, Holds
  <2>2. CASE ~Present(c.run) /\ UNCHANGED runs
    BY <1>1, <1>3, <2>2 DEF Lasting, StaysAbsent, Present, Holds
  <2>. QED BY <1>6, <2>1, <2>2, Zenon DEF CallWrites
<1>. QED BY <1>4, <1>5, <1>6

LEMMA ClaimLasts ==
  ASSUME Inv, NEW l \in Link, PumpClaims(l)
  PROVE  /\ StaysAbsent
         /\ \A i \in RunId : \A t : Holds(runs'[i], t) => Holds(runs[i], t) \/
              /\ t = FreshToken /\ FreshTokens # {}
              /\ pump' = [pump EXCEPT ![l] = [stage |-> "claimed", run |-> i,
                                              token |-> FreshToken, work |-> runs[i].work]]
         /\ \/ UNCHANGED pump
            \/ \E i \in RunId :
                 /\ runs'[i].token = FreshToken
                 /\ pump' = [pump EXCEPT ![l] = [stage |-> "claimed", run |-> i,
                                              token |-> FreshToken, work |-> runs[i].work]]
<1>1. FreshTokens # {}
  BY DEF PumpClaims
<1>2. PICK i \in RunId :
        /\ IsNextRun(i, {"runner", "browser"})
        /\ \/ /\ runs' = [runs EXCEPT ![i] = Claimed(@, FreshToken)]
              /\ pump' = [pump EXCEPT ![l] = [stage |-> "claimed", run |-> i,
                                              token |-> FreshToken, work |-> runs[i].work]]
           \/ /\ LET row == Claimed(runs[i], FreshToken) IN
                   runs' = [runs EXCEPT ![i] = FailedRow(row, row, FALSE)]
              /\ UNCHANGED pump
  BY Zenon DEF PumpClaims
<1>3. runs \in [RunId -> Row] /\ runs[i] \in Row /\ runs[i].status = "queued"
  BY <1>2, TypedTable DEF IsNextRun, Claimable, Inv
<1>. DEFINE row == Claimed(runs[i], FreshToken)
<1>4. row \in Row /\ row.status = "running" /\ row.token = FreshToken
  BY <1>1, <1>3, FreshIsFree, RowOperators, ClaimedRow
<1>5. CASE /\ runs' = [runs EXCEPT ![i] = row]
           /\ pump' = [pump EXCEPT ![l] = [stage |-> "claimed", run |-> i,
                                           token |-> FreshToken, work |-> runs[i].work]]
  <2>. HIDE DEF row
  <2>1. \A j \in RunId : runs'[j] = IF j = i THEN row ELSE runs[j]
    BY <1>3, <1>5
  <2>. QED BY <1>1, <1>3, <1>4, <1>5, <2>1 DEF StaysAbsent, Holds
<1>6. CASE runs' = [runs EXCEPT ![i] = FailedRow(row, row, FALSE)] /\ UNCHANGED pump
  <2>. HIDE DEF row
  <2>. DEFINE failed == FailedRow(row, row, FALSE)
  <2>1. failed.status = "failed"
    BY <1>4 DEF FailedRow, Assigned, Row
  <2>. HIDE DEF failed
  <2>2. \A j \in RunId : runs'[j] = IF j = i THEN failed ELSE runs[j]
    BY <1>3, <1>6 DEF failed
  <2>. QED BY <1>3, <1>6, <2>1, <2>2 DEF StaysAbsent, Holds
<1>. QED BY <1>2, <1>5, <1>6

LEMMA TableLasts ==
  ASSUME Inv, [Next]_vars, \A l \in Link : ~PumpClaims(l)
  PROVE  /\ Lasting
         /\ (\A host \in AskedHosts : ~Ask(host)) => StaysAbsent
<1>1. runs \in [RunId -> Row]
  BY TypedTable DEF Inv
<1>2. UNCHANGED runs => Lasting /\ StaysAbsent
  BY DEF Lasting, StaysAbsent
<1>3. ASSUME NEW ids, HeartbeatRuns(ids) PROVE Lasting /\ StaysAbsent
  <2>1. \A i \in RunId : runs'[i].status = runs[i].status /\ runs'[i].token = runs[i].token
    BY <1>1, <1>3 DEF HeartbeatRuns, Row
  <2>. QED BY <2>1 DEF Lasting, StaysAbsent, Holds
<1>4. ASSUME NEW hosts, NEW kept, RequeueStaleRuns(hosts, kept) PROVE Lasting /\ StaysAbsent
  <2>1. \A i \in RunId : runs'[i] = runs[i] \/ (Stale(i) /\ runs'[i] = Collected(runs[i]))
    BY <1>4 DEF RequeueStaleRuns
  <2>2. \A i \in RunId : Collected(runs[i]).status \in {"queued", "failed"}
    BY <1>1, SweptRow
  <2>. QED BY <2>1, <2>2 DEF Lasting, StaysAbsent, Holds, Stale
<1>5. ASSUME NEW l \in Link, TakeProgress(l) PROVE Lasting /\ StaysAbsent
  BY <1>2, <1>3, <1>5, Zenon DEF TakeProgress
<1>6. ASSUME NEW host \in AskedHosts, Ask(host) PROVE Lasting
  <2>1. PICK i \in RunId : \E row : row.status = "queued" /\ runs' = [runs EXCEPT ![i] = row]
    <3>1. PICK i \in RunId :
            runs' = [runs EXCEPT ![i] = [Absent EXCEPT !.work = asked + 1, !.kind = "asked",
                                                       !.host = host, !.status = "queued"]]
      BY <1>6, Zenon DEF Ask, RequestAnalysis
    <3>. DEFINE row == [Absent EXCEPT !.work = asked + 1, !.kind = "asked",
                                      !.host = host, !.status = "queued"]
    <3>2. row.status = "queued"
      BY DEF Absent
    <3>. QED BY <3>1, <3>2
  <2>. QED BY <1>1, <2>1 DEF Lasting, Holds
<1>7. ASSUME NEW i \in RunId, CancelRun(i) PROVE Lasting /\ StaysAbsent
  BY <1>1, <1>7 DEF CancelRun, Deleting, Lasting, StaysAbsent, Holds, Absent
<1>8. ASSUME NEW i \in RunId, GoQuiet(i) PROVE Lasting /\ StaysAbsent
  <2>1. \A j \in RunId : runs'[j].status = runs[j].status /\ runs'[j].token = runs[j].token
    BY <1>1, <1>8, SMTT(30) DEF GoQuiet, Row
  <2>. QED BY <2>1 DEF Lasting, StaysAbsent, Holds
<1>10. CASE \E l \in Link : Route(l) \/ HandsBack(l) \/ PumpClaims(l) \/ PumpGoesOn(l)
  BY <1>2, <1>5, <1>10 DEF Route, HandsBack, PumpGoesOn, AttachBegins, AttachQueues,
     AttachReconciles, AttachInstalls, TakeAnswer, Answered, RouteEnds, HandBackQueues, HandBack,
     HandedBack, PumpPlaces, PumpReturned
<1>11. CASE \E l \in Link : BeatDetaches(l) \/ LinkBreaks(l) \/ Dial(l)
  BY <1>2, <1>11 DEF BeatDetaches, LinkBreaks, Dial
<1>12. CASE \E c \in db : CallRuns(c) \/ CallReads(c) \/ CallWrites(c)
  BY <1>12, CallsLast
<1>13. CASE (\E a \in preempts : Preempted(a)) \/ (\E r \in releases : SweepReleases(r))
  BY <1>2, <1>13 DEF Preempted, SweepReleases
<1>14. CASE \E i \in RunId : CancelRun(i) \/ Cancelled(i) \/ Report(i) \/ GoQuiet(i)
  BY <1>2, <1>7, <1>8, <1>14 DEF Cancelled, Report
<1>15. CASE (\E i \in RunId, ends \in Ends : JobEnds(i, ends)) \/ (\E host \in AskedHosts : Ask(host))
  BY <1>2, <1>6, <1>15 DEF JobEnds
<1>16. CASE Sweep \/ ReserveSlot \/ ReleaseSlot \/ HangUp \/ Hear \/ Restart
  BY <1>2, <1>4, <1>16 DEF Sweep, ReserveSlot, ReleaseSlot, HangUp, Hear, Restart
<1>17. CASE UNCHANGED vars
  BY <1>2, <1>17 DEF vars
<1>. QED BY <1>10, <1>11, <1>12, <1>13, <1>14, <1>15, <1>16, <1>17, Zenon DEF Next

(* A claim draws a token that is on no slot, in no attach, no answer and   *)
(* no sweep.                                                               *)
LEMMA FreshIsElsewhere ==
  ASSUME Typed, FreshTokens # {}
  PROVE  /\ \A l \in Link, i \in RunId : FreshToken # held[l][i]
         /\ \A l \in Link, i \in RunId : FreshToken # hello[l].resumed[i]
         /\ \A l \in Link : \A a \in hello[l].known : FreshToken # a.token
         /\ \A l \in Link : FreshToken # socket[l].token
         /\ \A r \in releases : FreshToken # r.token
<1>1. FreshToken \in FreshTokens
  BY Zenon DEF FreshToken
<1>2. ASSUME NEW r \in releases PROVE FreshToken # r.token
  <2>1. FreshToken \notin {q.token : q \in releases}
    BY <1>1, Zenon DEF FreshTokens
  <2>. QED BY <2>1
<1>3. ASSUME NEW l \in Link
      PROVE  /\ FreshToken \notin Range(held[l]) /\ FreshToken \notin Range(hello[l].resumed)
             /\ FreshToken # socket[l].token
             /\ FreshToken \notin {a.token : a \in hello[l].known \cup hello[l].reported}
  <2>. DEFINE Spread(k) == Range(held[k]) \cup FrameTokens(up[k]) \cup FrameTokens(down[k])
                       \cup {pump[k].token, socket[k].token} \cup Range(hello[k].resumed)
                       \cup {a.token : a \in hello[k].known \cup hello[k].reported}
  <2>1. FreshToken \notin UNION {Spread(k) : k \in Link}
    BY <1>1, Zenon DEF FreshTokens
  <2>2. FreshToken \notin Spread(l)
    <3>. HIDE DEF Spread
    <3>. QED BY <2>1
  <2>. QED BY <2>2, Zenon
<1>4. ASSUME NEW l \in Link, NEW i \in RunId
      PROVE  FreshToken # held[l][i] /\ FreshToken # hello[l].resumed[i]
  <2>1. DOMAIN held[l] = RunId /\ DOMAIN hello[l].resumed = RunId
    BY DEF Typed, SlotsTyped, RoutesTyped, Hello
  <2>. QED BY <1>3, <2>1 DEF Range
<1>5. ASSUME NEW l \in Link, NEW a \in hello[l].known PROVE FreshToken # a.token
  BY <1>3
<1>. QED BY <1>2, <1>3, <1>4, <1>5

-----------------------------------------------------------------------------

LEMMA InOrderStep ==
  ASSUME Steady, Typed, OneLink, InOrder, [Next]_vars
  PROVE  InOrder'
<1>1. RoutesTyped /\ NoLink \notin Link /\ ~Restart
  BY DEF Typed, NoLink, Link, Steady, Restart
<1>2. ASSUME UNCHANGED <<serving, hello, handing, current, pump>> PROVE InOrder'
  BY <1>2 DEF InOrder
<1>3. ASSUME NEW l \in Link, AttachBegins(l) PROVE InOrder'
  <2>1. /\ serving[l] = "none" /\ current' = NoLink /\ UNCHANGED <<handing, pump>>
        /\ \A m \in Link : m # l => serving'[m] = serving[m] /\ hello'[m] = hello[m]
        /\ serving'[l] \in Attaching /\ hello'[l].resumed = Free
    BY <1>1, <1>3 DEF AttachBegins, RoutesTyped, Attaching, NoHello
  <2>. QED BY <1>1, <2>1 DEF InOrder
<1>4. ASSUME NEW l \in Link, AttachQueues(l) \/ AttachReconciles(l) PROVE InOrder'
  <2>1. /\ UNCHANGED <<handing, pump, current>> /\ serving[l] \in Attaching /\ serving'[l] \in Attaching
        /\ \A m \in Link : m # l => serving'[m] = serving[m] /\ hello'[m] = hello[m]
        /\ \/ serving'[l] = "reconciling"
           \/ serving[l] # "reconciling" /\ UNCHANGED hello
    BY <1>1, <1>4 DEF AttachQueues, AttachReconciles, RoutesTyped, Attaching
  <2>. QED BY <2>1 DEF InOrder, Attaching
<1>5. ASSUME NEW l \in Link, AttachInstalls(l) PROVE InOrder'
  <2>1. /\ serving[l] \in Attaching /\ hello'[l] = NoHello /\ UNCHANGED pump
        /\ \A m \in Link : m # l => serving'[m] = serving[m] /\ hello'[m] = hello[m]
    BY <1>1, <1>5 DEF AttachInstalls, RoutesTyped, Attaching
  <2>2. handing[l] = "no"
    BY <2>1 DEF InOrder, Attaching
  <2>3. \/ /\ current' = l /\ serving'[l] = "serving" /\ UNCHANGED handing
        \/ /\ current' = NoLink /\ serving'[l] = "gone"
           /\ \A m \in Link : m # l => handing'[m] = handing[m]
    BY <1>1, <1>5 DEF AttachInstalls, RoutesTyped
  <2>4. NoHello.resumed = Free
    BY DEF NoHello
  <2>. QED BY <1>1, <2>1, <2>2, <2>3, <2>4 DEF InOrder, Attaching
<1>6. ASSUME NEW l \in Link, RouteEnds(l) \/ BeatDetaches(l) PROVE InOrder'
  <2>1. /\ Dropped(l) /\ UNCHANGED <<hello, pump>> /\ serving[l] = "serving"
        /\ serving'[l] \in {"serving", "gone"}
        /\ \A m \in Link : m # l => serving'[m] = serving[m]
    BY <1>1, <1>6 DEF RouteEnds, BeatDetaches, RoutesTyped
  <2>2. \A m \in Link : m # l => handing'[m] = handing[m] /\ (m # current => m # current')
    BY <1>1, <2>1 DEF Dropped, RoutesTyped
  <2>3. handing'[l] # "no" => l # current'
    BY <1>1, <2>1 DEF Dropped, InOrder
  <2>4. UNCHANGED hello /\ NoHello.resumed = Free
    BY <2>1 DEF NoHello
  <2>. QED BY <2>1, <2>2, <2>3, <2>4 DEF InOrder, Attaching
<1>7. ASSUME NEW l \in Link, HandBackQueues(l) \/ HandBack(l) \/ HandedBack(l) PROVE InOrder'
  <2>1. /\ UNCHANGED <<serving, hello, pump, current>> /\ handing[l] # "no"
        /\ \A m \in Link : m # l => handing'[m] = handing[m]
    BY <1>1, <1>7 DEF HandBackQueues, HandBack, HandedBack, RoutesTyped
  <2>. QED BY <2>1 DEF InOrder
<1>8. ASSUME NEW l \in Link, PumpClaims(l) \/ PumpPlaces(l) \/ PumpReturned(l) PROVE InOrder'
  <2>1. UNCHANGED <<serving, hello, handing, current>>
    BY <1>8 DEF PumpClaims, PumpPlaces, PumpReturned
  <2>2. \A m \in Link : m # l => pump'[m] = pump[m]
    BY <1>1, <1>8 DEF PumpClaims, PumpPlaces, PumpReturns, PumpReturned, RoutesTyped
  <2>3. serving[l] \in {"serving", "gone"}
    <3>1. CASE PumpClaims(l)
      BY <1>1, <3>1 DEF PumpClaims, MayClaim, RoutesTyped, InOrder
    <3>2. CASE PumpPlaces(l) \/ PumpReturned(l)
      BY <3>2 DEF PumpPlaces, PumpReturned, InOrder
    <3>. QED BY <1>8, <3>1, <3>2
  <2>. QED BY <2>1, <2>2, <2>3 DEF InOrder
<1>9. ASSUME NEW l \in Link,
             TakeProgress(l) \/ TakeAnswer(l) \/ Answered(l) \/ LinkBreaks(l) \/ Dial(l)
      PROVE  UNCHANGED <<serving, hello, handing, current, pump>>
  BY <1>9 DEF TakeProgress, TakeAnswer, Answered, LinkBreaks, Dial, routes
<1>10. ASSUME NEW c \in db, CallRuns(c) \/ CallReads(c) \/ CallWrites(c)
       PROVE  UNCHANGED <<serving, hello, handing, current, pump>>
  BY <1>10 DEF CallRuns, CallReads, CallWrites, routes
<1>11. ASSUME NEW i \in RunId, CancelRun(i) \/ Cancelled(i) \/ Report(i) \/ GoQuiet(i)
       PROVE  UNCHANGED <<serving, hello, handing, current, pump>>
  BY <1>11 DEF CancelRun, Cancelled, Report, GoQuiet, routes
<1>12. ASSUME \/ \E a \in preempts : Preempted(a)
              \/ \E r \in releases : SweepReleases(r)
              \/ \E i \in RunId, ends \in Ends : JobEnds(i, ends)
              \/ \E host \in AskedHosts : Ask(host)
              \/ Sweep \/ ReserveSlot \/ ReleaseSlot \/ HangUp \/ Hear \/ UNCHANGED vars
       PROVE  UNCHANGED <<serving, hello, handing, current, pump>>
  BY <1>12 DEF Preempted, SweepReleases, JobEnds, Ask, Sweep, ReserveSlot, ReleaseSlot, HangUp, Hear,
     vars, routes
<1>. QED
  <2>1. CASE \E l \in Link : Route(l) \/ HandsBack(l) \/ PumpClaims(l) \/ PumpGoesOn(l)
    BY <1>2, <1>3, <1>4, <1>5, <1>6, <1>7, <1>8, <1>9, <2>1 DEF Route, HandsBack, PumpGoesOn
  <2>2. CASE \E l \in Link : BeatDetaches(l) \/ LinkBreaks(l) \/ Dial(l)
    BY <1>2, <1>6, <1>9, <2>2
  <2>3. CASE \E c \in db : CallRuns(c) \/ CallReads(c) \/ CallWrites(c)
    BY <1>2, <1>10, <2>3
  <2>4. CASE \E i \in RunId : CancelRun(i) \/ Cancelled(i) \/ Report(i) \/ GoQuiet(i)
    BY <1>2, <1>11, <2>4
  <2>. QED BY <1>1, <1>2, <1>12, <2>1, <2>2, <2>3, <2>4, Zenon DEF Next

LEMMA NamedStep ==
  ASSUME Inv, RunningIsNamed, [Next]_vars
  PROVE  RunningIsNamed'
<1>1. CASE \E l \in Link : PumpClaims(l)
  BY <1>1, ClaimLasts, FreshIsFree DEF RunningIsNamed, Holds
<1>2. CASE \A l \in Link : ~PumpClaims(l)
  BY <1>2, TableLasts DEF RunningIsNamed, Lasting, Holds
<1>. QED BY <1>1, <1>2

(* What is not told, not collected and not answered by a step.             *)
LEMMA Untold ==
  ASSUME [Next]_vars, ~Restart
  PROVE  /\ told' \subseteq told \/ \E i \in RunId : CancelRun(i)
         /\ releases' \subseteq releases \/ Sweep
         /\ \/ socket' = socket
            \/ \E l \in Link : TakeAnswer(l) \/ Answered(l)
            \/ \E by : socket' = [socket EXCEPT ![by] = Idle]
         /\ db \subseteq db' \/ \E c \in db : CallRuns(c) \/ CallReads(c) \/ CallWrites(c)
<1>. DEFINE Rest == UNCHANGED <<told, releases, socket>> /\ db \subseteq db'
<1>1. ASSUME NEW l \in Link,
             \/ AttachBegins(l) \/ AttachQueues(l) \/ AttachReconciles(l) \/ AttachInstalls(l)
             \/ TakeProgress(l) \/ RouteEnds(l) \/ HandBackQueues(l) \/ HandBack(l) \/ HandedBack(l)
             \/ PumpClaims(l) \/ PumpPlaces(l) \/ PumpReturned(l)
             \/ BeatDetaches(l) \/ LinkBreaks(l) \/ Dial(l)
      PROVE  Rest
  BY <1>1 DEF AttachBegins, AttachQueues, AttachReconciles, AttachInstalls, TakeProgress, RouteEnds,
     HandBackQueues, HandBack, HandedBack, PumpClaims, PumpPlaces, PumpReturns, PumpReturned,
     BeatDetaches, LinkBreaks, Dial, routes, tasks
<1>2. ASSUME NEW l \in Link, TakeAnswer(l) \/ Answered(l)
      PROVE  UNCHANGED <<told, releases>> /\ db \subseteq db'
  BY <1>2 DEF TakeAnswer, Answered, tasks
<1>3. ASSUME NEW c \in db, CallRuns(c) \/ CallReads(c) PROVE UNCHANGED <<told, releases, socket>>
  BY <1>3 DEF CallRuns, CallReads, routes
<1>4. ASSUME NEW c \in db, CallWrites(c)
      PROVE  UNCHANGED <<told, releases>> /\ (UNCHANGED socket \/ socket' = [socket EXCEPT ![c.by[2]] = Idle])
  BY <1>4 DEF CallWrites
<1>5. ASSUME \/ \E a \in preempts : Preempted(a)
             \/ \E i \in RunId : Report(i) \/ GoQuiet(i)
             \/ \E i \in RunId, ends \in Ends : JobEnds(i, ends)
             \/ \E host \in AskedHosts : Ask(host)
             \/ ReserveSlot \/ ReleaseSlot \/ HangUp \/ Hear \/ UNCHANGED vars
      PROVE  Rest
  BY <1>5 DEF Preempted, Report, GoQuiet, JobEnds, Ask, ReserveSlot, ReleaseSlot, HangUp, Hear, vars,
     routes, tasks
<1>6. ASSUME NEW i \in RunId, Cancelled(i)
      PROVE  told' \subseteq told /\ UNCHANGED <<releases, socket, db>>
  BY <1>6 DEF Cancelled, routes
<1>7. ASSUME NEW i \in RunId, CancelRun(i) PROVE UNCHANGED <<releases, socket, db>>
  BY <1>7 DEF CancelRun, routes
<1>8. ASSUME NEW r \in releases, SweepReleases(r)
      PROVE  releases' \subseteq releases /\ UNCHANGED <<told, socket, db>>
  BY <1>8 DEF SweepReleases, routes
<1>9. Sweep => UNCHANGED <<told, socket, db>>
  BY DEF Sweep, routes
<1>. QED
  <2>1. CASE \E l \in Link : Route(l) \/ HandsBack(l) \/ PumpClaims(l) \/ PumpGoesOn(l)
    BY <1>1, <1>2, <2>1 DEF Route, HandsBack, PumpGoesOn
  <2>2. CASE \E l \in Link : BeatDetaches(l) \/ LinkBreaks(l) \/ Dial(l)
    BY <1>1, <2>2
  <2>3. CASE \E c \in db : CallRuns(c) \/ CallReads(c) \/ CallWrites(c)
    BY <1>3, <1>4, <2>3
  <2>4. CASE \E i \in RunId : CancelRun(i) \/ Cancelled(i) \/ Report(i) \/ GoQuiet(i)
    BY <1>5, <1>6, <1>7, <2>4
  <2>5. CASE \E r \in releases : SweepReleases(r)
    BY <1>8, <2>5
  <2>6. CASE Sweep
    BY <1>9, <2>6, Zenon
  <2>. QED BY <1>5, <2>1, <2>2, <2>3, <2>4, <2>5, <2>6 DEF Next

LEMMA EndsStay ==
  ASSUME Steady, Inv, CancelsEnd, SweepsEnd, AnswersEnd, [Next]_vars
  PROVE  CancelsEnd' /\ SweepsEnd' /\ AnswersEnd'
<1>1. /\ RoutesTyped /\ TasksTyped /\ SlotsTyped /\ ~Restart
      /\ runs \in [RunId -> Row]
  BY TypedTable DEF Inv, Typed, Steady, Restart
<1>2. \A i \in RunId : \A t : Holds(runs'[i], t) =>
        Holds(runs[i], t) \/ (t = FreshToken /\ FreshTokens # {})
  BY ClaimLasts, TableLasts DEF Lasting
<1>3. CancelsEnd'
  <2>1. CASE \E host \in AskedHosts : Ask(host)
    <3>1. told' = told
      BY <2>1 DEF Ask, tasks
    <3>2. PICK i \in RunId : IsNewId(i) /\ \A j \in RunId : j # i => runs'[j] = runs[j]
      <4>1. PICK i \in RunId : IsNewId(i) /\ \E row : runs' = [runs EXCEPT ![i] = row]
        BY <2>1, Zenon DEF Ask, RequestAnalysis
      <4>. QED BY <1>1, <4>1
    <3>3. i \notin told
      BY <2>1, <3>2 DEF Ask, Steady, Spoken
    <3>. QED BY <1>1, <3>1, <3>2, <3>3 DEF CancelsEnd, TasksTyped
  <2>2. CASE \A host \in AskedHosts : ~Ask(host)
    <3>1. StaysAbsent
      BY <2>2, ClaimLasts, TableLasts
    <3>2. CASE told' \subseteq told
      BY <1>1, <3>1, <3>2 DEF CancelsEnd, StaysAbsent, TasksTyped
    <3>3. ASSUME NEW i \in RunId, CancelRun(i) PROVE CancelsEnd'
      <4>1. told' = told \cup {i} /\ runs'[i].status = "absent"
        BY <1>1, <3>3 DEF CancelRun, Deleting, Absent
      <4>. QED BY <1>1, <3>1, <4>1 DEF CancelsEnd, StaysAbsent, TasksTyped
    <3>. QED BY <1>1, <3>2, <3>3, Untold
  <2>. QED BY <2>1, <2>2
<1>4. SweepsEnd'
  <2>1. CASE releases' \subseteq releases
    BY <1>1, <1>2, <2>1, FreshIsElsewhere DEF SweepsEnd, Over, TasksTyped, Inv
  <2>2. CASE Sweep
    <3>1. \A i \in RunId : Stale(i) => runs'[i] = Collected(runs[i])
      BY <1>1, <2>2 DEF Sweep, RequeueStaleRuns, Row
    <3>2. \A i \in RunId : Stale(i) => runs'[i].status # "running"
      BY <1>1, <3>1, SweptRow
    <3>3. Lasting
      <4>1. \A i \in RunId : Stale(i) \/ runs'[i] = runs[i]
        BY <2>2 DEF Sweep, RequeueStaleRuns
      <4>. QED BY <3>2, <4>1 DEF Lasting, Holds
    <3>4. \A r \in releases' : r \in releases \/ (r.run \in RunId /\ Stale(r.run))
      BY <2>2 DEF Sweep
    <3>. QED BY <1>1, <3>2, <3>3, <3>4 DEF SweepsEnd, Over, Lasting, Holds, TasksTyped
  <2>. QED BY <1>1, <2>1, <2>2, Untold
<1>5. AnswersEnd'
  <2>0. ASSUME NEW l \in Link, socket[l] # Idle, Over(socket[l].run, socket[l].token)
        PROVE  ~Holds(runs'[socket[l].run], socket[l].token)
    <3>1. socket[l] \in Attempt
      BY <1>1, <2>0 DEF RoutesTyped
    <3>2. socket[l].run \in RunId
      BY <3>1 DEF Attempt
    <3>. QED BY <1>2, <2>0, <3>2, FreshIsElsewhere DEF Over, Inv
  <2>1. ASSUME NEW l \in Link, socket'[l] # Idle, socket'[l] = socket[l]
        PROVE  \/ ~Holds(runs'[socket[l].run], socket[l].token)
               \/ \E c \in db' : /\ c.by = <<"socket", l>>
                                 /\ c.run = socket[l].run /\ c.token = socket[l].token
    <3>1. CASE Over(socket[l].run, socket[l].token)
      BY <2>0, <2>1, <3>1
    <3>2. CASE \E c \in db : c.by = <<"socket", l>> /\ c.run = socket[l].run /\ c.token = socket[l].token
      <4>1. PICK c \in db : c.by = <<"socket", l>> /\ c.run = socket[l].run /\ c.token = socket[l].token
        BY <3>2
      <4>2. CASE db \subseteq db'
        BY <4>1, <4>2
      <4>3. ASSUME NEW d \in db, CallRuns(d) \/ CallReads(d) \/ CallWrites(d)
            PROVE  \/ ~Holds(runs'[c.run], c.token)
                   \/ \E e \in db' : e.by = c.by /\ e.run = c.run /\ e.token = c.token
        BY <4>3, CallsLast
      <4>. QED BY <1>1, <4>1, <4>2, <4>3, Untold
    <3>. QED BY <2>1, <3>1, <3>2 DEF AnswersEnd
  <2>2. ASSUME NEW l \in Link, TakeAnswer(l)
        PROVE  \E c \in db' : /\ c.by = <<"socket", l>>
                              /\ c.run = socket'[l].run /\ c.token = socket'[l].token
    <3>. DEFINE f == Head(up[l])
                a == [run |-> f.run, token |-> f.token]
                c == [Call(<<"socket", l>>, f.ends, a) EXCEPT !.work = f.work]
    <3>1. socket'[l] = a /\ c \in db'
      BY <1>1, <2>2 DEF TakeAnswer, RoutesTyped
    <3>2. c.by = <<"socket", l>> /\ c.run = a.run /\ c.token = a.token
      BY DEF Call
    <3>. HIDE DEF a, c
    <3>. QED BY <3>1, <3>2
  <2>3. \A l \in Link : socket'[l] # Idle => socket'[l] = socket[l] \/ TakeAnswer(l)
    <3>1. ASSUME NEW m \in Link, TakeAnswer(m)
          PROVE  \A l \in Link : l # m => socket'[l] = socket[l]
      BY <1>1, <3>1 DEF TakeAnswer, RoutesTyped
    <3>2. ASSUME NEW m, socket' = [socket EXCEPT ![m] = Idle]
          PROVE  \A l \in Link : socket'[l] # Idle => socket'[l] = socket[l]
      BY <1>1, <3>2 DEF RoutesTyped
    <3>3. \A m \in Link : Answered(m) => socket' = [socket EXCEPT ![m] = Idle]
      BY DEF Answered
    <3>. QED BY <1>1, <3>1, <3>2, <3>3, Untold
  <2>4. ASSUME NEW l \in Link, socket'[l] # Idle
        PROVE  \/ ~Holds(runs'[socket'[l].run], socket'[l].token)
               \/ \E c \in db' : /\ c.by = <<"socket", l>>
                                 /\ c.run = socket'[l].run /\ c.token = socket'[l].token
    <3>1. CASE socket'[l] = socket[l]
      <4>1. \/ ~Holds(runs'[socket[l].run], socket[l].token)
            \/ \E c \in db' : /\ c.by = <<"socket", l>>
                              /\ c.run = socket[l].run /\ c.token = socket[l].token
        BY <2>1, <2>4, <3>1
      <4>. QED BY <3>1, <4>1
    <3>. QED BY <2>2, <2>3, <2>4, <3>1
  <2>. QED BY <2>4 DEF AnswersEnd, Over
<1>. QED BY <1>3, <1>4, <1>5

-----------------------------------------------------------------------------

(* Slots are only emptied, but by a round and by an attach that installs.  *)
Emptied == \A l \in Link, i \in RunId : held'[l][i] \in {NoToken, held[l][i]}

LEMMA SlotsEmpty ==
  ASSUME Typed, [Next]_vars, ~Restart, \A l \in Link : ~AttachInstalls(l)
  PROVE  Emptied \/ \E l \in Link : PumpPlaces(l) /\ current = l
<1>1. RoutesTyped /\ SlotsTyped /\ TasksTyped /\ LinksTyped
  BY DEF Typed
<1>2. UNCHANGED held => Emptied
  BY DEF Emptied
<1>3. ASSUME NEW a, held' = Forgotten(a) PROVE Emptied
  BY <1>1, <1>3 DEF Forgotten, SlotsTyped, Emptied
<1>4. ASSUME NEW l, NEW a, Release(l, a) PROVE Emptied
  BY <1>2, <1>3, <1>4, Zenon DEF Release
<1>5. ASSUME NEW l, held' = [held EXCEPT ![l] = Free] PROVE Emptied
  <2>1. \A i \in RunId : Free[i] = NoToken
    BY DEF Free
  <2>. QED BY <1>1, <1>5, <2>1 DEF SlotsTyped, Emptied
<1>6. ASSUME NEW l \in Link, PumpPlaces(l) PROVE Emptied \/ current = l
  BY <1>2, <1>6 DEF PumpPlaces, PumpReturns
<1>7. ASSUME ReserveSlot PROVE Emptied
  <2>1. UNCHANGED held \/ \E a : held' = [held EXCEPT ![current][a.run] = NoToken]
    BY <1>7, Zenon DEF ReserveSlot
  <2>2. ASSUME NEW a, held' = [held EXCEPT ![current][a.run] = NoToken] PROVE Emptied
    BY <1>1, <2>2 DEF SlotsTyped, Emptied
  <2>. QED BY <1>2, <2>1, <2>2
<1>8. ASSUME NEW l \in Link, AttachBegins(l) PROVE Emptied
  BY <1>2, <1>5, <1>8, Zenon DEF AttachBegins
<1>9. ASSUME NEW l \in Link, TakeProgress(l) PROVE Emptied
  BY <1>2, <1>4, <1>9, Zenon DEF TakeProgress
<1>10. ASSUME NEW l \in Link, Answered(l) \/ HandedBack(l) PROVE Emptied
  BY <1>3, <1>5, <1>10, Zenon DEF Answered, HandedBack
<1>11. ASSUME NEW l \in Link,
              \/ AttachQueues(l) \/ AttachReconciles(l) \/ TakeAnswer(l) \/ RouteEnds(l)
              \/ HandBackQueues(l) \/ HandBack(l) \/ PumpClaims(l) \/ PumpReturned(l)
              \/ BeatDetaches(l) \/ LinkBreaks(l) \/ Dial(l)
       PROVE  UNCHANGED held
  BY <1>11 DEF AttachQueues, AttachReconciles, TakeAnswer, RouteEnds, HandBackQueues, HandBack,
     PumpClaims, PumpReturned, BeatDetaches, LinkBreaks, Dial, state
<1>12. ASSUME NEW c \in db, CallRuns(c) \/ CallReads(c) \/ CallWrites(c) PROVE UNCHANGED held
  BY <1>12 DEF CallRuns, CallReads, CallWrites, state
<1>13. ASSUME NEW i \in RunId, CancelRun(i) \/ Cancelled(i) \/ Report(i) \/ GoQuiet(i) PROVE Emptied
  BY <1>2, <1>4, <1>13 DEF CancelRun, Cancelled, Report, GoQuiet, state
<1>14. ASSUME NEW r \in releases, SweepReleases(r) PROVE Emptied
  BY <1>4, <1>14 DEF SweepReleases
<1>15. ASSUME \/ \E a \in preempts : Preempted(a)
              \/ \E i \in RunId, ends \in Ends : JobEnds(i, ends)
              \/ \E host \in AskedHosts : Ask(host)
              \/ Sweep \/ ReleaseSlot \/ HangUp \/ Hear \/ UNCHANGED vars
       PROVE  UNCHANGED held
  BY <1>15 DEF Preempted, JobEnds, Ask, Sweep, ReleaseSlot, HangUp, Hear, vars, state
<1>. QED
  <2>1. CASE \E l \in Link : Route(l) \/ HandsBack(l) \/ PumpClaims(l) \/ PumpGoesOn(l)
    BY <1>2, <1>6, <1>8, <1>9, <1>10, <1>11, <2>1 DEF Route, HandsBack, PumpGoesOn
  <2>2. CASE \E l \in Link : BeatDetaches(l) \/ LinkBreaks(l) \/ Dial(l)
    BY <1>2, <1>11, <2>2
  <2>3. CASE \E c \in db : CallRuns(c) \/ CallReads(c) \/ CallWrites(c)
    BY <1>2, <1>12, <2>3
  <2>4. CASE \E i \in RunId : CancelRun(i) \/ Cancelled(i) \/ Report(i) \/ GoQuiet(i)
    BY <1>13, <2>4
  <2>. QED BY <1>2, <1>7, <1>14, <1>15, <2>1, <2>2, <2>3, <2>4, Zenon DEF Next

(* An attempt that runs after a step ran before it, or is a fresh one.     *)
LEMMA Lasts ==
  ASSUME Steady, Inv, [Next]_vars, NEW i \in RunId, NEW t, Holds(runs'[i], t)
  PROVE  Holds(runs[i], t) \/ (t = FreshToken /\ FreshTokens # {})
BY ClaimLasts, TableLasts DEF Lasting

LEMMA CallsStay ==
  ASSUME Steady, Inv, [Next]_vars, NEW i \in RunId, NEW t, Called(i, t), Holds(runs'[i], t)
  PROVE  Called(i, t)'
<1>1. ~Restart
  BY DEF Steady, Restart
<1>2. PICK c \in db : c.run = i /\ c.token = t
  BY DEF Called
<1>3. \E e \in db' : e.run = i /\ e.token = t
  BY <1>1, <1>2, Untold, CallsLast
<1>. QED BY <1>3 DEF Called

LEMMA SettledStep ==
  ASSUME Steady, Inv, OneLink, Settled, [Next]_vars
  PROVE  Settled'
<1>1. RoutesTyped /\ SlotsTyped /\ TasksTyped /\ NoLink \notin Link /\ ~Restart
  BY DEF Inv, Typed, NoLink, Link, Steady, Restart
<1>2. ASSUME NEW l \in Link, AttachReconciles(l)
      PROVE  /\ \A a \in hello'[l].known :
                  ~Holds(runs'[a.run], a.token) \/ hello'[l].resumed[a.run] = a.token
                    \/ Called(a.run, a.token)'
             /\ \A m \in Link, i \in RunId : hello'[l].resumed[i] # NoToken /\ held'[m][i] # NoToken =>
                  hello'[l].resumed[i] = held'[m][i] \/ ~Holds(runs'[i], held'[m][i])
  <2>. DEFINE h == hello[l]
              resumed == {a \in h.reported : Holds(runs[a.run], a.token)}
              ids == {a.run : a \in resumed}
              slots == [i \in RunId |->
                 IF i \in ids THEN (CHOOSE a \in resumed : a.run = i).token ELSE NoToken]
              gone == {a \in h.known : a.run \notin ids}
  <2>1. /\ hello' = [hello EXCEPT ![l].cancelled = {a.run : a \in h.reported \ resumed},
                                  ![l].resumed = slots]
        /\ db' = db \cup Abandons(<<"attach", l>>, gone)
        /\ UNCHANGED <<runs, held>>
    BY <1>2 DEF AttachReconciles, state
  <2>2. h \in Hello
    BY <1>1 DEF RoutesTyped
  <2>3. hello'[l].known = h.known /\ hello'[l].resumed = slots
    BY <1>1, <2>1, <2>2 DEF RoutesTyped, Hello
  <2>4. \A i \in ids : \E a \in resumed : a.run = i
    OBVIOUS
  <2>5. \A i \in RunId : slots[i] # NoToken => Holds(runs[i], slots[i])
    BY <2>4
  <2>6. \A i \in ids \cap RunId : Holds(runs[i], slots[i])
    BY <2>4
  <2>7. \A a \in gone : \E c \in db' : c.run = a.run /\ c.token = a.token
    <3>1. \A a \in gone : Call(<<"attach", l>>, "abandon", a) \in db'
      BY <2>1 DEF Abandons
    <3>2. \A a : /\ Call(<<"attach", l>>, "abandon", a).run = a.run
                 /\ Call(<<"attach", l>>, "abandon", a).token = a.token
      BY DEF Call
    <3>. HIDE DEF gone
    <3>. QED BY <3>1, <3>2
  <2>8. \A a \in h.known : a.run \in RunId
    BY <2>2 DEF Hello, Attempt
  <2>9. \A a \in h.known : a \in gone \/ a.run \in ids
    OBVIOUS
  <2>. HIDE DEF slots, ids, gone, resumed
  <2>10. \A a \in h.known : \/ ~Holds(runs[a.run], a.token) \/ slots[a.run] = a.token
                            \/ \E c \in db' : c.run = a.run /\ c.token = a.token
    BY <2>6, <2>7, <2>8, <2>9 DEF Holds
  <2>. QED BY <2>1, <2>3, <2>5, <2>10, ZenonT(60) DEF Called, Holds
<1>3. ASSUME NEW l \in Link, serving[l] = "reconciling", serving'[l] = "reconciling",
             hello'[l] = hello[l]
      PROVE  /\ \A a \in hello'[l].known :
                  ~Holds(runs'[a.run], a.token) \/ hello'[l].resumed[a.run] = a.token
                    \/ Called(a.run, a.token)'
             /\ \A m \in Link, i \in RunId : hello'[l].resumed[i] # NoToken /\ held'[m][i] # NoToken =>
                  hello'[l].resumed[i] = held'[m][i] \/ ~Holds(runs'[i], held'[m][i])
  <2>1. current = NoLink /\ \A m \in Link : m # l => serving[m] # "reconciling"
    BY <1>3 DEF OneLink, Attaching
  <2>2. \A m \in Link : ~AttachInstalls(m)
    BY <1>1, <1>3, <2>1 DEF AttachInstalls, RoutesTyped
  <2>3. Emptied
    BY <1>1, <2>1, <2>2, SlotsEmpty DEF Inv
  <2>4. hello[l] \in Hello
    BY <1>1 DEF RoutesTyped
  <2>5. \A a \in hello[l].known : a.run \in RunId
    BY <2>4 DEF Hello, Attempt
  <2>6. ASSUME NEW a \in hello[l].known
        PROVE  ~Holds(runs'[a.run], a.token) \/ hello[l].resumed[a.run] = a.token
                 \/ Called(a.run, a.token)'
    BY <1>3, <2>5, <2>6, Lasts, CallsStay, FreshIsElsewhere DEF Settled, Over, Inv
  <2>7. ASSUME NEW m \in Link, NEW i \in RunId,
               hello[l].resumed[i] # NoToken, held'[m][i] # NoToken
        PROVE  hello[l].resumed[i] = held'[m][i] \/ ~Holds(runs'[i], held'[m][i])
    <3>1. held'[m][i] = held[m][i]
      BY <2>3, <2>7 DEF Emptied
    <3>2. hello[l].resumed[i] = held[m][i] \/ ~Holds(runs[i], held[m][i])
      BY <1>3, <2>7, <3>1 DEF Settled, Over
    <3>. QED BY <3>1, <3>2, Lasts, FreshIsElsewhere DEF Inv
  <2>. QED BY <1>3, <2>6, <2>7
<1>4. \A l \in Link : serving'[l] = "reconciling" =>
        \/ serving[l] = "reconciling" /\ hello'[l] = hello[l]
        \/ AttachReconciles(l)
  BY <1>1, Loop DEF Inv
<1>. QED BY <1>2, <1>3, <1>4, Zenon DEF Settled, Over

LEMMA OneHolderStep ==
  ASSUME Steady, Inv, OneLink, InOrder, Settled, OneHolder, [Next]_vars
  PROVE  OneHolder'
<1>1. RoutesTyped /\ SlotsTyped /\ TasksTyped /\ NoLink \notin Link /\ ~Restart
  BY DEF Inv, Typed, NoLink, Link, Steady, Restart
<1>2. ASSUME NEW l \in Link, AttachInstalls(l), current' = l PROVE OneHolder'
  <2>1. /\ serving[l] = "reconciling" /\ held' = [held EXCEPT ![l] = hello[l].resumed]
        /\ UNCHANGED <<runs, pump>>
    BY <1>2 DEF AttachInstalls
  <2>2. pump[l].stage = "off"
    BY <2>1 DEF InOrder
  <2>3. held'[l] = hello[l].resumed /\ \A m \in Link : m # l => held'[m] = held[m]
    BY <1>1, <2>1 DEF SlotsTyped
  <2>4. ASSUME NEW m \in Link, NEW i \in RunId, held'[l][i] # NoToken, held'[m][i] # NoToken
        PROVE  held'[m][i] = held'[l][i] \/ ~Holds(runs'[i], held'[m][i])
    BY <2>1, <2>3, <2>4 DEF Settled, Over
  <2>. QED BY <1>2, <2>1, <2>2, <2>4 DEF OneHolder, Over
<1>3. ASSUME current # NoLink, current' = current PROVE OneHolder'
  <2>1. current \in Link /\ \A m \in Link : ~AttachInstalls(m)
    BY <1>1, <1>3 DEF RoutesTyped, OneLink, AttachInstalls, Attaching
  <2>2. ASSUME NEW l \in Link, NEW i \in RunId, held[l][i] # NoToken, ~Holds(runs[i], held[l][i])
        PROVE  ~Holds(runs'[i], held[l][i])
    BY <2>2, Lasts, FreshIsElsewhere DEF Inv
  <2>3. CASE Emptied
    <3>1. ASSUME NEW l \in Link, NEW i \in RunId, held'[current][i] # NoToken, held'[l][i] # NoToken
          PROVE  held'[l][i] = held'[current][i] \/ ~Holds(runs'[i], held'[l][i])
      <4>1. held'[l][i] = held[l][i] /\ held'[current][i] = held[current][i]
        BY <2>1, <2>3, <3>1 DEF Emptied
      <4>2. held[l][i] = held[current][i] \/ ~Holds(runs[i], held[l][i])
        BY <1>3, <3>1, <4>1 DEF OneHolder, Over
      <4>. QED BY <2>2, <3>1, <4>1, <4>2
    <3>2. ASSUME pump'[current].stage = "claimed", NEW l \in Link,
                 held'[l][pump'[current].run] # NoToken
          PROVE  ~Holds(runs'[pump'[current].run], held'[l][pump'[current].run])
      <4>. DEFINE i == pump'[current].run
      <4>1. CASE pump'[current] = pump[current]
        <5>1. pump[current] \in Round
          BY <1>1, <2>1, <3>2, <4>1 DEF RoutesTyped, NoPump
        <5>2. i \in RunId /\ i = pump[current].run
          BY <4>1, <5>1 DEF Round
        <5>. HIDE DEF i
        <5>3. held'[l][i] = held[l][i] /\ held[l][i] # NoToken
          BY <2>3, <3>2, <5>2 DEF Emptied, i
        <5>4. ~Holds(runs[i], held[l][i])
          BY <1>3, <3>2, <4>1, <5>2, <5>3 DEF OneHolder, Over
        <5>5. ~Holds(runs'[i], held'[l][i])
          BY <2>2, <5>2, <5>3, <5>4
        <5>. QED BY <5>5 DEF i
      <4>2. CASE pump'[current] # pump[current] /\ PumpClaims(current)
        <5>1. held' = held /\ FreshTokens # {}
          BY <4>2 DEF PumpClaims, state
        <5>2. PICK j \in RunId :
                /\ runs'[j].token = FreshToken
                /\ pump' = [pump EXCEPT ![current] = [stage |-> "claimed", run |-> j,
                                             token |-> FreshToken, work |-> runs[j].work]]
          BY <2>1, <4>2, ClaimLasts
        <5>3. i = j
          BY <1>1, <2>1, <5>2 DEF RoutesTyped
        <5>4. held[l][j] # FreshToken
          BY <5>1, FreshIsElsewhere DEF Inv
        <5>. HIDE DEF i
        <5>5. ~Holds(runs'[i], held'[l][i])
          BY <5>1, <5>2, <5>3, <5>4 DEF Holds
        <5>. QED BY <5>5 DEF i
      <4>3. pump'[current] = pump[current] \/ PumpClaims(current)
        BY <1>1, <2>1, <3>2, Loop DEF Inv
      <4>. QED BY <4>1, <4>2, <4>3
    <3>. QED BY <1>3, <3>1, <3>2 DEF OneHolder, Over
  <2>4. CASE ~Emptied /\ PumpPlaces(current)
    <3>. DEFINE r == pump[current]
    <3>1. held' = [held EXCEPT ![current][r.run] = r.token]
          /\ pump' = [pump EXCEPT ![current] = NoPump] /\ r.stage = "claimed" /\ UNCHANGED runs
      BY <2>4 DEF PumpPlaces, PumpReturns, Emptied
    <3>2. r \in Round
      BY <1>1, <2>1, <3>1 DEF RoutesTyped, NoPump
    <3>3. r.run \in RunId
      BY <3>2 DEF Round
    <3>4. pump'[current].stage = "off"
      BY <1>1, <2>1, <3>1 DEF RoutesTyped, NoPump
    <3>. HIDE DEF r
    <3>5. \A l \in Link, i \in RunId :
            held'[l][i] = IF l = current /\ i = r.run THEN r.token ELSE held[l][i]
      BY <1>1, <2>1, <3>1, <3>3 DEF SlotsTyped
    <3>6. \A l \in Link : held[l][r.run] # NoToken => ~Holds(runs[r.run], held[l][r.run])
      BY <1>3, <3>1 DEF OneHolder, Over, r
    <3>7. ASSUME NEW l \in Link, NEW i \in RunId, held'[current][i] # NoToken, held'[l][i] # NoToken
          PROVE  held'[l][i] = held'[current][i] \/ ~Holds(runs'[i], held'[l][i])
      <4>1. CASE i = r.run /\ l # current
        BY <2>1, <3>1, <3>3, <3>5, <3>6, <3>7, <4>1
      <4>2. CASE i # r.run
        BY <1>3, <2>1, <3>1, <3>5, <3>7, <4>2 DEF OneHolder, Over
      <4>. QED BY <4>1, <4>2
    <3>. QED BY <1>3, <3>4, <3>7 DEF OneHolder, Over
  <2>. QED BY <1>1, <2>1, <2>3, <2>4, SlotsEmpty DEF Inv
<1>4. current' = NoLink => OneHolder'
  BY DEF OneHolder
<1>. QED BY <1>1, <1>2, <1>3, <1>4, Loop DEF Inv

-----------------------------------------------------------------------------
(* In whose hand an attempt is.                                            *)

OnSlot(i, t) ==
  \E l \in Link : (current = l \/ handing[l] \in {"settling", "waiting"}) /\ held[l][i] = t
InRound(i, t) ==
  \E l \in Link : pump[l].stage = "claimed" /\ pump[l].run = i /\ pump[l].token = t
InAttach(i, t) ==
  \E l \in Link : [run |-> i, token |-> t] \in hello[l].known \/ hello[l].resumed[i] = t
Handled(i, t) == OnSlot(i, t) \/ InRound(i, t) \/ InAttach(i, t) \/ Called(i, t)

LEMMA HandsHold ==
  ASSUME Steady, Inv, InOrder, OneLink, Settled, [Next]_vars,
         NEW i \in RunId, NEW t \in Token, Holds(runs[i], t), Holds(runs'[i], t), InAttach(i, t)
  PROVE  Handled(i, t)'
<1>. DEFINE a == [run |-> i, token |-> t]
<1>1. RoutesTyped /\ SlotsTyped /\ t # NoToken /\ ~Restart
  BY QueueAssumption DEF Inv, Typed, Steady, Restart
<1>2. PICK l \in Link : a \in hello[l].known \/ hello[l].resumed[i] = t
  BY DEF InAttach
<1>3. hello[l] # NoHello
  BY <1>1, <1>2 DEF NoHello, Free
<1>4. serving[l] \in Attaching /\ (hello[l].resumed[i] = t => serving[l] = "reconciling")
  BY <1>1, <1>3 DEF InOrder, Free
<1>5. ~AttachBegins(l)
  BY <1>4 DEF AttachBegins, Attaching
<1>6. CASE hello'[l] = hello[l]
  BY <1>2, <1>6 DEF Handled, InAttach
<1>7. CASE AttachReconciles(l)
  <2>1. a \in hello[l].known
    BY <1>2, <1>4, <1>7 DEF AttachReconciles
  <2>2. hello[l] \in Hello
    BY <1>1 DEF RoutesTyped
  <2>3. hello'[l].known = hello[l].known
    BY <1>1, <1>7, <2>2 DEF AttachReconciles, RoutesTyped, Hello
  <2>. QED BY <2>1, <2>3 DEF Handled, InAttach
<1>8. CASE AttachInstalls(l)
  <2>1. hello[l].resumed[i] = t \/ Called(i, t)
    BY <1>2, <1>8 DEF AttachInstalls, Settled, Over
  <2>2. CASE hello[l].resumed[i] = t
    <3>1. held'[l][i] = t
      BY <1>1, <1>8, <2>2 DEF AttachInstalls, SlotsTyped
    <3>2. current' = l \/ handing'[l] = "settling"
      BY <1>1, <1>8 DEF AttachInstalls, RoutesTyped
    <3>. QED BY <3>1, <3>2 DEF Handled, OnSlot
  <2>. QED BY <2>1, <2>2, CallsStay DEF Handled
<1>. QED BY <1>1, <1>5, <1>6, <1>7, <1>8, Loop DEF Inv

LEMMA RoundsHold ==
  ASSUME Steady, Inv, [Next]_vars, NEW i \in RunId, NEW t \in Token, InRound(i, t)
  PROVE  Handled(i, t)'
<1>1. RoutesTyped /\ SlotsTyped /\ ~Restart
  BY DEF Inv, Typed, Steady, Restart
<1>2. PICK l \in Link : pump[l].stage = "claimed" /\ pump[l].run = i /\ pump[l].token = t
  BY DEF InRound
<1>3. CASE pump'[l] = pump[l]
  BY <1>2, <1>3 DEF Handled, InRound
<1>4. ASSUME PumpReturns(l) PROVE Called(i, t)'
  <2>. DEFINE b == [run |-> pump[l].run, token |-> pump[l].token]
              c == Call(<<"pump", l>>, "abandon", b)
  <2>1. c \in db'
    BY <1>4 DEF PumpReturns, Abandons
  <2>2. c.run = i /\ c.token = t
    BY <1>2 DEF Call
  <2>. QED BY <2>1, <2>2 DEF Called
<1>5. CASE PumpPlaces(l)
  <2>1. CASE PumpReturns(l)
    BY <1>4, <2>1 DEF Handled
  <2>2. CASE held' = [held EXCEPT ![l][pump[l].run] = pump[l].token] /\ current = l
    <3>1. held'[l][i] = t
      BY <1>1, <1>2, <2>2 DEF SlotsTyped
    <3>2. current' = l
      BY <1>5, <2>2 DEF PumpPlaces
    <3>. QED BY <3>1, <3>2 DEF Handled, OnSlot
  <2>. QED BY <1>5, <2>1, <2>2 DEF PumpPlaces
<1>6. ~PumpClaims(l) /\ ~PumpReturned(l)
  BY <1>2 DEF PumpClaims, MayClaim, PumpReturned
<1>. QED BY <1>1, <1>3, <1>5, <1>6, Loop DEF Inv

(* An attempt on a slot: the steps that change who is the runner's link,   *)
(* or which hand-back is how far.                                          *)
LEMMA SlotsPass ==
  ASSUME Steady, Inv, InOrder, OneLink, OneHolder,
         NEW i \in RunId, NEW t \in Token, Holds(runs[i], t), OnSlot(i, t), NEW m \in Link,
         \/ AttachBegins(m) \/ AttachInstalls(m) \/ RouteEnds(m) \/ BeatDetaches(m)
         \/ HandBackQueues(m) \/ HandBack(m) \/ HandedBack(m)
  PROVE  Handled(i, t)'
<1>. DEFINE a == [run |-> i, token |-> t]
<1>1. RoutesTyped /\ SlotsTyped /\ t # NoToken /\ NoLink \notin Link
  BY QueueAssumption DEF Inv, Typed, NoLink, Link
<1>2. PICK l \in Link : (current = l \/ handing[l] \in {"settling", "waiting"}) /\ held[l][i] = t
  BY DEF OnSlot
<1>3. a \in OnSlots(l)
  BY <1>1, <1>2 DEF OnSlots
<1>. HIDE DEF a
<1>4. CASE AttachBegins(m)
  <2>1. CASE l = current
    <3>1. hello'[m].known = OnSlots(current)
      BY <1>1, <1>2, <1>4, <2>1 DEF AttachBegins, RoutesTyped, NoHello
    <3>. QED BY <1>3, <2>1, <3>1 DEF Handled, InAttach, a
  <2>2. CASE l # current
    <3>1. held'[l] = held[l] /\ handing' = handing
      BY <1>1, <1>4, <2>2 DEF AttachBegins, SlotsTyped, routes
    <3>. QED BY <1>2, <2>2, <3>1 DEF Handled, OnSlot
  <2>. QED BY <2>1, <2>2
<1>5. CASE AttachInstalls(m)
  <2>1. current = NoLink /\ serving[m] = "reconciling"
    BY <1>5 DEF AttachInstalls, OneLink, Attaching
  <2>2. l # m
    BY <1>1, <1>2, <2>1 DEF InOrder
  <2>3. held'[l] = held[l] /\ handing'[l] = handing[l]
    BY <1>1, <1>5, <2>2 DEF AttachInstalls, SlotsTyped, RoutesTyped
  <2>. QED BY <1>1, <1>2, <2>1, <2>3 DEF Handled, OnSlot
<1>6. CASE RouteEnds(m) \/ BeatDetaches(m)
  <2>1. Dropped(m) /\ held' = held
    BY <1>6 DEF RouteEnds, BeatDetaches, state
  <2>2. current' = l \/ handing'[l] \in {"settling", "waiting"}
    BY <1>1, <1>2, <2>1 DEF Dropped, RoutesTyped
  <2>. QED BY <1>2, <2>1, <2>2 DEF Handled, OnSlot
<1>7. CASE HandBackQueues(m)
  <2>1. UNCHANGED <<held, current>>
        /\ (handing[l] \in {"settling", "waiting"} => handing'[l] \in {"settling", "waiting"})
    BY <1>1, <1>7 DEF HandBackQueues, RoutesTyped, state
  <2>. QED BY <1>2, <2>1 DEF Handled, OnSlot
<1>8. CASE HandBack(m)
  <2>0. UNCHANGED <<held, current>> /\ \A k \in Link : k # m => handing'[k] = handing[k]
    BY <1>1, <1>8 DEF HandBack, RoutesTyped, state
  <2>1. CASE l # m \/ current = l
    BY <1>2, <2>0, <2>1 DEF Handled, OnSlot
  <2>2. CASE l = m /\ current # l
    <3>1. CASE current = NoLink \/ held[current][i] = NoToken
      <4>. DEFINE back == {b \in OnSlots(l) : current = NoLink \/ held[current][b.run] = NoToken}
                  c == Call(<<"handback", l>>, "abandon", a)
      <4>1. a.run = i /\ a.token = t
        BY DEF a
      <4>2. a \in back
        BY <1>3, <3>1, <4>1
      <4>3. c \in db'
        BY <1>8, <2>2, <4>2 DEF HandBack, Abandons
      <4>4. c.run = i /\ c.token = t
        BY <4>1 DEF Call
      <4>. QED BY <4>3, <4>4 DEF Handled, Called
    <3>2. CASE current # NoLink /\ held[current][i] # NoToken
      <4>1. held[current][i] = t /\ current \in Link
        BY <1>1, <1>2, <3>2 DEF OneHolder, Over, RoutesTyped
      <4>. QED BY <2>0, <4>1 DEF Handled, OnSlot
    <3>. QED BY <3>1, <3>2
  <2>. QED BY <2>1, <2>2
<1>9. CASE HandedBack(m)
  <2>1. handing[m] = "writing" /\ held' = [held EXCEPT ![m] = Free] /\ UNCHANGED current
        /\ \A k \in Link : k # m => handing'[k] = handing[k]
    BY <1>1, <1>9 DEF HandedBack, RoutesTyped
  <2>2. l # m
    BY <1>1, <1>2, <2>1 DEF InOrder
  <2>. QED BY <1>1, <1>2, <2>1, <2>2 DEF Handled, OnSlot, SlotsTyped
<1>. QED BY <1>4, <1>5, <1>6, <1>7, <1>8, <1>9

(* The steps that take an attempt off its slot, or put one on: whoever     *)
(* forgets an attempt means one that is over.                              *)
LEMMA SlotsForget ==
  ASSUME SlotsTyped, NEW l \in Link, NEW i \in RunId, NEW t, Holds(runs[i], t), held[l][i] = t,
         NEW b, ~Holds(runs[b.run], b.token), held' = Forgotten(b)
  PROVE  held'[l][i] = t
<1>1. CASE held' = held
  BY <1>1
<1>2. CASE /\ held[current][b.run] = b.token
           /\ held' = [held EXCEPT ![current][b.run] = NoToken]
  BY <1>2 DEF SlotsTyped
<1>. QED BY <1>1, <1>2 DEF Forgotten

LEMMA SlotsRelease ==
  ASSUME SlotsTyped, NEW l \in Link, NEW i \in RunId, NEW t, Holds(runs[i], t), held[l][i] = t,
         NEW m, NEW b, ~Holds(runs[b.run], b.token), Release(m, b)
  PROVE  held'[l][i] = t
<1>1. held' = held \/ held' = Forgotten(b)
  BY Zenon DEF Release
<1>. QED BY <1>1, SlotsForget

LEMMA SlotsKeep ==
  ASSUME Steady, Inv, CancelsEnd, SweepsEnd, AnswersEnd, OneHolder,
         NEW l \in Link, NEW i \in RunId, NEW t \in Token, Holds(runs[i], t), held[l][i] = t,
         \/ \E m \in Link : TakeProgress(m) \/ Answered(m) \/ PumpPlaces(m)
         \/ \E r \in releases : SweepReleases(r)
         \/ \E j \in RunId : Cancelled(j)
         \/ ReserveSlot
  PROVE  UNCHANGED <<current, handing>> /\ (held'[l][i] = t \/ (ReserveSlot /\ Called(i, t)'))
<1>1. RoutesTyped /\ SlotsTyped /\ t # NoToken
  BY QueueAssumption DEF Inv, Typed
<1>2. held' = held => held'[l][i] = t
  OBVIOUS
<1>3. ASSUME NEW m \in Link, TakeProgress(m)
      PROVE  UNCHANGED <<current, handing>> /\ held'[l][i] = t
  <2>1. UNCHANGED <<current, handing>>
    BY <1>3 DEF TakeProgress, routes
  <2>. DEFINE b == Head(up[m])
  <2>2. held' = held \/ (~Holds(runs[b.run], b.token) /\ Release(current, b))
    BY <1>3, Zenon DEF TakeProgress
  <2>. HIDE DEF b
  <2>. QED BY <1>1, <1>2, <2>1, <2>2, SlotsRelease
<1>4. ASSUME NEW m \in Link, Answered(m)
      PROVE  UNCHANGED <<current, handing>> /\ held'[l][i] = t
  <2>1. UNCHANGED <<current, handing>> /\ held' = Forgotten(socket[m])
    BY <1>4 DEF Answered
  <2>2. ~Holds(runs[socket[m].run], socket[m].token)
    BY <1>4 DEF Answered, AnswersEnd, Awaited, Over
  <2>. QED BY <1>1, <2>1, <2>2, SlotsForget
<1>5. ASSUME NEW r \in releases, SweepReleases(r)
      PROVE  UNCHANGED <<current, handing>> /\ held'[l][i] = t
  <2>. DEFINE b == [run |-> r.run, token |-> r.token]
  <2>1. UNCHANGED <<current, handing>> /\ Release(r.link, b)
    BY <1>5 DEF SweepReleases, routes
  <2>2. ~Holds(runs[b.run], b.token)
    BY <1>5 DEF SweepsEnd, Over
  <2>. HIDE DEF b
  <2>. QED BY <1>1, <2>1, <2>2, SlotsRelease
<1>6. ASSUME NEW j \in RunId, Cancelled(j)
      PROVE  UNCHANGED <<current, handing>> /\ held'[l][i] = t
  <2>. DEFINE b == [run |-> j, token |-> held[current][j]]
  <2>1. UNCHANGED <<current, handing>> /\ (held' = held \/ Release(current, b))
    BY <1>6, Zenon DEF Cancelled, routes
  <2>2. ~Holds(runs[b.run], b.token)
    BY <1>6 DEF Cancelled, CancelsEnd, Holds
  <2>. HIDE DEF b
  <2>. QED BY <1>1, <1>2, <2>1, <2>2, SlotsRelease
<1>7. ASSUME NEW m \in Link, PumpPlaces(m)
      PROVE  UNCHANGED <<current, handing>> /\ held'[l][i] = t
  <2>1. UNCHANGED <<current, handing, runs>> /\ pump[m].stage = "claimed"
    BY <1>7 DEF PumpPlaces
  <2>2. held' = held \/ (current = m /\ held' = [held EXCEPT ![m][pump[m].run] = pump[m].token])
    BY <1>7 DEF PumpPlaces, PumpReturns
  <2>3. ASSUME current = m, held' = [held EXCEPT ![m][pump[m].run] = pump[m].token]
        PROVE  held'[l][i] = t
    <3>1. current # NoLink
      BY <2>3 DEF NoLink, Link
    <3>2. ~(l = m /\ i = pump[m].run)
      BY <1>1, <2>1, <2>3, <3>1 DEF OneHolder, Over
    <3>. QED BY <1>1, <2>3, <3>2 DEF SlotsTyped
  <2>. QED BY <2>1, <2>2, <2>3
<1>8. ASSUME ReserveSlot
      PROVE  UNCHANGED <<current, handing>> /\ (held'[l][i] = t \/ Called(i, t)')
  <2>1. UNCHANGED <<current, handing>> /\ current \in Link
    BY <1>1, <1>8 DEF ReserveSlot, routes, RoutesTyped
  <2>2. held' = held \/ \E a \in OnSlots(current) :
          /\ held' = [held EXCEPT ![current][a.run] = NoToken]
          /\ db' = db \cup Abandons(<<"preempt", a>>, {a})
    BY <1>8, Zenon DEF ReserveSlot
  <2>3. ASSUME NEW a \in OnSlots(current),
               held' = [held EXCEPT ![current][a.run] = NoToken],
               db' = db \cup Abandons(<<"preempt", a>>, {a})
        PROVE  held'[l][i] = t \/ Called(i, t)'
    <3>1. a.token = held[current][a.run]
      BY DEF OnSlots
    <3>. DEFINE c == Call(<<"preempt", a>>, "abandon", a)
    <3>2. c \in db' /\ c.run = a.run /\ c.token = a.token
      BY <2>3 DEF Abandons, Call
    <3>. HIDE DEF c
    <3>3. CASE l = current /\ a.run = i
      BY <3>1, <3>2, <3>3 DEF Called
    <3>4. CASE ~(l = current /\ a.run = i)
      BY <1>1, <2>1, <2>3, <3>4 DEF SlotsTyped
    <3>. QED BY <3>3, <3>4
  <2>. QED BY <1>2, <2>1, <2>2, <2>3
<1>. QED BY <1>3, <1>4, <1>5, <1>6, <1>7, <1>8

LEMMA SlotsStay ==
  ASSUME Steady, Inv, InOrder, OneLink, CancelsEnd, SweepsEnd, AnswersEnd, OneHolder,
         [Next]_vars, NEW i \in RunId, NEW t \in Token, Holds(runs[i], t), OnSlot(i, t)
  PROVE  Handled(i, t)'
<1>1. ~Restart
  BY DEF Steady, Restart
<1>2. UNCHANGED <<held, current, handing>> => Handled(i, t)'
  BY DEF Handled, OnSlot
<1>0. ASSUME \/ \E m \in Link : TakeProgress(m) \/ Answered(m) \/ PumpPlaces(m)
             \/ \E r \in releases : SweepReleases(r)
             \/ \E j \in RunId : Cancelled(j)
             \/ ReserveSlot
      PROVE  Handled(i, t)'
  <2>1. PICK l \in Link : (current = l \/ handing[l] \in {"settling", "waiting"}) /\ held[l][i] = t
    BY DEF OnSlot
  <2>2. UNCHANGED <<current, handing>> /\ (held'[l][i] = t \/ Called(i, t)')
    BY <1>0, <2>1, SlotsKeep
  <2>. QED BY <2>1, <2>2 DEF Handled, OnSlot
<1>3. ASSUME NEW l \in Link,
             \/ AttachQueues(l) \/ AttachReconciles(l) \/ TakeAnswer(l) \/ PumpClaims(l)
             \/ PumpReturned(l) \/ LinkBreaks(l) \/ Dial(l)
      PROVE  UNCHANGED <<held, current, handing>>
  BY <1>3 DEF AttachQueues, AttachReconciles, TakeAnswer, PumpClaims, PumpReturned, LinkBreaks, Dial,
     state, routes
<1>4. ASSUME NEW c \in db, CallRuns(c) \/ CallReads(c) \/ CallWrites(c)
      PROVE  UNCHANGED <<held, current, handing>>
  BY <1>4 DEF CallRuns, CallReads, CallWrites, state, routes
<1>5. ASSUME NEW j \in RunId, CancelRun(j) \/ Report(j) \/ GoQuiet(j)
      PROVE  UNCHANGED <<held, current, handing>>
  BY <1>5 DEF CancelRun, Report, GoQuiet, state, routes
<1>6. ASSUME \/ \E a \in preempts : Preempted(a)
             \/ \E j \in RunId, ends \in Ends : JobEnds(j, ends)
             \/ \E host \in AskedHosts : Ask(host)
             \/ Sweep \/ ReleaseSlot \/ HangUp \/ Hear \/ UNCHANGED vars
      PROVE  UNCHANGED <<held, current, handing>>
  BY <1>6 DEF Preempted, JobEnds, Ask, Sweep, ReleaseSlot, HangUp, Hear, vars, state, routes
<1>7. CASE \E l \in Link : Route(l) \/ HandsBack(l) \/ PumpClaims(l) \/ PumpGoesOn(l)
  BY <1>0, <1>2, <1>3, <1>7, SlotsPass DEF Route, HandsBack, PumpGoesOn
<1>8. CASE \E l \in Link : BeatDetaches(l) \/ LinkBreaks(l) \/ Dial(l)
  BY <1>2, <1>3, <1>8, SlotsPass
<1>9. CASE \E c \in db : CallRuns(c) \/ CallReads(c) \/ CallWrites(c)
  BY <1>2, <1>4, <1>9
<1>10. CASE \E j \in RunId : CancelRun(j) \/ Cancelled(j) \/ Report(j) \/ GoQuiet(j)
  BY <1>0, <1>2, <1>5, <1>10
<1>11. CASE (\E r \in releases : SweepReleases(r)) \/ ReserveSlot
  BY <1>0, <1>11
<1>. QED BY <1>1, <1>2, <1>6, <1>7, <1>8, <1>9, <1>10, <1>11, Zenon DEF Next

LEMMA InHandStep ==
  ASSUME Steady, Inv, OneLink, Kept, RunningIsInHand, [Next]_vars
  PROVE  RunningIsInHand'
<1>1. RunningIsNamed'
  BY NamedStep DEF Kept
<1>2. ASSUME NEW i \in RunId, NEW t \in Token, Holds(runs[i], t), Holds(runs'[i], t)
      PROVE  Handled(i, t)'
  <2>1. InHand([run |-> i, token |-> t])
    BY <1>2 DEF RunningIsInHand, Holds
  <2>2. Handled(i, t)
    <3>1. \A l \in Link : [run |-> i, token |-> t] \in OnSlots(l) => held[l][i] = t
      BY DEF OnSlots
    <3>. QED BY <2>1, <3>1 DEF InHand, Handled, OnSlot, InRound, InAttach, Called
  <2>. QED BY <1>2, <2>2, HandsHold, RoundsHold, SlotsStay, CallsStay DEF Handled, Kept
<1>3. ASSUME NEW i \in RunId, NEW t \in Token, Holds(runs'[i], t), ~Holds(runs[i], t)
      PROVE  Handled(i, t)'
  <2>1. PICK l \in Link : PumpClaims(l)
    BY <1>3, TableLasts DEF Lasting
  <2>2. pump' = [pump EXCEPT ![l] = [stage |-> "claimed", run |-> i,
                                     token |-> t, work |-> runs[i].work]]
    BY <1>3, <2>1, ClaimLasts
  <2>3. pump \in [Link -> Round \cup {NoPump}]
    BY DEF Inv, Typed, RoutesTyped
  <2>4. pump'[l].stage = "claimed" /\ pump'[l].run = i /\ pump'[l].token = t
    BY <2>2, <2>3
  <2>. QED BY <2>4 DEF Handled, InRound
<1>4. ASSUME NEW i \in RunId, NEW t \in Token, Holds(runs'[i], t)
      PROVE  Handled(i, t)'
  BY <1>2, <1>3, <1>4
<1>5. ASSUME NEW i \in RunId, NEW t \in Token, Holds(runs'[i], t)
      PROVE  InHand([run |-> i, token |-> t])'
  <2>1. t # NoToken
    BY QueueAssumption
  <2>2. OnSlot(i, t)' \/ InRound(i, t)' \/ InAttach(i, t)' \/ Called(i, t)'
    BY <1>4, <1>5 DEF Handled
  <2>3. ASSUME NEW l \in Link, held'[l][i] = t PROVE [run |-> i, token |-> t] \in OnSlots(l)'
    BY <2>1, <2>3 DEF OnSlots
  <2>. QED BY <2>2, <2>3 DEF InHand, OnSlot, InRound, InAttach, Called
<1>. QED BY <1>1, <1>5 DEF RunningIsInHand, RunningIsNamed, Holds

LEMMA KeptInit == Init => OneLink /\ Kept /\ RunningIsInHand
<1>. SUFFICES ASSUME Init PROVE OneLink /\ Kept /\ RunningIsInHand
  OBVIOUS
<1>1. runs = [i \in RunId |-> Absent]
  BY DEF Init, QueueInit
<1>2. OneLink
  BY DEF Init, OneLink, Attaching
<1>3. InOrder
  BY DEF Init, InOrder, NoHello, NoPump, Free, Attaching
<1>4. CancelsEnd /\ SweepsEnd /\ AnswersEnd /\ Settled /\ OneHolder
  BY DEF Init, CancelsEnd, SweepsEnd, AnswersEnd, Settled, OneHolder
<1>5. RunningIsNamed /\ RunningIsInHand
  BY <1>1 DEF RunningIsNamed, RunningIsInHand, Absent
<1>. QED BY <1>2, <1>3, <1>4, <1>5 DEF Kept

LEMMA KeptStep ==
  ASSUME Steady, Inv, OneLink, Kept, [Next]_vars
  PROVE  OneLink' /\ Kept'
<1>1. OneLink'
  BY OneLinkStep DEF Steady, Alone, Inv
<1>2. InOrder' /\ RunningIsNamed'
  BY InOrderStep, NamedStep DEF Kept, Inv
<1>3. CancelsEnd' /\ SweepsEnd' /\ AnswersEnd'
  BY EndsStay DEF Kept
<1>4. Settled' /\ OneHolder'
  BY SettledStep, OneHolderStep DEF Kept
<1>. QED BY <1>1, <1>2, <1>3, <1>4 DEF Kept

(* An attempt that is under way is in some hand of the gateway's, whoever  *)
(* dropped its link, pushed it off its slot, answered for it late or       *)
(* cancelled its run meanwhile: a hand-back finds it on the slot or on the *)
(* newer link's, an attach resumes it or gives it back, a round that has   *)
(* lost its link or its room returns it.  Left out is what is not so: the  *)
(* process ends, attaches meet, or a cancel comes to the next run of its   *)
(* id.                                                                     *)
THEOREM NothingFallsOut ==
  ASSUME {"overlap", "restart", "reuse"} \cap Faults = {}
  PROVE  Spec => []RunningIsInHand
<1>. DEFINE Safe == Inv /\ OneLink /\ Kept /\ RunningIsInHand
<1>1. Init => Safe
  BY InvInit, KeptInit
<1>2. Safe /\ [Next]_vars => Safe'
  <2>1. Steady /\ ~({"gap", "reuse"} \subseteq Faults)
    BY DEF Steady
  <2>. QED BY <2>1, InvStep, KeptStep, InHandStep
<1>3. Safe => RunningIsInHand
  OBVIOUS
<1>. QED BY <1>1, <1>2, <1>3, PTL DEF Spec

-----------------------------------------------------------------------------
(* Room.  What is on a link's slots is a finite set, and what each step    *)
(* adds to it or takes away is at most one attempt.                        *)

Slot == [RunId -> Token \cup {NoToken}]
Filled(slot) == {[run |-> i, token |-> slot[i]] : i \in {j \in RunId : slot[j] # NoToken}}
Fits(l) == Cardinality(OnSlots(l)) + boards[l] <= Slots

LEMMA FilledIsFinite ==
  ASSUME NEW slot \in Slot
  PROVE  IsFiniteSet(Filled(slot)) /\ Cardinality(Filled(slot)) \in Nat
<1>. DEFINE S == {j \in RunId : slot[j] # NoToken}
            f == [i \in S |-> [run |-> i, token |-> slot[i]]]
<1>1. IsFiniteSet(RunId)
  BY QueueAssumption, FS_Interval DEF RunId
<1>2. IsFiniteSet(S)
  <2>1. S \in SUBSET RunId
    OBVIOUS
  <2>. QED BY <1>1, <2>1, FS_Subset
<1>3. f \in Surjection(S, Filled(slot))
  <2>1. \A i \in S : f[i] \in Filled(slot)
    BY DEF Filled
  <2>2. \A y \in Filled(slot) : \E i \in S : f[i] = y
    BY DEF Filled
  <2>3. f \in [S -> Filled(slot)]
    BY <2>1
  <2>. QED BY <2>2, <2>3 DEF Surjection
<1>4. IsFiniteSet(Filled(slot))
  <2>. HIDE DEF f, S
  <2>. QED BY <1>2, <1>3, FS_Surjection
<1>. QED BY <1>4, FS_CardinalityType

LEMMA FilledFewer ==
  ASSUME NEW old \in Slot, NEW new \in Slot, \A i \in RunId : new[i] \in {NoToken, old[i]}
  PROVE  Cardinality(Filled(new)) <= Cardinality(Filled(old))
<1>1. Filled(new) \in SUBSET Filled(old)
  BY DEF Filled
<1>. QED BY <1>1, FilledIsFinite, FS_Subset

LEMMA FilledOneMore ==
  ASSUME NEW old \in Slot, NEW i \in RunId, NEW t \in Token
  PROVE  Cardinality(Filled([old EXCEPT ![i] = t])) <= Cardinality(Filled(old)) + 1
<1>. DEFINE new == [old EXCEPT ![i] = t]
            x == [run |-> i, token |-> t]
<1>1. Filled(new) \in SUBSET (Filled(old) \cup {x})
  BY DEF Filled, Slot
<1>2. /\ IsFiniteSet(Filled(old) \cup {x})
      /\ Cardinality(Filled(old) \cup {x}) <= Cardinality(Filled(old)) + 1
  <2>. DEFINE S == Filled(old)
  <2>1. IsFiniteSet(S) /\ Cardinality(S) \in Nat
    BY FilledIsFinite
  <2>. HIDE DEF S, x
  <2>2. /\ IsFiniteSet(S \cup {x})
        /\ Cardinality(S \cup {x}) = IF x \in S THEN Cardinality(S) ELSE Cardinality(S) + 1
    BY <2>1, FS_AddElement
  <2>3. Cardinality(S \cup {x}) <= Cardinality(S) + 1
    BY <2>1, <2>2
  <2>. QED BY <2>2, <2>3 DEF S
<1>3. new \in Slot
  BY DEF Slot
<1>. HIDE DEF new, x
<1>4. Cardinality(Filled(new)) <= Cardinality(Filled(old) \cup {x})
  BY <1>1, <1>2, FS_Subset
<1>5. Cardinality(Filled(new)) \in Nat /\ Cardinality(Filled(old)) \in Nat
  BY <1>3, FilledIsFinite
<1>6. Cardinality(Filled(old) \cup {x}) \in Nat
  BY <1>2, FS_CardinalityType
<1>7. Cardinality(Filled(new)) <= Cardinality(Filled(old)) + 1
  BY <1>2, <1>4, <1>5, <1>6
<1>. QED BY <1>7 DEF new

LEMMA FilledOneLess ==
  ASSUME NEW old \in Slot, NEW i \in RunId, old[i] # NoToken
  PROVE  Cardinality(Filled([old EXCEPT ![i] = NoToken])) <= Cardinality(Filled(old)) - 1
<1>. DEFINE new == [old EXCEPT ![i] = NoToken]
            x == [run |-> i, token |-> old[i]]
<1>1. Filled(new) \in SUBSET (Filled(old) \ {x})
  BY DEF Filled, Slot
<1>2. x \in Filled(old)
  BY DEF Filled
<1>3. new \in Slot
  BY DEF Slot
<1>. HIDE DEF new, x
<1>4. /\ IsFiniteSet(Filled(old) \ {x})
      /\ Cardinality(Filled(old) \ {x}) = Cardinality(Filled(old)) - 1
  BY <1>2, FilledIsFinite, FS_RemoveElement
<1>5. Cardinality(Filled(new)) <= Cardinality(Filled(old) \ {x})
  BY <1>1, <1>4, FS_Subset
<1>6. Cardinality(Filled(new)) <= Cardinality(Filled(old)) - 1
  BY <1>4, <1>5
<1>. QED BY <1>6 DEF new

LEMMA BoardsStay ==
  ASSUME [Next]_vars
  PROVE  UNCHANGED boards \/ ReserveSlot \/ ReleaseSlot \/ Restart
<1>1. ASSUME NEW l \in Link,
             \/ AttachBegins(l) \/ AttachQueues(l) \/ AttachReconciles(l) \/ AttachInstalls(l)
             \/ TakeProgress(l) \/ TakeAnswer(l) \/ Answered(l) \/ RouteEnds(l)
             \/ HandBackQueues(l) \/ HandBack(l) \/ HandedBack(l)
             \/ PumpClaims(l) \/ PumpPlaces(l) \/ PumpReturned(l)
             \/ BeatDetaches(l) \/ LinkBreaks(l) \/ Dial(l)
      PROVE  UNCHANGED boards
  BY <1>1 DEF AttachBegins, AttachQueues, AttachReconciles, AttachInstalls, TakeProgress, TakeAnswer,
     Answered, RouteEnds, HandBackQueues, HandBack, HandedBack, PumpClaims, PumpPlaces, PumpReturned,
     BeatDetaches, LinkBreaks, Dial, state, streams
<1>2. ASSUME NEW c \in db, CallRuns(c) \/ CallReads(c) \/ CallWrites(c) PROVE UNCHANGED boards
  BY <1>2 DEF CallRuns, CallReads, CallWrites, state, streams
<1>3. ASSUME NEW i \in RunId, CancelRun(i) \/ Cancelled(i) \/ Report(i) \/ GoQuiet(i)
      PROVE  UNCHANGED boards
  BY <1>3 DEF CancelRun, Cancelled, Report, GoQuiet, state, streams
<1>4. ASSUME \/ \E a \in preempts : Preempted(a)
             \/ \E r \in releases : SweepReleases(r)
             \/ \E i \in RunId, ends \in Ends : JobEnds(i, ends)
             \/ \E host \in AskedHosts : Ask(host)
             \/ Sweep \/ HangUp \/ Hear \/ UNCHANGED vars
      PROVE  UNCHANGED boards
  BY <1>4 DEF Preempted, SweepReleases, JobEnds, Ask, Sweep, HangUp, Hear, vars, state, streams
<1>. QED BY <1>1, <1>2, <1>3, <1>4, ZenonT(60) DEF Next, Route, HandsBack, PumpGoesOn

LEMMA RoomStep ==
  ASSUME Typed, Typed', [Next]_vars, NEW l \in Link, Fits(l), ~AttachInstalls(l)
  PROVE  Fits(l)'
<1>1. /\ held \in [Link -> Slot] /\ boards \in [Link -> Nat] /\ Slots \in Nat
      /\ held' \in [Link -> Slot] /\ boards' \in [Link -> Nat] /\ NoLink \notin Link
  BY GatewayAssumption DEF Typed, SlotsTyped, Slot, NoLink, Link
<1>2. /\ RoutesTyped /\ SlotsTyped
  BY DEF Typed
<1>. DEFINE c == Cardinality(Filled(held[l]))
            d == Cardinality(Filled(held'[l]))
<1>3. c \in Nat /\ d \in Nat /\ c + boards[l] <= Slots
  BY <1>1, FilledIsFinite DEF Fits, OnSlots, Filled
<1>. SUFFICES d + boards'[l] <= Slots
  BY DEF Fits, OnSlots, Filled
<1>4. \A m : OnSlots(m) = Filled(held[m])
  BY DEF OnSlots, Filled
<1>5. Emptied => d <= c
  BY <1>1, FilledFewer DEF Emptied
<1>. HIDE DEF c, d
<1>6. CASE Restart
  <2>1. held'[l] = Free /\ boards'[l] = 0
    BY <1>6 DEF Restart
  <2>2. Filled(Free) = {}
    BY DEF Filled, Free
  <2>. QED BY <1>1, <2>1, <2>2, FS_EmptySet DEF d
<1>7. CASE ReserveSlot
  <2>1. current \in Link /\ boards' = [boards EXCEPT ![current] = @ + 1]
    BY <1>2, <1>7 DEF ReserveSlot, RoutesTyped
  <2>2. CASE l # current
    <3>1. boards'[l] = boards[l] /\ held'[l] = held[l]
      <4>1. boards'[l] = boards[l]
        BY <1>1, <2>1, <2>2
      <4>2. held' = held \/ \E a : held' = [held EXCEPT ![current][a.run] = NoToken]
        BY <1>7, Zenon DEF ReserveSlot
      <4>. QED BY <1>1, <2>1, <2>2, <4>1, <4>2
    <3>. QED BY <1>3, <3>1 DEF c, d
  <2>3. CASE l = current
    <3>1. boards'[l] = boards[l] + 1
      BY <1>1, <2>1, <2>3
    <3>2. FreeSlots(l) = Slots - c - boards[l]
      BY <1>4 DEF FreeSlots, c
    <3>3. CASE FreeSlots(l) > 0 /\ UNCHANGED held
      <4>1. d = c
        BY <3>3 DEF c, d
      <4>. QED BY <1>1, <1>3, <3>1, <3>2, <3>3, <4>1
    <3>4. ASSUME NEW a \in OnSlots(l), held' = [held EXCEPT ![l][a.run] = NoToken]
          PROVE  d + boards'[l] <= Slots
      <4>1. a.run \in RunId /\ held[l][a.run] # NoToken
        BY <3>4 DEF OnSlots
      <4>2. held'[l] = [held[l] EXCEPT ![a.run] = NoToken]
        BY <1>1, <3>4
      <4>3. d <= c - 1
        BY <1>1, <4>1, <4>2, FilledOneLess DEF c, d
      <4>. QED BY <1>1, <1>3, <3>1, <4>3
    <3>. QED BY <1>7, <2>3, <3>3, <3>4, Zenon DEF ReserveSlot
  <2>. QED BY <2>2, <2>3
<1>8. CASE ReleaseSlot
  <2>1. /\ held' = held /\ current \in Link /\ boards[current] > 0
        /\ boards' = [boards EXCEPT ![current] = @ - 1]
    BY <1>2, <1>8 DEF ReleaseSlot, RoutesTyped
  <2>2. boards'[l] <= boards[l]
    BY <1>1, <2>1
  <2>3. d = c
    BY <2>1 DEF c, d
  <2>. QED BY <1>1, <1>3, <2>2, <2>3
<1>9. CASE UNCHANGED boards /\ ~Restart
  <2>1. ASSUME NEW m \in Link, AttachInstalls(m) PROVE d = c
    <3>1. m # l
      BY <2>1
    <3>2. held'[l] = held[l]
      BY <1>1, <2>1, <3>1 DEF AttachInstalls
    <3>. QED BY <3>2 DEF c, d
  <2>2. ASSUME NEW m \in Link, PumpPlaces(m), current = m PROVE d + boards[l] <= Slots
    <3>1. CASE held' = held
      BY <1>3, <3>1 DEF c, d
    <3>2. CASE FreeSlots(m) > 0 /\ held' = [held EXCEPT ![m][pump[m].run] = pump[m].token]
      <4>1. CASE m = l
        <5>1. pump[l].run \in RunId /\ pump[l].token \in Token
          <6>1. pump[l] \in Round
            BY <1>2, <2>2, <4>1 DEF PumpPlaces, RoutesTyped, NoPump
          <6>. QED BY <6>1 DEF Round
        <5>2. held'[l] = [held[l] EXCEPT ![pump[l].run] = pump[l].token]
          BY <1>1, <3>2, <4>1
        <5>3. d <= c + 1
          BY <1>1, <5>1, <5>2, FilledOneMore DEF c, d
        <5>4. Slots - c - boards[l] > 0
          BY <1>4, <3>2, <4>1 DEF FreeSlots, c
        <5>. QED BY <1>1, <1>3, <5>3, <5>4
      <4>2. CASE m # l
        <5>1. held'[l] = held[l]
          BY <1>1, <3>2, <4>2
        <5>. QED BY <1>3, <5>1 DEF c, d
      <4>. QED BY <4>1, <4>2
    <3>. QED BY <2>2, <3>1, <3>2 DEF PumpPlaces, PumpReturns
  <2>3. CASE Emptied
    BY <1>1, <1>3, <1>5, <1>9, <2>3
  <2>. QED BY <1>1, <1>3, <1>9, <2>1, <2>2, <2>3, SlotsEmpty
<1>. QED BY <1>6, <1>7, <1>8, <1>9, BoardsStay

(* Nothing fills a link beyond the runner's slots but the runner itself:   *)
(* a board counts what is on them or pushes one off, a round asks for room *)
(* after its claim has come back, and all else only takes attempts away.   *)
(* What an attach resumes is what the runner says it is at, and that may   *)
(* be a run too many (a board pushed it off, its hand-back is not written).*)
RoomIsKept == [][\A l \in Link : Fits(l) /\ ~AttachInstalls(l) => Fits(l)']_vars

THEOREM OnlyAnAttachOverfills == Spec => RoomIsKept
<1>1. Typed /\ LockHeld /\ [Next]_vars => Typed' /\ LockHeld'
  BY TypedStep, LockStep
<1>2. Typed /\ Typed' /\ [Next]_vars =>
        [\A l \in Link : Fits(l) /\ ~AttachInstalls(l) => Fits(l)']_vars
  BY RoomStep
<1>. QED BY <1>1, <1>2, LoopIsSound, PTL DEF Spec, RoomIsKept


-----------------------------------------------------------------------------
(* What the runner is at.  While no board preempts, an attempt that runs   *)
(* and that the runner is at, or is told of, is on the slots of the link   *)
(* it talks on, or in what that link's attach has heard and decided; so    *)
(* the runner never has more of them than slots, nor does it say so.       *)

Told(i, t) ==
  \/ jobs[i].token = t
  \/ \E l \in Link : \E f \in Range(down[l]) : f.type = "dispatch" /\ f.run = i /\ f.token = t
AtWork == {a \in Attempt : Holds(runs[a.run], a.token) /\ Told(a.run, a.token)}
Live(as) == {a \in as : Holds(runs[a.run], a.token)}

(* The hello of a link whose attach has yet to look at the table.          *)
Announced(l) ==
  serving[l] \in {"closing", "waiting"} \/ (serving[l] = "none" /\ up[l] # <<>>)
Said(l) == IF serving[l] = "none" THEN Head(up[l]).active ELSE hello[l].reported

OneTalk == \A l \in Link : wire[l] = "up" => l = sink

SaidFits ==
  \A l \in Link : Announced(l) =>
    Cardinality(Live(Said(l))) <= Slots /\ (wire[l] = "up" => AtWork \subseteq Said(l))
ResumedFits ==
  \A l \in Link : serving[l] = "reconciling" =>
    /\ Cardinality(Filled(hello[l].resumed)) <= Slots
    /\ wire[l] = "up" => AtWork \subseteq Filled(hello[l].resumed)
HeldFits == current # NoLink /\ wire[current] = "up" => AtWork \subseteq OnSlots(current)
WorkFits == Cardinality(AtWork) <= Slots

Fitting == OneTalk /\ SaidFits /\ ResumedFits /\ HeldFits /\ WorkFits /\ SlotsHold

(* No two attempts at one run are under way, so those that are, are few.   *)
LEMMA LivesAreFew ==
  ASSUME Typed, NEW as, as \subseteq {a \in Attempt : Holds(runs[a.run], a.token)}
  PROVE  IsFiniteSet(as) /\ Cardinality(as) \in Nat
<1>. DEFINE slot == [i \in RunId |-> runs[i].token]
<1>1. runs \in [RunId -> Row]
  BY TypedTable
<1>2. slot \in Slot
  BY <1>1 DEF Slot, Row
<1>3. as \in SUBSET Filled(slot)
  <2>1. \A a \in Attempt : Holds(runs[a.run], a.token) => a \in Filled(slot)
    BY QueueAssumption DEF Attempt, Holds, Filled
  <2>. QED BY <2>1
<1>. HIDE DEF slot
<1>. QED BY <1>2, <1>3, FilledIsFinite, FS_Subset, FS_CardinalityType

LEMMA FewerAreFewer ==
  ASSUME NEW S, NEW T, IsFiniteSet(T), S \subseteq T
  PROVE  IsFiniteSet(S) /\ Cardinality(S) <= Cardinality(T)
BY FS_Subset

(* What the runner is told anew, a round has placed.                       *)
LEMMA ToldStays ==
  ASSUME Typed, [Next]_vars, NEW i \in RunId, NEW t \in Token, Told(i, t)', ~Told(i, t)
  PROVE  \E l \in Link :
           /\ PumpPlaces(l) /\ pump[l].run = i /\ pump[l].token = t
           /\ current = l /\ wire[l] = "up" /\ FreeSlots(l) > 0
           /\ held' = [held EXCEPT ![l][i] = t]
<1>1. LinksTyped /\ RunnerTyped /\ RoutesTyped /\ t # NoToken
  BY QueueAssumption DEF Typed
<1>2. ASSUME FewerDown, FewerJobs PROVE FALSE
  <2>1. CASE jobs'[i].token = t
    BY <1>1, <1>2, <2>1 DEF FewerJobs, NoJob, Told
  <2>2. ASSUME NEW l \in Link, NEW f \in Range(down'[l]), f.type = "dispatch", f.run = i, f.token = t
        PROVE  FALSE
    BY <1>2, <2>2 DEF FewerDown, Working, Told
  <2>. QED BY <2>1, <2>2 DEF Told
<1>3. ASSUME Hear PROVE FALSE
  <2>. DEFINE f == Head(down[sink])
  <2>1. sink \in Link /\ down[sink] \in Seq(DownFrame) /\ down[sink] # <<>>
    BY <1>1, <1>3 DEF Hear, LinksTyped, RunnerTyped
  <2>2. f \in Range(down[sink]) /\ Range(Tail(down[sink])) \subseteq Range(down[sink])
    BY <2>1, Sequences
  <2>3. \A m \in Link : Range(down'[m]) \subseteq Range(down[m])
    BY <1>1, <1>3, <2>2 DEF Hear, LinksTyped
  <2>4. \/ FewerJobs
        \/ f.type = "dispatch" /\ jobs' = [jobs EXCEPT ![f.run] = [token |-> f.token, work |-> f.work]]
    <3>1. CASE jobs' = [j \in RunId |-> IF j \in f.cancelled THEN NoJob ELSE jobs[j]]
      BY <3>1 DEF FewerJobs
    <3>2. CASE jobs' = [jobs EXCEPT ![f.run] = NoJob]
      BY <1>1, <3>2 DEF RunnerTyped, FewerJobs
    <3>3. CASE UNCHANGED jobs
      BY <3>3 DEF FewerJobs
    <3>. QED BY <1>3, <3>1, <3>2, <3>3, Zenon DEF Hear
  <2>5. CASE FewerJobs
    BY <1>2, <2>3, <2>5 DEF FewerDown
  <2>6. CASE f.type = "dispatch" /\ jobs' = [jobs EXCEPT ![f.run] = [token |-> f.token, work |-> f.work]]
    <3>. HIDE DEF f
    <3>1. jobs'[i].token # t
      BY <1>1, <2>1, <2>2, <2>6 DEF RunnerTyped, Told
    <3>. QED BY <2>3, <3>1 DEF Told
  <2>. QED BY <2>4, <2>5, <2>6
<1>4. ASSUME NEW l \in Link, PumpPlaces(l)
      PROVE  /\ pump[l].run = i /\ pump[l].token = t
             /\ current = l /\ wire[l] = "up" /\ FreeSlots(l) > 0
             /\ held' = [held EXCEPT ![l][i] = t]
  <2>1. UNCHANGED jobs /\ pump[l] \in Round
    BY <1>1, <1>4 DEF PumpPlaces, runner, RoutesTyped, NoPump
  <2>2. \E m \in Link : \E f \in Range(down'[m]) : f.type = "dispatch" /\ f.run = i /\ f.token = t
    BY <2>1 DEF Told
  <2>3. down' # down
    BY <2>2 DEF Told
  <2>. DEFINE frame == [type |-> "dispatch", run |-> pump[l].run, token |-> pump[l].token,
                        work |-> pump[l].work]
  <2>4. /\ current = l /\ FreeSlots(l) > 0 /\ Sent(l, frame)
        /\ held' = [held EXCEPT ![l][pump[l].run] = pump[l].token]
    BY <1>4, <2>3 DEF PumpPlaces, PumpReturns
  <2>5. frame \in DownFrame /\ frame.run = pump[l].run /\ frame.token = pump[l].token
    BY <2>1 DEF Round, DownFrame
  <2>. HIDE DEF frame
  <2>6. wire[l] = "up"
    BY <2>3, <2>4 DEF Sent
  <2>7. \A m \in Link : Range(down'[m]) \subseteq Range(down[m]) \cup {frame}
    BY <1>1, <2>4, <2>5, Sending
  <2>8. pump[l].run = i /\ pump[l].token = t
    BY <2>2, <2>5, <2>7 DEF Told
  <2>. QED BY <2>4, <2>6, <2>8
<1>. QED BY <1>2, <1>3, <1>4, FewerSaid

(* What the runner is at anew, a round has placed.                         *)
LEMMA AtWorkStays ==
  ASSUME Steady, Inv, [Next]_vars, NEW a \in AtWork', a \notin AtWork
  PROVE  \E l \in Link :
           /\ PumpPlaces(l) /\ pump[l].run = a.run /\ pump[l].token = a.token
           /\ current = l /\ wire[l] = "up" /\ FreeSlots(l) > 0
           /\ held' = [held EXCEPT ![l][a.run] = a.token]
<1>1. a \in Attempt /\ a.run \in RunId /\ a.token \in Token
  BY DEF AtWork, Attempt
<1>2. Holds(runs'[a.run], a.token) /\ Told(a.run, a.token)'
  BY DEF AtWork
<1>3. ~Told(a.run, a.token)
  <2>1. CASE Holds(runs[a.run], a.token)
    BY <1>1, <2>1 DEF AtWork
  <2>2. CASE a.token = FreshToken /\ FreshTokens # {}
    <3>1. \A l \in Link : \A f \in Range(down[l]) : f.type = "dispatch" => f.token # a.token
      BY <2>2, FreshIsFree DEF Working
    <3>. QED BY <1>1, <2>2, <3>1, FreshIsFree DEF Told
  <2>. QED BY <1>1, <1>2, <2>1, <2>2, Lasts
<1>. QED BY <1>1, <1>2, <1>3, ToldStays DEF Inv

(* The runner talks on one link at a time.                                 *)
LEMMA WireStays ==
  ASSUME Typed, [Next]_vars, ~Restart, NEW l \in Link, wire'[l] = "up", wire[l] # "up"
  PROVE  Dial(l)
<1>1. LinksTyped /\ RoutesTyped
  BY DEF Typed
<1>2. wire' # wire
  OBVIOUS
<1>3. ASSUME NEW m, wire' = [wire EXCEPT ![m] = "broken"] PROVE FALSE
  <2>1. wire \in [Link -> {"unused", "up", "broken"}]
    BY <1>1 DEF LinksTyped
  <2>2. wire'[l] \in {"broken", wire[l]}
    BY <1>3, <2>1, SMTT(30)
  <2>. QED BY <2>2
<1>4. ASSUME NEW m \in Link,
             \/ AttachQueues(m) \/ AttachReconciles(m) \/ AttachInstalls(m)
             \/ TakeProgress(m) \/ TakeAnswer(m) \/ Answered(m) \/ RouteEnds(m)
             \/ HandBackQueues(m) \/ HandBack(m) \/ HandedBack(m)
             \/ PumpClaims(m) \/ PumpPlaces(m) \/ PumpReturned(m)
      PROVE  FALSE
  BY <1>2, <1>4 DEF AttachQueues, AttachReconciles, AttachInstalls, TakeProgress, TakeAnswer, Answered,
     RouteEnds, HandBackQueues, HandBack, HandedBack, PumpClaims, PumpPlaces, PumpReturned, network
<1>5. ASSUME NEW m \in Link, AttachBegins(m) \/ BeatDetaches(m) \/ LinkBreaks(m) PROVE FALSE
  BY <1>2, <1>3, <1>5 DEF AttachBegins, BeatDetaches, LinkBreaks, Cut, network
<1>6. ASSUME NEW m \in Link, Dial(m) PROVE m = l
  BY <1>1, <1>6 DEF Dial, LinksTyped
<1>7. ASSUME NEW c \in db, CallRuns(c) \/ CallReads(c) \/ CallWrites(c) PROVE FALSE
  BY <1>2, <1>7 DEF CallRuns, CallReads, CallWrites, network
<1>8. ASSUME NEW i \in RunId, CancelRun(i) \/ Cancelled(i) \/ Report(i) \/ GoQuiet(i) PROVE FALSE
  BY <1>2, <1>8 DEF CancelRun, Cancelled, Report, GoQuiet, network
<1>9. ASSUME \/ \E a \in preempts : Preempted(a)
             \/ \E r \in releases : SweepReleases(r)
             \/ \E i \in RunId, ends \in Ends : JobEnds(i, ends)
             \/ \E host \in AskedHosts : Ask(host)
             \/ Sweep \/ ReserveSlot \/ ReleaseSlot \/ HangUp \/ Hear \/ UNCHANGED vars
      PROVE  FALSE
  BY <1>2, <1>9 DEF Preempted, SweepReleases, JobEnds, Ask, Sweep, ReserveSlot, ReleaseSlot, HangUp,
     Hear, vars, network
<1>. QED BY <1>4, <1>5, <1>6, <1>7, <1>8, <1>9, Zenon DEF Next, Route, HandsBack, PumpGoesOn

LEMMA SinkStays ==
  ASSUME [Next]_vars
  PROVE  sink' = sink \/ HangUp \/ \E l \in Link : Dial(l)
<1>1. ASSUME NEW l \in Link,
             \/ AttachBegins(l) \/ AttachQueues(l) \/ AttachReconciles(l) \/ AttachInstalls(l)
             \/ TakeProgress(l) \/ TakeAnswer(l) \/ Answered(l) \/ RouteEnds(l)
             \/ HandBackQueues(l) \/ HandBack(l) \/ HandedBack(l)
             \/ PumpClaims(l) \/ PumpPlaces(l) \/ PumpReturned(l)
             \/ BeatDetaches(l) \/ LinkBreaks(l)
      PROVE  sink' = sink
  BY <1>1 DEF AttachBegins, AttachQueues, AttachReconciles, AttachInstalls, TakeProgress, TakeAnswer,
     Answered, RouteEnds, HandBackQueues, HandBack, HandedBack, PumpClaims, PumpPlaces, PumpReturned,
     BeatDetaches, LinkBreaks, runner
<1>2. ASSUME NEW c \in db, CallRuns(c) \/ CallReads(c) \/ CallWrites(c) PROVE sink' = sink
  BY <1>2 DEF CallRuns, CallReads, CallWrites, runner
<1>3. ASSUME NEW i \in RunId, CancelRun(i) \/ Cancelled(i) \/ Report(i) \/ GoQuiet(i)
      PROVE  sink' = sink
  BY <1>3 DEF CancelRun, Cancelled, Report, GoQuiet, runner
<1>4. ASSUME \/ \E a \in preempts : Preempted(a)
             \/ \E r \in releases : SweepReleases(r)
             \/ \E i \in RunId, ends \in Ends : JobEnds(i, ends)
             \/ \E host \in AskedHosts : Ask(host)
             \/ Sweep \/ ReserveSlot \/ ReleaseSlot \/ Hear \/ Restart \/ UNCHANGED vars
      PROVE  sink' = sink
  BY <1>4 DEF Preempted, SweepReleases, JobEnds, Ask, Sweep, ReserveSlot, ReleaseSlot, Hear, Restart,
     vars, runner
<1>. QED BY <1>1, <1>2, <1>3, <1>4, Zenon DEF Next, Route, HandsBack, PumpGoesOn

LEMMA OneTalkStep ==
  ASSUME Typed, OneTalk, [Next]_vars, ~Restart
  PROVE  OneTalk'
<1>. SUFFICES ASSUME NEW l \in Link, wire'[l] = "up" PROVE l = sink'
  BY DEF OneTalk
<1>1. LinksTyped /\ NoLink \notin Link
  BY DEF Typed, NoLink, Link
<1>2. CASE Dial(l)
  BY <1>2 DEF Dial
<1>3. CASE wire[l] = "up"
  <2>1. l = sink
    BY <1>3 DEF OneTalk
  <2>. QED BY <1>1, <1>3, <2>1, SinkStays DEF HangUp, Dial
<1>. QED BY <1>2, <1>3, WireStays

(* The first word on a link nobody attached stays its first.               *)
LEMMA HelloStands ==
  ASSUME Typed, [Next]_vars, ~Restart, NEW l \in Link, serving'[l] = "none", up'[l] # <<>>
  PROVE  Dial(l) \/ (serving[l] = "none" /\ up[l] # <<>> /\ Head(up'[l]) = Head(up[l]))
<1>1. LinksTyped /\ RoutesTyped /\ RunnerTyped /\ HelloFirst
  BY DEF Typed
<1>2. serving[l] = "none"
  <2>1. \/ serving'[l] = serving[l]
        \/ AttachBegins(l) \/ AttachQueues(l) \/ AttachReconciles(l) \/ AttachInstalls(l)
        \/ RouteEnds(l)
    BY Loop
  <2>. QED BY <1>1, <2>1 DEF AttachBegins, AttachQueues, AttachReconciles, AttachInstalls, RouteEnds,
     RoutesTyped
<1>. DEFINE Same == up[l] # <<>> /\ Head(up'[l]) = Head(up[l])
<1>3. up'[l] = up[l] => Same
  OBVIOUS
<1>4. ASSUME NEW m, NEW n \in 0 .. Len(up[m]), up' = [up EXCEPT ![m] = SubSeq(@, 1, n)] PROVE Same
  <2>1. CASE m = l
    <3>1. up'[l] = SubSeq(up[l], 1, n) /\ up[l] \in Seq(UpFrame)
      BY <1>1, <1>4, <2>1 DEF LinksTyped
    <3>. QED BY <2>1, <3>1, FirstFrame
  <2>2. CASE m # l
    BY <1>1, <1>3, <1>4, <2>2 DEF LinksTyped
  <2>. QED BY <2>1, <2>2
<1>5. ASSUME NEW f, Says(f) PROVE Same
  <2>1. CASE sink = l /\ wire[l] = "up" /\ up' = [up EXCEPT ![l] = Append(@, f)]
    <3>1. up[l] \in Seq(UpFrame) /\ up[l] # <<>> /\ up'[l] = Append(up[l], f)
      BY <1>1, <1>2, <2>1 DEF LinksTyped, HelloFirst
    <3>. QED BY <3>1
  <2>2. CASE up' = up \/ (sink # l /\ up' = [up EXCEPT ![sink] = Append(@, f)])
    BY <1>1, <1>3, <2>2 DEF LinksTyped
  <2>. QED BY <1>5, <2>1, <2>2 DEF Says
<1>6. ASSUME NEW m \in Link, AttachBegins(m) PROVE Same
  <2>1. serving'[m] # "none"
    BY <1>1, <1>6 DEF AttachBegins, RoutesTyped
  <2>2. CASE up' = [up EXCEPT ![m] = Tail(@)]
    BY <1>1, <1>3, <2>1, <2>2 DEF LinksTyped
  <2>3. ASSUME current # NoLink,
               NEW n \in 0 .. Len(up[current]),
               up' = [up EXCEPT ![m] = Tail(@), ![current] = SubSeq(@, 1, n)]
        PROVE  Same
    <3>1. l # current
      BY <1>1, <1>2, <2>3 DEF RoutesTyped
    <3>. QED BY <1>1, <1>3, <2>1, <2>3, <3>1 DEF LinksTyped
  <2>. QED BY <1>6, <2>2, <2>3 DEF AttachBegins
<1>7. ASSUME NEW m \in Link, TakeProgress(m) \/ TakeAnswer(m) PROVE Same
  BY <1>1, <1>2, <1>3, <1>7 DEF TakeProgress, TakeAnswer, LinksTyped
<1>8. ASSUME NEW m \in Link, BeatDetaches(m) \/ LinkBreaks(m) PROVE Same
  BY <1>3, <1>4, <1>8 DEF BeatDetaches, LinkBreaks, Cut, network
<1>9. ASSUME NEW m \in Link, Dial(m) PROVE Same \/ Dial(l)
  BY <1>1, <1>3, <1>9 DEF Dial, LinksTyped
<1>10. ASSUME NEW m \in Link,
              \/ AttachQueues(m) \/ AttachReconciles(m) \/ AttachInstalls(m)
              \/ Answered(m) \/ RouteEnds(m)
              \/ HandBackQueues(m) \/ HandBack(m) \/ HandedBack(m)
              \/ PumpClaims(m) \/ PumpPlaces(m) \/ PumpReturned(m)
       PROVE  Same
  BY <1>3, <1>10 DEF AttachQueues, AttachReconciles, AttachInstalls, Answered, RouteEnds, HandBackQueues,
     HandBack, HandedBack, PumpClaims, PumpPlaces, PumpReturned, network
<1>11. ASSUME NEW c \in db, CallRuns(c) \/ CallReads(c) \/ CallWrites(c) PROVE Same
  BY <1>3, <1>11 DEF CallRuns, CallReads, CallWrites, network
<1>12. ASSUME NEW i \in RunId, CancelRun(i) \/ Cancelled(i) \/ Report(i) \/ GoQuiet(i) PROVE Same
  BY <1>3, <1>5, <1>12 DEF CancelRun, Cancelled, Report, GoQuiet, network
<1>13. ASSUME NEW i \in RunId, NEW ends \in Ends, JobEnds(i, ends) PROVE Same
  BY <1>5, <1>13, Zenon DEF JobEnds
<1>14. ASSUME \/ \E a \in preempts : Preempted(a)
              \/ \E r \in releases : SweepReleases(r)
              \/ \E host \in AskedHosts : Ask(host)
              \/ Sweep \/ ReserveSlot \/ ReleaseSlot \/ HangUp \/ Hear \/ UNCHANGED vars
      PROVE  Same
  BY <1>3, <1>14 DEF Preempted, SweepReleases, Ask, Sweep, ReserveSlot, ReleaseSlot, HangUp,
     Hear, vars, network
<1>. QED
  <2>. SUFFICES Same \/ Dial(l)
    BY <1>2
  <2>1. CASE \E m \in Link : Route(m) \/ HandsBack(m) \/ PumpClaims(m) \/ PumpGoesOn(m)
    BY <1>6, <1>7, <1>10, <2>1 DEF Route, HandsBack, PumpGoesOn
  <2>2. CASE \E m \in Link : BeatDetaches(m) \/ LinkBreaks(m) \/ Dial(m)
    BY <1>8, <1>9, <2>2
  <2>3. CASE \E c \in db : CallRuns(c) \/ CallReads(c) \/ CallWrites(c)
    BY <1>11, <2>3
  <2>4. CASE \E i \in RunId : CancelRun(i) \/ Cancelled(i) \/ Report(i) \/ GoQuiet(i)
    BY <1>12, <2>4
  <2>5. CASE \E i \in RunId, ends \in Ends : JobEnds(i, ends)
    BY <1>13, <2>5
  <2>. QED BY <1>14, <2>1, <2>2, <2>3, <2>4, <2>5, Zenon DEF Next

(* The runner's link loses no attempt that runs while it is the runner's,  *)
(* but to a board.                                                         *)
LEMMA HeldStays ==
  ASSUME Steady, Inv, OneLink, Kept, [Next]_vars, ~ReserveSlot, current' = current, current # NoLink,
         NEW i \in RunId, NEW t \in Token, Holds(runs[i], t), held[current][i] = t
  PROVE  held'[current][i] = t
<1>1. RoutesTyped /\ SlotsTyped /\ ~Restart /\ current \in Link
  BY DEF Inv, Typed, RoutesTyped, Steady, Restart
<1>2. UNCHANGED held => held'[current][i] = t
  OBVIOUS
<1>3. ASSUME \/ \E m \in Link : TakeProgress(m) \/ Answered(m) \/ PumpPlaces(m)
             \/ \E r \in releases : SweepReleases(r)
             \/ \E j \in RunId : Cancelled(j)
      PROVE  held'[current][i] = t
  BY <1>1, <1>3, SlotsKeep DEF Kept
<1>4. ASSUME NEW m \in Link, AttachBegins(m) \/ AttachInstalls(m) PROVE FALSE
  BY <1>1, <1>4 DEF AttachBegins, AttachInstalls, OneLink, Attaching
<1>5. ASSUME NEW m \in Link, HandedBack(m) PROVE held'[current][i] = t
  BY <1>1, <1>5, SMTT(30) DEF HandedBack, Kept, InOrder, SlotsTyped
<1>6. ASSUME NEW m \in Link,
             \/ AttachQueues(m) \/ AttachReconciles(m) \/ TakeAnswer(m) \/ RouteEnds(m)
             \/ HandBackQueues(m) \/ HandBack(m) \/ PumpClaims(m) \/ PumpReturned(m)
             \/ BeatDetaches(m) \/ LinkBreaks(m) \/ Dial(m)
      PROVE  UNCHANGED held
  BY <1>6 DEF AttachQueues, AttachReconciles, TakeAnswer, RouteEnds, HandBackQueues, HandBack,
     PumpClaims, PumpReturned, BeatDetaches, LinkBreaks, Dial, state
<1>7. ASSUME NEW c \in db, CallRuns(c) \/ CallReads(c) \/ CallWrites(c) PROVE UNCHANGED held
  BY <1>7 DEF CallRuns, CallReads, CallWrites, state
<1>8. ASSUME NEW j \in RunId, CancelRun(j) \/ Report(j) \/ GoQuiet(j) PROVE UNCHANGED held
  BY <1>8 DEF CancelRun, Report, GoQuiet, state
<1>9. ASSUME \/ \E a \in preempts : Preempted(a)
             \/ \E j \in RunId, ends \in Ends : JobEnds(j, ends)
             \/ \E host \in AskedHosts : Ask(host)
             \/ Sweep \/ ReleaseSlot \/ HangUp \/ Hear \/ UNCHANGED vars
      PROVE  UNCHANGED held
  BY <1>9 DEF Preempted, JobEnds, Ask, Sweep, ReleaseSlot, HangUp, Hear, vars, state
<1>10. CASE \E m \in Link : Route(m) \/ HandsBack(m) \/ PumpClaims(m) \/ PumpGoesOn(m)
  BY <1>2, <1>3, <1>4, <1>5, <1>6, <1>10 DEF Route, HandsBack, PumpGoesOn
<1>11. CASE \E m \in Link : BeatDetaches(m) \/ LinkBreaks(m) \/ Dial(m)
  BY <1>2, <1>6, <1>11
<1>12. CASE \E c \in db : CallRuns(c) \/ CallReads(c) \/ CallWrites(c)
  BY <1>2, <1>7, <1>12
<1>13. CASE \E j \in RunId : CancelRun(j) \/ Cancelled(j) \/ Report(j) \/ GoQuiet(j)
  BY <1>2, <1>3, <1>8, <1>13
<1>14. CASE \E r \in releases : SweepReleases(r)
  BY <1>3, <1>14
<1>. QED BY <1>1, <1>2, <1>9, <1>10, <1>11, <1>12, <1>13, <1>14, Zenon DEF Next

(* A round places an attempt on the runner's link and on no other, while   *)
(* no attach is under way.                                                 *)
LEMMA AtWorkWhileAttaching ==
  ASSUME Steady, Inv, OneLink, [Next]_vars, NEW l \in Link, serving[l] \in Attaching
  PROVE  AtWork' \subseteq AtWork
<1>1. current = NoLink /\ NoLink \notin Link
  BY DEF OneLink, NoLink, Link
<1>. QED BY <1>1, AtWorkStays

LEMMA HeldFitsStep ==
  ASSUME Steady, Inv, OneLink, Kept, Fitting, [Next]_vars, ~ReserveSlot
  PROVE  HeldFits'
<1>1. LinksTyped /\ RoutesTyped /\ SlotsTyped /\ ~Restart /\ NoLink \notin Link
  BY DEF Inv, Typed, Steady, Restart, NoLink, Link
<1>. SUFFICES ASSUME current' # NoLink, wire'[current'] = "up"
              PROVE  AtWork' \subseteq OnSlots(current)'
  BY DEF HeldFits
<1>2. ASSUME NEW l \in Link, AttachInstalls(l), current' = l PROVE AtWork' \subseteq OnSlots(current)'
  <2>1. serving[l] = "reconciling" /\ wire[l] = "up"
    BY <1>2 DEF AttachInstalls
  <2>2. AtWork' \subseteq AtWork
    BY <2>1, AtWorkWhileAttaching DEF Attaching
  <2>3. AtWork \subseteq Filled(hello[l].resumed)
    BY <2>1 DEF Fitting, ResumedFits
  <2>4. held'[l] = hello[l].resumed
    BY <1>1, <1>2 DEF AttachInstalls, SlotsTyped
  <2>5. OnSlots(current)' = Filled(held'[l])
    BY <1>2 DEF OnSlots, Filled
  <2>. QED BY <2>2, <2>3, <2>4, <2>5
<1>3. ASSUME current' = current PROVE AtWork' \subseteq OnSlots(current)'
  <2>1. current \in Link /\ current # NoLink /\ serving[current] = "serving"
    BY <1>1, <1>3 DEF RoutesTyped
  <2>2. wire[current] = "up"
    <3>1. wire[current] # "unused"
      BY <2>1 DEF OneLink
    <3>. QED BY <1>1, <1>3, <2>1, <3>1, WireStays DEF Dial, Inv
  <2>. SUFFICES ASSUME NEW a \in AtWork' PROVE a \in OnSlots(current)'
    OBVIOUS
  <2>3. a \in Attempt /\ a.run \in RunId /\ a.token \in Token /\ a.token # NoToken
    BY QueueAssumption DEF AtWork, Attempt
  <2>4. held'[current][a.run] = a.token
    <3>1. CASE a \in AtWork
      <4>1. a \in OnSlots(current) /\ Holds(runs[a.run], a.token)
        BY <2>1, <2>2, <3>1 DEF Fitting, HeldFits, AtWork
      <4>2. held[current][a.run] = a.token
        BY <4>1 DEF OnSlots
      <4>. QED BY <1>3, <2>1, <2>3, <4>1, <4>2, HeldStays
    <3>2. CASE a \notin AtWork
      BY <1>1, <2>1, <2>3, <3>2, AtWorkStays DEF SlotsTyped
    <3>. QED BY <3>1, <3>2
  <2>5. a = [run |-> a.run, token |-> held'[current'][a.run]]
    BY <1>3, <2>3, <2>4 DEF Attempt
  <2>. QED BY <1>3, <2>3, <2>4, <2>5 DEF OnSlots
<1>. QED BY <1>1, <1>2, <1>3, Loop DEF Inv

LEMMA WorkFitsStep ==
  ASSUME MaxBoards = 0, Steady, Inv, Inv', OneLink, Kept, Fitting, [Next]_vars
  PROVE  WorkFits'
<1>1. /\ RoutesTyped /\ SlotsTyped /\ Slots \in Nat /\ ~ReserveSlot /\ NoLink \notin Link
  BY GatewayAssumption DEF Inv, Typed, SlotsTyped, ReserveSlot, NoLink, Link
<1>2. CASE AtWork' \subseteq AtWork
  <2>1. IsFiniteSet(AtWork) /\ Cardinality(AtWork) \in Nat
    BY LivesAreFew DEF AtWork, Inv
  <2>2. IsFiniteSet(AtWork') /\ Cardinality(AtWork') <= Cardinality(AtWork)
    BY <1>2, <2>1, FewerAreFewer
  <2>3. Cardinality(AtWork') \in Nat
    BY <2>2, FS_CardinalityType
  <2>. QED BY <1>1, <2>1, <2>2, <2>3 DEF Fitting, WorkFits
<1>3. ASSUME NEW a \in AtWork', a \notin AtWork PROVE WorkFits'
  <2>1. PICK l \in Link :
          /\ PumpPlaces(l) /\ current = l /\ wire[l] = "up" /\ FreeSlots(l) > 0
          /\ held' = [held EXCEPT ![l][a.run] = a.token]
    BY <1>3, AtWorkStays
  <2>2. /\ held[l] \in Slot /\ held'[l] = [held[l] EXCEPT ![a.run] = a.token]
        /\ a.run \in RunId /\ a.token \in Token /\ boards[l] = 0 /\ held'[l] \in Slot
    <3>1. a \in Attempt
      BY DEF AtWork
    <3>. QED BY <1>1, <2>1, <3>1 DEF SlotsTyped, Attempt, Slot
  <2>3. AtWork' \subseteq OnSlots(l)'
    <3>1. current' = l /\ wire'[l] = "up" /\ l # NoLink
      BY <1>1, <2>1 DEF PumpPlaces
    <3>. QED BY <1>1, <3>1, HeldFitsStep DEF HeldFits
  <2>4. OnSlots(l)' = Filled(held'[l]) /\ OnSlots(l) = Filled(held[l])
    BY DEF OnSlots, Filled
  <2>5. Cardinality(Filled(held'[l])) <= Cardinality(Filled(held[l])) + 1
    BY <2>2, FilledOneMore
  <2>6. IsFiniteSet(Filled(held'[l])) /\ Cardinality(Filled(held'[l])) \in Nat
        /\ Cardinality(Filled(held[l])) \in Nat
    BY <2>2, FilledIsFinite
  <2>7. Cardinality(Filled(held'[l])) <= Slots
    BY <1>1, <2>1, <2>2, <2>4, <2>5, <2>6 DEF FreeSlots
  <2>8. IsFiniteSet(AtWork') /\ Cardinality(AtWork') <= Cardinality(Filled(held'[l]))
    BY <2>3, <2>4, <2>6, FewerAreFewer
  <2>9. Cardinality(AtWork') \in Nat
    BY <2>8, FS_CardinalityType
  <2>. QED BY <1>1, <2>6, <2>7, <2>8, <2>9 DEF WorkFits
<1>. QED BY <1>2, <1>3

LEMMA SaidIsTyped ==
  ASSUME Typed, NEW l \in Link, Announced(l)
  PROVE  Said(l) \subseteq Attempt
<1>1. RoutesTyped /\ LinksTyped /\ HelloFirst
  BY DEF Typed
<1>2. CASE serving[l] = "none"
  <2>1. up[l] \in Seq(UpFrame) /\ up[l] # <<>> /\ Head(up[l]).type = "hello"
    BY <1>1, <1>2 DEF LinksTyped, HelloFirst, Announced
  <2>2. Head(up[l]) \in UpFrame
    BY <2>1, Sequences
  <2>. QED BY <1>2, <2>1, <2>2 DEF Said, UpFrame
<1>3. CASE serving[l] # "none"
  BY <1>1, <1>3 DEF Said, RoutesTyped, Hello
<1>. QED BY <1>2, <1>3

(* No claim draws a token a hello under way speaks of.                     *)
LEMMA FreshIsUnsaid ==
  ASSUME Typed, FreshTokens # {}, NEW l \in Link, Announced(l), NEW a \in Said(l)
  PROVE  a.token # FreshToken
<1>1. RoutesTyped /\ LinksTyped /\ HelloFirst /\ FreshToken \in FreshTokens
  BY Zenon DEF Typed, FreshToken
<1>2. /\ FreshToken \notin FrameTokens(up[l])
      /\ FreshToken \notin {b.token : b \in hello[l].known \cup hello[l].reported}
  <2>. DEFINE Spread(k) == Range(held[k]) \cup FrameTokens(up[k]) \cup FrameTokens(down[k])
                       \cup {pump[k].token, socket[k].token} \cup Range(hello[k].resumed)
                       \cup {b.token : b \in hello[k].known \cup hello[k].reported}
  <2>1. FreshToken \notin UNION {Spread(k) : k \in Link}
    BY <1>1, Zenon DEF FreshTokens
  <2>2. FreshToken \notin Spread(l)
    <3>. HIDE DEF Spread
    <3>. QED BY <2>1
  <2>. QED BY <2>2, Zenon
<1>3. CASE serving[l] = "none"
  <2>. DEFINE f == Head(up[l])
  <2>1. up[l] \in Seq(UpFrame) /\ up[l] # <<>> /\ f.type = "hello"
    BY <1>1, <1>3 DEF LinksTyped, HelloFirst, Announced
  <2>2. f \in Range(up[l])
    BY <2>1, Sequences
  <2>3. {b.token : b \in f.active} \subseteq FrameTokens(up[l])
    <3>1. {b.token : b \in f.active} \in
            {{b.token : b \in g.active} : g \in {h \in Range(up[l]) : h.type = "hello"}}
      BY <2>1, <2>2
    <3>. QED BY <3>1 DEF FrameTokens
  <2>. QED BY <1>2, <1>3, <2>3 DEF Said
<1>4. CASE serving[l] # "none"
  BY <1>2, <1>4 DEF Said
<1>. QED BY <1>3, <1>4

(* What a link has said, it has said until its attach looks at the table.  *)
LEMMA SaidStands ==
  ASSUME Typed, [Next]_vars, ~Restart, NEW l \in Link, Announced(l)'
  PROVE  Dial(l) \/ (Announced(l) /\ Said(l)' = Said(l))
<1>1. RoutesTyped
  BY DEF Typed
<1>2. CASE serving'[l] = "none"
  <2>1. up'[l] # <<>>
    BY <1>2 DEF Announced
  <2>. QED BY <1>2, <2>1, HelloStands DEF Announced, Said
<1>3. CASE serving'[l] # "none"
  <2>1. serving'[l] \in {"closing", "waiting"}
    BY <1>3 DEF Announced
  <2>2. ~AttachReconciles(l) /\ ~AttachInstalls(l) /\ ~RouteEnds(l)
    BY <1>1, <2>1 DEF AttachReconciles, AttachInstalls, RouteEnds, RoutesTyped
  <2>3. CASE AttachBegins(l)
    <3>1. hello'[l].reported = Head(up[l]).active /\ serving[l] = "none" /\ up[l] # <<>>
      BY <1>1, <2>3 DEF AttachBegins, RoutesTyped, NoHello
    <3>. QED BY <1>3, <3>1 DEF Announced, Said
  <2>4. CASE ~AttachBegins(l)
    <3>1. serving'[l] = serving[l] \/ AttachQueues(l)
      BY <2>2, <2>4, Loop
    <3>2. hello'[l] = hello[l]
      BY <2>2, <2>4, Loop
    <3>3. serving[l] \in {"closing", "waiting"}
      BY <2>1, <3>1 DEF AttachQueues
    <3>. QED BY <1>3, <3>2, <3>3 DEF Announced, Said
  <2>. QED BY <2>3, <2>4
<1>. QED BY <1>2, <1>3

LEMMA SaidFitsStep ==
  ASSUME Steady, Inv, OneLink, Kept, Fitting, [Next]_vars
  PROVE  SaidFits'
<1>1. LinksTyped /\ RoutesTyped /\ RunnerTyped /\ ~Restart /\ NoLink \notin Link /\ Slots \in Nat
  BY GatewayAssumption DEF Inv, Typed, Steady, Restart, NoLink, Link
<1>. SUFFICES ASSUME NEW l \in Link, Announced(l)'
              PROVE  /\ Cardinality(Live(Said(l)))' <= Slots
                     /\ wire'[l] = "up" => AtWork' \subseteq Said(l)'
  BY DEF SaidFits
<1>2. CASE Dial(l)
  <2>1. /\ Said(l)' = Active /\ UNCHANGED <<runs, jobs, down>> /\ sink = NoLink
    <3>1. serving'[l] = "none"
      BY <1>2 DEF Dial, OneLink, routes
    <3>2. up'[l] = <<[type |-> "hello", active |-> Active]>> /\ UNCHANGED <<runs, jobs, down>>
          /\ sink = NoLink
      BY <1>1, <1>2 DEF Dial, LinksTyped
    <3>. QED BY <3>1, <3>2 DEF Said
  <2>2. Live(Active) \subseteq AtWork
    <3>1. Active \subseteq Attempt
      BY <1>1, ActiveIsAttempts
    <3>2. \A a \in Active : jobs[a.run].token = a.token
      BY DEF Active
    <3>. QED BY <3>1, <3>2 DEF Live, AtWork, Told
  <2>3. IsFiniteSet(AtWork) /\ Cardinality(AtWork) \in Nat
    BY LivesAreFew DEF AtWork, Inv
  <2>4. IsFiniteSet(Live(Active)) /\ Cardinality(Live(Active)) <= Cardinality(AtWork)
    BY <2>2, <2>3, FewerAreFewer
  <2>5. Cardinality(Live(Active)) \in Nat
    BY <2>4, FS_CardinalityType
  <2>6. Live(Said(l))' = Live(Active)
    BY <2>1 DEF Live
  <2>7. Cardinality(Live(Active)) <= Slots
    BY <1>1, <2>3, <2>4, <2>5 DEF Fitting, WorkFits
  <2>8. AtWork' = AtWork
    BY <2>1 DEF AtWork, Told
  <2>9. ASSUME NEW a \in AtWork PROVE a \in Active
    <3>1. a \in Attempt /\ a.token # NoToken /\ a.run \in RunId
      BY QueueAssumption DEF AtWork, Attempt
    <3>2. jobs[a.run].token = a.token
      <4>1. \A m \in Link : down[m] = <<>>
        BY <1>1, <2>1 DEF OneLink, Fitting, OneTalk
      <4>2. \A m \in Link : Range(down[m]) = {}
        BY <4>1 DEF Range
      <4>. QED BY <4>2 DEF AtWork, Told
    <3>3. jobs[a.run] # NoJob
      BY <3>1, <3>2 DEF NoJob
    <3>4. a = [run |-> a.run, token |-> jobs[a.run].token]
      BY <3>1, <3>2 DEF Attempt
    <3>. QED BY <3>1, <3>3, <3>4 DEF Active
  <2>. QED BY <2>1, <2>6, <2>7, <2>8, <2>9
<1>3. CASE Announced(l) /\ Said(l)' = Said(l)
  <2>1. /\ Cardinality(Live(Said(l))) <= Slots
        /\ wire[l] = "up" => AtWork \subseteq Said(l)
    BY <1>3 DEF Fitting, SaidFits
  <2>2. ASSUME NEW a \in Live(Said(l))' PROVE a \in Live(Said(l))
    <3>1. a \in Said(l) /\ Holds(runs'[a.run], a.token)
      BY <1>3 DEF Live
    <3>2. a.run \in RunId
      BY <1>3, <3>1, SaidIsTyped DEF Inv, Attempt
    <3>3. ~(a.token = FreshToken /\ FreshTokens # {})
      BY <1>3, <3>1, FreshIsUnsaid DEF Inv
    <3>. QED BY <3>1, <3>2, <3>3, Lasts DEF Live
  <2>3. IsFiniteSet(Live(Said(l))) /\ Cardinality(Live(Said(l))) \in Nat
    BY <1>3, SaidIsTyped, LivesAreFew DEF Live, Inv
  <2>4. Live(Said(l))' \subseteq Live(Said(l))
    BY <2>2
  <2>5. /\ IsFiniteSet(Live(Said(l))')
        /\ Cardinality(Live(Said(l))') <= Cardinality(Live(Said(l)))
    BY <2>3, <2>4, FewerAreFewer
  <2>6. Cardinality(Live(Said(l))') \in Nat
    BY <2>5, FS_CardinalityType
  <2>7. Cardinality(Live(Said(l))') <= Slots
    BY <1>1, <2>1, <2>3, <2>5, <2>6
  <2>8. ASSUME wire'[l] = "up", NEW a \in AtWork' PROVE a \in Said(l)
    <3>1. wire[l] = "up"
      <4>1. wire[l] # "unused"
        BY <1>3 DEF OneLink, Announced
      <4>. QED BY <1>1, <2>8, <4>1, WireStays DEF Inv, Dial
    <3>2. ASSUME a \notin AtWork PROVE FALSE
      <4>1. PICK m \in Link : current = m /\ wire[m] = "up"
        BY <3>2, AtWorkStays
      <4>2. m = l /\ serving[l] = "serving"
        BY <1>1, <3>1, <4>1 DEF Fitting, OneTalk, RoutesTyped
      <4>. QED BY <1>3, <4>2 DEF Announced
    <3>. QED BY <2>1, <3>1, <3>2
  <2>. QED BY <1>3, <2>7, <2>8
<1>. QED BY <1>1, <1>2, <1>3, SaidStands DEF Inv

LEMMA ResumedFitsStep ==
  ASSUME Steady, Inv, OneLink, Fitting, [Next]_vars
  PROVE  ResumedFits'
<1>1. RoutesTyped /\ ~Restart /\ runs \in [RunId -> Row] /\ Slots \in Nat
  BY GatewayAssumption, TypedTable DEF Inv, Typed, Steady, Restart
<1>. SUFFICES ASSUME NEW l \in Link, serving'[l] = "reconciling"
              PROVE  /\ Cardinality(Filled(hello'[l].resumed)) <= Slots
                     /\ wire'[l] = "up" => AtWork' \subseteq Filled(hello'[l].resumed)
  BY DEF ResumedFits, Filled
<1>2. serving[l] \in Attaching /\ (wire'[l] = "up" => wire[l] = "up")
  <2>1. serving[l] \in Attaching
    BY <1>1, Loop DEF Inv, AttachReconciles, Attaching
  <2>2. wire[l] # "unused"
    BY <2>1 DEF OneLink, Attaching
  <2>. QED BY <1>1, <2>1, <2>2, WireStays DEF Inv, Dial
<1>3. AtWork' \subseteq AtWork
  BY <1>2, AtWorkWhileAttaching
<1>4. CASE serving[l] = "reconciling" /\ hello'[l] = hello[l]
  BY <1>2, <1>3, <1>4 DEF Fitting, ResumedFits
<1>5. CASE AttachReconciles(l)
  <2>. DEFINE resumed == {a \in hello[l].reported : Holds(runs[a.run], a.token)}
              ids == {a.run : a \in resumed}
              slots == [i \in RunId |->
                 IF i \in ids THEN (CHOOSE a \in resumed : a.run = i).token ELSE NoToken]
  <2>1. hello[l] \in Hello
    BY <1>1 DEF RoutesTyped
  <2>2. hello'[l].resumed = slots /\ serving[l] = "waiting"
    BY <1>1, <1>5, <2>1 DEF AttachReconciles, RoutesTyped, Hello
  <2>3. hello[l].reported \subseteq Attempt
    BY <2>1 DEF Hello
  <2>4. /\ Cardinality(resumed) <= Slots
        /\ wire[l] = "up" => AtWork \subseteq hello[l].reported
    BY <2>2 DEF Fitting, SaidFits, Announced, Said, Live
  <2>5. \A i \in ids : slots[i] = (CHOOSE a \in resumed : a.run = i).token
    BY <2>3 DEF Attempt
  <2>6. \A i \in ids : \E a \in resumed : a.run = i /\ a.token = slots[i]
    BY <2>5, ZenonT(60)
  <2>7. \A i \in RunId : slots[i] # NoToken => i \in ids
    OBVIOUS
  <2>8. \A a \in resumed : a \in Attempt /\ a = [run |-> a.run, token |-> a.token]
    BY <2>3 DEF Attempt
  <2>9. \A a \in resumed : Holds(runs[a.run], a.token) /\ a.run \in ids
    OBVIOUS
  <2>10. IsFiniteSet(resumed) /\ Cardinality(resumed) \in Nat
    BY <2>3, LivesAreFew DEF Inv
  <2>. HIDE DEF slots, ids
  <2>11. Filled(slots) \subseteq resumed
    BY <2>6, <2>7, <2>8 DEF Filled
  <2>12. \A a \in resumed : slots[a.run] = a.token
    BY <2>6, <2>9 DEF Holds
  <2>13. resumed \subseteq Filled(slots)
    <3>1. \A a \in resumed : a.run \in RunId /\ a.token # NoToken
      BY <2>8, QueueAssumption DEF Attempt
    <3>. QED BY <2>8, <2>12, <3>1 DEF Filled
  <2>14. wire[l] = "up" => AtWork \subseteq resumed
    BY <2>4 DEF AtWork
  <2>. HIDE DEF resumed
  <2>15. Filled(slots) = resumed
    BY <2>11, <2>13
  <2>. QED BY <1>2, <1>3, <2>2, <2>4, <2>14, <2>15
<1>. QED BY <1>1, <1>4, <1>5, Loop DEF Inv

LEMMA SlotsHoldStep ==
  ASSUME MaxBoards = 0, Inv, Inv', Fitting, [Next]_vars
  PROVE  SlotsHold'
<1>1. SlotsTyped /\ SlotsTyped'
  BY DEF Inv, Typed
<1>. SUFFICES ASSUME NEW l \in Link PROVE Fits(l)'
  BY DEF SlotsHold, Fits
<1>2. CASE ~AttachInstalls(l)
  BY <1>2, RoomStep DEF Inv, Fitting, SlotsHold, Fits
<1>3. CASE AttachInstalls(l)
  <2>1. held'[l] = hello[l].resumed /\ serving[l] = "reconciling"
    BY <1>1, <1>3 DEF AttachInstalls, SlotsTyped
  <2>2. Cardinality(Filled(hello[l].resumed)) <= Slots
    BY <2>1 DEF Fitting, ResumedFits
  <2>3. boards'[l] = 0
    BY <1>1 DEF SlotsTyped
  <2>4. OnSlots(l)' = Filled(held'[l]) /\ held'[l] \in Slot
    BY <1>1 DEF OnSlots, Filled, Slot, SlotsTyped
  <2>5. Cardinality(Filled(held'[l])) \in Nat
    BY <2>4, FilledIsFinite
  <2>. QED BY <2>1, <2>2, <2>3, <2>4, <2>5 DEF Fits
<1>. QED BY <1>2, <1>3

LEMMA FittingInit == Init => Fitting
<1>. SUFFICES ASSUME Init PROVE Fitting
  OBVIOUS
<1>1. AtWork = {}
  <2>1. \A i \in RunId : runs[i].status = "absent"
    BY DEF Init, QueueInit, Absent
  <2>. QED BY <2>1 DEF AtWork, Attempt, Holds
<1>2. \A l \in Link : OnSlots(l) = {} /\ boards[l] = 0
  BY DEF Init, Free, OnSlots
<1>3. Cardinality({}) = 0 /\ Slots \in Nat
  BY FS_EmptySet, GatewayAssumption
<1>4. OneTalk /\ SaidFits /\ ResumedFits
  BY DEF Init, OneTalk, SaidFits, ResumedFits, Announced
<1>5. current = NoLink
  BY DEF Init
<1>6. HeldFits /\ WorkFits /\ SlotsHold
  BY <1>1, <1>2, <1>3, <1>5 DEF HeldFits, WorkFits, SlotsHold
<1>. QED BY <1>4, <1>6 DEF Fitting

LEMMA FittingStep ==
  ASSUME MaxBoards = 0, Steady, Inv, Inv', OneLink, Kept, Fitting, [Next]_vars
  PROVE  Fitting'
<1>1. ~Restart /\ ~ReserveSlot
  BY DEF Steady, Restart, ReserveSlot, Inv, Typed, SlotsTyped
<1>2. OneTalk'
  BY <1>1, OneTalkStep DEF Inv, Fitting
<1>3. SaidFits' /\ ResumedFits' /\ HeldFits'
  BY <1>1, SaidFitsStep, ResumedFitsStep, HeldFitsStep
<1>4. WorkFits' /\ SlotsHold'
  BY WorkFitsStep, SlotsHoldStep
<1>. QED BY <1>2, <1>3, <1>4 DEF Fitting

(* A link never holds more runs than the runner has slots for: the runner  *)
(* is given one only when there is room for it among all it is at, so what *)
(* it says of itself after a broken link, and the attach resumes, fits     *)
(* again.  Left out: boards, which make room by pushing a run off (the     *)
(* runner may come back with that run, before its hand-back is written,    *)
(* and with the run that got its slot); and what NothingFallsOut leaves    *)
(* out, on which this rests.                                               *)
THEOREM RunsFitTheSlots ==
  ASSUME MaxBoards = 0, {"overlap", "restart", "reuse"} \cap Faults = {}
  PROVE  Spec => []SlotsHold
<1>. DEFINE Safe == Inv /\ OneLink /\ Kept /\ Fitting
<1>1. Init => Safe
  BY InvInit, KeptInit, FittingInit
<1>2. Safe /\ [Next]_vars => Safe'
  <2>1. Steady /\ ~({"gap", "reuse"} \subseteq Faults)
    BY DEF Steady
  <2>. QED BY <2>1, InvStep, KeptStep, FittingStep
<1>3. Safe => SlotsHold
  BY DEF Fitting
<1>. QED BY <1>1, <1>2, <1>3, PTL DEF Spec
=============================================================================
