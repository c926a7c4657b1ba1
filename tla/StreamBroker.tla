----------------------------- MODULE StreamBroker -----------------------------
(***************************************************************************)
(* services/streams.py: the analysis boards a server has open, one lock    *)
(* around opening, moving and ending them, and the searches behind them.   *)
(* workers/local_streams.py and runner_streams.py differ in how far away   *)
(* the search is and are one backend here: it starts, turns and stops in   *)
(* its own time, and its pictures take theirs to arrive.  The page that    *)
(* asks is BoardSession.tla; another window's board is the rival's.        *)
(***************************************************************************)
EXTENDS Naturals, Sequences, FiniteSets

CONSTANTS Fens,         \* positions
          None,         \* no position
          MaxSessions,  \* settings.stream_max_sessions
          MaxOpens,     \* bound: boards the page opens
          MaxRivals,    \* bound: boards other windows open
          Faults        \* subset of FaultKinds that may happen

FaultKinds == {"fails", "ends", "late", "drop", "reorder", "overtake"}

(* What an instance assumes of its constants.                              *)
BrokerAssumption ==
  /\ MaxSessions \in Nat \ {0} /\ MaxOpens \in Nat /\ MaxRivals \in Nat
  /\ None \notin Fens /\ Faults \subseteq FaultKinds

Ids == 1..(MaxOpens + MaxRivals)

VARIABLES
  sess,      \* each StreamSession: on the books (_open) or not, whose, and where
  opening,   \* the request whose backend.open has not returned, by session
  lock,      \* what holds _lock over an await: whom it ends, why, what follows
  search,    \* the backend's search: "none", "starting", "running" or "over"
  searched,  \* the position it is really on
  picture,   \* the picture taken and not yet at the broker: of which position
  ends,      \* backend_ended tasks spawned and not yet run
  calls,     \* requests of the page, in the order it made them
  answers,   \* answers on their way to it
  feed,      \* frames on their way to its /events socket
  listening  \* its /events socket is up

serverVars == <<sess, opening, lock, search, searched, picture, ends, calls, answers, feed,
                listening>>

Nothing == [ask |-> "nothing"]
Unlocked == [ends |-> 0, reason |-> "none", then |-> Nothing]
Unborn == [at |-> "unborn", by |-> "nobody", surface |-> "none", fen |-> None]

ServerInit ==
  /\ sess = [s \in Ids |-> Unborn] /\ opening = [s \in Ids |-> Nothing] /\ lock = Unlocked
  /\ search = [s \in Ids |-> "none"] /\ searched = [s \in Ids |-> None]
  /\ picture = [s \in Ids |-> None] /\ ends = {}
  /\ calls = <<>> /\ answers = {} /\ feed = <<>> /\ listening = TRUE

Open == {s \in Ids : sess[s].at = "open"}     \* those still starting count
On(surface) == {s \in Open : sess[s].surface = surface}
Born == {s \in Ids : sess[s].at # "unborn"}

\* Nothing is replayed to a socket that was away.
Emits(frame) == feed' = IF listening THEN Append(feed, frame) ELSE feed

\* An answer to the page; another window's is its own affair.
Answers(post, ok, s) ==
  answers' = IF post.by # "page" THEN answers
             ELSE answers \cup {[to |-> "open", gen |-> post.gen, ok |-> ok, id |-> s,
                                 fen |-> IF ok THEN sess[s].fen ELSE None]}

\* The page's requests are taken up in order, or with "reorder" in any.
Takes(i, ask) ==
  /\ i \in DOMAIN calls /\ (i = 1 \/ "reorder" \in Faults)
  /\ calls[i].ask = ask /\ lock = Unlocked
  /\ calls' = SubSeq(calls, 1, i - 1) \o SubSeq(calls, i + 1, Len(calls))

-----------------------------------------------------------------------------
(* Under the lock.                                                          *)

\* _finish up to the await: off the books, then the backend is asked to stop.
FinishBegins(s, reason, then) ==
  /\ sess' = [sess EXCEPT ![s].at = "ended"]
  /\ lock' = [ends |-> s, reason |-> reason, then |-> then]
  /\ UNCHANGED <<opening, search, searched, picture, ends, answers, feed, listening>>

\* The room there is and the place on the books; the backend is asked outside
\* the lock, since the close that would free a slot takes it.
Inserts(post, searches) ==
  IF Cardinality(Open) >= MaxSessions
    THEN /\ Answers(post, FALSE, 0)
         /\ search' = searches /\ UNCHANGED <<sess, opening, searched>>
    ELSE LET s == Cardinality(Born) + 1 IN
         /\ sess' = [sess EXCEPT ![s] = [at |-> "open", by |-> post.by,
                                         surface |-> post.surface, fen |-> post.fen]]
         /\ opening' = [opening EXCEPT ![s] = post]
         /\ search' = [searches EXCEPT ![s] = "starting"]
         /\ searched' = [searched EXCEPT ![s] = post.fen]
         /\ UNCHANGED answers

\* mutant: the board on the same surface is left open
OpensBeside(post) ==
  Inserts(post, search) /\ UNCHANGED <<lock, picture, ends, feed, listening>>

\* open: the board on the same surface goes first.
Opens(post) ==
  IF On(post.surface) = {}
    THEN Inserts(post, search) /\ UNCHANGED <<lock, picture, ends, feed, listening>>
    ELSE \E s \in On(post.surface) : FinishBegins(s, "replaced", post)

TakesOpen(i) == Takes(i, "open") /\ Opens(calls[i])

\* Another window opens a board, on this surface or on the live one.
RivalOpens(surface, f) ==
  /\ lock = Unlocked /\ Cardinality({s \in Born : sess[s].by = "rival"}) < MaxRivals
  /\ Opens([ask |-> "open", by |-> "rival", gen |-> 0, surface |-> surface, fen |-> f])
  /\ UNCHANGED calls

\* restart: the position is the session's at once, the search follows in its
\* own time.  A backend whose search has ended refuses.  The answer carries
\* the session as it stands.
TakesPatch(i) ==
  /\ Takes(i, "patch")
  /\ LET call == calls[i]
         s == call.id
         says(ok, f) == [to |-> "patch", id |-> s, epoch |-> call.epoch,
                         moves |-> call.fen # None, ok |-> ok, fen |-> f] IN
     IF s \notin Open
       THEN /\ answers' = answers \cup {says("unknown", None)}
            /\ UNCHANGED <<sess, searched, picture>>
     ELSE
       LET refused == search[s] = "over"
           f == IF call.fen = None THEN sess[s].fen ELSE call.fen IN
       /\ sess' = [sess EXCEPT ![s].fen = f]
       /\ answers' = answers \cup {says(IF refused THEN "refused" ELSE "ok", f)}
       /\ IF refused \/ "late" \in Faults
            THEN UNCHANGED <<searched, picture>>
            ELSE /\ searched' = [searched EXCEPT ![s] = f]
                 /\ picture' = [picture EXCEPT ![s] = None]
  /\ UNCHANGED <<opening, lock, search, ends, feed, listening>>

\* close: one that has ended is not an error.
TakesClose(i) ==
  /\ Takes(i, "close")
  /\ IF calls[i].id \in Open
       THEN FinishBegins(calls[i].id, "closed", Nothing)
       ELSE UNCHANGED <<sess, opening, lock, search, searched, picture, ends, answers, feed,
                        listening>>

TakesList(i) ==
  /\ Takes(i, "list")
  /\ answers' = answers \cup {[to |-> "list", id |-> calls[i].id,
                               open |-> calls[i].id \in Open]}
  /\ UNCHANGED <<sess, opening, lock, search, searched, picture, ends, feed, listening>>

\* backend_ended: the far side has stopped already.
BackendEnded(s) ==
  /\ s \in ends /\ lock = Unlocked
  /\ IF s \in Open
       THEN FinishBegins(s, "engine_failed", Nothing)
       ELSE /\ ends' = ends \ {s}
            /\ UNCHANGED <<sess, opening, lock, search, searched, picture, answers, feed,
                           listening>>
  /\ UNCHANGED calls

\* reap_idle, once nobody has listened for stream_idle_seconds: an answer
\* takes less than that.
Reaps(s) ==
  /\ s \in Open /\ lock = Unlocked /\ ~listening /\ answers = {}
  /\ FinishBegins(s, "idle", Nothing)
  /\ UNCHANGED calls

\* The backend has stopped and the event goes out behind it; an open that was
\* waiting for this looks for room.
Finishes ==
  /\ lock # Unlocked /\ lock' = Unlocked
  /\ Emits([say |-> "ended", id |-> lock.ends, reason |-> lock.reason])
  /\ picture' = [picture EXCEPT ![lock.ends] = None]
  /\ ends' = ends \ {lock.ends}
  /\ LET stopped == [search EXCEPT ![lock.ends] = "none"] IN
     IF lock.then = Nothing
       THEN search' = stopped /\ UNCHANGED <<sess, opening, searched, answers>>
       ELSE Inserts(lock.then, stopped)
  /\ UNCHANGED <<calls, listening>>

-----------------------------------------------------------------------------
(* Outside it.                                                              *)

\* mutant: a backend that raised is left on
OpenReturnsOn(s) ==
  /\ opening[s] # Nothing /\ lock.ends # s
  /\ opening' = [opening EXCEPT ![s] = Nothing]
  /\ \/ /\ search' = [search EXCEPT ![s] = IF @ = "starting" THEN "running" ELSE @]
        /\ Answers(opening[s], s \in Open, s) /\ UNCHANGED sess
     \/ /\ "fails" \in Faults
        /\ sess' = [sess EXCEPT ![s].at = "ended"]
        /\ Answers(opening[s], FALSE, 0) /\ UNCHANGED search
  /\ UNCHANGED <<lock, searched, picture, ends, calls, feed, listening>>

\* backend.open has returned, or raised and the session is forgotten.  One
\* that was closed or replaced meanwhile is nothing to answer with.
OpenReturns(s) ==
  /\ opening[s] # Nothing /\ lock.ends # s
  /\ opening' = [opening EXCEPT ![s] = Nothing]
  /\ IF s \notin Open
       THEN Answers(opening[s], FALSE, 0) /\ UNCHANGED <<sess, search>>
     ELSE \/ /\ search' = [search EXCEPT ![s] = IF @ = "starting" THEN "running" ELSE @]
             /\ Answers(opening[s], TRUE, s) /\ UNCHANGED sess
          \/ /\ "fails" \in Faults
             /\ sess' = [sess EXCEPT ![s].at = "ended"]
             /\ search' = [search EXCEPT ![s] = "none"]
             /\ Answers(opening[s], FALSE, 0)
  /\ UNCHANGED <<lock, searched, picture, ends, calls, feed, listening>>

\* The engine dies, or is done with a position there is nothing to search in.
EndsAlone(s) ==
  /\ "ends" \in Faults /\ search[s] = "running"
  /\ search' = [search EXCEPT ![s] = "over"] /\ ends' = ends \cup {s}
  /\ UNCHANGED <<sess, opening, lock, searched, picture, calls, answers, feed, listening>>

\* The search comes to the position the session is on.
Turns(s) ==
  /\ search[s] = "running" /\ searched[s] # sess[s].fen
  /\ searched' = [searched EXCEPT ![s] = sess[s].fen]
  /\ UNCHANGED <<sess, opening, lock, search, picture, ends, calls, answers, feed, listening>>

\* Bound: one picture of a session on its way at a time.
Draws(s) ==
  /\ search[s] = "running" /\ picture[s] = None
  /\ \A i \in DOMAIN feed : feed[i].say # "snapshot" \/ feed[i].id # s
  /\ picture' = [picture EXCEPT ![s] = searched[s]]
  /\ UNCHANGED <<sess, opening, lock, search, searched, ends, calls, answers, feed, listening>>

\* snapshot: the frame is given the position the session is on as it leaves.
Delivers(s) ==
  /\ picture[s] # None /\ picture' = [picture EXCEPT ![s] = None]
  /\ IF s \in Open
       THEN Emits([say |-> "snapshot", id |-> s, fen |-> sess[s].fen, of |-> picture[s]])
       ELSE UNCHANGED feed
  /\ UNCHANGED <<sess, opening, lock, search, searched, ends, calls, answers, listening>>

Serves ==
  \/ \E i \in DOMAIN calls : TakesOpen(i) \/ TakesPatch(i) \/ TakesClose(i) \/ TakesList(i)
  \/ Finishes
  \/ \E s \in Ids : OpenReturns(s) \/ BackendEnded(s)

ServerStep ==
  \/ Serves
  \/ \E s \in Ids : Reaps(s) \/ EndsAlone(s) \/ Turns(s) \/ Draws(s) \/ Delivers(s)
  \/ \E surface \in {"game", "live"}, f \in Fens : RivalOpens(surface, f)

-----------------------------------------------------------------------------
\* One board per surface, though the page, another window, the reaper and a
\* backend's own end all work on the books between each other's awaits.
SurfaceHasOneBoard ==
  \A s, t \in Open : sess[s].surface = sess[t].surface => s = t

\* What is searched is on the books or being taken off them: a slot nobody
\* holds a session for is never given back.
SearchIsHeld ==
  \A s \in Ids : search[s] \in {"starting", "running"} => s \in Open \/ lock.ends = s
=============================================================================
