----------------------------- MODULE BrowserEvents -----------------------------
(***************************************************************************)
(* lib/events: what one tab does with the frames of /events.  A frame      *)
(* makes query keys stale (invalidation.ts), EventsProvider.tsx collects   *)
(* them, spaces the expensive refetches out and never gives a running one  *)
(* up, and ownWrites.ts takes out the echoes of the tab's own collection   *)
(* writes (api/queries.ts).  Three queries stand for the cache: the two    *)
(* roots a write moves, both cooled, and one row under `games`, not.  What *)
(* is followed of an answer is which version of the server's it read.      *)
(***************************************************************************)
EXTENDS Naturals, Sequences, SequencesExt, FiniteSets

CONSTANTS Collections, \* collections written to, here and elsewhere
          Writes,      \* this tab's writes, each made once
          MaxChanges,  \* bound: changes other windows, the coach and the workers make
          MaxDrops,    \* bound: times the socket is lost
          Faults       \* subset of FaultKinds that may happen

FaultKinds == {"fails", "nothing", "denied", "lostecho", "atonce"}

(* What an instance assumes of its constants.                              *)
EventsAssumption ==
  /\ MaxChanges \in Nat /\ MaxDrops \in Nat /\ Faults \subseteq FaultKinds

Queries == {"collections", "games", "row"}

\* isPrefixOrSame, over the keys there are: what invalidating a key refetches.
Under(k) == IF k = "games" THEN {"games", "row"} ELSE {k}

\* COOLDOWN_MS: whole-prefix keys.
Cooled == {"collections", "games"}

\* What a change is about; a note is about the row, an analysis about games.
Subjects == [about : {"collection"}, id : Collections, membership : BOOLEAN]
Changes == Subjects \cup [about : {"note", "done"}]

\* invalidationsFor.
Keys(change) ==
  CASE change.about = "note" -> {"row"}
    [] change.about = "done" -> {"games"}
    [] OTHER -> IF change.membership THEN {"collections", "games"} ELSE {"collections"}

Reads(keys) == UNION {Under(k) : k \in keys}

VARIABLES
  server,    \* the version of each query's answer at the server
  shown,     \* the version on the screen
  fetch,     \* a fetch under way: "none", "sent" or "read" at the server
  got,       \* the version it read
  feed,      \* frames on their way
  socket,    \* "open", "retrying" or "denied"
  pending, deferred,       \* the keys those refs hold
  flushTimer, coolTimer,   \* those timers are set
  cool,      \* keys within their cooldown of being stamped (lastFlushed)
  write,     \* each write: "idle", "sent", "moved", "nothing", "failed" or "done"
  subject,   \* what each write is about
  expected,  \* echoes still expected, in the order of their writes
  held,      \* frames held back while a write is out
  changes, drops   \* counters

vars == <<server, shown, fetch, got, feed, socket, pending, deferred, flushTimer, coolTimer, cool,
          write, subject, expected, held, changes, drops>>
timing == <<pending, deferred, flushTimer, coolTimer, cool>>
counters == <<changes, drops>>

Init ==
  /\ server = [q \in Queries |-> 0] /\ shown = server
  /\ fetch = [q \in Queries |-> "none"] /\ got = server
  /\ feed = <<>> /\ socket = "open"
  /\ pending = {} /\ deferred = {} /\ flushTimer = FALSE /\ coolTimer = FALSE /\ cool = {}
  /\ write = [w \in Writes |-> "idle"] /\ subject \in [Writes -> Subjects]
  /\ expected = <<>> /\ held = <<>>
  /\ changes = 0 /\ drops = 0

Writing == {w \in Writes : write[w] \in {"sent", "moved", "nothing", "failed"}}

InFlight(k) == \E q \in Under(k) : fetch[q] # "none"

\* invalidateQueries: a fetch under way is given up and sent again.
Invalidates(keys) == fetch' = [q \in Queries |-> IF q \in Reads(keys) THEN "sent" ELSE fetch[q]]

-----------------------------------------------------------------------------
(* The provider's batching.                                                 *)

\* dedupeKeys.
Dedupe(keys) == {k \in keys : ~(\E other \in keys \ {k} : k \in Under(other))}

\* mutant: a cooled key is sent out over the fetch of it still running
FlushOverFetch ==
  LET keys == Dedupe(pending \cup deferred)
      waits == {k \in keys : k \in cool} IN
  /\ pending' = {} /\ deferred' = waits
  /\ cool' = cool \cup ((keys \ waits) \cap Cooled)
  /\ Invalidates(keys \ waits)
  /\ flushTimer' = FALSE /\ coolTimer' = (deferred' # {})

\* mutant: a key whose fetch is running joins that fetch
FlushJoins ==
  LET keys == Dedupe(pending \cup deferred)
      waits == {k \in keys : k \in cool}
      joins == {k \in (keys \cap Cooled) \ waits : InFlight(k)} IN
  /\ pending' = {} /\ deferred' = waits
  /\ cool' = cool \cup ((keys \ waits) \cap Cooled)
  /\ Invalidates(keys \ (waits \cup joins))
  /\ flushTimer' = FALSE /\ coolTimer' = (deferred' # {})

\* mutant: what is held back sets no timer
FlushSetsNoTimer ==
  LET keys == Dedupe(pending \cup deferred)
      waits == {k \in keys : k \in cool}
      behind == {k \in (keys \cap Cooled) \ waits : InFlight(k)} IN
  /\ pending' = {} /\ deferred' = waits \cup behind
  /\ cool' = cool \cup ((keys \ waits) \cap Cooled)
  /\ Invalidates(keys \ deferred')
  /\ flushTimer' = FALSE /\ coolTimer' = FALSE

\* flush: a key in its cooldown waits for the trailing edge, and one whose
\* fetch is running waits behind it (holdBehindFetch), stamped.
Flush ==
  LET keys == Dedupe(pending \cup deferred)
      waits == {k \in keys : k \in cool}
      behind == {k \in (keys \cap Cooled) \ waits : InFlight(k)} IN
  /\ pending' = {} /\ deferred' = waits \cup behind
  /\ cool' = cool \cup ((keys \ waits) \cap Cooled)
  /\ Invalidates(keys \ deferred')
  /\ flushTimer' = FALSE /\ coolTimer' = (deferred' # {})

FlushRings ==
  /\ flushTimer /\ Flush
  /\ UNCHANGED <<server, shown, got, feed, socket, write, subject, expected, held, counters>>

\* The trailing edge; a key stamped again since the timer was set waits on.
CoolRings ==
  /\ coolTimer /\ ~(deferred \subseteq cool) /\ Flush
  /\ UNCHANGED <<server, shown, got, feed, socket, write, subject, expected, held, counters>>

Cools(k) ==
  /\ k \in cool /\ cool' = cool \ {k}
  /\ UNCHANGED <<server, shown, fetch, got, feed, socket, pending, deferred, flushTimer, coolTimer,
                 write, subject, expected, held, counters>>

\* Keys go to `pending`, and the flush is scheduled.
Collects(keys) ==
  /\ pending' = pending \cup keys
  /\ flushTimer' = (flushTimer \/ keys # {})
  /\ UNCHANGED <<deferred, coolTimer, cool>>

-----------------------------------------------------------------------------
(* The tab's own writes.                                                    *)

\* takeExpected: the first expectation a frame answers is consumed.
Expectation(e, s) == CHOOSE i \in DOMAIN e : e[i] = s /\ \A j \in 1..(i - 1) : e[j] # s
Taken(e, s) == IF s \in Range(e) THEN RemoveAt(e, Expectation(e, s)) ELSE e

\* screenFrame, for collections.changed alone.
Screens(change) ==
  IF change.about # "collection"
    THEN Collects(Keys(change)) /\ UNCHANGED <<expected, held>>
  ELSE IF Writing # {}
    THEN held' = Append(held, change) /\ UNCHANGED <<timing, expected>>
  ELSE IF change \in Range(expected)
    THEN expected' = Taken(expected, change) /\ UNCHANGED <<timing, held>>
  ELSE Collects(Keys(change)) /\ UNCHANGED <<expected, held>>

\* What is left of the held frames once each has been offered to the
\* expectations, in order, and the expectations left then.
Sifted(frames, e) ==
  FoldLeft(LAMBDA acc, s :
             IF s \in Range(acc.e) THEN [acc EXCEPT !.e = Taken(acc.e, s)]
                                   ELSE [acc EXCEPT !.out = Append(acc.out, s)],
           [out |-> <<>>, e |-> e], frames)

\* mutant: what waits behind a fetch sets no timer
RefreshSetsNoTimer(keys, more) ==
  LET behind == {k \in keys \cap Cooled : InFlight(k)} IN
  /\ pending' = (pending \ Reads(keys)) \cup more
  /\ flushTimer' = (flushTimer \/ more # {})
  /\ deferred' = (deferred \ Reads(keys)) \cup behind
  /\ cool' = cool \cup (keys \cap Cooled)
  /\ Invalidates(keys \ behind)
  /\ UNCHANGED coolTimer

\* The refresh sink: what the write moved is refetched now, and counted as
\* the flush of those keys; one whose fetch is running waits behind it.
Refresh(keys, more) ==
  LET behind == {k \in keys \cap Cooled : InFlight(k)} IN
  /\ pending' = (pending \ Reads(keys)) \cup more
  /\ flushTimer' = (flushTimer \/ more # {})
  /\ deferred' = (deferred \ Reads(keys)) \cup behind
  /\ cool' = cool \cup (keys \cap Cooled)
  /\ Invalidates(keys \ behind)
  /\ coolTimer' = (coolTimer \/ deferred' # {})

\* One write at a time, or with "atonce" several.
WriteSent(w) ==
  /\ Writing = {} \/ "atonce" \in Faults
  /\ write[w] = "idle" /\ write' = [write EXCEPT ![w] = "sent"]
  /\ UNCHANGED <<server, shown, fetch, got, feed, socket, timing, subject, expected, held, counters>>

\* The answer: the echo among what was held is dropped, a late one of an
\* earlier write too, and what this refresh reads anyway; the rest goes on
\* once no write is out.  An echo not heard yet is expected.
Answered(w) ==
  LET s == subject[w]
      announced == write[w] = "moved"
      keys == IF announced THEN Keys(s) ELSE {"collections"}
      \* One echo of this write's own, the first.
      own == IF announced /\ s \in Range(held) THEN Taken(held, s) ELSE held
      sifted == Sifted(own, expected)
      rest == SelectSeq(sifted.out, LAMBDA f : ~(Keys(f) \subseteq Reads(keys)))
      last == Writing = {w}
      freed == IF last THEN Sifted(rest, sifted.e) ELSE [out |-> <<>>, e |-> sifted.e] IN
  /\ Refresh(keys, UNION {Keys(f) : f \in Range(freed.out)})
  /\ held' = IF last THEN <<>> ELSE rest
  /\ expected' = IF announced /\ s \notin Range(held) THEN Append(freed.e, s) ELSE freed.e

\* Nothing was refreshed: what was held goes through.
Failed(w) ==
  LET freed == IF Writing = {w} THEN Sifted(held, expected)
                                ELSE [out |-> <<>>, e |-> expected] IN
  /\ Collects(UNION {Keys(f) : f \in Range(freed.out)})
  /\ held' = IF Writing = {w} THEN <<>> ELSE held
  /\ expected' = freed.e
  /\ UNCHANGED fetch

WriteAnswers(w) ==
  /\ write[w] \in {"moved", "nothing", "failed"}
  /\ write' = [write EXCEPT ![w] = "done"]
  /\ IF write[w] = "failed" THEN Failed(w) ELSE Answered(w)
  /\ UNCHANGED <<server, shown, got, feed, socket, subject, counters>>

\* ECHO_WINDOW_MS.  An echo the socket still carries comes well within it; one
\* it lost leaves an expectation until then.
Expires ==
  /\ expected # <<>> /\ Head(expected) \notin Range(feed)
  /\ expected' = Tail(expected)
  /\ UNCHANGED <<server, shown, fetch, got, feed, socket, timing, write, subject, held, counters>>

-----------------------------------------------------------------------------
(* The socket.                                                              *)

Receives ==
  /\ socket = "open" /\ feed # <<>> /\ feed' = Tail(feed)
  /\ Screens(Head(feed))
  /\ UNCHANGED <<server, shown, fetch, got, socket, write, subject, counters>>

\* No echo of a write is lost with the socket and still expected when it is
\* back, within ECHO_WINDOW_MS: with "lostecho" one may be.
EchoesAreSafe == (expected = <<>> /\ Writing = {}) \/ "lostecho" \in Faults

\* Lost, or closed with 4401: nothing dials again before a sign-in.
SocketDrops ==
  /\ socket = "open" /\ drops < MaxDrops /\ drops' = drops + 1
  /\ EchoesAreSafe
  /\ socket' \in {"retrying"} \cup (IF "denied" \in Faults THEN {"denied"} ELSE {})
  /\ feed' = <<>>
  /\ UNCHANGED <<server, shown, fetch, got, timing, write, subject, expected, held, changes>>

\* onopen after a drop: nothing is replayed, so everything is read again.
Connects ==
  /\ socket = "retrying" /\ socket' = "open" /\ EchoesAreSafe
  /\ Invalidates(Queries)
  /\ UNCHANGED <<server, shown, got, feed, timing, write, subject, expected, held, counters>>

SessionRestored ==
  /\ socket = "denied" /\ socket' = "retrying"
  /\ UNCHANGED <<server, shown, fetch, got, feed, timing, write, subject, expected, held, counters>>

-----------------------------------------------------------------------------
(* The server, and TanStack's fetches.                                      *)

\* A change is committed and then announced.
Happens(change) ==
  /\ server' = [q \in Queries |-> IF q \in Reads(Keys(change)) THEN server[q] + 1 ELSE server[q]]
  /\ feed' = IF socket = "open" THEN Append(feed, change) ELSE feed

SomebodyElse(change) ==
  /\ changes < MaxChanges /\ changes' = changes + 1
  /\ Happens(change)
  /\ UNCHANGED <<shown, fetch, got, socket, timing, write, subject, expected, held, drops>>

\* A write that moved nothing is announced to nobody.
WriteLands(w) ==
  /\ write[w] = "sent"
  /\ \/ Happens(subject[w]) /\ write' = [write EXCEPT ![w] = "moved"]
     \/ /\ "nothing" \in Faults /\ subject[w].membership /\ write' = [write EXCEPT ![w] = "nothing"]
        /\ UNCHANGED <<server, feed>>
     \/ /\ "fails" \in Faults /\ write' = [write EXCEPT ![w] = "failed"]
        /\ UNCHANGED <<server, feed>>
  /\ UNCHANGED <<shown, fetch, got, socket, timing, subject, expected, held, counters>>

ServerReads(q) ==
  /\ fetch[q] = "sent" /\ fetch' = [fetch EXCEPT ![q] = "read"]
  /\ got' = [got EXCEPT ![q] = server[q]]
  /\ UNCHANGED <<server, shown, feed, socket, timing, write, subject, expected, held, counters>>

FetchEnds(q) ==
  /\ fetch[q] = "read" /\ fetch' = [fetch EXCEPT ![q] = "none"]
  /\ shown' = [shown EXCEPT ![q] = got[q]]
  /\ UNCHANGED <<server, got, feed, socket, timing, write, subject, expected, held, counters>>

-----------------------------------------------------------------------------
Next ==
  \/ FlushRings \/ CoolRings \/ \E k \in Cooled : Cools(k)
  \/ \E w \in Writes : WriteSent(w) \/ WriteLands(w) \/ WriteAnswers(w)
  \/ Expires \/ Receives \/ SocketDrops \/ Connects \/ SessionRestored
  \/ \E change \in Changes : SomebodyElse(change)
  \/ \E q \in Queries : ServerReads(q) \/ FetchEnds(q)

Spec == Init /\ [][Next]_vars

\* Timers ring, cooldowns pass, requests are answered, frames arrive and the
\* socket is dialled again.  Nothing has to happen at the server, and nobody
\* has to write or to sign in.
FairSpec ==
  /\ Spec
  /\ WF_vars(FlushRings) /\ WF_vars(CoolRings) /\ WF_vars(Receives) /\ WF_vars(Connects)
  /\ WF_vars(Expires)
  /\ \A k \in Cooled : WF_vars(Cools(k))
  /\ \A w \in Writes : WF_vars(WriteLands(w)) /\ WF_vars(WriteAnswers(w))
  /\ \A q \in Queries : WF_vars(ServerReads(q)) /\ WF_vars(FetchEnds(q))

-----------------------------------------------------------------------------
TypeOK ==
  /\ \A q \in Queries : shown[q] <= server[q] /\ got[q] <= server[q]
  /\ fetch \in [Queries -> {"none", "sent", "read"}]
  /\ socket \in {"open", "retrying", "denied"}
  /\ pending \subseteq Queries /\ deferred \subseteq Cooled /\ cool \subseteq Cooled
  /\ {flushTimer, coolTimer} \subseteq BOOLEAN
  /\ Range(held) \cup Range(expected) \subseteq Subjects
  /\ held # <<>> => Writing # {}

\* What is to be read again has a timer that will see to it, whoever put it
\* there: a frame, a write's refresh or the flush before (clearTimers).
HeldKeysHaveATimer ==
  /\ pending # {} => flushTimer
  /\ deferred # {} => coolTimer \/ flushTimer

\* A screen behind the server has something on its way that will bring it
\* up: no news is swallowed as an echo, joined to a fetch older than itself or
\* dropped with a batch.
NewsIsNotLost ==
  \A q \in Queries : shown[q] # server[q] =>
    \/ fetch[q] = "sent" \/ (fetch[q] = "read" /\ got[q] = server[q])
    \/ \E k \in pending \cup deferred : q \in Under(k)
    \/ \E f \in Range(feed) \cup Range(held) : q \in Reads(Keys(f))
    \/ \E w \in Writing : write[w] = "moved" /\ q \in Reads(Keys(subject[w]))
    \/ socket # "open"

\* An expensive read the server has begun is not given up on and sent again,
\* however many frames and writes name it; only a lost socket starts over
\* (holdBehindFetch: "without an AbortSignal the server goes on computing").
NoCooledFetchStartsOver ==
  \A k \in Cooled : fetch[k] = "read" /\ fetch'[k] = "sent" => socket' # socket
CooledFetchRunsToItsEnd == [][NoCooledFetchStartsOver]_vars

\* One row is read again as soon as the batch it came in is flushed
\* (COOLDOWN_MS: "it should stay instant").
RowIsInstant ==
  [][flushTimer /\ ~flushTimer' /\ "row" \in pending => fetch'["row"] = "sent"]_vars

\* The screen catches up, unless nobody signs in.
ScreenCatchesUp == []<>(socket = "denied" \/ \A q \in Queries : shown[q] = server[q])
=============================================================================
