----------------------------- MODULE BoardSession -----------------------------
(***************************************************************************)
(* lib/analysis/useStreamSession.ts: the board of one page and the session *)
(* it drives on the server (StreamBroker.tla).  An action is one click,    *)
(* timer, answer or frame, and the effects React runs behind the commit it *)
(* causes.                                                                 *)
(***************************************************************************)
EXTENDS StreamBroker

CONSTANTS MaxMoves,   \* bound: position changes
          MaxClicks   \* bound: the toggle, the engine and the line count

(* What an instance assumes of its constants.                              *)
PageAssumption == BrokerAssumption /\ MaxMoves \in Nat /\ MaxClicks \in Nat

VARIABLES
  enabled, phase,  \* the state of those names
  fen,             \* the position on the board, or None
  lines,           \* multipv: 0 or 1, any two counts
  idRef,           \* the live session id, 0 for null
  gen, alive,      \* generation, and the run of the open effect not torn down, or 0
  serverFen, sentFen, sentLines, epoch,   \* the refs of those names
  timer,           \* the session the debounce timer is set for, 0 for none
  frame,           \* the accepted frame: the board's fen it is kept under, and
                   \* the position it really is of
  moves, clicks    \* counters

pageVars == <<enabled, phase, fen, lines, idRef, gen, alive, serverFen, sentFen, sentLines,
              epoch, timer, frame, moves, clicks>>
vars == <<serverVars, pageVars>>

NoFrame == [under |-> None, of |-> None]

Init ==
  /\ ServerInit
  /\ enabled = FALSE /\ phase = "off" /\ fen \in Fens /\ lines = 0
  /\ idRef = 0 /\ gen = 0 /\ alive = 0
  /\ serverFen = None /\ sentFen = None /\ sentLines = 0 /\ epoch = 0
  /\ timer = 0 /\ frame = NoFrame /\ moves = 0 /\ clicks = 0

\* The server's part of a page's step: what it asks, and nothing else.
Asks(requests) == calls' = calls \o requests
Aside == UNCHANGED <<sess, opening, lock, search, searched, picture, ends, listening>>

CloseCall(s) == IF s = 0 THEN <<>> ELSE <<[ask |-> "close", id |-> s]>>
PatchCall(s, f, e) == [ask |-> "patch", id |-> s, fen |-> f, epoch |-> e]
OpenCall(g, f) ==
  [ask |-> "open", by |-> "page", gen |-> g, surface |-> "game", fen |-> f]

-----------------------------------------------------------------------------
(* The effects.                                                             *)

\* mutant: the board left behind is not closed
RerunsBeside(wanted, id) ==
  /\ idRef' = 0 /\ serverFen' = None
  /\ IF wanted
       THEN /\ gen < MaxOpens /\ gen' = gen + 1 /\ alive' = gen + 1
            /\ phase' = "opening" /\ frame' = NoFrame
            /\ sentFen' = fen' /\ sentLines' = lines'
            /\ Asks(<<OpenCall(gen + 1, fen')>>)
       ELSE /\ alive' = 0 /\ UNCHANGED <<gen, sentFen, sentLines>> /\ Asks(<<>>)
  /\ timer' = 0 /\ UNCHANGED epoch

\* The open effect's cleanup and, where there is something to analyse, its
\* next run: `wanted` says whether there is, `id` what it closes.
Reruns(wanted, id) ==
  /\ idRef' = 0 /\ serverFen' = None
  /\ IF wanted
       THEN /\ gen < MaxOpens /\ gen' = gen + 1 /\ alive' = gen + 1
            /\ phase' = "opening" /\ frame' = NoFrame
            /\ sentFen' = fen' /\ sentLines' = lines'
            /\ Asks(CloseCall(id) \o <<OpenCall(gen + 1, fen')>>)
       ELSE /\ alive' = 0 /\ UNCHANGED <<gen, sentFen, sentLines>>
            /\ Asks(CloseCall(id))
  /\ timer' = 0 /\ UNCHANGED epoch

Off == phase' = "off" /\ frame' = NoFrame

\* The position effect: the timer is set for a position not yet asked for.
Debounces ==
  timer' = IF enabled' /\ fen' # None /\ idRef' # 0 /\ sentFen' # fen' THEN idRef' ELSE 0

\* mutant: frames are taken while a restart is in flight
PatchUnblanked(s, f) ==
  /\ UNCHANGED serverFen
  /\ epoch' = IF f = None THEN epoch ELSE epoch + 1
  /\ Asks(<<PatchCall(s, f, epoch')>>)

\* applyPatch: moving the position blanks serverFen and starts an epoch.
ApplyPatch(s, f) ==
  /\ serverFen' = IF f = None THEN serverFen ELSE None
  /\ epoch' = IF f = None THEN epoch ELSE epoch + 1
  /\ Asks(<<PatchCall(s, f, epoch')>>)

-----------------------------------------------------------------------------
(* Clicks.                                                                  *)

Clicks == clicks < MaxClicks /\ clicks' = clicks + 1

SetEnabled(on) ==
  /\ enabled # on /\ Clicks /\ enabled' = on
  /\ UNCHANGED <<fen, lines, moves, answers, feed>> /\ Aside
  /\ Reruns(on /\ fen # None, idRef)
  /\ (on /\ fen # None) \/ Off

\* Another engine: the session cannot be patched onto it.
SetEngineId ==
  /\ Clicks /\ enabled /\ fen # None
  /\ UNCHANGED <<enabled, fen, lines, moves, answers, feed>> /\ Aside
  /\ Reruns(TRUE, idRef)

SetMultipv ==
  /\ Clicks /\ lines' = 1 - lines
  /\ IF enabled /\ idRef # 0 /\ sentLines # lines'
       THEN sentLines' = lines' /\ ApplyPatch(idRef, None)
       ELSE UNCHANGED <<sentLines, serverFen, epoch, calls>>
  /\ UNCHANGED <<enabled, phase, fen, idRef, gen, alive, sentFen, timer, frame, moves, answers,
                 feed>>
  /\ Aside

\* The board moves.  Gaining or losing its position reruns the open effect,
\* another position only sets the timer.
Moves(f) ==
  /\ moves < MaxMoves /\ moves' = moves + 1 /\ f # fen /\ fen' = f
  /\ UNCHANGED <<enabled, lines, clicks, answers, feed>> /\ Aside
  /\ IF enabled /\ None \in {fen, f}
       THEN Reruns(f # None, idRef) /\ (f # None \/ Off)
       ELSE /\ UNCHANGED <<phase, idRef, gen, alive, serverFen, sentFen, sentLines, epoch,
                           frame, calls>>
            /\ Debounces

\* PATCH_DEBOUNCE_MS after the last move.
DebounceRings ==
  /\ timer # 0 /\ timer' = 0
  /\ IF idRef = timer
       THEN sentFen' = fen /\ ApplyPatch(timer, fen)
       ELSE UNCHANGED <<sentFen, serverFen, epoch, calls>>
  /\ UNCHANGED <<enabled, phase, fen, lines, idRef, gen, alive, sentLines, frame, moves,
                 clicks, answers, feed>>
  /\ Aside

-----------------------------------------------------------------------------
(* Answers.                                                                 *)

Answered(a) == a \in answers /\ answers' = answers \ {a}

\* mutant: what was asked for in the meantime is not caught up
HearsOpenAsAsked(a) ==
  /\ Answered(a) /\ a.to = "open"
  /\ UNCHANGED <<fen, lines, gen, moves, clicks, feed, sentFen, sentLines, epoch, frame>> /\ Aside
  /\ timer' = 0
  /\ IF alive # a.gen
       THEN Asks(CloseCall(a.id)) /\ UNCHANGED <<enabled, phase, idRef, alive, serverFen>>
     ELSE IF a.ok
       THEN idRef' = a.id /\ serverFen' = a.fen /\ Asks(<<>>) /\ UNCHANGED <<enabled, phase, alive>>
       ELSE /\ phase' = "error" /\ enabled' = FALSE /\ alive' = 0
            /\ UNCHANGED <<idRef, serverFen, calls>>

\* mutant: a failed open leaves the page waiting
HearsOpenQuiet(a) ==
  /\ Answered(a) /\ a.to = "open"
  /\ Asks(IF a.ok /\ alive # a.gen THEN CloseCall(a.id) ELSE <<>>)
  /\ idRef' = IF a.ok /\ alive = a.gen THEN a.id ELSE idRef
  /\ UNCHANGED <<enabled, phase, fen, lines, gen, alive, serverFen, sentFen, sentLines, epoch,
                 timer, frame, moves, clicks, feed>>
  /\ Aside

\* One opened by an effect torn down meanwhile is closed again; otherwise
\* what was asked for in the meantime is caught up.
HearsOpen(a) ==
  /\ Answered(a) /\ a.to = "open"
  /\ UNCHANGED <<fen, lines, gen, moves, clicks, feed>> /\ Aside
  /\ IF alive # a.gen
       THEN /\ Asks(CloseCall(a.id))
            /\ UNCHANGED <<enabled, phase, idRef, alive, serverFen, sentFen, sentLines, epoch,
                           timer, frame>>
     ELSE IF ~a.ok
       THEN /\ phase' = "error" /\ enabled' = FALSE /\ alive' = 0 /\ timer' = 0
            /\ UNCHANGED <<idRef, serverFen, sentFen, sentLines, epoch, frame, calls>>
     ELSE LET moved == fen # sentFen
              sends == moved \/ lines # sentLines IN
          /\ idRef' = a.id /\ sentFen' = fen /\ sentLines' = lines
          /\ serverFen' = IF moved THEN None ELSE a.fen
          /\ epoch' = IF moved THEN epoch + 1 ELSE epoch
          /\ Asks(IF sends THEN <<PatchCall(a.id, IF moved THEN fen ELSE None, epoch')>>
                           ELSE <<>>)
          /\ timer' = 0
          /\ UNCHANGED <<enabled, phase, alive, frame>>

\* The answer of the restart that is still the newest.
Patched(a) ==
  /\ serverFen' = IF a.epoch = epoch THEN a.fen ELSE serverFen
  /\ UNCHANGED <<epoch, calls, phase, idRef, gen, alive, sentFen, sentLines, frame>>
  /\ Debounces

\* The session is gone under the page: opened again, with nothing to close.
LostSession == Reruns(TRUE, 0)

HearsPatch(a) ==
  /\ Answered(a) /\ a.to = "patch"
  /\ UNCHANGED <<enabled, fen, lines, moves, clicks, feed>> /\ Aside
  /\ IF idRef # a.id
       THEN UNCHANGED <<phase, idRef, gen, alive, serverFen, sentFen, sentLines, epoch, timer,
                        frame, calls>>
     ELSE \/ a.ok = "ok" /\ Patched(a)
          \/ a.ok = "unknown" /\ LostSession
          \/ /\ a.ok = "refused"
             /\ phase' = IF a.moves /\ a.epoch = epoch THEN "error" ELSE phase
             /\ UNCHANGED <<idRef, gen, alive, serverFen, sentFen, sentLines, epoch, timer,
                            frame, calls>>

HearsList(a) ==
  /\ Answered(a) /\ a.to = "list"
  /\ UNCHANGED <<enabled, fen, lines, moves, clicks, feed>> /\ Aside
  /\ IF idRef # a.id \/ a.open
       THEN UNCHANGED <<phase, idRef, gen, alive, serverFen, sentFen, sentLines, epoch, timer,
                        frame, calls>>
       ELSE LostSession

-----------------------------------------------------------------------------
(* Frames.  One of another session is nobody's here; `seq` is left out,     *)
(* frames being in order.                                                   *)

NoEffect ==
  UNCHANGED <<enabled, phase, idRef, alive, serverFen, timer, frame>>

\* Only a frame of the position the server last said it was on.
Accepts(snap) ==
  IF serverFen = None \/ snap.fen # serverFen
    THEN NoEffect
    ELSE /\ frame' = [under |-> sentFen, of |-> snap.of] /\ phase' = "running"
         /\ UNCHANGED <<enabled, idRef, alive, serverFen, timer>>

\* The server has dropped the session: nothing is left to close.
EndedUnderUs(reason) ==
  /\ idRef' = 0 /\ serverFen' = None /\ frame' = NoFrame
  /\ enabled' = FALSE /\ alive' = 0 /\ timer' = 0
  /\ phase' = IF reason \in {"closed", "replaced"} THEN "off" ELSE "ended"

\* A session's end is not heard before the answer that named it, unless the
\* socket overtakes the request.
HearsFrame ==
  /\ feed # <<>> /\ feed' = Tail(feed)
  /\ LET f == Head(feed) IN
     /\ f.say = "ended" /\ "overtake" \notin Faults =>
          ~(\E a \in answers : a.to = "open" /\ a.ok /\ a.id = f.id)
     /\ IF f.id # idRef THEN NoEffect
        ELSE IF f.say = "snapshot" THEN Accepts(f) ELSE EndedUnderUs(f.reason)
  /\ UNCHANGED <<fen, lines, gen, sentFen, sentLines, epoch, moves, clicks, calls, answers>>
  /\ Aside

\* mutant: the page asks nothing on the way back
SocketReturnsBlind ==
  /\ ~listening /\ listening' = TRUE /\ answers = {}
  /\ UNCHANGED <<pageVars, sess, opening, lock, search, searched, picture, ends, answers, feed,
                 calls>>

\* Nothing is replayed: on the way back, RETRY_MIN_MS and more later, the page
\* asks whether the board it has is still open.
SocketDrops ==
  /\ "drop" \in Faults /\ listening /\ clicks < MaxClicks /\ clicks' = clicks + 1
  /\ listening' = FALSE /\ feed' = <<>>
  /\ UNCHANGED <<enabled, phase, fen, lines, idRef, gen, alive, serverFen, sentFen, sentLines,
                 epoch, timer, frame, moves, sess, opening, lock, search, searched, picture,
                 ends, calls, answers>>

SocketReturns ==
  /\ ~listening /\ listening' = TRUE
  /\ answers = {} \/ "overtake" \in Faults
  /\ Asks(IF enabled /\ idRef # 0 THEN <<[ask |-> "list", id |-> idRef]>> ELSE <<>>)
  /\ UNCHANGED <<pageVars, sess, opening, lock, search, searched, picture, ends, answers, feed>>

-----------------------------------------------------------------------------
PageClicks ==
  \/ \E on \in BOOLEAN : SetEnabled(on)
  \/ SetEngineId \/ SetMultipv
  \/ \E f \in Fens \cup {None} : Moves(f)

Hears == \E a \in answers : HearsOpen(a) \/ HearsPatch(a) \/ HearsList(a)

PageStep == PageClicks \/ DebounceRings \/ Hears \/ HearsFrame \/ SocketDrops \/ SocketReturns

Next == PageStep \/ (ServerStep /\ UNCHANGED pageVars)

Spec == Init /\ [][Next]_vars

\* Requests are served and answered, frames arrive, timers ring, and a search
\* that was told a position comes to it.  Nobody has to click.
FairSpec ==
  /\ Spec
  /\ WF_vars(Serves /\ UNCHANGED pageVars)
  /\ WF_vars(Hears) /\ WF_vars(HearsFrame) /\ WF_vars(DebounceRings) /\ WF_vars(SocketReturns)
  /\ \A s \in Ids : WF_vars(Turns(s) /\ UNCHANGED pageVars)

-----------------------------------------------------------------------------
Asked(ask, s) == \E i \in DOMAIN calls : calls[i].ask = ask /\ calls[i].id = s
AnswerDue(to, s) == \E a \in answers : a.to = to /\ a.id = s

TypeOK ==
  /\ \A s \in Ids : sess[s].at \in {"unborn", "open", "ended"} /\ sess[s].fen \in Fens \cup {None}
  /\ search \in [Ids -> {"none", "starting", "running", "over"}]
  /\ searched \in [Ids -> Fens \cup {None}] /\ picture \in [Ids -> Fens \cup {None}]
  /\ ends \subseteq Born /\ lock.ends \in Ids \cup {0}
  /\ phase \in {"off", "opening", "running", "ended", "error"}
  /\ {fen, serverFen, sentFen, frame.under, frame.of} \subseteq Fens \cup {None}
  /\ idRef \in Born \cup {0} /\ gen \in 0..MaxOpens /\ alive \in {0, gen}
  /\ timer \in {0, idRef}
  /\ idRef # 0 => enabled /\ alive = gen

\* The lines shown under a position are that position's own, though frames,
\* restarts and the answers to them cross (applyPatch, the snapshot listener).
ShownIsForBoard == frame.under = fen /\ fen # None => frame.of = fen

\* A board the page opened is the one it shows, one it is still to hear of,
\* or one it has asked to have closed: a search nobody can stop is left to
\* the reaper (the open effect's `cancelled` branch, the cleanup).
NoBoardIsForgotten ==
  \A s \in Open : sess[s].by = "page" =>
    \/ idRef = s \/ opening[s] # Nothing \/ AnswerDue("open", s)
    \/ Asked("close", s)

\* A board that is gone on the server is on its way out of the page: an
\* `ended` frame, the list asked for on reconnect or an answer will say so.
DeadIsNoticed ==
  idRef # 0 /\ sess[idRef].at = "ended" =>
    \/ lock.ends = idRef \/ ~listening
    \/ \E i \in DOMAIN feed : feed[i].say = "ended" /\ feed[i].id = idRef
    \/ Asked("list", idRef) \/ AnswerDue("list", idRef)

\* The search comes to the position on the board (debounce, catch-up and
\* restart), unless the session ends or the server refuses it.
PositionIsSearched ==
  \A s \in Ids, f \in Fens :
    idRef = s /\ fen = f ~>
      searched[s] = f \/ idRef # s \/ fen # f \/ phase = "error" \/ sess[s].at = "ended"

\* A page that is opening a board is answered: it shows it, or says why not.
OpeningEnds == phase = "opening" ~> (phase # "opening" \/ idRef # 0)

(* All of it: what the page shows, what the server has open for it, and    *)
(* what is searched belong together.                                       *)
BoardsAreKept ==
  SurfaceHasOneBoard /\ SearchIsHeld /\ ShownIsForBoard /\ NoBoardIsForgotten /\ DeadIsNoticed
=============================================================================
