----------------------------- MODULE PracticeGame -----------------------------
(***************************************************************************)
(* routes/game/usePractice.ts and practice.ts: a practice game on the line *)
(* the reader walks (GameLine.tla).  An action is one click or one answer, *)
(* with what the hook makes of the line it leaves: a game whose line has   *)
(* gone ends, and the effect that asks the computer reruns when the phase, *)
(* the position, the opponent or the attempt is another.                   *)
(***************************************************************************)
EXTENDS GameLine

CONSTANTS MaxBegins,   \* bound: practice games begun
          MaxRetries   \* bound: presses of Retry

(* What an instance assumes of its constants.                              *)
PracticeAssumption == LineAssumption /\ MaxBegins \in Nat /\ MaxRetries \in Nat

VARIABLES
  game,     \* the practice game: which, the reader's side, base and from
  attempt,  \* the state of that name
  failure,  \* the question the last failure answered
  ask,      \* the question the effect last ran for, None for none
  out,      \* questions out, each still wanted or cancelled
  begins    \* counter

practiceVars == <<game, attempt, failure, ask, out, begins>>
vars == <<lineVars, practiceVars>>

Init ==
  /\ LineInit
  /\ game = None /\ attempt = 0 /\ failure = None /\ ask = None /\ out = {} /\ begins = 0

Fen == <<Line.base, SubSeq(Line.moves, 1, Line.cursor)>>

\* 0 when white is to move at the end of `n` moves off `base`.
Turn(base, n) == (base + n) % 2

\* practicePhase.  Bound: a game is over where a line can go no further.
Phase ==
  IF game = None THEN "none"
  ELSE IF Line.cursor < Len(Line.moves) THEN "reviewing"
  ELSE IF Len(Line.moves) = MaxLine THEN "over"
  ELSE IF Turn(Line.base, Line.cursor) = game.side THEN "yours" ELSE "thinking"

\* A failure is kept under the position and the attempt.
Question == <<Fen, attempt>>

Key == IF Phase = "thinking" THEN [fen |-> Fen, game |-> game.id, attempt |-> attempt] ELSE None

\* Bound: of the questions cancelled, the last alone is still out.
Cancelled(left) == {[o EXCEPT !.wanted = FALSE] : o \in {p \in left : p.wanted}}

\* mutant: a question nobody wants any more is left wanted
HookWantsAll(g) ==
  /\ game' = IF g = None \/ branch' = None \/ branch'.base # g.base THEN None ELSE g
  /\ ask' = Key'
  /\ out' = IF Key' \in {ask, None} THEN out ELSE out \cup {[key |-> Key', wanted |-> TRUE]}

\* mutant: a question is told by its position alone
HookByPosition(g) ==
  /\ game' = IF g = None \/ branch' = None \/ branch'.base # g.base THEN None ELSE g
  /\ ask' = Key'
  /\ LET other == (ask = None) # (Key' = None) \/ (ask # None /\ ask.fen # Key'.fen) IN
     out' = IF ~other THEN out
            ELSE Cancelled(out)
                   \cup (IF Key' = None THEN {} ELSE {[key |-> Key', wanted |-> TRUE]})

\* mutant: no question while another, called off or not, is still out
HookOneAtATime(g) ==
  /\ game' = IF g = None \/ branch' = None \/ branch'.base # g.base THEN None ELSE g
  /\ ask' = Key'
  /\ out' = IF ask' = ask THEN out
            ELSE Cancelled(out)
                   \cup (IF ask' = None \/ out # {} THEN {} ELSE {[key |-> ask', wanted |-> TRUE]})

\* The hook behind a step that leaves `g` as the game: off its line it ends,
\* and a rerun effect cancels what it had asked.
Hook(g) ==
  /\ game' = IF g = None \/ branch' = None \/ branch'.base # g.base THEN None ELSE g
  /\ ask' = Key'
  /\ out' = IF ask' = ask THEN out
            ELSE Cancelled(out)
                   \cup (IF ask' = None THEN {} ELSE {[key |-> ask', wanted |-> TRUE]})

Walking ==
  /\ Walks \/ Pinning \/ Unpins
  /\ UNCHANGED <<attempt, failure, begins>> /\ Hook(game)

\* playMove: in a practice game the reader's own side only, never snapped onto
\* a line on offer, and the line is kept only where it is cut.
PlaysMove(m) ==
  /\ IF game = None THEN PlayMove(m)
     ELSE /\ Turn(Line.base, Line.cursor) = game.side /\ Line.cursor < MaxLine
          /\ IF Line.cursor < Len(Line.moves) THEN KeepBranch ELSE UNCHANGED kept
          /\ branch' = Branch(Line.base, WithBoardMove(m), MaxLine)
          /\ UNCHANGED <<cursor, pinned, pins>>
  /\ UNCHANGED <<attempt, failure, begins>> /\ Hook(game)

\* beginPractice: a line walked past the board is cut at it, and kept.
Begin(side) ==
  /\ game = None /\ begins < MaxBegins /\ begins' = begins + 1
  /\ IF Line.cursor < Len(Line.moves) THEN KeepBranch ELSE UNCHANGED kept
  /\ branch' = Branch(Line.base, SubSeq(Line.moves, 1, Line.cursor), Line.cursor)
  /\ failure' = None
  /\ UNCHANGED <<cursor, pinned, pins, attempt>>
  /\ Hook([id |-> begins', side |-> side, base |-> Line.base, from |-> Line.cursor])

StopPractice ==
  /\ game # None
  /\ UNCHANGED <<lineVars, attempt, failure, begins>> /\ Hook(None)

ErrorShown == Phase = "thinking" /\ failure = Question

Retry ==
  /\ ErrorShown /\ attempt < MaxRetries /\ attempt' = attempt + 1
  /\ UNCHANGED <<lineVars, failure, begins>> /\ Hook(game)

\* takeBackLength: the reader's last move and any reply to it, and nothing
\* from before the game.
TakeBackLength ==
  LET n == Len(Line.moves)
      drop == IF Turn(Line.base, n) = game.side THEN 2 ELSE 1 IN
  IF n <= game.from THEN n ELSE IF n - drop < game.from THEN game.from ELSE n - drop

\* mutant: the reader's move alone is taken back, the reply standing
TakeBackOne ==
  /\ game # None /\ Len(Line.moves) > game.from
  /\ branch' = Branch(Line.base, SubSeq(Line.moves, 1, Len(Line.moves) - 1), MaxLine)
  /\ UNCHANGED <<cursor, kept, pinned, pins, attempt, failure, begins>> /\ Hook(game)

TakeBack ==
  /\ game # None /\ Len(Line.moves) > game.from
  /\ branch' = Branch(Line.base, SubSeq(Line.moves, 1, TakeBackLength), MaxLine)
  /\ UNCHANGED <<cursor, kept, pinned, pins, attempt, failure, begins>> /\ Hook(game)

\* appendPracticeMove: only at the end of the line, on the position asked about.
Append_(q, m) ==
  IF Fen = q.fen /\ Line.cursor = Len(Line.moves)
    THEN branch' = Branch(Line.base, Append(Line.moves, m), MaxLine)
    ELSE UNCHANGED branch

\* The answer: a move, none ("nothing"), or an error ("fails").  A cancelled
\* question's answer is dropped.
Answered(o) ==
  /\ o \in out
  /\ IF ~o.wanted
       THEN UNCHANGED <<branch, failure>>
     ELSE \/ \E m \in Moves : Append_(o.key, m) /\ UNCHANGED failure
          \/ /\ {"nothing", "fails"} \cap Faults # {}
             /\ failure' = <<o.key.fen, o.key.attempt>> /\ UNCHANGED branch
  /\ UNCHANGED <<cursor, kept, pinned, pins, attempt, begins>>
  /\ game' = game /\ ask' = Key'
  /\ out' = LET left == out \ {o} IN
            IF ask' = ask THEN left
            ELSE Cancelled(left)
                   \cup (IF ask' = None THEN {} ELSE {[key |-> ask', wanted |-> TRUE]})

Next ==
  \/ Walking
  \/ \E m \in Moves : PlaysMove(m)
  \/ \E side \in {0, 1} : Begin(side)
  \/ StopPractice \/ Retry \/ TakeBack
  \/ \E o \in out : Answered(o)

Spec == Init /\ [][Next]_vars

\* Questions are answered; nobody has to play.
FairSpec == Spec /\ \A wanted \in BOOLEAN : WF_vars(\E o \in out : o.wanted = wanted /\ Answered(o))

-----------------------------------------------------------------------------
TypeOK ==
  /\ LineTypeOK
  /\ game # None => branch # None /\ branch.base = game.base /\ game.from \in 0..MaxLine
  /\ attempt \in 0..MaxRetries
  /\ Cardinality({o \in out : o.wanted}) <= 1

\* A line that was walked is still on the board, kept or pinned, unless the
\* reader takes it back or unpins it or it is the one walked longest ago of
\* more than the session keeps (keepBranch: "leaving a line is what keeps it").
Capped(l) == Len(kept) = MaxKept /\ Len(kept') = MaxKept /\ l = Head(kept)
LineIsHeldOn == \A l \in Drawn : Held(l)' \/ Capped(l) \/ TakeBack \/ Unpins
WalkedIsHeld == [][LineIsHeldOn]_vars

\* The computer's move is the one this game asked for, in the position at the
\* end of its line and on its own turn, whatever was taken back, stepped
\* through, stopped and begun while the answer was out.
ReplyIsExpected ==
  \A o \in out : Answered(o) /\ branch' # branch =>
    game # None /\ o.key.game = game.id /\ Phase = "thinking"
ReplyIsForThisBoard == [][ReplyIsExpected]_vars

\* While the page says the computer is thinking, it has been asked.
ThinkingIsAsked ==
  Phase = "thinking" /\ ~ErrorShown =>
    \E o \in out : o.wanted /\ o.key = Key

\* A take-back leaves the reader to move, or the line as practice found it.
TakenBackToAMove == TakeBack => Phase' = "yours" \/ Len(Line.moves)' = game.from
TakeBackIsAMove == [][TakenBackToAMove]_vars

\* A failure shown is of a question already answered (usePractice: "a
\* take-back or a retry is a new question with no failure yet").
ErrorIsOfThisQuestion == ErrorShown => \A o \in out : ~o.wanted

\* A practice game can be taken back to where its line is (takeBackLength:
\* "the moves before that were the game, or the reader's analysis").
FromIsOnTheLine == game # None => game.from <= Len(Line.moves)

\* The computer is heard from, with a move or with why not.
ReplyComes == Phase = "thinking" ~> (Phase # "thinking" \/ ErrorShown)
=============================================================================
