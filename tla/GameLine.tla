------------------------------- MODULE GameLine -------------------------------
(***************************************************************************)
(* routes/game: the line the reader walks off a game (analysisLine.ts and  *)
(* the handlers of GamePage.tsx), the lines kept for the session           *)
(* (sessionVariations.ts), those pinned on the server (services/notes.py   *)
(* save_line) and the rows all three are drawn as (variationRows.ts).  A   *)
(* practice game on the same line is PracticeGame.tla.  Every move is      *)
(* legal here, so buildAnalysisLine drops nothing.                         *)
(***************************************************************************)
EXTENDS Integers, Sequences, SequencesExt, FiniteSets

CONSTANTS Plies,    \* plies of the game
          Moves,    \* moves there are in a position
          Offers,   \* lines the engine, Maia and the book have on offer
          None,     \* no branch, no id, no practice game
          MaxLine,  \* bound: moves of a line
          MaxKept,  \* MAX_KEPT_VARIATIONS
          MaxPins,  \* bound: lines pinned and pins in flight
          Faults    \* subset of FaultKinds that may happen

FaultKinds == {"fails", "race", "unpin", "nothing"}

(* What an instance assumes of its constants.                              *)
LineAssumption ==
  /\ {Plies, MaxLine, MaxKept, MaxPins} \subseteq Nat /\ MaxKept > 0
  /\ Faults \subseteq FaultKinds /\ Offers \subseteq Seq(Moves) \ {<<>>}

VARIABLES
  cursor,  \* the game cursor, -1 before the first move
  branch,  \* the line off the game: its base, its moves and the board in it
  kept,    \* the session's lines, oldest first
  pinned,  \* the lines the server holds, in the order they were pinned
  pins     \* pins in flight: what the server has read for one, and its answer

lineVars == <<cursor, branch, kept, pinned, pins>>

LineInit ==
  /\ cursor = Plies - 1 /\ branch = None
  /\ kept = <<>> /\ pinned = <<>> /\ pins = {}

\* buildAnalysisLine: off every line, the game position with no moves.
Line == IF branch = None THEN [base |-> cursor + 1, moves |-> <<>>, cursor |-> 0] ELSE branch

\* A line off `base` with the board after `at` of its moves.
Branch(base, moves, at) ==
  [base |-> base, moves |-> moves, cursor |-> IF at > Len(moves) THEN Len(moves) ELSE at]

Lines == UNION {[1..n -> Moves] : n \in 0..MaxLine}

Overlap(k, l) == k.base = l.base /\ (IsPrefix(k.moves, l.moves) \/ IsPrefix(l.moves, k.moves))
Covers(k, l) == k.base = l.base /\ IsPrefix(l.moves, k.moves)

\* An id nobody holds any more is given again: ids are only compared.
Fresh(used) == CHOOSE n \in 1..(Cardinality(used) + 1) : n \notin used
KeptIds == {kept[i].id : i \in DOMAIN kept} \cup {p.id : p \in pins}

-----------------------------------------------------------------------------
(* The session's lines.                                                     *)

\* mutant: a line that goes on from a kept one is kept beside it
KeepBeside(l) ==
  IF l.moves = <<>> \/ (\E k \in Range(kept) : Covers(k, l)) THEN kept
  ELSE LET next == Append(kept, [id |-> Fresh(KeptIds), base |-> l.base, moves |-> l.moves]) IN
       SubSeq(next, Len(next) - (IF Len(next) > MaxKept THEN MaxKept ELSE Len(next)) + 1, Len(next))

\* keepVariation: a line covered already is not kept again, one that goes on
\* from a kept line takes its place, and the oldest falls off the end.
Keep(l) ==
  IF l.moves = <<>> \/ (\E k \in Range(kept) : Covers(k, l)) THEN kept
  ELSE LET line == [id |-> Fresh(KeptIds), base |-> l.base, moves |-> l.moves]
           heads == {i \in DOMAIN kept : Covers(l, kept[i])}
           next == IF heads = {} THEN Append(kept, line)
                   ELSE LET first == CHOOSE i \in heads : \A j \in heads : i <= j IN
                        SelectSeq([kept EXCEPT ![first] = line],
                                  LAMBDA k : k = line \/ ~Covers(l, k))
           over == IF Len(next) > MaxKept THEN Len(next) - MaxKept ELSE 0 IN
       SubSeq(next, over + 1, Len(next))

\* keepBranch, on the way out of a line.
KeepBranch == kept' = IF branch = None THEN kept ELSE Keep(Line)

-----------------------------------------------------------------------------
(* Walking.                                                                 *)

Clamp(c) == IF c < -1 THEN -1 ELSE IF c > Plies - 1 THEN Plies - 1 ELSE c

\* Any move of the game cursor is a request to be back on the game.
Seek(next) ==
  /\ cursor' = Clamp(next)
  /\ KeepBranch /\ branch' = None
  /\ UNCHANGED <<pinned, pins>>

\* "Back to game", and Escape.
ExitLine ==
  /\ Line.cursor > 0
  /\ KeepBranch /\ branch' = None
  /\ UNCHANGED <<cursor, pinned, pins>>

\* An engine's or the book's line from here, and the move of it clicked.
PlayLine(ucis, index) ==
  /\ KeepBranch
  /\ branch' = Branch(Line.base, SubSeq(Line.moves, 1, Line.cursor) \o ucis,
                      Line.cursor + index + 1)
  /\ UNCHANGED <<cursor, pinned, pins>>

SeekVariation(index) ==
  /\ Line.moves # <<>>
  /\ branch' = Branch(Line.base, Line.moves, index + 1)
  /\ UNCHANGED <<cursor, kept, pinned, pins>>

\* mutant: the line left for another is not kept
EnterForgets(target, at) ==
  /\ cursor' = Clamp(target.base - 1)
  /\ branch' = Branch(target.base, target.moves, at)
  /\ UNCHANGED <<kept, pinned, pins>>

\* enterKeptVariation, and enterLine for a pinned one.
Enter(target, at) ==
  /\ KeepBranch
  /\ cursor' = Clamp(target.base - 1)
  /\ branch' = Branch(target.base, target.moves, at)
  /\ UNCHANGED <<pinned, pins>>

\* One move forwards or back, and off the head of a line back onto the game.
Step(delta) ==
  IF branch = None THEN Seek(cursor + delta)
  ELSE /\ IF Line.cursor + delta < 0
            THEN KeepBranch /\ branch' = None
            ELSE branch' = Branch(Line.base, Line.moves, Line.cursor + delta)
                 /\ UNCHANGED kept
       /\ UNCHANGED <<cursor, pinned, pins>>

\* withBoardMove: the line cut at the board, and one move on.
WithBoardMove(m) == Append(SubSeq(Line.moves, 1, Line.cursor), m)

\* playMove with no practice game, where no line on offer begins with `m`; one
\* that does is PlayLine.
PlayMove(m) ==
  /\ Line.cursor < MaxLine
  /\ KeepBranch
  /\ branch' = Branch(Line.base, WithBoardMove(m), MaxLine)
  /\ UNCHANGED <<cursor, pinned, pins>>

-----------------------------------------------------------------------------
(* The rows of the move list.                                               *)

\* One pinned line and the first session line not yet spoken for that is the
\* same walk are one row, as long as the longer.
PinnedRows ==
  FoldLeft(LAMBDA acc, p :
             LET same == {i \in DOMAIN kept : kept[i].id \notin acc.absorbed /\ Overlap(kept[i], p)}
             IN IF same = {}
                  THEN [acc EXCEPT !.rows = Append(@, [keptId |-> None, lineId |-> p.id,
                                                       base |-> p.base, moves |-> p.moves])]
                  ELSE LET k == kept[CHOOSE i \in same : \A j \in same : i <= j] IN
                       [rows |-> Append(acc.rows,
                                        [keptId |-> k.id, lineId |-> p.id, base |-> p.base,
                                         moves |-> IF Len(k.moves) > Len(p.moves) THEN k.moves
                                                                                ELSE p.moves]),
                        absorbed |-> acc.absorbed \cup {k.id}],
           [rows |-> <<>>, absorbed |-> {}], pinned)

\* variationRows: the walk on the board claims the first row it is one with.
Rows ==
  LET folded == PinnedRows
      free == SelectSeq(kept, LAMBDA k : k.id \notin folded.absorbed)
      rows == folded.rows
                \o [i \in DOMAIN free |-> [keptId |-> free[i].id, lineId |-> None,
                                           base |-> free[i].base, moves |-> free[i].moves]]
      same == {i \in DOMAIN rows : Overlap(rows[i], Line)} IN
  IF Line.moves = <<>> THEN rows
  ELSE IF same = {}
    THEN Append(rows, [keptId |-> None, lineId |-> None, base |-> Line.base, moves |-> Line.moves])
  ELSE LET claimed == CHOOSE i \in same : \A j \in same : i <= j IN
       [rows EXCEPT ![claimed].moves = IF Len(Line.moves) >= Len(@) THEN Line.moves ELSE @]

-----------------------------------------------------------------------------
(* Pinning.                                                                 *)

\* pinVariation of a row.
Pin(row) ==
  /\ Cardinality(pins) + Len(pinned) < MaxPins
  /\ pins' = pins \cup {[id |-> row.keptId, base |-> row.base, moves |-> row.moves,
                         at |-> "sent", stored |-> <<>>]}
  /\ UNCHANGED <<cursor, branch, kept, pinned>>

\* save_line reads the lines off this position ...
SaveReads(p) ==
  /\ p \in pins /\ p.at = "sent"
  /\ "race" \in Faults \/ \A q \in pins : q.at # "read"
  /\ pins' = (pins \ {p}) \cup {[p EXCEPT !.at = "read", !.stored = pinned]}
  /\ UNCHANGED <<cursor, branch, kept, pinned>>

\* What the fold leaves: a line covered by a stored one is that one, one that
\* goes on from it is written over it, anything else is new.
Folded(p) ==
  LET heads == {i \in DOMAIN p.stored : Covers(p, p.stored[i])} IN
  IF \E l \in Range(p.stored) : Covers(l, p) THEN pinned
  ELSE IF heads # {}
    THEN LET id == p.stored[CHOOSE i \in heads : \A j \in heads : i <= j].id IN
         [i \in DOMAIN pinned |-> IF pinned[i].id = id THEN [pinned[i] EXCEPT !.moves = p.moves]
                                                       ELSE pinned[i]]
  ELSE Append(pinned, [id |-> Fresh({pinned[i].id : i \in DOMAIN pinned}), base |-> p.base,
                       moves |-> p.moves])

\* ... and writes on what it read.
SaveWrites(p) ==
  /\ p \in pins /\ p.at = "read"
  /\ \/ /\ pinned' = Folded(p)
        /\ pins' = (pins \ {p}) \cup {[p EXCEPT !.at = "saved", !.stored = <<>>]}
     \/ /\ "fails" \in Faults /\ pins' = pins \ {p} /\ UNCHANGED pinned
  /\ UNCHANGED <<cursor, branch, kept>>

\* dropVariation: silent about an id it does not have.
DropVariation(p) == SelectSeq(kept, LAMBDA k : k.id # p.id)

\* The pin's answer: the session's copy goes, the server holds the line.
PinAnswered(p) ==
  /\ p \in pins /\ p.at = "saved" /\ pins' = pins \ {p}
  /\ kept' = DropVariation(p)
  /\ UNCHANGED <<cursor, branch, pinned>>

\* Nobody unpins a line while a pin is out, but for "unpin".
Unpin(l) ==
  /\ l \in Range(pinned) /\ (pins = {} \/ "unpin" \in Faults)
  /\ pinned' = SelectSeq(pinned, LAMBDA k : k # l)
  /\ UNCHANGED <<cursor, branch, kept, pins>>

Pinning ==
  \/ \E row \in Range(Rows) : row.moves # <<>> /\ Pin(row)
  \/ \E p \in pins : SaveReads(p) \/ SaveWrites(p) \/ PinAnswered(p)
Unpins == \E l \in Range(pinned) : Unpin(l)

\* What the reader does with the line, but for a move of their own.
Walks ==
  \/ \E c \in -1..(Plies - 1) : Seek(c)
  \/ ExitLine
  \/ \E ucis \in Offers :
       /\ Line.cursor + Len(ucis) <= MaxLine
       /\ \E index \in 0..(Len(ucis) - 1) : PlayLine(ucis, index)
  \/ \E index \in 0..(Len(Line.moves) - 1) : SeekVariation(index)
  \/ \E k \in Range(kept) : \E at \in 1..Len(k.moves) : Enter(k, at)
  \/ \E l \in Range(pinned) : \E at \in 0..Len(l.moves) : Enter(l, at)
  \/ Step(1) \/ Step(-1)

-----------------------------------------------------------------------------
LineTypeOK ==
  /\ cursor \in -1..(Plies - 1)
  /\ branch # None =>
       /\ branch.base \in 0..Plies /\ branch.moves \in Lines /\ branch.cursor \in 0..Len(branch.moves)
       /\ branch.base = cursor + 1
  /\ Len(kept) <= MaxKept /\ \A k \in Range(kept) : k.base \in 0..Plies /\ k.moves \in Lines \ {<<>>}
  /\ \A p \in pins : p.at \in {"sent", "read", "saved"}

\* The move list draws each line once, whatever was walked, kept, pinned and
\* extended in which order (variationRows: "the move list must draw each line
\* exactly once").
RowsAreDistinct ==
  LET rows == Rows IN
  \A i, j \in DOMAIN rows : Overlap(rows[i], rows[j]) => i = j

\* The line on the board and every line drawn.
Drawn == Range(kept) \cup Range(pinned) \cup (IF branch = None THEN {} ELSE {Line})
Held(l) == l.moves = <<>> \/ \E k \in Drawn : Covers(k, l)
=============================================================================
