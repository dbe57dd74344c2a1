------------------------- MODULE SourceModification -------------------------
(***************************************************************************)
(* Class Modification of the synthesizer: the edits of one source file.    *)
(* Callers name lines and columns of the file as it was read; the text has *)
(* changed by then, and lineOffsetMap tells by how many lines.             *)
(*                                                                         *)
(* A character of the file is known by the line and column it had, so that *)
(* one sees what becomes of it; the text a caller adds is one cell that    *)
(* says which line it is meant for.                                        *)
(***************************************************************************)
EXTENDS Integers, SequencesExt

CONSTANTS
    Width,        \* the number of columns of each line
    HoleAt,       \* the positions of holes and their numbers, as digits
    AfterLines,   \* the lines that addNewCodeSnippetAfter is called with,
    BeforeLines,  \* addNewCodeSnippetBefore,
    ReplaceLines, \* replace,
    Ranges,       \* deleteCodeRange, as first position and the one behind,
    Branches,     \* deleteEitherBranch, as an if statement and condValue,
    Fillings,     \* and setHoleFilling, as a number and the name it gets
    Careful,      \* callers add lines from the top to the bottom of the file
                  \* and delete no range that ends on a line with a gap
    MaxEdits      \* bound on the number of calls

Lines == 1 .. Len(Width)
Position == Lines \X (Nat \ {0})
NoElse == <<0, 0>>

Before(p, q) == p[1] < q[1] \/ (p[1] = q[1] /\ p[2] < q[2])

(* An if statement as clang reports it: it starts and ends, its condition, *)
(* its two blocks; the ends are the columns behind the last character.     *)
Branch == [start : Position, end : Position, cond : Position, condEnd : Position,
           then : Position, else : Position \cup {NoElse}, keyword : Position \cup {NoElse}]

ASSUME ModificationAssumption ==
    /\ Width \in Seq(Nat)
    /\ DOMAIN HoleAt \subseteq Position /\ \A p \in DOMAIN HoleAt : HoleAt[p] \in Seq(0 .. 9)
    /\ AfterLines \cup BeforeLines \cup ReplaceLines \subseteq Lines
    /\ Ranges \subseteq Position \X Position
    /\ \A r \in Ranges : Before(r[1], r[2])
    /\ Branches \subseteq Branch \X BOOLEAN
    /\ \A b \in Branches : IF b[1].else = NoElse THEN Before(b[1].start, b[1].end)
                          ELSE Before(b[1].keyword, b[1].end)
    /\ \A f \in Fillings : f[1] \in Seq(0 .. 9)
    /\ Careful \in BOOLEAN /\ MaxEdits \in Nat

VARIABLES
    workText, \* lines: the number in the source file, 0 if added, and cells
    offsets,  \* lineOffsetMap, 0 for what is not a key
    edits,    \* the number of calls so far
    at,       \* the line the last added line is below
    dropped,  \* the positions callers have asked to remove
    behind,   \* the ones right behind the ranges deleted
    wanted,   \* the texts callers have asked for
    aborted   \* std::out_of_range has been thrown

vars == <<workText, offsets, edits, at, dropped, behind, wanted, aborted>>

Cell(kind, line, col) == [kind |-> kind, line |-> line, col |-> col, as |-> <<>>]
Snippet(kind, line) == Cell(kind, line, 0)
Line(number, cells) == [number |-> number, cells |-> cells]

Init ==
    /\ workText = [l \in Lines |-> Line(l, [c \in 1 .. Width[l] |-> Cell("source", l, c)])]
    /\ offsets = [k \in 0 .. Len(Width) + MaxEdits |-> 0]
    /\ edits = 0 /\ at = 0 /\ dropped = {} /\ behind = {} /\ wanted = {} /\ aborted = FALSE

-----------------------------------------------------------------------------
Added(keys) == SumFunctionOnSet(offsets, keys)

(* The line a source line is looked for at, with the lines added behind it *)
(* counted, or not.                                                        *)
FirstBehind(l) == l + Added(0 .. l)
Adjusted(l) == l + Added(0 .. l - 1)

(* Variant: all keys are moved.                                            *)
ShiftedAll(from) ==
    [k \in DOMAIN offsets |-> IF k = 0 THEN 0 ELSE offsets[k - 1]]

(* The keys from some line of the text on are moved down by one.           *)
Shifted(from) ==
    [k \in DOMAIN offsets |->
        IF k < from THEN offsets[k] ELSE IF k = from THEN 0 ELSE offsets[k - 1]]

Calls == ~ aborted /\ edits < MaxEdits /\ edits' = edits + 1

Adds(line) ==
    /\ Careful => at <= line
    /\ at' = line

AddNewCodeSnippetAfter(l) ==
    LET i == FirstBehind(l)
    IN  /\ Calls /\ Adds(l)
        /\ workText' = IF i < Len(workText)
                       THEN InsertAt(workText, i + 1, Line(0, <<Snippet("after", l)>>))
                       ELSE workText
        /\ offsets' = [Shifted(i + 1) EXCEPT ![l] = @ + 1]
        /\ wanted' = wanted \cup {Snippet("after", l)}
        /\ UNCHANGED <<dropped, behind, aborted>>

AddNewCodeSnippetBefore(l) ==
    LET i == Adjusted(l)
    IN  /\ Calls /\ Adds(l - 1)
        /\ workText' = InsertAt(workText, i, Line(0, <<Snippet("before", l)>>))
        /\ offsets' = [Shifted(i) EXCEPT ![l - 1] = @ + 1]
        /\ wanted' = wanted \cup {Snippet("before", l)}
        /\ UNCHANGED <<dropped, behind, aborted>>

Replace(l) ==
    LET i == Adjusted(l)
    IN  /\ Calls
        /\ workText' = IF i <= Len(workText)
                       THEN [workText EXCEPT ![i].cells = <<Snippet("instead", l)>>]
                       ELSE workText
        /\ dropped' = dropped \cup {<<l, c>> : c \in 1 .. Width[l]}
        /\ wanted' = wanted \cup {Snippet("instead", l)}
        /\ UNCHANGED <<offsets, at, behind, aborted>>
-----------------------------------------------------------------------------
(* Variants: one column is taken off, or left, too much.                   *)
FirstCellsLess(cells, n) == SubSeq(cells, 1, IF n <= Len(cells) THEN n - 1 ELSE Len(cells))
CellsFromMore(cells, n) == SubSeq(cells, n, Len(cells))

FirstCells(cells, n) == SubSeq(cells, 1, IF n < Len(cells) THEN n ELSE Len(cells))
CellsBehind(cells, n) == SubSeq(cells, n + 1, Len(cells))

(* What is left of line k of the text when a range is deleted; the line of *)
(* its start is cut off there even if the range ends in it.                *)
Remaining(text, k, from, to) ==
    LET cells == text[k].cells
    IN  IF k = FirstBehind(from[1]) /\ from[2] > 1 THEN FirstCells(cells, from[2] - 1)
        ELSE IF k = Adjusted(to[1]) /\ to[2] < Len(cells) THEN CellsBehind(cells, to[2])
        ELSE <<>>

Without(text, from, to) ==
    LET first == FirstBehind(from[1])
        last == Adjusted(to[1])
    IN  IF first > Len(text) \/ last > Len(text) THEN text
        ELSE [k \in DOMAIN text |-> IF k \in first .. last
                                    THEN Line(text[k].number, Remaining(text, k, from, to))
                                    ELSE text[k]]

(* The texts no part of which is between two positions. *)
Untouched(from, to) ==
    {w \in wanted : CASE w.kind = "instead" -> w.line \notin from[1] .. to[1]
                      [] w.kind = "after" -> w.line \notin from[1] .. to[1] - 1
                      [] OTHER -> w.line \notin from[1] + 1 .. to[1]}

(* The characters from one position up to the one in front of another. *)
Between(from, to) ==
    {p \in UNION {{l} \X (1 .. Width[l]) : l \in Lines} : ~ Before(p, from) /\ Before(p, to)}

Asks(from, to) ==
    /\ Careful => \A p \in dropped \cup behind : p[1] \notin {from[1], to[1]}
    /\ dropped' = dropped \cup Between(from, to)
    /\ wanted' = Untouched(from, to)

(* deleteCodeRange, as deleteStmt, deleteLoop and deleteBranch call it:    *)
(* with the column behind the range for the last one to be deleted.        *)
Deletes(from, to) ==
    /\ workText' = Without(workText, from, to)
    /\ behind' = behind \cup {to}

DeleteCodeRange(from, to) ==
    /\ Calls
    /\ Deletes(from, to)
    /\ Asks(from, to)
    /\ UNCHANGED <<offsets, at, aborted>>

(* insertNegation: "!(" and ")" on the line of the condition.              *)
Inserted(cells, n, new) == SubSeq(cells, 1, n) \o new \o SubSeq(cells, n + 1, Len(cells))

Negated(cells, col, endCol) ==
    LET sign == Snippet("negation", 0)
    IN  Inserted(Inserted(cells, col - 1, <<sign, sign>>), endCol + 1, <<sign>>)

NegationLine(b) == FirstBehind(b.cond[1])
CanNegate(b) ==
    NegationLine(b) <= Len(workText) =>
        /\ b.cond[2] - 2 \in 0 .. Len(workText[NegationLine(b)].cells)
        /\ b.condEnd[2] <= Len(workText[NegationLine(b)].cells)

WithNegation(b) ==
    IF NegationLine(b) > Len(workText) THEN workText
    ELSE [workText EXCEPT ![NegationLine(b)].cells = Negated(@, b.cond[2] - 1, b.condEnd[2] + 1)]

(* With an else branch: either the condition is negated and its block and  *)
(* the keyword go, at columns moved by the negation, or the else branch.   *)
DeleteThen(b) ==
    IF CanNegate(b)
    THEN /\ workText' = Without(WithNegation(b), <<b.then[1], b.then[2] + 3>>,
                                <<b.else[1], b.else[2] - 1>>)
         /\ Asks(b.then, b.else)
         /\ UNCHANGED <<behind, aborted>>
    ELSE /\ aborted' = TRUE
         /\ UNCHANGED <<workText, dropped, behind, wanted>>

DeleteElse(b) ==
    /\ Deletes(<<b.else[1], b.else[2] - 4>>, b.end)
    /\ Asks(b.keyword, b.end)
    /\ UNCHANGED aborted

DeleteWhole(b) ==
    /\ Deletes(b.start, b.end)
    /\ Asks(b.start, b.end)
    /\ UNCHANGED aborted

DeleteEitherBranch(b, condValue) ==
    /\ Calls
    /\ CASE b.else # NoElse /\ condValue -> DeleteThen(b)
         [] b.else # NoElse /\ ~ condValue -> DeleteElse(b)
         [] b.else = NoElse /\ condValue -> DeleteWhole(b)
         [] OTHER -> UNCHANGED <<workText, dropped, behind, wanted, aborted>>
    /\ UNCHANGED <<offsets, at>>

-----------------------------------------------------------------------------
(* A hole is found where the text goes on with $ and the digits.           *)
Matches(number, hole) == IsPrefix(number, hole)

Filled(cell, number, name) ==
    IF cell.kind = "source" /\ <<cell.line, cell.col>> \in DOMAIN HoleAt
       /\ Matches(number, HoleAt[<<cell.line, cell.col>>])
    THEN [cell EXCEPT !.kind = "filled", !.as = <<number, name>>]
    ELSE cell

Fill(number, name) ==
    /\ Calls
    /\ workText' = [i \in DOMAIN workText |->
          Line(workText[i].number, [c \in DOMAIN workText[i].cells |->
                                       Filled(workText[i].cells[c], number, name)])]
    /\ UNCHANGED <<offsets, at, dropped, behind, wanted, aborted>>

SetHoleFilling(number, name) == Fill(number, name)

(* Given an instruction instead of a name: the visitor of definitions      *)
(* never sets the name.                                                    *)
SetHoleFillingFrom(number) == Fill(number, "")

Next ==
    \/ \E l \in AfterLines : AddNewCodeSnippetAfter(l)
    \/ \E l \in BeforeLines : AddNewCodeSnippetBefore(l)
    \/ \E l \in ReplaceLines : Replace(l)
    \/ \E r \in Ranges : DeleteCodeRange(r[1], r[2])
    \/ \E b \in Branches : DeleteEitherBranch(b[1], b[2])
    \/ \E f \in Fillings : SetHoleFilling(f[1], f[2])
    \/ \E f \in Fillings : SetHoleFillingFrom(f[1])

Spec == Init /\ [][Next]_vars

-----------------------------------------------------------------------------
Numbers == [i \in DOMAIN workText |-> workText[i].number]

(* Lines are added and emptied, but all lines of the file stay in order:   *)
(* offsets that count added lines could not do without.                    *)
TypeOK ==
    /\ SelectSeq(Numbers, LAMBDA n : n # 0) = [l \in Lines |-> l]
    /\ offsets \in [0 .. Len(Width) + MaxEdits -> Nat]
    /\ edits \in 0 .. MaxEdits /\ at \in 0 .. Len(Width) /\ aborted \in BOOLEAN
    /\ dropped \subseteq Position /\ behind \subseteq Position
    /\ \A w \in wanted : w.kind \in {"after", "before", "instead"} /\ w.line \in Lines

(* lineOffsetMap leads from every line of the file to where it is now.     *)
Aligned == \A l \in Lines : workText[Adjusted(l)].number = l

(* The source lines in front of line i of the text. *)
InFront(i) == Cardinality({j \in 1 .. i - 1 : Numbers[j] # 0})

Belongs(cell, i) ==
    CASE cell.kind = "after" -> Numbers[i] = 0 /\ InFront(i) = cell.line
      [] cell.kind = "before" -> Numbers[i] = 0 /\ InFront(i) = cell.line - 1
      [] cell.kind = "instead" -> Numbers[i] = cell.line
      [] OTHER -> TRUE

(* A text that was added or put in place of a line is where it was meant   *)
(* to be, however much was added before, and none gets lost.               *)
SnippetsInPlace ==
    /\ \A i \in DOMAIN workText : \A c \in ToSet(workText[i].cells) : Belongs(c, i)
    /\ \A w \in wanted : \E i \in DOMAIN workText : workText[i].cells = <<w>>

Present ==
    {<<c.line, c.col>> : c \in {d \in UNION {ToSet(workText[i].cells) : i \in DOMAIN workText} :
                                  d.kind \in {"source", "filled"}}}

(* Nothing goes but what the callers have named.                           *)
OnlyAsked == \A l \in Lines : \A c \in 1 .. Width[l] : <<l, c>> \in Present \cup dropped

(* Nothing goes but what the callers have named and the one character that *)
(* is right behind a range deleted, whatever was edited before: no other   *)
(* character of the line of its end, and none in front of its start.       *)
OneBehindAtMost ==
    \A l \in Lines : \A c \in 1 .. Width[l] : <<l, c>> \in Present \cup dropped \cup behind

(* What the callers have named goes.                                       *)
AllDeleted == Present \cap dropped = {}

(* The holes that are filled have the number asked for.                    *)
HolesExact ==
    \A i \in DOMAIN workText : \A c \in ToSet(workText[i].cells) :
        c.kind = "filled" => c.as[1] = HoleAt[<<c.line, c.col>>]

(* The name of a variable is put there. *)
HolesNamed ==
    \A i \in DOMAIN workText : \A c \in ToSet(workText[i].cells) :
        c.kind = "filled" => c.as[2] # ""

-----------------------------------------------------------------------------
(* The calls that the theorems are about. *)

(* A branch as clang reports it: a condition is not empty, and the keyword *)
(* is in front of its block.                                               *)
Proper(b) == b.else # NoElse => b.cond[2] < b.condEnd[2] /\ b.keyword[1] <= b.else[1]

(* A range that is on one line begins in front of it or goes on to its     *)
(* end: the line is cut off where the range begins, whatever is behind it. *)
Single(from, to) ==
    from[1] = to[1] => from[2] = 1 \/ to[2] >= Width[to[1]]

(* An if statement that is formatted the way deleteEitherBranch counts on: *)
(* condition and block begin on one line, which the block does not end on, *)
(* and the keyword is four columns in front of its block.                  *)
Formatted(b) ==
    IF b.else = NoElse THEN Single(b.start, b.end)
    ELSE /\ b.cond[1] = b.then[1] /\ b.cond[2] < b.condEnd[2] /\ b.condEnd[2] < b.then[2]
         /\ b.then[2] <= Width[b.then[1]] /\ b.then[1] < b.else[1]
         /\ b.keyword = <<b.else[1], b.else[2] - 4>> /\ Single(b.keyword, b.end)

(* No line is added behind a line that a range begins on: deleteCodeRange  *)
(* would start behind what is added.                                       *)
NoGap(l) == l \notin AfterLines /\ l + 1 \notin BeforeLines

NoGaps ==
    /\ \A r \in Ranges : NoGap(r[1][1])
    /\ \A b \in Branches : NoGap(IF b[1].else = NoElse THEN b[1].start[1] ELSE b[1].keyword[1])
=============================================================================
