-------------------------- MODULE PtyTerminalState --------------------------
(***************************************************************************)
(* The policy host's own idea of the terminal, terminal_state.rs: where    *)
(* the cursor of the PTY is, so that a child that asks for its position    *)
(* (CSI 6 n) gets an answer.  It follows the same bytes as the viewer's    *)
(* emulator, with a size of its own and fewer control functions.           *)
(***************************************************************************)
EXTENDS Integers

CONSTANTS
    cols, rows, \* the size the reader thread creates it with
    TabStop

VARIABLES
    pty_row, pty_col, pty_saved,
    answer      \* the position last reported to the child, <<>> at first

vars == <<pty_row, pty_col, pty_saved, answer>>

Smaller(a, b) == IF a <= b THEN a ELSE b
Minus(a, b) == IF a >= b THEN a - b ELSE 0
param_at(p, default) == IF p = 0 THEN default ELSE p
LastRow(r) == Smaller(r, rows - 1)
LastCol(c) == Smaller(c, cols - 1)

Init ==
    /\ pty_row = 0 /\ pty_col = 0
    /\ pty_saved = <<0, 0>>
    /\ answer = <<>>

MoveTo(row, col) ==
    /\ pty_row' = row
    /\ pty_col' = col
    /\ UNCHANGED <<pty_saved, answer>>

\* Every character outside ASCII counts as two columns.
char_is_wide(ch) == ch # "a"

put_char(ch) ==
    LET col == pty_col + (IF char_is_wide(ch) THEN 2 ELSE 1) IN
    IF col >= cols THEN MoveTo(LastRow(pty_row + 1), 0) ELSE MoveTo(pty_row, col)

linefeed(home) == MoveTo(LastRow(pty_row + 1), IF home THEN 0 ELSE pty_col)
CarriageReturn == MoveTo(pty_row, 0)
Tab == MoveTo(pty_row, LastCol(((pty_col + TabStop) \div TabStop) * TabStop))
Backspace == MoveTo(pty_row, Minus(pty_col, 1))

CursorPosition(p, q) ==
    MoveTo(LastRow(param_at(p, 1) - 1), LastCol(param_at(q, 1) - 1))
CursorUp(p) == MoveTo(Minus(pty_row, param_at(p, 1)), pty_col)
CursorDown(p) == MoveTo(LastRow(pty_row + param_at(p, 1)), pty_col)
CursorForward(p) == MoveTo(pty_row, LastCol(pty_col + param_at(p, 1)))
CursorBack(p) == MoveTo(pty_row, Minus(pty_col, param_at(p, 1)))
\* Mutant: the cursor keeps its column on the next line.
NextLineSameColumn(p) == MoveTo(LastRow(pty_row + param_at(p, 1)), pty_col)
CursorNextLine(p) == MoveTo(LastRow(pty_row + param_at(p, 1)), 0)
CursorPreviousLine(p) == MoveTo(Minus(pty_row, param_at(p, 1)), 0)
CursorColumn(p) == MoveTo(pty_row, LastCol(param_at(p, 1) - 1))
CursorLine(p) == MoveTo(LastRow(param_at(p, 1) - 1), pty_col)
RestoreCursor == MoveTo(LastRow(pty_saved[1]), LastCol(pty_saved[2]))

SaveCursor ==
    /\ pty_saved' = <<pty_row, pty_col>>
    /\ UNCHANGED <<pty_row, pty_col, answer>>

\* CSI 6 n: positions in the report count from 1.
enqueue_cursor_report ==
    /\ answer' = <<pty_row + 1, pty_col + 1>>
    /\ UNCHANGED <<pty_row, pty_col, pty_saved>>

\* The functions that only the viewer's emulator knows.
Ignored == UNCHANGED vars
=============================================================================
