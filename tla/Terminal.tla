------------------------------ MODULE Terminal ------------------------------
(***************************************************************************)
(* The viewer's terminal emulator, mitb-box/src/terminal.rs: a grid of     *)
(* cells, a cursor, a scroll region, a saved cursor and an alternate       *)
(* screen, changed by the calls that the vte parser makes for the bytes    *)
(* that are fed.  One action per call and control function.                *)
(*                                                                         *)
(* Rows and columns count from 0 as in the code.  A cell keeps the class   *)
(* of its character and whether combining characters follow it; the style  *)
(* of a cell decides only how it is painted and is left out.  A parameter  *)
(* that is missing and one that is 0 are the same to param_at: 0.          *)
(***************************************************************************)
EXTENDS Integers

CONSTANTS
    cols, rows,  \* the size of the grid: TERMINAL_COLS and TERMINAL_ROWS
    TabStop,     \* the distance of tab stops
    Params,      \* the values a numeric parameter of a sequence may have
    Styles,      \* what a cell can be painted with
    DefaultStyle

\* A wide character needs two columns, and a region two rows.
ASSUME SizeAssumption ==
    /\ cols \in Nat /\ cols >= 2
    /\ rows \in Nat /\ rows >= 1
ASSUME TabAssumption == TabStop \in Nat /\ TabStop >= 1
ASSUME ParamAssumption == Params \subseteq Nat
ASSUME StyleAssumption == DefaultStyle \in Styles

VARIABLES
    buffer, cursor_row, cursor_col, style, saved_cursor,
    scroll_top, scroll_bottom,
    alternate_screen, saved_main_screen

cursor == <<cursor_row, cursor_col>>
region == <<scroll_top, scroll_bottom>>
alternate == <<alternate_screen, saved_main_screen>>
\* What SavedScreen keeps of the main screen.
SavedScreen == [buffer |-> buffer, cursor |-> cursor, style |-> style,
                saved_cursor |-> saved_cursor, region |-> region]
vars == <<buffer, cursor_row, cursor_col, style, saved_cursor,
          scroll_top, scroll_bottom, alternate_screen, saved_main_screen>>

Rows == 0..(rows - 1)
Cols == 0..(cols - 1)

Smaller(a, b) == IF a <= b THEN a ELSE b
Minus(a, b) == IF a >= b THEN a - b ELSE 0
param_at(p, default) == IF p = 0 THEN default ELSE p

(***************************************************************************)
(* Cells and characters.  "a" stands for ASCII, "e" for other characters   *)
(* of one column, "w" for characters of two, "m" for combining ones.       *)
(***************************************************************************)
Characters == {"a", "e", "w", "m"}
char_width(c) == IF c = "m" THEN 0 ELSE IF c = "w" THEN 2 ELSE 1

Texts == {" ", "a", "e", "w"}
Cells == [text : Texts, marked : BOOLEAN, wide_continuation : BOOLEAN]

Cell(c) == [text |-> c, marked |-> FALSE, wide_continuation |-> FALSE]
Blank == Cell(" ")
Continuation == [Blank EXCEPT !.wide_continuation = TRUE]

is_wide_lead(cell) == ~cell.wide_continuation /\ cell.text = "w"

blank_row == [c \in Cols |-> Blank]
BlankScreen == [r \in Rows |-> blank_row]

\* A pass over a row from the left that restores the pairs of a wide
\* character and its continuation after cells were moved or blanked: a lead
\* makes its right neighbour its continuation, a continuation without a lead
\* and a lead in the last column become blank.
sanitize_row(line) ==
    LET clean[c \in Cols] ==
            IF c > 0 /\ is_wide_lead(clean[c - 1]) THEN
                IF line[c].wide_continuation THEN line[c] ELSE Continuation
            ELSE IF line[c].wide_continuation \/ (is_wide_lead(line[c]) /\ c = cols - 1)
                 THEN Blank
            ELSE line[c]
    IN clean

\* Mutant: the other half of a wide character stays behind.
ClearOneCell(line, c) == [line EXCEPT ![c] = Blank]

\* The row once the character that column c belongs to is gone.
clear_overlapped_cell(line, c) ==
    [k \in Cols |->
        IF \/ k = c
           \/ k = c - 1 /\ line[c].wide_continuation /\ is_wide_lead(line[k])
           \/ k = c + 1 /\ is_wide_lead(line[c]) /\ line[k].wide_continuation
        THEN Blank ELSE line[k]]

\* The row with the character at column c, and its continuation.
Written(line, c, ch) ==
    LET lead == [clear_overlapped_cell(line, c) EXCEPT ![c] = Cell(ch)] IN
    IF char_width(ch) = 2
    THEN [clear_overlapped_cell(lead, c + 1) EXCEPT ![c + 1] = Continuation]
    ELSE lead

\* How many columns a cell takes when it is drawn: a continuation adds
\* nothing to the line.
push_cell(cell) ==
    IF cell.wide_continuation THEN 0 ELSE IF cell.text = "w" THEN 2 ELSE 1

\* The column at which each cell of a row is drawn, and where the row ends.
lines(line) ==
    LET at[c \in 0..cols] == IF c = 0 THEN 0 ELSE at[c - 1] + push_cell(line[c - 1])
    IN  at

(***************************************************************************)
(* Rows of the grid.                                                       *)
(***************************************************************************)
clear_row_range(b, r, from, end) ==
    IF from >= Smaller(end, cols) THEN b
    ELSE [b EXCEPT ![r] = sanitize_row(
             [c \in Cols |-> IF from <= c /\ c < end THEN Blank ELSE b[r][c]])]

\* Rows top to bottom move up by n, blank rows follow them.
scroll_up_region(b, top, bottom, n) ==
    [r \in Rows |->
        IF r < top \/ r > bottom \/ bottom >= rows THEN b[r]
        ELSE IF r + n <= bottom THEN b[r + n] ELSE blank_row]

scroll_down_region(b, top, bottom, n) ==
    [r \in Rows |->
        IF r < top \/ r > bottom \/ bottom >= rows THEN b[r]
        ELSE IF r - n >= top THEN b[r - n] ELSE blank_row]

\* linefeed from row r: at the bottom of the region the region scrolls, at
\* the bottom of a grid below the region all of it.
LinefeedBuffer(b, r) ==
    IF r = scroll_bottom THEN scroll_up_region(b, scroll_top, scroll_bottom, 1)
    ELSE IF r < rows - 1 THEN b
    ELSE scroll_up_region(b, 0, rows - 1, 1)

LinefeedRow(r) == IF r # scroll_bottom /\ r < rows - 1 THEN r + 1 ELSE r

\* Where a combining character goes: to the character left of the cursor,
\* or to the last one of the row above.
MarkedCell ==
    LET left == {c \in {cursor_col - 1, cursor_col - 2} :
                    c >= 0 /\ ~buffer[cursor_row][c].wide_continuation}
        last == {c \in Cols : cursor_row > 0 /\ ~buffer[cursor_row - 1][c].wide_continuation}
        Largest(S) == CHOOSE c \in S : \A d \in S : d <= c
    IN  IF left # {} THEN {<<cursor_row, Largest(left)>>}
        ELSE IF last # {} THEN {<<cursor_row - 1, Largest(last)>>}
        ELSE {}

(***************************************************************************)
(* The parser's calls.                                                     *)
(***************************************************************************)
Init ==
    /\ buffer = BlankScreen
    /\ cursor_row = 0 /\ cursor_col = 0
    /\ style = DefaultStyle
    /\ saved_cursor = <<0, 0>>
    /\ scroll_top = 0 /\ scroll_bottom = rows - 1
    /\ alternate_screen = FALSE
    /\ saved_main_screen = <<>>

\* put_char of a character that takes columns.  A wide one that does not fit
\* at the end of the row goes to the next; a full row ends with a line feed.
put_char(ch) ==
    LET early == char_width(ch) = 2 /\ cursor_col = cols - 1
        row == IF early THEN LinefeedRow(cursor_row) ELSE cursor_row
        col == IF early THEN 0 ELSE cursor_col
        moved == IF early THEN LinefeedBuffer(buffer, cursor_row) ELSE buffer
        written == [moved EXCEPT ![row] = Written(@, col, ch)]
        full == col + char_width(ch) >= cols
    IN  /\ char_width(ch) > 0
        /\ buffer' = IF full THEN LinefeedBuffer(written, row) ELSE written
        /\ cursor_row' = IF full THEN LinefeedRow(row) ELSE row
        /\ cursor_col' = IF full THEN 0 ELSE col + char_width(ch)
        /\ UNCHANGED <<style, saved_cursor, region, alternate>>

\* put_char of a combining character.
append_combining_char(ch) ==
    /\ char_width(ch) = 0
    /\ buffer' = [r \in Rows |-> [c \in Cols |->
                     IF <<r, c>> \in MarkedCell
                     THEN [buffer[r][c] EXCEPT !.marked = TRUE] ELSE buffer[r][c]]]
    /\ UNCHANGED <<cursor, style, saved_cursor, region, alternate>>

\* "\n" and ESC D; ESC E when `home`.
linefeed(home) ==
    /\ buffer' = LinefeedBuffer(buffer, cursor_row)
    /\ cursor_row' = LinefeedRow(cursor_row)
    /\ cursor_col' = IF home THEN 0 ELSE cursor_col
    /\ UNCHANGED <<style, saved_cursor, region, alternate>>

reverse_index ==
    /\ buffer' = IF cursor_row = scroll_top
                 THEN scroll_down_region(buffer, scroll_top, scroll_bottom, 1) ELSE buffer
    /\ cursor_row' = IF cursor_row = scroll_top THEN cursor_row ELSE Minus(cursor_row, 1)
    /\ UNCHANGED <<cursor_col, style, saved_cursor, region, alternate>>

\* A function that only moves the cursor.
MoveTo(row, col) ==
    /\ cursor_row' = row
    /\ cursor_col' = col
    /\ UNCHANGED <<buffer, style, saved_cursor, region, alternate>>

LastRow(r) == Smaller(r, rows - 1)
LastCol(c) == Smaller(c, cols - 1)

CarriageReturn == MoveTo(cursor_row, 0)
\* Mutant: a tab stop may lie behind the last column.
TabUnclamped == MoveTo(cursor_row, ((cursor_col + TabStop) \div TabStop) * TabStop)
Tab == MoveTo(cursor_row, LastCol(((cursor_col + TabStop) \div TabStop) * TabStop))
Backspace == MoveTo(cursor_row, Minus(cursor_col, 1))

CursorPosition(p, q) ==
    MoveTo(LastRow(param_at(p, 1) - 1), LastCol(param_at(q, 1) - 1))
CursorUp(p) == MoveTo(Minus(cursor_row, param_at(p, 1)), cursor_col)
CursorDown(p) == MoveTo(LastRow(cursor_row + param_at(p, 1)), cursor_col)
CursorForward(p) == MoveTo(cursor_row, LastCol(cursor_col + param_at(p, 1)))
CursorBack(p) == MoveTo(cursor_row, Minus(cursor_col, param_at(p, 1)))
CursorNextLine(p) == MoveTo(LastRow(cursor_row + param_at(p, 1)), 0)
CursorPreviousLine(p) == MoveTo(Minus(cursor_row, param_at(p, 1)), 0)
CursorColumn(p) == MoveTo(cursor_row, LastCol(param_at(p, 1) - 1))
CursorLine(p) == MoveTo(LastRow(param_at(p, 1) - 1), cursor_col)
RestoreCursor == MoveTo(LastRow(saved_cursor[1]), LastCol(saved_cursor[2]))

SaveCursor ==
    /\ saved_cursor' = cursor
    /\ UNCHANGED <<buffer, cursor, style, region, alternate>>

SelectGraphicRendition(s) ==
    /\ style' = s
    /\ UNCHANGED <<buffer, cursor, saved_cursor, region, alternate>>

\* A function that only changes cells.
Change(b) ==
    /\ buffer' = b
    /\ UNCHANGED <<cursor, style, saved_cursor, region, alternate>>

ChangeRow(line) == Change([buffer EXCEPT ![cursor_row] = sanitize_row(line)])

\* ED: to the end of the screen, to its start, all of it.
EraseInDisplay(p) ==
    LET Whole(gone) == [r \in Rows |-> IF r \in gone THEN blank_row ELSE buffer[r]]
    IN  Change(
            IF p = 0 THEN clear_row_range(Whole((cursor_row + 1)..(rows - 1)),
                                          cursor_row, cursor_col, cols)
            ELSE IF p = 1 THEN clear_row_range(Whole(0..(cursor_row - 1)),
                                               cursor_row, 0, cursor_col + 1)
            ELSE IF p \in {2, 3} THEN Whole(Rows)
            ELSE buffer)

\* EL: to the end of the row, to its start, all of it.
EraseInLine(p) ==
    Change(IF p = 0 THEN clear_row_range(buffer, cursor_row, cursor_col, cols)
           ELSE IF p = 1 THEN clear_row_range(buffer, cursor_row, 0, cursor_col + 1)
           ELSE IF p = 2 THEN clear_row_range(buffer, cursor_row, 0, cols)
           ELSE buffer)

insert_blank_chars(p) ==
    LET line == buffer[cursor_row]
        count == Smaller(param_at(p, 1), cols - cursor_col)
    IN  ChangeRow([c \in Cols |->
            IF c < cursor_col THEN line[c]
            ELSE IF c < cursor_col + count THEN Blank ELSE line[c - count]])

delete_chars(p) ==
    LET line == buffer[cursor_row]
        count == Smaller(param_at(p, 1), cols - cursor_col)
    IN  ChangeRow([c \in Cols |->
            IF c < cursor_col THEN line[c]
            ELSE IF c + count < cols THEN line[c + count] ELSE Blank])

erase_chars(p) ==
    ChangeRow([c \in Cols |->
        IF c < cursor_col \/ c >= cursor_col + param_at(p, 1)
        THEN buffer[cursor_row][c] ELSE Blank])

InRegion == scroll_top <= cursor_row /\ cursor_row <= scroll_bottom

insert_lines(p) ==
    Change(IF InRegion
           THEN scroll_down_region(buffer, cursor_row, scroll_bottom, param_at(p, 1))
           ELSE buffer)

delete_lines(p) ==
    Change(IF InRegion
           THEN scroll_up_region(buffer, cursor_row, scroll_bottom, param_at(p, 1))
           ELSE buffer)

ScrollUp(p) == Change(scroll_up_region(buffer, scroll_top, scroll_bottom, param_at(p, 1)))
ScrollDown(p) == Change(scroll_down_region(buffer, scroll_top, scroll_bottom, param_at(p, 1)))

\* A region of fewer than two rows, or past the grid, stands for all of it.
set_scroll_region(p, q) ==
    LET top == param_at(p, 1) - 1
        bottom == param_at(q, rows) - 1
        sane == top < bottom /\ bottom < rows
    IN  /\ scroll_top' = IF sane THEN top ELSE 0
        /\ scroll_bottom' = IF sane THEN bottom ELSE rows - 1
        /\ cursor_row' = scroll_top'
        /\ cursor_col' = 0
        /\ UNCHANGED <<buffer, style, saved_cursor, alternate>>

\* Mutant: entering the alternate screen twice saves the alternate screen.
EnterAgain ==
    /\ saved_main_screen' = <<SavedScreen>>
    /\ alternate_screen' = TRUE
    /\ buffer' = BlankScreen
    /\ cursor_row' = 0 /\ cursor_col' = 0
    /\ saved_cursor' = <<0, 0>>
    /\ scroll_top' = 0 /\ scroll_bottom' = rows - 1
    /\ UNCHANGED style

enter_alternate_screen ==
    /\ ~alternate_screen
    /\ saved_main_screen' = <<SavedScreen>>
    /\ alternate_screen' = TRUE
    /\ buffer' = BlankScreen
    /\ cursor_row' = 0 /\ cursor_col' = 0
    /\ saved_cursor' = <<0, 0>>
    /\ scroll_top' = 0 /\ scroll_bottom' = rows - 1
    /\ UNCHANGED style

leave_alternate_screen ==
    LET saved == saved_main_screen[1]
        top == LastRow(saved.region[1])
        bottom == LastRow(saved.region[2])
    IN  /\ alternate_screen
        /\ alternate_screen' = FALSE
        /\ saved_main_screen' = <<>>
        /\ IF saved_main_screen = <<>>
           THEN UNCHANGED <<buffer, cursor, style, saved_cursor, region>>
           ELSE /\ buffer' = saved.buffer
                /\ cursor_row' = LastRow(saved.cursor[1])
                /\ cursor_col' = LastCol(saved.cursor[2])
                /\ style' = saved.style
                /\ saved_cursor' = saved.saved_cursor
                /\ scroll_top' = IF top >= bottom THEN 0 ELSE top
                /\ scroll_bottom' = IF top >= bottom THEN rows - 1 ELSE bottom

\* ESC c does not leave the alternate screen.
reset_terminal ==
    /\ buffer' = BlankScreen
    /\ cursor_row' = 0 /\ cursor_col' = 0
    /\ style' = DefaultStyle
    /\ saved_cursor' = <<0, 0>>
    /\ scroll_top' = 0 /\ scroll_bottom' = rows - 1
    /\ UNCHANGED alternate

=============================================================================
