----------------------------- MODULE PtyScreens -----------------------------
(***************************************************************************)
(* The bytes a PTY child writes reach two emulators: the host's cursor     *)
(* tracker, which answers the child's cursor requests, and the viewer's    *)
(* grid, which shows the screen.  Each step is one call of the parser, in  *)
(* both.  The viewer is some bytes behind the host; the two are compared   *)
(* at the same byte of the stream, which both parse in the same order.     *)
(***************************************************************************)
EXTENDS Terminal, Sequences

CONSTANTS
    HostCols, HostRows, \* the size of the host's tracker
    MaxFed              \* bounds the length of the stream

ASSUME HostSizeAssumption ==
    /\ HostCols \in Nat /\ HostCols >= 2
    /\ HostRows \in Nat /\ HostRows >= 1

VARIABLES
    pty_row, pty_col, pty_saved, answer,
    fed,      \* how many calls the parsers have made
    in_step,  \* whether the stream so far kept to what both emulators share
    main_seen \* the main screen as it was when it was last shown

Host == INSTANCE PtyTerminalState WITH cols <- HostCols, rows <- HostRows

host_vars == <<pty_row, pty_col, pty_saved, answer>>
all_vars == <<vars, host_vars, fed, in_step, main_seen>>

\* The part of the screen that both sizes have, without its last row and
\* column, where the two emulators may wrap, scroll or stop differently.
Shared(row, col) ==
    /\ row < Smaller(rows, HostRows) - 1
    /\ col < Smaller(cols, HostCols) - 1

\* A call whose function both know, and one that only the viewer knows.
Known == in_step' = (in_step /\ Shared(cursor_row', cursor_col') /\ Shared(pty_row', pty_col'))
Unknown == Host!Ignored /\ in_step' = FALSE
\* One that leaves the cursor and what moves it later alone.
CellsOnly == Host!Ignored /\ UNCHANGED in_step

\* The reference for the alternate screen: what the main screen held.
Watch == main_seen' = IF alternate_screen' THEN main_seen ELSE SavedScreen'

SInit ==
    /\ Init
    /\ Host!Init
    /\ fed = 0
    /\ in_step = TRUE
    /\ main_seen = SavedScreen

\* A character is in step if both count the same columns for it.
PrintCall ==
    \E ch \in Characters :
        /\ put_char(ch) \/ append_combining_char(ch)
        /\ Host!put_char(ch)
        /\ IF ch \in {"a", "w"} THEN Known ELSE in_step' = FALSE

ControlCall ==
    \/ \E home \in BOOLEAN : linefeed(home) /\ Host!linefeed(home) /\ Known
    \/ CarriageReturn /\ Host!CarriageReturn /\ Known
    \/ Tab /\ Host!Tab /\ Known
    \/ Backspace /\ Host!Backspace /\ Known

CursorCall ==
    \/ \E p \in Params :
          \/ CursorUp(p) /\ Host!CursorUp(p) /\ Known
          \/ CursorDown(p) /\ Host!CursorDown(p) /\ Known
          \/ CursorForward(p) /\ Host!CursorForward(p) /\ Known
          \/ CursorBack(p) /\ Host!CursorBack(p) /\ Known
          \/ CursorNextLine(p) /\ Host!CursorNextLine(p) /\ Known
          \/ CursorPreviousLine(p) /\ Host!CursorPreviousLine(p) /\ Known
          \/ CursorColumn(p) /\ Host!CursorColumn(p) /\ Known
          \/ CursorLine(p) /\ Host!CursorLine(p) /\ Known
          \/ \E q \in Params : CursorPosition(p, q) /\ Host!CursorPosition(p, q) /\ Known
    \/ SaveCursor /\ Host!SaveCursor /\ Known
    \/ RestoreCursor /\ Host!RestoreCursor /\ Known
    \/ Host!enqueue_cursor_report /\ UNCHANGED vars /\ UNCHANGED in_step

CellCall ==
    /\ \/ \E s \in Styles : SelectGraphicRendition(s)
       \/ \E p \in Params :
             \/ EraseInDisplay(p) \/ EraseInLine(p)
             \/ insert_blank_chars(p) \/ delete_chars(p) \/ erase_chars(p)
             \/ insert_lines(p) \/ delete_lines(p)
             \/ ScrollUp(p) \/ ScrollDown(p)
    /\ CellsOnly

ScreenCall ==
    /\ \/ reverse_index
       \/ \E p, q \in Params : set_scroll_region(p, q)
       \/ enter_alternate_screen
       \/ leave_alternate_screen
       \/ reset_terminal
    /\ Unknown

SNext ==
    /\ fed < MaxFed /\ fed' = fed + 1
    /\ PrintCall \/ ControlCall \/ CursorCall \/ CellCall \/ ScreenCall
    /\ Watch

SSpec == SInit /\ [][SNext]_all_vars

(***************************************************************************)
(* Properties.                                                             *)
(***************************************************************************)
\* Every index the emulator uses is inside the grid, and the region has two
\* rows unless the grid has one: no sequence of bytes makes it panic.
InGrid ==
    /\ cursor_row \in Rows /\ cursor_col \in Cols
    /\ saved_cursor \in Rows \X Cols
    /\ scroll_top \in Rows /\ scroll_bottom \in Rows
    /\ scroll_top < scroll_bottom \/ rows = 1
    /\ alternate_screen <=> saved_main_screen # <<>>

\* Every character is drawn in the column of its cell and every line is as
\* long as the grid is wide, whatever was cut, moved or overwritten: `lines`
\* leaves continuations out, so half a wide character would shift the rest.
DrawnAligned ==
    \A r \in Rows :
        LET at == lines(buffer[r]) IN
        /\ \A c \in Cols : buffer[r][c].wide_continuation \/ at[c] = c
        /\ at[cols] = cols

\* Whatever is fed to the alternate screen, entering it again and a reset
\* included, leaving it shows the main screen as it was.
MainScreenKept ==
    [][alternate_screen /\ ~alternate_screen' => SavedScreen' = main_seen]_all_vars

\* As long as the child keeps to what both emulators share, a cursor request
\* is answered with the position that the cursor has on the screen.
AnswersTrue ==
    [][in_step /\ answer' # answer => answer' = <<cursor_row + 1, cursor_col + 1>>]_all_vars
=============================================================================
