--------------------------- MODULE TerminalProofs ---------------------------
(***************************************************************************)
(* What holds of the two emulators for every size of either, every set of  *)
(* parameters and every length of the stream.                              *)
(***************************************************************************)
EXTENDS PtyScreens, NaturalsInduction, WellFoundedInduction, TLAPS

\* A cursor, a saved cursor and a region that lie in the grid.
Inside(row, col, saved, top, bottom) ==
    /\ row \in Rows /\ col \in Cols
    /\ saved \in Rows \X Cols
    /\ top \in Rows /\ bottom \in Rows
    /\ top < bottom \/ rows = 1

Grid == Inside(cursor_row, cursor_col, saved_cursor, scroll_top, scroll_bottom)

\* A screen that SavedScreen may keep.
IsScreen(s) ==
    /\ s = [buffer |-> s.buffer, cursor |-> s.cursor, style |-> s.style,
            saved_cursor |-> s.saved_cursor, region |-> s.region]
    /\ s.cursor = <<s.cursor[1], s.cursor[2]>>
    /\ s.region = <<s.region[1], s.region[2]>>
    /\ Inside(s.cursor[1], s.cursor[2], s.saved_cursor, s.region[1], s.region[2])

\* The main screen is on display or saved.
MainInv ==
    /\ alternate_screen \in BOOLEAN
    /\ IsScreen(main_seen)
    /\ IF alternate_screen THEN saved_main_screen = <<main_seen>>
       ELSE saved_main_screen = <<>> /\ main_seen = SavedScreen

\* While the two emulators are in step they agree, and nothing that only the
\* viewer knows has been used.
Agree ==
    in_step => /\ pty_row = cursor_row /\ pty_col = cursor_col
               /\ pty_saved = saved_cursor
               /\ cursor_col < cols - 1 /\ cursor_col < HostCols - 1
               /\ scroll_top = 0 /\ scroll_bottom = rows - 1

IInv == Grid /\ MainInv /\ Agree /\ in_step \in BOOLEAN

\* Init: the first state, a blank grid in both emulators, satisfies the
\* invariant (Terminal::new, PtyTerminalState::new).
LEMMA InitIInv == SInit => IInv
<1> SUFFICES ASSUME SInit PROVE IInv
    OBVIOUS
<1> USE SizeAssumption, HostSizeAssumption
<1>1. Grid
    BY DEF SInit, Init, Grid, Inside, Rows, Cols
<1>2. IsScreen(SavedScreen)
    BY <1>1 DEF IsScreen, SavedScreen, Grid, cursor, region
<1>3. MainInv
    BY <1>2 DEF SInit, Init, MainInv
<1>4. Agree /\ in_step \in BOOLEAN
    BY DEF SInit, Init, Host!Init, Agree
<1> QED BY <1>1, <1>3, <1>4 DEF IInv

\* A step that neither enters nor leaves the alternate screen keeps the saved
\* main screen, if the grid stays in order.
LEMMA MainStays ==
    ASSUME MainInv, Grid', UNCHANGED alternate, Watch
    PROVE  MainInv'
<1>1. CASE alternate_screen
    BY <1>1 DEF MainInv, alternate, Watch, IsScreen, Inside, Rows, Cols
<1>2. CASE ~alternate_screen
    <2>1. /\ main_seen' = SavedScreen' /\ saved_main_screen' = <<>>
         /\ ~alternate_screen' /\ alternate_screen' \in BOOLEAN
        BY <1>2 DEF MainInv, alternate, Watch
    <2>2. IsScreen(main_seen)'
        BY <2>1 DEF IsScreen, SavedScreen, Grid, cursor, region
    <2> QED BY <2>1, <2>2 DEF MainInv
<1> QED BY <1>1, <1>2 DEF MainInv

\* Coordinates that are cut off at the last row and column lie in the grid,
\* and two that are both shared were not cut off.
LEMMA Clamps ==
    ASSUME NEW x \in Nat
    PROVE  /\ LastRow(x) \in Rows /\ LastCol(x) \in Cols
           /\ /\ LastRow(x) < Smaller(rows, HostRows) - 1
              /\ Host!LastRow(x) < Smaller(rows, HostRows) - 1
              => Host!LastRow(x) = LastRow(x)
           /\ /\ LastCol(x) < Smaller(cols, HostCols) - 1
              /\ Host!LastCol(x) < Smaller(cols, HostCols) - 1
              => Host!LastCol(x) = LastCol(x)
    BY SizeAssumption, HostSizeAssumption
       DEF LastRow, LastCol, Host!LastRow, Host!LastCol, Smaller, Host!Smaller, Rows, Cols

\* A step that moves the cursor of the viewer inside the grid keeps the rest.
LEMMA Moved ==
    ASSUME Grid, NEW r \in Rows, NEW c \in Cols, MoveTo(r, c)
    PROVE  Grid' /\ UNCHANGED alternate
    BY DEF MoveTo, Grid, Inside, region

\* Functions that both emulators know keep them in agreement: if both end at
\* a shared position, it is the same.
LEMMA Together ==
    ASSUME Agree, in_step \in BOOLEAN, Known,
           NEW r \in Rows, NEW c \in Cols, NEW hr, NEW hc,
           cursor_row' = r, cursor_col' = c, saved_cursor' = saved_cursor,
           scroll_top' = scroll_top, scroll_bottom' = scroll_bottom,
           pty_row' = hr, pty_col' = hc, pty_saved' = pty_saved,
           in_step /\ Shared(r, c) /\ Shared(hr, hc) => hr = r /\ hc = c
    PROVE  Agree' /\ in_step' \in BOOLEAN
<1>1. in_step' = (in_step /\ Shared(r, c) /\ Shared(hr, hc))
    BY DEF Known
<1>2. in_step' \in BOOLEAN
    BY <1>1
<1>3. Shared(r, c) => c < cols - 1 /\ c < HostCols - 1
    BY SizeAssumption, HostSizeAssumption DEF Shared, Smaller, Cols
<1>5. ASSUME in_step' PROVE in_step /\ Shared(r, c) /\ Shared(hr, hc)
    BY <1>1, <1>5
<1>6. ASSUME in_step'
      PROVE  /\ pty_row' = cursor_row' /\ pty_col' = cursor_col'
             /\ pty_saved' = saved_cursor'
             /\ cursor_col' < cols - 1 /\ cursor_col' < HostCols - 1
             /\ scroll_top' = 0 /\ scroll_bottom' = rows - 1
    BY <1>3, <1>5, <1>6 DEF Agree
<1> QED BY <1>2, <1>6 DEF Agree

LEMMA MovedTogether ==
    ASSUME IInv, NEW r \in Rows, NEW c \in Cols, NEW hr, NEW hc,
           MoveTo(r, c), Host!MoveTo(hr, hc), Known, Watch,
           in_step /\ Shared(r, c) /\ Shared(hr, hc) => hr = r /\ hc = c
    PROVE  IInv'
<1>1. /\ cursor_row' = r /\ cursor_col' = c /\ saved_cursor' = saved_cursor
      /\ scroll_top' = scroll_top /\ scroll_bottom' = scroll_bottom
      /\ pty_row' = hr /\ pty_col' = hc /\ pty_saved' = pty_saved
    BY DEF MoveTo, Host!MoveTo, region
<1>2. Agree /\ in_step \in BOOLEAN /\ Grid /\ MainInv
    BY DEF IInv
<1>3. Agree' /\ in_step' \in BOOLEAN
    BY <1>1, <1>2, Together
<1>4. Grid' /\ UNCHANGED alternate
    BY <1>2, Moved
<1>5. MainInv'
    BY <1>2, <1>4, MainStays
<1> QED BY <1>3, <1>4, <1>5 DEF IInv

\* A step after which the two are out of step keeps the invariant if the
\* grid stays in order.
LEMMA OutOfStep ==
    ASSUME MainInv, Grid', UNCHANGED alternate, Watch, in_step' = FALSE
    PROVE  IInv'
    BY MainStays DEF IInv, Agree

LEMMA LinefeedInGrid ==
    ASSUME Grid, NEW r \in Rows
    PROVE  LinefeedRow(r) \in Rows
    BY SizeAssumption DEF LinefeedRow, Grid, Inside, Rows

\* Printing a character.
LEMMA PrintStep == IInv /\ PrintCall /\ Watch => IInv'
<1> SUFFICES ASSUME IInv, Watch, NEW ch \in Characters,
                    put_char(ch) \/ append_combining_char(ch), Host!put_char(ch),
                    IF ch \in {"a", "w"} THEN Known ELSE in_step' = FALSE
             PROVE  IInv'
    BY DEF PrintCall
<1>i. Grid /\ MainInv /\ Agree /\ in_step \in BOOLEAN
    BY DEF IInv
<1>1. CASE append_combining_char(ch)
    <2>1. ch = "m"
        BY <1>1 DEF append_combining_char, char_width, Characters
    <2>2. Grid' /\ UNCHANGED alternate
        BY <1>1, <1>i DEF append_combining_char, Grid, Inside, cursor, region
    <2> QED BY <2>1, <2>2, <1>i, OutOfStep
<1>2. CASE put_char(ch)
    <2> DEFINE w == char_width(ch)
               early == w = 2 /\ cursor_col = cols - 1
               row == IF early THEN LinefeedRow(cursor_row) ELSE cursor_row
               col == IF early THEN 0 ELSE cursor_col
               full == col + w >= cols
               r == IF full THEN LinefeedRow(row) ELSE row
               c == IF full THEN 0 ELSE col + w
    <2>1. w \in {1, 2}
        BY <1>2 DEF put_char, char_width
    <2>2. /\ cursor_row' = r /\ cursor_col' = c
          /\ UNCHANGED <<style, saved_cursor, region, alternate>>
        BY <1>2 DEF put_char
    <2> HIDE DEF w
    <2>3. row \in Rows /\ col \in Cols
        BY <1>i, LinefeedInGrid, SizeAssumption DEF Grid, Inside, Cols
    <2>4. r \in Rows /\ c \in Cols
        <3> HIDE DEF row, col
        <3>1. LinefeedRow(row) \in Rows
            BY <1>i, <2>3, LinefeedInGrid
        <3> QED BY <2>1, <2>3, <3>1, SizeAssumption DEF Cols
    <2> HIDE DEF r, c
    <2>5. Grid' /\ UNCHANGED alternate
        BY <1>i, <2>2, <2>4 DEF Grid, Inside, region
    <2>6. CASE ch \notin {"a", "w"}
        BY <2>5, <2>6, <1>i, OutOfStep
    <2>7. CASE ch \in {"a", "w"}
        <3> DEFINE hr == IF pty_col + w >= HostCols THEN Host!LastRow(pty_row + 1) ELSE pty_row
                   hc == IF pty_col + w >= HostCols THEN 0 ELSE pty_col + w
        <3>1. w = IF Host!char_is_wide(ch) THEN 2 ELSE 1
            BY <2>7 DEF w, char_width, Host!char_is_wide
        <3>2. pty_row' = hr /\ pty_col' = hc /\ pty_saved' = pty_saved
            BY <3>1 DEF Host!put_char, Host!MoveTo
        <3>3. ASSUME in_step, Shared(r, c), Shared(hr, hc) PROVE hr = r /\ hc = c
            <4>1. /\ pty_row = cursor_row /\ pty_col = cursor_col
                  /\ cursor_col < cols - 1 /\ scroll_bottom = rows - 1
                BY <1>i, <3>3 DEF Agree
            <4>2. row = cursor_row /\ col = cursor_col
                BY <4>1, <1>i, SizeAssumption DEF Grid, Inside, Cols
            <4>3. cursor_row \in Rows /\ cursor_col \in Cols
                BY <1>i DEF Grid, Inside
            <4>4. r = IF cursor_col + w >= cols THEN LinefeedRow(cursor_row) ELSE cursor_row
                BY <4>2 DEF r
            <4>5. c = IF cursor_col + w >= cols THEN 0 ELSE cursor_col + w
                BY <4>2 DEF c
            <4>6. LinefeedRow(cursor_row) =
                     IF cursor_row < rows - 1 THEN cursor_row + 1 ELSE cursor_row
                BY <4>1, <4>3, SizeAssumption DEF LinefeedRow, Rows
            <4> QED BY <2>1, <3>3, <4>1, <4>3, <4>4, <4>5, <4>6,
                       SizeAssumption, HostSizeAssumption
                    DEF Shared, Smaller, Host!LastRow, Host!Smaller, Rows, Cols
        <3>4. Known
            BY <2>7
        <3> HIDE DEF hr, hc
        <3>5. scroll_top' = scroll_top /\ scroll_bottom' = scroll_bottom /\ saved_cursor' = saved_cursor
            BY <2>2 DEF region
        <3>6. Agree' /\ in_step' \in BOOLEAN
            BY <1>i, <2>2, <2>4, <3>2, <3>3, <3>4, <3>5, Together
        <3> QED BY <1>i, <2>5, <3>6, MainStays DEF IInv
    <2> QED BY <2>6, <2>7
<1> QED BY <1>1, <1>2

\* While in step both stand at the same place.
LEMMA SamePlace ==
    ASSUME IInv
    PROVE  /\ cursor_row \in Rows /\ cursor_col \in Cols /\ saved_cursor \in Rows \X Cols
           /\ cursor_row \in Nat /\ cursor_col \in Nat
           /\ saved_cursor[1] \in Nat /\ saved_cursor[2] \in Nat
           /\ in_step => /\ pty_row = cursor_row /\ pty_col = cursor_col
                         /\ pty_saved = saved_cursor /\ scroll_bottom = rows - 1
    BY SizeAssumption DEF IInv, Grid, Inside, Agree, Rows, Cols

LEMMA ParamNat == ASSUME NEW p \in Params PROVE param_at(p, 1) \in Nat /\ param_at(p, 1) - 1 \in Nat
    BY ParamAssumption DEF param_at

LEMMA MinusInside ==
    ASSUME NEW n \in Nat
    PROVE  /\ \A r \in Rows : Minus(r, n) \in Rows
           /\ \A c \in Cols : Minus(c, n) \in Cols
           /\ \A x : Host!Minus(x, n) = Minus(x, n)
    BY SizeAssumption DEF Minus, Host!Minus, Rows, Cols

LEMMA TabNat ==
    ASSUME NEW c \in Nat
    PROVE  ((c + TabStop) \div TabStop) * TabStop \in Nat
<1> DEFINE q == (c + TabStop) \div TabStop
<1>1. q \in Nat
    BY TabAssumption
<1> HIDE DEF q
<1>2. q * TabStop \in Nat
    BY <1>1, TabAssumption
<1> QED BY <1>2 DEF q

\* The control characters that both emulators execute.
LEMMA ControlStep == IInv /\ ControlCall /\ Watch => IInv'
<1> SUFFICES ASSUME IInv, ControlCall, Watch PROVE IInv'
    OBVIOUS
<1> USE SamePlace, SizeAssumption
<1>z. 0 \in Rows /\ 0 \in Cols
    BY DEF Rows, Cols
<1>1. ASSUME NEW home \in BOOLEAN, linefeed(home), Host!linefeed(home), Known
      PROVE  IInv'
    <2> DEFINE r == LinefeedRow(cursor_row)
               c == IF home THEN 0 ELSE cursor_col
               hr == Host!LastRow(pty_row + 1)
               hc == IF home THEN 0 ELSE pty_col
    <2>1. /\ cursor_row' = r /\ cursor_col' = c /\ saved_cursor' = saved_cursor
          /\ scroll_top' = scroll_top /\ scroll_bottom' = scroll_bottom
          /\ pty_row' = hr /\ pty_col' = hc /\ pty_saved' = pty_saved
          /\ UNCHANGED alternate
        BY <1>1 DEF linefeed, Host!linefeed, Host!MoveTo, region
    <2>2. r \in Rows /\ c \in Cols
        BY <1>z, LinefeedInGrid DEF IInv
    <2>3. ASSUME in_step, Shared(r, c), Shared(hr, hc) PROVE hr = r /\ hc = c
        BY <2>3, HostSizeAssumption
           DEF Shared, Smaller, LinefeedRow, Host!LastRow, Host!Smaller, Rows, Cols
    <2>4. Grid'
        BY <2>1, <2>2 DEF IInv, Grid, Inside
    <2> HIDE DEF r, c, hr, hc
    <2>5. Agree' /\ in_step' \in BOOLEAN
        BY <1>1, <2>1, <2>2, <2>3, Together DEF IInv
    <2> QED BY <2>1, <2>4, <2>5, MainStays DEF IInv
<1>2. ASSUME CarriageReturn, Host!CarriageReturn, Known PROVE IInv'
    <2>1. in_step => pty_row = cursor_row
        OBVIOUS
    <2> QED BY <1>2, <1>z, <2>1, MovedTogether DEF CarriageReturn, Host!CarriageReturn
<1>3. ASSUME Tab, Host!Tab, Known PROVE IInv'
    <2> DEFINE t == ((cursor_col + TabStop) \div TabStop) * TabStop
               ht == ((pty_col + TabStop) \div TabStop) * TabStop
    <2>1. t \in Nat
        BY TabNat
    <2>2. MoveTo(cursor_row, LastCol(t)) /\ Host!MoveTo(pty_row, Host!LastCol(ht))
        BY <1>3 DEF Tab, Host!Tab
    <2>3. in_step => ht = t
        OBVIOUS
    <2> HIDE DEF t, ht
    <2>4. in_step /\ Shared(cursor_row, LastCol(t)) /\ Shared(pty_row, Host!LastCol(ht))
             => pty_row = cursor_row /\ Host!LastCol(ht) = LastCol(t)
        BY <2>1, <2>3, Clamps DEF Shared
    <2> QED BY <1>3, <2>1, <2>2, <2>4, Clamps, MovedTogether
<1>4. ASSUME Backspace, Host!Backspace, Known PROVE IInv'
    BY <1>4, MinusInside, MovedTogether DEF Backspace, Host!Backspace
<1> QED BY <1>1, <1>2, <1>3, <1>4 DEF ControlCall

\* The cursor functions that both emulators know.
LEMMA CursorStep == IInv /\ CursorCall /\ Watch => IInv'
<1> SUFFICES ASSUME IInv, CursorCall, Watch PROVE IInv'
    OBVIOUS
<1>z. 0 \in Rows /\ 0 \in Cols
    BY SizeAssumption DEF Rows, Cols
<1>1. ASSUME NEW p \in Params,
             \/ CursorUp(p) /\ Host!CursorUp(p) /\ Known
             \/ CursorDown(p) /\ Host!CursorDown(p) /\ Known
             \/ CursorForward(p) /\ Host!CursorForward(p) /\ Known
             \/ CursorBack(p) /\ Host!CursorBack(p) /\ Known
             \/ CursorNextLine(p) /\ Host!CursorNextLine(p) /\ Known
             \/ CursorPreviousLine(p) /\ Host!CursorPreviousLine(p) /\ Known
             \/ CursorColumn(p) /\ Host!CursorColumn(p) /\ Known
             \/ CursorLine(p) /\ Host!CursorLine(p) /\ Known
             \/ \E q \in Params : CursorPosition(p, q) /\ Host!CursorPosition(p, q) /\ Known
      PROVE  IInv'
    <2> DEFINE n == param_at(p, 1)
    <2>p. n \in Nat /\ n - 1 \in Nat /\ Host!param_at(p, 1) = n
        BY ParamNat DEF Host!param_at, param_at
    <2> HIDE DEF n
    <2>d. cursor_row + n \in Nat /\ cursor_col + n \in Nat
        BY <2>p, SamePlace
    <2>s. in_step => pty_row = cursor_row /\ pty_col = cursor_col
        BY SamePlace
    <2>1. CASE CursorUp(p) /\ Host!CursorUp(p) /\ Known
        <3>1. MoveTo(Minus(cursor_row, n), cursor_col) /\ Host!MoveTo(Minus(pty_row, n), pty_col)
            BY <2>1, <2>p, MinusInside DEF CursorUp, Host!CursorUp, n
        <3> QED BY <2>1, <2>p, <2>s, <3>1, SamePlace, MinusInside, MovedTogether
    <2>2. CASE CursorDown(p) /\ Host!CursorDown(p) /\ Known
        <3>1. /\ MoveTo(LastRow(cursor_row + n), cursor_col)
              /\ Host!MoveTo(Host!LastRow(pty_row + n), pty_col)
            BY <2>2, <2>p DEF CursorDown, Host!CursorDown, n
        <3>2. /\ in_step
              /\ Shared(LastRow(cursor_row + n), cursor_col)
              /\ Shared(Host!LastRow(pty_row + n), pty_col)
              => Host!LastRow(pty_row + n) = LastRow(cursor_row + n) /\ pty_col = cursor_col
            BY <2>d, <2>s, Clamps DEF Shared
        <3> QED BY <2>2, <2>d, <3>1, <3>2, SamePlace, Clamps, MovedTogether
    <2>3. CASE CursorForward(p) /\ Host!CursorForward(p) /\ Known
        <3>1. /\ MoveTo(cursor_row, LastCol(cursor_col + n))
              /\ Host!MoveTo(pty_row, Host!LastCol(pty_col + n))
            BY <2>3, <2>p DEF CursorForward, Host!CursorForward, n
        <3>2. /\ in_step
              /\ Shared(cursor_row, LastCol(cursor_col + n))
              /\ Shared(pty_row, Host!LastCol(pty_col + n))
              => pty_row = cursor_row /\ Host!LastCol(pty_col + n) = LastCol(cursor_col + n)
            BY <2>d, <2>s, Clamps DEF Shared
        <3> QED BY <2>3, <2>d, <3>1, <3>2, SamePlace, Clamps, MovedTogether
    <2>4. CASE CursorBack(p) /\ Host!CursorBack(p) /\ Known
        <3>1. MoveTo(cursor_row, Minus(cursor_col, n)) /\ Host!MoveTo(pty_row, Minus(pty_col, n))
            BY <2>4, <2>p, MinusInside DEF CursorBack, Host!CursorBack, n
        <3> QED BY <2>4, <2>p, <2>s, <3>1, SamePlace, MinusInside, MovedTogether
    <2>5. CASE CursorNextLine(p) /\ Host!CursorNextLine(p) /\ Known
        <3>1. /\ MoveTo(LastRow(cursor_row + n), 0)
              /\ Host!MoveTo(Host!LastRow(pty_row + n), 0)
            BY <2>5, <2>p DEF CursorNextLine, Host!CursorNextLine, n
        <3>2. /\ in_step
              /\ Shared(LastRow(cursor_row + n), 0)
              /\ Shared(Host!LastRow(pty_row + n), 0)
              => Host!LastRow(pty_row + n) = LastRow(cursor_row + n)
            BY <2>d, <2>s, Clamps DEF Shared
        <3> QED BY <1>z, <2>5, <2>d, <3>1, <3>2, Clamps, MovedTogether
    <2>6. CASE CursorPreviousLine(p) /\ Host!CursorPreviousLine(p) /\ Known
        <3>1. MoveTo(Minus(cursor_row, n), 0) /\ Host!MoveTo(Minus(pty_row, n), 0)
            BY <2>6, <2>p, MinusInside DEF CursorPreviousLine, Host!CursorPreviousLine, n
        <3> QED BY <1>z, <2>6, <2>p, <2>s, <3>1, SamePlace, MinusInside, MovedTogether
    <2>7. CASE CursorColumn(p) /\ Host!CursorColumn(p) /\ Known
        <3>1. MoveTo(cursor_row, LastCol(n - 1)) /\ Host!MoveTo(pty_row, Host!LastCol(n - 1))
            BY <2>7, <2>p DEF CursorColumn, Host!CursorColumn, n
        <3>2. /\ in_step
              /\ Shared(cursor_row, LastCol(n - 1))
              /\ Shared(pty_row, Host!LastCol(n - 1))
              => pty_row = cursor_row /\ Host!LastCol(n - 1) = LastCol(n - 1)
            BY <2>p, <2>s, Clamps DEF Shared
        <3> QED BY <2>7, <2>p, <3>1, <3>2, SamePlace, Clamps, MovedTogether
    <2>8. CASE CursorLine(p) /\ Host!CursorLine(p) /\ Known
        <3>1. MoveTo(LastRow(n - 1), cursor_col) /\ Host!MoveTo(Host!LastRow(n - 1), pty_col)
            BY <2>8, <2>p DEF CursorLine, Host!CursorLine, n
        <3>2. /\ in_step
              /\ Shared(LastRow(n - 1), cursor_col)
              /\ Shared(Host!LastRow(n - 1), pty_col)
              => Host!LastRow(n - 1) = LastRow(n - 1) /\ pty_col = cursor_col
            BY <2>p, <2>s, Clamps DEF Shared
        <3> QED BY <2>8, <2>p, <3>1, <3>2, SamePlace, Clamps, MovedTogether
    <2>9. ASSUME NEW q \in Params, CursorPosition(p, q), Host!CursorPosition(p, q), Known
          PROVE  IInv'
        <3> DEFINE m == param_at(q, 1)
        <3>1. m - 1 \in Nat /\ Host!param_at(q, 1) = m
            BY ParamNat DEF Host!param_at, param_at
        <3>2. /\ MoveTo(LastRow(n - 1), LastCol(m - 1))
              /\ Host!MoveTo(Host!LastRow(n - 1), Host!LastCol(m - 1))
            BY <2>9, <2>p, <3>1 DEF CursorPosition, Host!CursorPosition, n
        <3> HIDE DEF m
        <3>3. /\ in_step
              /\ Shared(LastRow(n - 1), LastCol(m - 1))
              /\ Shared(Host!LastRow(n - 1), Host!LastCol(m - 1))
              => Host!LastRow(n - 1) = LastRow(n - 1) /\ Host!LastCol(m - 1) = LastCol(m - 1)
            BY <2>p, <3>1, Clamps DEF Shared
        <3> QED BY <2>9, <2>p, <3>1, <3>2, <3>3, Clamps, MovedTogether
    <2> QED BY <1>1, <2>1, <2>2, <2>3, <2>4, <2>5, <2>6, <2>7, <2>8, <2>9
<1>2. ASSUME SaveCursor, Host!SaveCursor, Known PROVE IInv'
    <2>1. /\ UNCHANGED <<cursor_row, cursor_col, scroll_top, scroll_bottom, pty_row, pty_col>>
          /\ UNCHANGED alternate
          /\ saved_cursor' = <<cursor_row, cursor_col>> /\ pty_saved' = <<pty_row, pty_col>>
        BY <1>2 DEF SaveCursor, Host!SaveCursor, cursor, region
    <2>2. Grid'
        BY <2>1 DEF IInv, Grid, Inside
    <2>3. in_step' \in BOOLEAN /\ (in_step' => in_step)
        BY <1>2 DEF Known, IInv
    <2>4. Agree'
        BY <2>1, <2>3 DEF IInv, Agree
    <2> QED BY <2>1, <2>2, <2>3, <2>4, MainStays DEF IInv
<1>3. ASSUME RestoreCursor, Host!RestoreCursor, Known PROVE IInv'
    <2> DEFINE r == saved_cursor[1]
               c == saved_cursor[2]
    <2>1. r \in Nat /\ c \in Nat /\ (in_step => pty_saved[1] = r /\ pty_saved[2] = c)
        BY SamePlace
    <2>2. /\ MoveTo(LastRow(r), LastCol(c))
          /\ Host!MoveTo(Host!LastRow(pty_saved[1]), Host!LastCol(pty_saved[2]))
        BY <1>3 DEF RestoreCursor, Host!RestoreCursor
    <2> HIDE DEF r, c
    <2>3. /\ in_step /\ Shared(LastRow(r), LastCol(c))
          /\ Shared(Host!LastRow(pty_saved[1]), Host!LastCol(pty_saved[2]))
          => /\ Host!LastRow(pty_saved[1]) = LastRow(r)
             /\ Host!LastCol(pty_saved[2]) = LastCol(c)
        BY <2>1, Clamps DEF Shared
    <2> QED BY <1>3, <2>1, <2>2, <2>3, Clamps, MovedTogether
<1>4. ASSUME Host!enqueue_cursor_report, UNCHANGED vars, UNCHANGED in_step PROVE IInv'
    <2>1. Grid' /\ UNCHANGED alternate
        BY <1>4 DEF vars, IInv, Grid, Inside, alternate
    <2>2. Agree' /\ in_step' \in BOOLEAN
        BY <1>4 DEF vars, IInv, Agree, Host!enqueue_cursor_report
    <2> QED BY <2>1, <2>2, MainStays DEF IInv
<1> QED BY <1>1, <1>2, <1>3, <1>4 DEF CursorCall

\* The functions that change cells or the style.
LEMMA CellStep == IInv /\ CellCall /\ Watch => IInv'
<1> SUFFICES ASSUME IInv, CellCall, Watch PROVE IInv'
    OBVIOUS
<1>1. UNCHANGED <<cursor_row, cursor_col, saved_cursor, scroll_top, scroll_bottom, alternate>>
    BY DEF CellCall, SelectGraphicRendition, EraseInDisplay, EraseInLine, insert_blank_chars,
           delete_chars, erase_chars, insert_lines, delete_lines, ScrollUp, ScrollDown,
           ChangeRow, Change, cursor, region
<1>2. UNCHANGED <<pty_row, pty_col, pty_saved, in_step>>
    BY DEF CellCall, CellsOnly, Host!Ignored, Host!vars
<1>3. Grid'
    BY <1>1 DEF IInv, Grid, Inside
<1>4. Agree' /\ in_step' \in BOOLEAN
    BY <1>1, <1>2 DEF IInv, Agree
<1> QED BY <1>1, <1>3, <1>4, MainStays DEF IInv

\* leave_alternate_screen restores what was saved: nothing is cut off.
LEMMA LeaveRestores ==
    ASSUME MainInv, leave_alternate_screen
    PROVE  /\ Grid' /\ SavedScreen' = main_seen
           /\ alternate_screen' = FALSE /\ saved_main_screen' = <<>>
<1>1. saved_main_screen[1] = main_seen /\ saved_main_screen # <<>> /\ IsScreen(main_seen)
    BY DEF leave_alternate_screen, MainInv
<1> DEFINE top == LastRow(main_seen.region[1])
           bottom == LastRow(main_seen.region[2])
<1>2. /\ buffer' = main_seen.buffer /\ style' = main_seen.style
      /\ cursor_row' = LastRow(main_seen.cursor[1])
      /\ cursor_col' = LastCol(main_seen.cursor[2])
      /\ saved_cursor' = main_seen.saved_cursor
      /\ scroll_top' = IF top >= bottom THEN 0 ELSE top
      /\ scroll_bottom' = IF top >= bottom THEN rows - 1 ELSE bottom
      /\ alternate_screen' = FALSE /\ saved_main_screen' = <<>>
    BY <1>1 DEF leave_alternate_screen
<1>3. Inside(main_seen.cursor[1], main_seen.cursor[2], main_seen.saved_cursor,
             main_seen.region[1], main_seen.region[2])
    BY <1>1 DEF IsScreen
<1>4. /\ cursor_row' = main_seen.cursor[1] /\ cursor_col' = main_seen.cursor[2]
      /\ scroll_top' = main_seen.region[1] /\ scroll_bottom' = main_seen.region[2]
    BY <1>2, <1>3, SizeAssumption DEF Inside, LastRow, LastCol, Smaller, Rows, Cols
<1>5. Grid'
    BY <1>2, <1>3, <1>4 DEF Grid, Inside
<1>6. SavedScreen' = main_seen
    BY <1>1, <1>2, <1>4 DEF SavedScreen, IsScreen, cursor, region
<1> QED BY <1>2, <1>5, <1>6

\* The functions that only the viewer knows: region and alternate screen.
LEMMA ScreenStep == IInv /\ ScreenCall /\ Watch => IInv'
<1> SUFFICES ASSUME IInv, ScreenCall, Watch PROVE IInv'
    OBVIOUS
<1>i. Grid /\ MainInv
    BY DEF IInv
<1>u. in_step' = FALSE
    BY DEF ScreenCall, Unknown
<1>a. Agree' /\ in_step' \in BOOLEAN
    BY <1>u DEF Agree
<1>1. CASE reverse_index
    <2>1. UNCHANGED <<cursor_col, saved_cursor, scroll_top, scroll_bottom, alternate>>
        BY <1>1 DEF reverse_index, region
    <2>2. cursor_row' \in Rows
        BY <1>1, <1>i, MinusInside DEF reverse_index, Grid, Inside
    <2>3. Grid'
        BY <1>i, <2>1, <2>2 DEF Grid, Inside
    <2> QED BY <1>i, <1>u, <2>1, <2>3, OutOfStep
<1>2. ASSUME NEW p \in Params, NEW q \in Params, set_scroll_region(p, q) PROVE IInv'
    <2>1. Grid'
        BY <1>2, <1>i, SizeAssumption, ParamAssumption
           DEF set_scroll_region, param_at, Grid, Inside, Rows, Cols
    <2>2. UNCHANGED alternate
        BY <1>2 DEF set_scroll_region
    <2> QED BY <1>i, <1>u, <2>1, <2>2, OutOfStep
<1>3. CASE enter_alternate_screen
    <2>1. Grid'
        BY <1>3, SizeAssumption DEF enter_alternate_screen, Grid, Inside, Rows, Cols
    <2>2. /\ alternate_screen' /\ alternate_screen' \in BOOLEAN
          /\ main_seen' = main_seen /\ saved_main_screen' = <<main_seen>>
        BY <1>3, <1>i DEF enter_alternate_screen, MainInv, Watch
    <2>3. IsScreen(main_seen)'
        BY <1>i, <2>2 DEF MainInv, IsScreen, Inside
    <2>4. MainInv'
        BY <2>2, <2>3 DEF MainInv
    <2> QED BY <1>a, <2>1, <2>4 DEF IInv
<1>4. CASE leave_alternate_screen
    <2>1. /\ Grid' /\ SavedScreen' = main_seen /\ main_seen' = main_seen
          /\ alternate_screen' = FALSE /\ saved_main_screen' = <<>>
        BY <1>4, <1>i, LeaveRestores DEF Watch
    <2>2. IsScreen(main_seen)'
        BY <1>i, <2>1 DEF MainInv, IsScreen, Inside
    <2>3. MainInv'
        BY <2>1, <2>2 DEF MainInv
    <2> QED BY <1>a, <2>1, <2>3 DEF IInv
<1>5. CASE reset_terminal
    <2>1. Grid' /\ UNCHANGED alternate
        BY <1>5, SizeAssumption DEF reset_terminal, Grid, Inside, Rows, Cols
    <2> QED BY <1>i, <1>u, <2>1, OutOfStep
<1> QED BY <1>1, <1>2, <1>3, <1>4, <1>5 DEF ScreenCall

LEMMA StutterStep == IInv /\ UNCHANGED all_vars => IInv'
<1> SUFFICES ASSUME IInv, UNCHANGED all_vars PROVE IInv'
    OBVIOUS
<1>1. SavedScreen' = SavedScreen /\ IsScreen(main_seen)'
    BY DEF all_vars, vars, IInv, MainInv, IsScreen, Inside, SavedScreen, cursor, region
<1> QED BY <1>1 DEF all_vars, vars, host_vars, IInv, Grid, Inside, MainInv, Agree

\* The inductive invariant, whatever the stream is.
THEOREM Invariance == SSpec => []IInv
<1>1. IInv /\ [SNext]_all_vars => IInv'
    BY PrintStep, ControlStep, CursorStep, CellStep, ScreenStep, StutterStep DEF SNext
<1> QED BY InitIInv, <1>1, PTL DEF SSpec

\* No byte of a child moves the cursor, the saved cursor or the scroll region
\* out of the grid, on either screen: the emulator never indexes outside it.
THEOREM NeverOutside == SSpec => []InGrid
<1>1. IInv => InGrid
    BY DEF IInv, Grid, Inside, MainInv, InGrid
<1> QED BY <1>1, Invariance, PTL

\* leave_alternate_screen brings back the main screen as it was when the
\* child left it, however often the child entered or reset in between.
THEOREM MainScreenComesBack == SSpec => MainScreenKept
<1>1. IInv /\ [SNext]_all_vars
         => (alternate_screen /\ ~alternate_screen' => SavedScreen' = main_seen)
    <2> SUFFICES ASSUME IInv, [SNext]_all_vars, alternate_screen, ~alternate_screen'
                 PROVE  SavedScreen' = main_seen
        OBVIOUS
    <2>1. CASE UNCHANGED all_vars
        BY <2>1 DEF all_vars, vars
    <2>2. CASE leave_alternate_screen
        BY <2>2, LeaveRestores DEF IInv
    <2>3. CASE PrintCall \/ ControlCall \/ CursorCall \/ CellCall
        <3>1. UNCHANGED alternate
            BY <2>3 DEF PrintCall, put_char, append_combining_char, ControlCall, linefeed,
                        CarriageReturn, Tab, Backspace, CursorCall, CursorUp, CursorDown,
                        CursorForward, CursorBack, CursorNextLine, CursorPreviousLine,
                        CursorColumn, CursorLine, CursorPosition, SaveCursor, RestoreCursor,
                        CellCall, SelectGraphicRendition, EraseInDisplay, EraseInLine,
                        insert_blank_chars, delete_chars, erase_chars, insert_lines,
                        delete_lines, ScrollUp, ScrollDown, ChangeRow, Change, MoveTo,
                        vars, alternate
        <3> QED BY <3>1 DEF alternate
    <2>4. CASE ScreenCall /\ ~leave_alternate_screen
        BY <2>4 DEF ScreenCall, reverse_index, set_scroll_region, enter_alternate_screen,
                    reset_terminal, alternate
    <2> QED BY <2>1, <2>2, <2>3, <2>4 DEF SNext
<1> QED BY <1>1, Invariance, PTL DEF SSpec, MainScreenKept

\* While the child keeps to what both emulators share, read_pty_output
\* answers a cursor request with the position on the viewer's screen,
\* whatever the two sizes are.
THEOREM AnswersAreTrue == SSpec => AnswersTrue
<1>1. IInv /\ [SNext]_all_vars
         => (in_step /\ answer' # answer => answer' = <<cursor_row + 1, cursor_col + 1>>)
    <2> SUFFICES ASSUME IInv, [SNext]_all_vars, in_step, answer' # answer
                 PROVE  answer' = <<cursor_row + 1, cursor_col + 1>>
        OBVIOUS
    <2>1. CASE Host!enqueue_cursor_report
        BY <2>1 DEF Host!enqueue_cursor_report, IInv, Agree
    <2>2. CASE PrintCall \/ ControlCall \/ (CursorCall /\ ~Host!enqueue_cursor_report)
        BY <2>2 DEF PrintCall, ControlCall, CursorCall, Host!put_char, Host!linefeed,
                    Host!CarriageReturn, Host!Tab, Host!Backspace, Host!CursorUp,
                    Host!CursorDown, Host!CursorForward, Host!CursorBack,
                    Host!CursorNextLine, Host!CursorPreviousLine, Host!CursorColumn,
                    Host!CursorLine, Host!CursorPosition, Host!SaveCursor,
                    Host!RestoreCursor, Host!MoveTo
    <2>3. CASE CellCall \/ ScreenCall \/ UNCHANGED all_vars
        BY <2>3 DEF CellCall, ScreenCall, CellsOnly, Unknown, Host!Ignored, Host!vars,
                    all_vars, host_vars
    <2> QED BY <2>1, <2>2, <2>3 DEF SNext
<1> QED BY <1>1, Invariance, PTL DEF SSpec, AnswersTrue

(***************************************************************************)
(* Rows: every wide character is followed by its continuation.             *)
(***************************************************************************)
Lines ==
    {line \in [Cols -> Cells] : \A c \in Cols :
        /\ line[c].wide_continuation <=> c > 0 /\ is_wide_lead(line[c - 1])
        /\ is_wide_lead(line[c]) => c < cols - 1}

Screens == [Rows -> Lines]

\* The screen on display, and the main screen behind the alternate one.
Drawable == buffer \in Screens /\ main_seen.buffer \in Screens

LEMMA CellTypes ==
    /\ Blank \in Cells /\ ~Blank.wide_continuation /\ ~is_wide_lead(Blank)
    /\ Continuation \in Cells /\ Continuation.wide_continuation /\ ~is_wide_lead(Continuation)
    /\ \A ch \in {"a", "e", "w"} :
           /\ Cell(ch) \in Cells /\ ~Cell(ch).wide_continuation
           /\ is_wide_lead(Cell(ch)) <=> ch = "w"
BY DEF Blank, Cell, Continuation, Cells, Texts, is_wide_lead

LEMMA BlankLines == blank_row \in Lines /\ BlankScreen \in Screens
<1>1. blank_row \in Lines
  BY CellTypes, SizeAssumption DEF blank_row, Lines, Cols
<1>. QED
  BY <1>1 DEF BlankScreen, Screens

LEMMA LeastOf ==
    ASSUME NEW T, T \subseteq Nat, T # {}
    PROVE  \E x \in T : \A y \in T : x <= y
<1> DEFINE R == OpToRel(<, Nat)
<1>1. IsWellFoundedOn(R, Nat)
  BY NatLessThanWellFounded
<1> HIDE DEF R
<1>2. \E x \in T : \A y \in T : ~(<<y, x>> \in R)
  BY <1>1, WFMin
<1>3. \A x, y \in Nat : y < x => <<y, x>> \in R
  BY DEF R, OpToRel
<1>4. PICK x \in T : \A y \in T : ~(<<y, x>> \in R)
  BY <1>2
<1>5. ASSUME NEW y \in T PROVE x <= y
  <2>1. x \in Nat /\ y \in Nat
    OBVIOUS
  <2>2. ~(y < x)
    BY <1>3, <1>4, <2>1
  <2>. QED
    BY <2>1, <2>2
<1>. QED
  BY <1>5

\* What the pass of sanitize_row makes of column c, with g to its left.
Cleaned(line, g, c) ==
    IF c > 0 /\ is_wide_lead(g[c - 1]) THEN
        IF line[c].wide_continuation THEN line[c] ELSE Continuation
    ELSE IF line[c].wide_continuation \/ (is_wide_lead(line[c]) /\ c = cols - 1) THEN Blank
    ELSE line[c]

\* The pass gets to the end of the row: there is no first column before which
\* it could stop.
LEMMA CleanExists ==
    ASSUME NEW line
    PROVE  \E g : g = [c \in Cols |-> Cleaned(line, g, c)]
<1> DEFINE T == {n \in Nat : \A g : g # [c \in 0..n |-> Cleaned(line, g, c)]}
<1>1. T = {}
  <2> SUFFICES ASSUME T # {} PROVE FALSE
    OBVIOUS
  <2>1. T \subseteq Nat
    OBVIOUS
  <2>2. PICK n \in T : \A y \in T : n <= y
    <3> HIDE DEF T
    <3>. QED
      BY <2>1, LeastOf
  <2>3. n \in Nat /\ \A g : g # [c \in 0..n |-> Cleaned(line, g, c)]
    OBVIOUS
  <2>4. CASE n = 0
    <3>1. PICK g : g = [c \in 0..0 |-> Cleaned(line, <<>>, c)]
      OBVIOUS
    <3>2. \A c \in 0..0 : Cleaned(line, <<>>, c) = Cleaned(line, g, c)
      BY DEF Cleaned
    <3>3. g = [c \in 0..0 |-> Cleaned(line, g, c)]
      BY <3>1, <3>2
    <3>. QED
      BY <2>3, <2>4, <3>3
  <2>5. CASE n # 0
    <3>1. n - 1 \in Nat /\ n - 1 < n
      BY <2>3, <2>5
    <3>2. PICK g : g = [c \in 0..(n - 1) |-> Cleaned(line, g, c)]
      BY <2>2, <3>1
    <3>3. PICK h : h = [c \in 0..n |-> IF c = n THEN Cleaned(line, g, c) ELSE g[c]]
      OBVIOUS
    <3>4. ASSUME NEW c \in 0..n PROVE Cleaned(line, h, c) = Cleaned(line, g, c)
      <4>1. CASE c = 0
        BY <4>1 DEF Cleaned
      <4>2. CASE c # 0
        <5>1. c - 1 \in 0..n /\ c - 1 # n
          BY <2>3, <4>2
        <5>2. h[c - 1] = g[c - 1]
          BY <3>3, <5>1
        <5>. QED
          BY <5>2 DEF Cleaned
      <4>. QED
        BY <4>1, <4>2
    <3>5. ASSUME NEW c \in 0..n PROVE h[c] = Cleaned(line, h, c)
      <4>1. CASE c = n
        BY <3>3, <3>4, <4>1
      <4>2. CASE c # n
        <5>1. c \in 0..(n - 1)
          BY <2>3, <4>2
        <5>2. g[c] = Cleaned(line, g, c)
          BY <3>2, <5>1
        <5>. QED
          BY <3>3, <3>4, <4>2, <5>2
      <4>. QED
        BY <4>1, <4>2
    <3>6. h = [c \in 0..n |-> h[c]]
      BY <3>3
    <3>7. h = [c \in 0..n |-> Cleaned(line, h, c)]
      BY <3>5, <3>6
    <3>. QED
      BY <2>3, <3>7
  <2>. QED
    BY <2>4, <2>5
<1>2. cols - 1 \in Nat
  BY SizeAssumption
<1>3. \E g : g = [c \in 0..(cols - 1) |-> Cleaned(line, g, c)]
  BY <1>1, <1>2
<1>. QED
  BY <1>3 DEF Cols

LEMMA Sanitized ==
    ASSUME NEW line \in [Cols -> Cells]
    PROVE  sanitize_row(line) \in Lines
<1>1. PICK s : s = sanitize_row(line)
  OBVIOUS
<1>2. s = CHOOSE clean : clean = [c \in Cols |->
              IF c > 0 /\ is_wide_lead(clean[c - 1]) THEN
                  IF line[c].wide_continuation THEN line[c] ELSE Continuation
              ELSE IF line[c].wide_continuation \/ (is_wide_lead(line[c]) /\ c = cols - 1)
                   THEN Blank
              ELSE line[c]]
  BY <1>1 DEF sanitize_row
<1>3. s = CHOOSE clean : clean = [c \in Cols |-> Cleaned(line, clean, c)]
  BY <1>2 DEF Cleaned
<1>4. s = [c \in Cols |-> Cleaned(line, s, c)]
  BY <1>3, CleanExists
<1>5. \A c \in Cols : s[c] = Cleaned(line, s, c)
  BY <1>4
<1>6. \A c \in Cols : line[c] \in Cells
  OBVIOUS
<1>7. s \in [Cols -> Cells]
  <2>1. \A c \in Cols : s[c] \in Cells
    BY <1>5, <1>6, CellTypes DEF Cleaned
  <2>. QED
    BY <1>4, <2>1
<1>8. ASSUME NEW c \in Cols
      PROVE  s[c].wide_continuation <=> c > 0 /\ is_wide_lead(s[c - 1])
  <2>1. line[c].wide_continuation \in BOOLEAN
    BY <1>6 DEF Cells
  <2>. QED
    BY <1>5, <2>1, CellTypes DEF Cleaned
<1>9. ASSUME NEW c \in Cols, is_wide_lead(s[c])
      PROVE  c < cols - 1
  <2>1. c # cols - 1
    BY <1>5, <1>9, CellTypes DEF Cleaned, is_wide_lead
  <2>. QED
    BY <2>1, SizeAssumption DEF Cols
<1>. QED
  BY <1>1, <1>7, <1>8, <1>9 DEF Lines

\* Drawing such a row: up to column c, c columns are drawn, and the one more
\* of a wide character if c is its continuation.
LEMMA Drawn ==
    ASSUME NEW line \in Lines
    PROVE  /\ \A c \in Cols : line[c].wide_continuation \/ lines(line)[c] = c
           /\ lines(line)[cols] = cols
<1> DEFINE Half(c) == c < cols /\ line[c].wide_continuation
           Right(c) == IF Half(c) THEN c + 1 ELSE c
<1>0. /\ cols \in Nat /\ cols >= 2 /\ line \in [Cols -> Cells]
      /\ \A c \in Cols : line[c].wide_continuation \in BOOLEAN
  BY SizeAssumption DEF Lines, Cells
<1>1. ~Half(0)
  BY <1>0 DEF Lines, Cols
<1>2. ASSUME NEW c \in 0..cols, c # 0 PROVE Right(c) = Right(c - 1) + push_cell(line[c - 1])
  <2>1. PICK b \in Cols : b = c - 1 /\ c = b + 1
    BY <1>0, <1>2 DEF Cols
  <2>2. line[b] \in Cells
    BY <1>0
  <2>3. CASE line[b].wide_continuation
    <3>1. ~is_wide_lead(line[b])
      BY <2>3 DEF is_wide_lead
    <3>2. ~Half(c)
      BY <1>0, <2>1, <3>1 DEF Lines, Cols
    <3>3. push_cell(line[b]) = 0
      BY <2>3 DEF push_cell
    <3>. QED
      BY <1>0, <2>1, <2>3, <3>2, <3>3 DEF Cols
  <2>4. CASE is_wide_lead(line[b])
    <3>1. b < cols - 1
      BY <2>4 DEF Lines
    <3>2. Half(c)
      BY <1>0, <2>1, <2>4, <3>1 DEF Lines, Cols
    <3>3. push_cell(line[b]) = 2 /\ ~line[b].wide_continuation
      BY <2>4 DEF push_cell, is_wide_lead
    <3>. QED
      BY <1>0, <2>1, <3>2, <3>3 DEF Cols
  <2>5. CASE ~line[b].wide_continuation /\ ~is_wide_lead(line[b])
    <3>1. ~Half(c)
      BY <1>0, <2>1, <2>5 DEF Lines, Cols
    <3>2. push_cell(line[b]) = 1
      BY <2>5 DEF push_cell, is_wide_lead
    <3>. QED
      BY <1>0, <2>1, <2>5, <3>1, <3>2 DEF Cols
  <2>. QED
    BY <2>3, <2>4, <2>5
<1> HIDE DEF Half, Right
<1>3. Right(0) = 0
  BY <1>1 DEF Right
<1>4. PICK at : at = lines(line)
  OBVIOUS
<1>5. at = CHOOSE a : a = [c \in 0..cols |-> IF c = 0 THEN 0 ELSE a[c - 1] + push_cell(line[c - 1])]
  BY <1>4 DEF lines
<1>6. \E a : a = [c \in 0..cols |-> IF c = 0 THEN 0 ELSE a[c - 1] + push_cell(line[c - 1])]
  <2>1. PICK a : a = [c \in 0..cols |-> Right(c)]
    OBVIOUS
  <2>2. ASSUME NEW c \in 0..cols
        PROVE  a[c] = IF c = 0 THEN 0 ELSE a[c - 1] + push_cell(line[c - 1])
    <3>1. CASE c = 0
      BY <1>3, <2>1, <3>1
    <3>2. CASE c # 0
      <4>1. c - 1 \in 0..cols
        BY <1>0, <3>2
      <4>. QED
        BY <1>2, <2>1, <3>2, <4>1
    <3>. QED
      BY <3>1, <3>2
  <2>3. a = [c \in 0..cols |-> a[c]]
    BY <2>1
  <2>4. a = [c \in 0..cols |-> IF c = 0 THEN 0 ELSE a[c - 1] + push_cell(line[c - 1])]
    BY <2>2, <2>3
  <2>. QED
    BY <2>4
<1>7. at = [c \in 0..cols |-> IF c = 0 THEN 0 ELSE at[c - 1] + push_cell(line[c - 1])]
  BY <1>5, <1>6
<1> DEFINE T == {c \in 0..cols : at[c] # Right(c)}
<1>8. T = {}
  <2> SUFFICES ASSUME T # {} PROVE FALSE
    OBVIOUS
  <2>1. T \subseteq Nat
    BY <1>0
  <2>2. PICK c \in T : \A y \in T : c <= y
    <3> HIDE DEF T
    <3>. QED
      BY <2>1, LeastOf
  <2>3. c \in 0..cols /\ at[c] # Right(c)
    OBVIOUS
  <2>4. c # 0
    BY <1>3, <1>7, <2>3
  <2>5. c - 1 \in 0..cols /\ ~(c <= c - 1)
    BY <1>0, <2>3, <2>4
  <2>6. at[c - 1] = Right(c - 1)
    BY <2>2, <2>5
  <2>7. at[c] = at[c - 1] + push_cell(line[c - 1])
    BY <1>7, <2>3, <2>4
  <2>. QED
    BY <1>2, <2>3, <2>4, <2>6, <2>7
<1>9. \A c \in 0..cols : at[c] = Right(c)
  BY <1>8
<1>10. ASSUME NEW c \in Cols PROVE line[c].wide_continuation \/ at[c] = c
  <2>1. c \in 0..cols
    BY <1>0 DEF Cols
  <2>. QED
    BY <1>9, <2>1 DEF Right, Half
<1>11. at[cols] = cols
  <2>1. cols \in 0..cols /\ ~(cols < cols)
    BY <1>0
  <2>. QED
    BY <1>9, <2>1 DEF Right, Half
<1>. QED
  BY <1>4, <1>10, <1>11

\* The functions that change a row.
LEMMA WrittenLine ==
    ASSUME NEW line \in Lines, NEW c \in Cols, NEW ch \in Characters,
           char_width(ch) > 0, c + char_width(ch) <= cols
    PROVE  Written(line, c, ch) \in Lines
<1>0. /\ cols \in Nat /\ cols >= 2 /\ line \in [Cols -> Cells] /\ c \in 0..(cols - 1)
      /\ \A k \in Cols : /\ line[k].wide_continuation \in BOOLEAN
                         /\ line[k].wide_continuation <=> k > 0 /\ is_wide_lead(line[k - 1])
                         /\ is_wide_lead(line[k]) => k < cols - 1
  BY SizeAssumption DEF Lines, Cells, Cols
<1>1. ch \in {"a", "e", "w"} /\ (char_width(ch) = 2 <=> ch = "w")
  BY DEF Characters, char_width
<1>2. PICK x \in Cells : x = Cell(ch) /\ ~x.wide_continuation /\ (is_wide_lead(x) <=> ch = "w")
  BY <1>1, CellTypes
<1>3. PICK lead : lead = [clear_overlapped_cell(line, c) EXCEPT ![c] = x]
  OBVIOUS
<1>4. /\ lead = [k \in Cols |-> lead[k]] /\ lead[c] = x
      /\ \A k \in Cols : k # c =>
             lead[k] = IF \/ k = c - 1 /\ line[c].wide_continuation /\ is_wide_lead(line[k])
                          \/ k = c + 1 /\ is_wide_lead(line[c]) /\ line[k].wide_continuation
                       THEN Blank ELSE line[k]
  BY <1>3 DEF clear_overlapped_cell
<1>5. \A k \in Cols : k # c =>
          lead[k] = IF (k = c - 1 /\ is_wide_lead(line[k])) \/ (k = c + 1 /\ line[k].wide_continuation)
                    THEN Blank ELSE line[k]
  <2>1. ASSUME NEW k \in Cols, k = c - 1, is_wide_lead(line[k]) PROVE line[c].wide_continuation
    BY <1>0, <2>1 DEF Cols
  <2>2. ASSUME NEW k \in Cols, k = c + 1, line[k].wide_continuation PROVE is_wide_lead(line[c])
    BY <1>0, <2>2 DEF Cols
  <2>. QED
    BY <1>4, <2>1, <2>2
<1>6. lead \in [Cols -> Cells]
  <2>1. \A k \in Cols : lead[k] \in Cells
    BY <1>0, <1>2, <1>4, <1>5, CellTypes
  <2>. QED
    BY <1>4, <2>1
<1>7. CASE ch # "w"
  <2>1. Written(line, c, ch) = lead
    BY <1>1, <1>2, <1>3, <1>7 DEF Written
  <2>2. ASSUME NEW k \in Cols
        PROVE  /\ lead[k].wide_continuation <=> k > 0 /\ is_wide_lead(lead[k - 1])
               /\ is_wide_lead(lead[k]) => k < cols - 1
    <3>1. ~is_wide_lead(lead[c]) /\ ~lead[c].wide_continuation
      BY <1>2, <1>4, <1>7
    <3>2. k > 0 => k - 1 \in Cols
      BY <1>0 DEF Cols
    <3>3. k = c \/ k = c + 1 \/ (k # c /\ k # c + 1 /\ k - 1 # c)
      BY <1>0 DEF Cols
    <3>4. CASE k = c
      <4>1. k > 0 => ~is_wide_lead(lead[k - 1])
        BY <1>0, <1>5, <3>2, <3>4, CellTypes DEF Cols
      <4>. QED
        BY <3>1, <3>4, <4>1
    <3>5. CASE k = c + 1
      <4>1. k - 1 = c /\ k # c
        BY <1>0, <3>5
      <4>2. ~lead[k].wide_continuation
        BY <1>5, <3>5, <4>1, CellTypes
      <4>3. is_wide_lead(lead[k]) => is_wide_lead(line[k])
        BY <1>5, <4>1, CellTypes
      <4>. QED
        BY <1>0, <3>1, <4>1, <4>2, <4>3
    <3>6. CASE k # c /\ k # c + 1 /\ k - 1 # c
      <4>1. lead[k].wide_continuation <=> line[k].wide_continuation
        <5>1. CASE k = c - 1 /\ is_wide_lead(line[k])
          BY <1>5, <3>6, <5>1, CellTypes DEF is_wide_lead
        <5>2. CASE ~(k = c - 1 /\ is_wide_lead(line[k]))
          BY <1>5, <3>6, <5>2
        <5>. QED
          BY <5>1, <5>2
      <4>2. is_wide_lead(lead[k]) => is_wide_lead(line[k])
        BY <1>5, <3>6, CellTypes
      <4>3. k > 0 => (is_wide_lead(lead[k - 1]) <=> is_wide_lead(line[k - 1]))
        <5> SUFFICES ASSUME k > 0 PROVE is_wide_lead(lead[k - 1]) <=> is_wide_lead(line[k - 1])
          OBVIOUS
        <5>1. k - 1 # c - 1
          BY <1>0, <3>6 DEF Cols
        <5>2. CASE k - 1 = c + 1 /\ line[k - 1].wide_continuation
          BY <1>5, <3>2, <3>6, <5>2, CellTypes DEF is_wide_lead
        <5>3. CASE ~(k - 1 = c + 1 /\ line[k - 1].wide_continuation)
          BY <1>5, <3>2, <3>6, <5>1, <5>3
        <5>. QED
          BY <5>2, <5>3
      <4>. QED
        BY <1>0, <4>1, <4>2, <4>3
    <3>. QED
      BY <3>3, <3>4, <3>5, <3>6
  <2>. QED
    BY <1>6, <2>1, <2>2 DEF Lines
<1>8. CASE ch = "w"
  <2>1. c + 1 \in Cols /\ c + 2 <= cols /\ c + 1 # c
    BY <1>0, <1>1, <1>8 DEF Cols
  <2>2. PICK both : both = [clear_overlapped_cell(lead, c + 1) EXCEPT ![c + 1] = Continuation]
    OBVIOUS
  <2>3. Written(line, c, ch) = both
    BY <1>1, <1>2, <1>3, <1>8, <2>2 DEF Written
  <2>4. ~lead[c + 1].wide_continuation
    BY <1>5, <2>1, CellTypes
  <2>5. /\ both = [k \in Cols |-> both[k]] /\ both[c + 1] = Continuation
        /\ \A k \in Cols : k # c + 1 =>
               both[k] = IF k = c + 2 /\ is_wide_lead(lead[c + 1]) /\ lead[k].wide_continuation THEN Blank ELSE lead[k]
    <3>1. (c + 1) + 1 = c + 2
      BY <1>0
    <3>. QED
      BY <2>1, <2>2, <2>4, <3>1 DEF clear_overlapped_cell
  <2>6. both[c] = x /\ is_wide_lead(both[c]) /\ ~both[c].wide_continuation
    <3>1. c # c + 2
      BY <1>0
    <3>. QED
      BY <1>2, <1>4, <1>8, <2>1, <2>5, <3>1
  <2>7. \A k \in Cols : k # c /\ k # c + 1 =>
            both[k] = IF (k = c - 1 /\ is_wide_lead(line[k])) \/ (k = c + 2 /\ line[k].wide_continuation)
                      THEN Blank ELSE line[k]
    <3>1. ASSUME NEW k \in Cols, k = c + 2, line[k].wide_continuation PROVE is_wide_lead(lead[c + 1])
      <4>1. k - 1 = c + 1 /\ k > 0
        BY <1>0, <3>1
      <4>2. is_wide_lead(line[c + 1])
        BY <1>0, <3>1, <4>1
      <4>3. c + 1 # c - 1 /\ ~line[c + 1].wide_continuation
        BY <1>0, <4>2 DEF is_wide_lead
      <4>. QED
        BY <1>5, <2>1, <4>2, <4>3
    <3>2. ASSUME NEW k \in Cols, k # c, k # c + 1
          PROVE  both[k] = IF (k = c - 1 /\ is_wide_lead(line[k])) \/ (k = c + 2 /\ line[k].wide_continuation)
                           THEN Blank ELSE line[k]
      <4>1. lead[k] = IF k = c - 1 /\ is_wide_lead(line[k]) THEN Blank ELSE line[k]
        BY <1>5, <3>2
      <4>2. k = c + 2 => k # c - 1
        BY <1>0
      <4>. QED
        BY <2>5, <3>1, <3>2, <4>1, <4>2
    <3>. QED
      BY <3>2
  <2>8. both \in [Cols -> Cells]
    <3>1. \A k \in Cols : both[k] \in Cells
      BY <1>0, <1>2, <2>5, <2>6, <2>7, CellTypes
    <3>. QED
      BY <2>5, <3>1
  <2>9. ASSUME NEW k \in Cols
        PROVE  /\ both[k].wide_continuation <=> k > 0 /\ is_wide_lead(both[k - 1])
               /\ is_wide_lead(both[k]) => k < cols - 1
    <3>2. k > 0 => k - 1 \in Cols
      BY <1>0 DEF Cols
    <3>3. CASE k = c
      <4>1. k > 0 => ~is_wide_lead(both[k - 1])
        <5> SUFFICES ASSUME k > 0 PROVE ~is_wide_lead(both[k - 1])
          OBVIOUS
        <5>1. k - 1 = c - 1 /\ k - 1 # c /\ k - 1 # c + 1 /\ k - 1 # c + 2
          BY <1>0, <3>3
        <5>. QED
          BY <2>7, <3>2, <5>1, CellTypes
      <4>2. k < cols - 1
        BY <1>0, <2>1, <3>3
      <4>. QED
        BY <2>6, <3>3, <4>1, <4>2
    <3>4. CASE k = c + 1
      <4>1. k - 1 = c /\ k > 0
        BY <1>0, <3>4
      <4>. QED
        BY <2>5, <2>6, <3>4, <4>1, CellTypes
    <3>5. CASE k = c + 2
      <4>1. k - 1 = c + 1 /\ k > 0 /\ k # c /\ k # c + 1 /\ k # c - 1
        BY <1>0, <3>5
      <4>2. ~is_wide_lead(both[k - 1])
        BY <2>5, <4>1, CellTypes
      <4>3. ~both[k].wide_continuation
        BY <2>7, <3>5, <4>1, CellTypes
      <4>4. is_wide_lead(both[k]) => is_wide_lead(line[k])
        BY <2>7, <4>1, CellTypes
      <4>. QED
        BY <1>0, <4>1, <4>2, <4>3, <4>4
    <3>6. CASE k # c /\ k # c + 1 /\ k # c + 2
      <4>1. both[k].wide_continuation <=> line[k].wide_continuation
        <5>1. CASE k = c - 1 /\ is_wide_lead(line[k])
          BY <2>7, <3>6, <5>1, CellTypes DEF is_wide_lead
        <5>2. CASE ~(k = c - 1 /\ is_wide_lead(line[k]))
          BY <2>7, <3>6, <5>2
        <5>. QED
          BY <5>1, <5>2
      <4>2. is_wide_lead(both[k]) => is_wide_lead(line[k])
        BY <2>7, <3>6, CellTypes
      <4>3. k > 0 => (is_wide_lead(both[k - 1]) <=> is_wide_lead(line[k - 1]))
        <5> SUFFICES ASSUME k > 0 PROVE is_wide_lead(both[k - 1]) <=> is_wide_lead(line[k - 1])
          OBVIOUS
        <5>1. k - 1 # c - 1 /\ k - 1 # c /\ k - 1 # c + 1
          BY <1>0, <3>6 DEF Cols
        <5>2. CASE k - 1 = c + 2 /\ line[k - 1].wide_continuation
          BY <2>7, <3>2, <5>1, <5>2, CellTypes DEF is_wide_lead
        <5>3. CASE ~(k - 1 = c + 2 /\ line[k - 1].wide_continuation)
          BY <2>7, <3>2, <5>1, <5>3
        <5>. QED
          BY <5>2, <5>3
      <4>. QED
        BY <1>0, <4>1, <4>2, <4>3
    <3>. QED
      BY <3>3, <3>4, <3>5, <3>6
  <2>. QED
    BY <2>3, <2>8, <2>9 DEF Lines
<1>. QED
  BY <1>7, <1>8

\* The functions that move and blank rows.
LEMMA Scrolled ==
    ASSUME NEW b \in Screens, NEW top \in Rows, NEW bottom \in Rows, NEW n \in Nat
    PROVE  scroll_up_region(b, top, bottom, n) \in Screens /\ scroll_down_region(b, top, bottom, n) \in Screens
<1>1. /\ \A r \in Rows : r + n <= bottom => r + n \in Rows
      /\ \A r \in Rows : r - n >= top => r - n \in Rows
  BY SizeAssumption DEF Rows
<1>2. \A r \in Rows : b[r] \in Lines
  BY DEF Screens
<1>3. scroll_up_region(b, top, bottom, n) \in Screens
  BY <1>1, <1>2, BlankLines DEF scroll_up_region, Screens
<1>4. scroll_down_region(b, top, bottom, n) \in Screens
  BY <1>1, <1>2, BlankLines DEF scroll_down_region, Screens
<1>. QED
  BY <1>3, <1>4

LEMMA LinefeedDrawable ==
    ASSUME Grid, NEW b \in Screens, NEW r \in Rows
    PROVE  LinefeedBuffer(b, r) \in Screens /\ LinefeedRow(r) \in Rows
<1>1. scroll_top \in Rows /\ scroll_bottom \in Rows /\ 0 \in Rows /\ rows - 1 \in Rows
  BY SizeAssumption DEF Grid, Inside, Rows
<1>2. LinefeedBuffer(b, r) \in Screens
  BY <1>1, Scrolled DEF LinefeedBuffer
<1>3. LinefeedRow(r) \in Rows
  BY SizeAssumption DEF LinefeedRow, Rows
<1>. QED
  BY <1>2, <1>3

LEMMA RowChanged ==
    ASSUME NEW b \in Screens, NEW r \in Rows, NEW line \in Lines
    PROVE  [b EXCEPT ![r] = line] \in Screens
BY DEF Screens

LEMMA LineCells ==
    ASSUME NEW b \in Screens, NEW r \in Rows
    PROVE  b[r] \in Lines /\ b[r] \in [Cols -> Cells] /\ \A c \in Cols : b[r][c] \in Cells
BY DEF Screens, Lines

LEMMA ClearedRange ==
    ASSUME NEW b \in Screens, NEW r \in Rows, NEW from, NEW end
    PROVE  clear_row_range(b, r, from, end) \in Screens
<1>1. PICK line : line = [c \in Cols |-> IF from <= c /\ c < end THEN Blank ELSE b[r][c]]
  OBVIOUS
<1>2. line \in [Cols -> Cells]
  BY <1>1, LineCells, CellTypes
<1>3. sanitize_row(line) \in Lines
  BY <1>2, Sanitized
<1>. QED
  BY <1>1, <1>3, RowChanged DEF clear_row_range

LEMMA RowsBlanked ==
    ASSUME NEW b \in Screens, NEW gone
    PROVE  [r \in Rows |-> IF r \in gone THEN blank_row ELSE b[r]] \in Screens
BY BlankLines DEF Screens

LEMMA PutDrawable ==
    ASSUME Grid, buffer \in Screens, NEW ch \in Characters, put_char(ch)
    PROVE  buffer' \in Screens
<1>0. /\ cols \in Nat /\ cols >= 2 /\ rows \in Nat /\ cursor_row \in Rows /\ cursor_col \in Cols
      /\ char_width(ch) \in {1, 2} /\ char_width(ch) > 0
  BY SizeAssumption DEF Grid, Inside, put_char, char_width
<1>1. PICK early : early = (char_width(ch) = 2 /\ cursor_col = cols - 1)
  OBVIOUS
<1>2. PICK row : row = IF early THEN LinefeedRow(cursor_row) ELSE cursor_row
  OBVIOUS
<1>3. PICK col : col = IF early THEN 0 ELSE cursor_col
  OBVIOUS
<1>4. PICK moved : moved = IF early THEN LinefeedBuffer(buffer, cursor_row) ELSE buffer
  OBVIOUS
<1>5. PICK written : written = [moved EXCEPT ![row] = Written(moved[row], col, ch)]
  OBVIOUS
<1>6. buffer' = IF col + char_width(ch) >= cols THEN LinefeedBuffer(written, row) ELSE written
  BY <1>1, <1>2, <1>3, <1>4, <1>5 DEF put_char
<1>7. row \in Rows /\ moved \in Screens
  BY <1>0, <1>2, <1>4, LinefeedDrawable
<1>8. col \in Cols /\ col + char_width(ch) <= cols
  <2>1. CASE early
    BY <1>0, <1>3, <2>1 DEF Cols
  <2>2. CASE ~early
    <3>1. col = cursor_col /\ ~(char_width(ch) = 2 /\ cursor_col = cols - 1)
      BY <1>1, <1>3, <2>2
    <3>. QED
      BY <1>0, <3>1 DEF Cols
  <2>. QED
    BY <2>1, <2>2
<1>9. Written(moved[row], col, ch) \in Lines
  BY <1>0, <1>7, <1>8, LineCells, WrittenLine
<1>10. written \in Screens
  BY <1>5, <1>7, <1>9, RowChanged
<1>. QED
  BY <1>6, <1>7, <1>10, LinefeedDrawable

\* A mark changes neither the character of a cell nor what it is half of.
LEMMA MarkDrawable ==
    ASSUME buffer \in Screens, NEW ch, append_combining_char(ch)
    PROVE  buffer' \in Screens
<1>1. buffer' = [r \in Rows |-> [c \in Cols |->
                    IF <<r, c>> \in MarkedCell THEN [buffer[r][c] EXCEPT !.marked = TRUE] ELSE buffer[r][c]]]
  BY DEF append_combining_char
<1>2. ASSUME NEW r \in Rows PROVE buffer'[r] \in Lines
  <2>1. PICK line : line = buffer'[r]
    OBVIOUS
  <2>2. PICK old : old = buffer[r]
    OBVIOUS
  <2>3. old \in Lines /\ \A c \in Cols : old[c] \in Cells
    BY <2>2, LineCells
  <2>4. /\ line = [c \in Cols |-> line[c]]
        /\ \A c \in Cols : line[c] = old[c] \/ line[c] = [old[c] EXCEPT !.marked = TRUE]
    BY <1>1, <2>1, <2>2
  <2>5. ASSUME NEW c \in Cols
        PROVE  /\ line[c] \in Cells
               /\ line[c].wide_continuation = old[c].wide_continuation
               /\ is_wide_lead(line[c]) <=> is_wide_lead(old[c])
    BY <2>3, <2>4 DEF Cells, is_wide_lead
  <2>6. line \in [Cols -> Cells]
    BY <2>4, <2>5
  <2>7. \A c \in Cols : c > 0 => c - 1 \in Cols
    BY SizeAssumption DEF Cols
  <2>8. ASSUME NEW c \in Cols
        PROVE  /\ line[c].wide_continuation <=> c > 0 /\ is_wide_lead(line[c - 1])
               /\ is_wide_lead(line[c]) => c < cols - 1
    BY <2>3, <2>5, <2>7 DEF Lines
  <2>. QED
    BY <2>1, <2>6, <2>8 DEF Lines
<1>. QED
  BY <1>1, <1>2 DEF Screens

LEMMA CellDrawable ==
    ASSUME Grid, buffer \in Screens, CellCall
    PROVE  buffer' \in Screens
<1>0. /\ cursor_row \in Rows /\ scroll_top \in Rows /\ scroll_bottom \in Rows
      /\ cursor_col \in Cols /\ cols \in Nat
  BY SizeAssumption DEF Grid, Inside
<1>1. ASSUME NEW line \in [Cols -> Cells], ChangeRow(line) PROVE buffer' \in Screens
  <2>1. sanitize_row(line) \in Lines
    BY Sanitized
  <2>2. buffer' = [buffer EXCEPT ![cursor_row] = sanitize_row(line)]
    BY <1>1 DEF ChangeRow, Change
  <2>. QED
    BY <1>0, <2>1, <2>2, RowChanged
<1>2. ASSUME NEW s \in Styles, SelectGraphicRendition(s) PROVE buffer' \in Screens
  BY <1>2 DEF SelectGraphicRendition
<1>3. ASSUME NEW p \in Params, EraseInDisplay(p) PROVE buffer' \in Screens
  <2> DEFINE Whole(gone) == [r \in Rows |-> IF r \in gone THEN blank_row ELSE buffer[r]]
  <2>1. buffer' = IF p = 0 THEN clear_row_range(Whole((cursor_row + 1)..(rows - 1)),
                                                cursor_row, cursor_col, cols)
                  ELSE IF p = 1 THEN clear_row_range(Whole(0..(cursor_row - 1)),
                                                     cursor_row, 0, cursor_col + 1)
                  ELSE IF p \in {2, 3} THEN Whole(Rows)
                  ELSE buffer
    BY <1>3 DEF EraseInDisplay, Change
  <2>2. \A gone : Whole(gone) \in Screens
    BY RowsBlanked
  <2> HIDE DEF Whole
  <2>. QED
    BY <1>0, <2>1, <2>2, ClearedRange
<1>4. ASSUME NEW p \in Params, EraseInLine(p) PROVE buffer' \in Screens
  BY <1>0, <1>4, ClearedRange DEF EraseInLine, Change
<1>5. ASSUME NEW p \in Params, insert_blank_chars(p) PROVE buffer' \in Screens
  <2>1. PICK count : count = Smaller(param_at(p, 1), cols - cursor_col)
    OBVIOUS
  <2>2. count \in Nat
    BY <1>0, <2>1, ParamNat DEF Smaller, Cols
  <2>3. PICK line : line = [c \in Cols |->
                        IF c < cursor_col THEN buffer[cursor_row][c]
                        ELSE IF c < cursor_col + count THEN Blank ELSE buffer[cursor_row][c - count]]
    OBVIOUS
  <2>4. \A c \in Cols : c >= cursor_col + count => c - count \in Cols
    BY <1>0, <2>2 DEF Cols
  <2>5. \A c \in Cols : c < cursor_col + count \/ c >= cursor_col + count
    BY <1>0, <2>2 DEF Cols
  <2>6. line \in [Cols -> Cells]
    BY <1>0, <2>3, <2>4, <2>5, LineCells, CellTypes
  <2>7. ChangeRow(line)
    BY <1>5, <2>1, <2>3 DEF insert_blank_chars
  <2>. QED
    BY <1>1, <2>6, <2>7
<1>6. ASSUME NEW p \in Params, delete_chars(p) PROVE buffer' \in Screens
  <2>1. PICK count : count = Smaller(param_at(p, 1), cols - cursor_col)
    OBVIOUS
  <2>2. count \in Nat
    BY <1>0, <2>1, ParamNat DEF Smaller, Cols
  <2>3. PICK line : line = [c \in Cols |->
                        IF c < cursor_col THEN buffer[cursor_row][c]
                        ELSE IF c + count < cols THEN buffer[cursor_row][c + count] ELSE Blank]
    OBVIOUS
  <2>4. \A c \in Cols : c + count < cols => c + count \in Cols
    BY <1>0, <2>2 DEF Cols
  <2>5. line \in [Cols -> Cells]
    BY <1>0, <2>3, <2>4, LineCells, CellTypes
  <2>6. ChangeRow(line)
    BY <1>6, <2>1, <2>3 DEF delete_chars
  <2>. QED
    BY <1>1, <2>5, <2>6
<1>7. ASSUME NEW p \in Params, erase_chars(p) PROVE buffer' \in Screens
  <2>1. PICK line : line = [c \in Cols |->
                        IF c < cursor_col \/ c >= cursor_col + param_at(p, 1)
                        THEN buffer[cursor_row][c] ELSE Blank]
    OBVIOUS
  <2>2. line \in [Cols -> Cells]
    BY <1>0, <2>1, LineCells, CellTypes
  <2>3. ChangeRow(line)
    BY <1>7, <2>1 DEF erase_chars
  <2>. QED
    BY <1>1, <2>2, <2>3
<1>8. ASSUME NEW p \in Params, insert_lines(p) \/ delete_lines(p) \/ ScrollUp(p) \/ ScrollDown(p)
      PROVE  buffer' \in Screens
  <2>1. param_at(p, 1) \in Nat
    BY ParamNat
  <2>. QED
    BY <1>0, <1>8, <2>1, Scrolled DEF insert_lines, delete_lines, ScrollUp, ScrollDown, Change
<1>. QED
  BY <1>2, <1>3, <1>4, <1>5, <1>6, <1>7, <1>8 DEF CellCall

LEMMA ScreenDrawable ==
    ASSUME IInv, Drawable, ScreenCall
    PROVE  buffer' \in Screens
<1>1. CASE reverse_index
  <2>1. scroll_top \in Rows /\ scroll_bottom \in Rows /\ 1 \in Nat
    BY DEF IInv, Grid, Inside
  <2>. QED
    BY <1>1, <2>1, Scrolled DEF reverse_index, Drawable
<1>2. ASSUME NEW p \in Params, NEW q \in Params, set_scroll_region(p, q) PROVE buffer' \in Screens
  BY <1>2 DEF set_scroll_region, Drawable
<1>3. CASE enter_alternate_screen
  BY <1>3, BlankLines DEF enter_alternate_screen
<1>4. CASE leave_alternate_screen
  <2>1. saved_main_screen = <<main_seen>>
    BY <1>4 DEF leave_alternate_screen, IInv, MainInv
  <2>2. buffer' = main_seen.buffer
    BY <1>4, <2>1 DEF leave_alternate_screen
  <2>. QED
    BY <2>2 DEF Drawable
<1>5. CASE reset_terminal
  BY <1>5, BlankLines DEF reset_terminal
<1>. QED
  BY <1>1, <1>2, <1>3, <1>4, <1>5 DEF ScreenCall

LEMMA DrawableStep ==
    ASSUME IInv, Drawable, [SNext]_all_vars
    PROVE  Drawable'
<1>0. Grid /\ cursor_row \in Rows
  BY DEF IInv, Grid, Inside
<1>1. CASE UNCHANGED all_vars
  BY <1>1 DEF all_vars, vars, Drawable
<1>2. CASE SNext
  <2>1. ASSUME PrintCall PROVE buffer' \in Screens
    BY <1>0, <2>1, PutDrawable, MarkDrawable DEF PrintCall, Drawable
  <2>2. ASSUME ControlCall PROVE buffer' \in Screens
    <3>1. ASSUME NEW home \in BOOLEAN, linefeed(home) PROVE buffer' \in Screens
      BY <1>0, <3>1, LinefeedDrawable DEF linefeed, Drawable
    <3>2. ASSUME CarriageReturn \/ Tab \/ Backspace PROVE buffer' = buffer
      BY <3>2 DEF CarriageReturn, Tab, Backspace, MoveTo
    <3>. QED
      BY <2>2, <3>1, <3>2 DEF ControlCall, Drawable
  <2>3. ASSUME CursorCall PROVE buffer' \in Screens
    <3>1. buffer' = buffer
      BY <2>3 DEF CursorCall, CursorUp, CursorDown, CursorForward, CursorBack, CursorNextLine,
                  CursorPreviousLine, CursorColumn, CursorLine, CursorPosition, SaveCursor,
                  RestoreCursor, MoveTo, vars
    <3>. QED
      BY <3>1 DEF Drawable
  <2>4. ASSUME CellCall PROVE buffer' \in Screens
    BY <1>0, <2>4, CellDrawable DEF Drawable
  <2>5. ASSUME ScreenCall PROVE buffer' \in Screens
    BY <2>5, ScreenDrawable
  <2>6. buffer' \in Screens
    BY <1>2, <2>1, <2>2, <2>3, <2>4, <2>5 DEF SNext, Drawable
  <2>7. main_seen' = main_seen \/ main_seen'.buffer = buffer'
    BY <1>2 DEF SNext, Watch, SavedScreen
  <2>. QED
    BY <2>6, <2>7 DEF Drawable
<1>. QED
  BY <1>1, <1>2

LEMMA InitDrawable == SInit => Drawable
BY BlankLines DEF SInit, Init, SavedScreen, Drawable

\* However characters of one and two columns are printed, overwritten, moved,
\* cut off and erased, on either screen and at every size of the grid, each
\* row is drawn as wide as the grid and each character in the column of its
\* cell: clear_overlapped_cell and sanitize_row leave no half of a wide
\* character behind, so that `lines` may leave continuations out.
THEOREM RowsDrawnAligned == SSpec => []DrawnAligned
<1>1. Drawable => DrawnAligned
  <2> SUFFICES ASSUME Drawable, NEW r \in Rows
               PROVE  /\ \A c \in Cols : buffer[r][c].wide_continuation \/ lines(buffer[r])[c] = c
                      /\ lines(buffer[r])[cols] = cols
    BY DEF DrawnAligned
  <2>1. buffer[r] \in Lines
    BY LineCells DEF Drawable
  <2>. QED
    BY <2>1, Drawn
<1>. QED
  BY <1>1, InitDrawable, DrawableStep, Invariance, PTL DEF SSpec

=============================================================================
