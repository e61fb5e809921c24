--------------------------- MODULE ConsoleProofs ---------------------------
(* Proofs about Console, for every size of the screen and of the glyphs.      *)
EXTENDS Console, TLAPS

\* Strengthened by where a line begins: a line that has just begun does not wrap.
ConsoleInv == ConsoleTypeOK /\ CursorInside /\ TextIsWhole /\ (fresh => x_pos = 0)

LEMMA InitConsoleInv == ConsoleInit => ConsoleInv
  BY ConsoleAssumption
  DEF ConsoleInit, ConsoleInv, ConsoleTypeOK, CursorInside, TextIsWhole, Bottom, Rows, BLANK

\* Drawing a glyph in the rows below text that ends at row y.
LEMMA DrawnBelow ==
    ASSUME NEW y \in Nat, y + FONT <= ver_res, NEW rows \in [Rows -> Nat \cup {BLANK}],
           \A r \in Rows : rows[r] = IF r < y THEN y - 1 - r ELSE BLANK
    PROVE  /\ Drawn(rows, y, TRUE) \in [Rows -> Nat \cup {BLANK}]
           /\ \A r \in Rows : Drawn(rows, y, TRUE)[r] =
                IF r < y + FONT THEN (y + FONT) - 1 - r ELSE BLANK
  <1> DEFINE new == Drawn(rows, y, TRUE)
  <1>1. ver_res \in Nat /\ FONT \in Nat
    BY ConsoleAssumption
  <1>2. ASSUME NEW r \in Rows
        PROVE  new[r] = IF r < y + FONT THEN (y + FONT) - 1 - r ELSE BLANK
    <2>1. r \in Nat /\ rows[r] = IF r < y THEN y - 1 - r ELSE BLANK
      BY <1>1 DEF Rows
    <2>2. new[r] = IF r \in y..(y + FONT - 1) THEN (y + FONT) - 1 - r
                   ELSE IF rows[r] # BLANK THEN rows[r] + FONT ELSE rows[r]
      BY DEF Drawn
    <2> HIDE DEF new
    <2>3. CASE r < y
      <3>1. rows[r] = y - 1 - r /\ rows[r] # BLANK /\ r \notin y..(y + FONT - 1)
        BY <1>1, <2>1, <2>3 DEF BLANK
      <3>2. new[r] = (y - 1 - r) + FONT
        BY <2>2, <3>1, Zenon
      <3>3. r < y + FONT
        BY <1>1, <2>1, <2>3
      <3>4. (y - 1 - r) + FONT = (y + FONT) - 1 - r
        BY <1>1, <2>1
      <3> QED BY <3>2, <3>3, <3>4
    <2>4. CASE r >= y
      BY <1>1, <2>1, <2>2, <2>4
    <2> QED BY <2>1, <2>3, <2>4
  <1>3. new = [r \in Rows |-> new[r]]
    BY DEF Drawn
  <1> HIDE DEF new
  <1>4. \A r \in Rows : new[r] \in Nat \cup {BLANK}
    BY <1>1, <1>2 DEF Rows, BLANK
  <1>5. new \in [Rows -> Nat \cup {BLANK}]
    BY <1>3, <1>4, Zenon
  <1> QED BY <1>2, <1>5 DEF new

\* Drawing a glyph in the last line of the text again.
LEMMA DrawnOver ==
    ASSUME NEW y \in Nat, y + FONT <= ver_res, NEW rows \in [Rows -> Nat \cup {BLANK}],
           \A r \in Rows : rows[r] = IF r < y + FONT THEN (y + FONT) - 1 - r ELSE BLANK
    PROVE  /\ Drawn(rows, y, FALSE) \in [Rows -> Nat \cup {BLANK}]
           /\ \A r \in Rows : Drawn(rows, y, FALSE)[r] =
                IF r < y + FONT THEN (y + FONT) - 1 - r ELSE BLANK
  <1> DEFINE new == Drawn(rows, y, FALSE)
  <1>1. ver_res \in Nat /\ FONT \in Nat
    BY ConsoleAssumption
  <1>2. ASSUME NEW r \in Rows
        PROVE  new[r] = IF r < y + FONT THEN (y + FONT) - 1 - r ELSE BLANK
    <2>1. r \in Nat /\ rows[r] = IF r < y + FONT THEN (y + FONT) - 1 - r ELSE BLANK
      BY <1>1 DEF Rows
    <2>2. new[r] = IF r \in y..(y + FONT - 1) THEN (y + FONT) - 1 - r ELSE rows[r]
      BY DEF Drawn
    <2>3. r \in y..(y + FONT - 1) => r < y + FONT
      BY <1>1, <2>1
    <2> HIDE DEF new
    <2> QED BY <2>1, <2>2, <2>3
  <1>3. new = [r \in Rows |-> new[r]]
    BY DEF Drawn
  <1> HIDE DEF new
  <1>4. \A r \in Rows : new[r] \in Nat \cup {BLANK}
    BY <1>1, <1>2 DEF Rows, BLANK
  <1>5. new \in [Rows -> Nat \cup {BLANK}]
    BY <1>3, <1>4, Zenon
  <1> QED BY <1>2, <1>5 DEF new

\* Scrolling text that ends at row y, which leaves no room for a glyph, makes room.
LEMMA ScrolledText ==
    ASSUME NEW y \in Nat, y > ver_res - FONT, y <= ver_res,
           screen \in [Rows -> Nat \cup {BLANK}],
           \A r \in Rows : screen[r] = IF r < y THEN y - 1 - r ELSE BLANK,
           NEW rows, rows = [r \in Rows |-> Scrolled(r, Shift(y))]
    PROVE  /\ ver_res - FONT \in Nat
           /\ rows \in [Rows -> Nat \cup {BLANK}]
           /\ \A r \in Rows : rows[r] =
                IF r < ver_res - FONT THEN ver_res - FONT - 1 - r ELSE BLANK
  <1>1. ver_res \in Nat /\ FONT \in Nat /\ ver_res - FONT \in Nat
    BY ConsoleAssumption
  <1>2. Shift(y) \in Nat /\ Shift(y) = FONT - (ver_res - y)
    BY <1>1 DEF Shift
  <1>3. ASSUME NEW r \in Rows
        PROVE  rows[r] = IF r < ver_res - FONT THEN ver_res - FONT - 1 - r ELSE BLANK
    <2>1. rows[r] = Scrolled(r, Shift(y))
      OBVIOUS
    <2>2. CASE r < ver_res - FONT
      <3>1. r + Shift(y) \in Rows /\ r + Shift(y) < y
        BY <1>1, <1>2, <2>2 DEF Rows
      <3>2. screen[r + Shift(y)] = y - 1 - (r + Shift(y))
        BY <3>1
      <3>3. y - 1 - (r + Shift(y)) = ver_res - FONT - 1 - r
        BY <1>1, <1>2 DEF Rows
      <3> QED BY <2>1, <2>2, <3>2, <3>3 DEF Scrolled
    <2>3. CASE ~(r < ver_res - FONT)
      BY <2>1, <2>3 DEF Scrolled
    <2> QED BY <2>2, <2>3
  <1>4. \A r \in Rows : rows[r] \in Nat \cup {BLANK}
    BY <1>1, <1>3 DEF Rows, BLANK
  <1> QED BY <1>1, <1>3, <1>4

\* What is left to show after a glyph has been drawn.
LEMMA AfterGlyph ==
    ASSUME fresh' = FALSE, x_pos' \in Nat, x_pos' < hor_res, y_pos' \in Nat,
           y_pos' + FONT <= ver_res, screen' \in [Rows -> Nat \cup {BLANK}],
           \A r \in Rows : screen'[r] =
                IF r < y_pos' + FONT THEN (y_pos' + FONT) - 1 - r ELSE BLANK
    PROVE  ConsoleInv'
  <1>0. Bottom' = y_pos' + FONT
    BY DEF Bottom
  <1>1. TextIsWhole'
    <2> SUFFICES ASSUME NEW r \in Rows
                 PROVE  screen'[r] = IF r < Bottom' THEN Bottom' - 1 - r ELSE BLANK
      BY DEF TextIsWhole
    <2>1. screen'[r] = IF r < y_pos' + FONT THEN (y_pos' + FONT) - 1 - r ELSE BLANK
      OBVIOUS
    <2> QED BY <1>0, <2>1, Zenon
  <1>2. ConsoleTypeOK' /\ CursorInside'
    BY <1>0 DEF ConsoleTypeOK, CursorInside
  <1> QED BY <1>1, <1>2 DEF ConsoleInv

LEMMA StepConsoleInv == ConsoleInv /\ [ConsoleNext]_console => ConsoleInv'
  <1> SUFFICES ASSUME ConsoleInv, [ConsoleNext]_console PROVE ConsoleInv'
    OBVIOUS
  <1>0. /\ hor_res \in Nat /\ ver_res \in Nat /\ FONT \in Nat /\ WIDTH \in Nat
        /\ WIDTH < hor_res /\ FONT <= ver_res /\ FONT > 0
        /\ x_pos \in Nat /\ y_pos \in Nat /\ fresh \in BOOLEAN
        /\ screen \in [Rows -> Nat \cup {BLANK}]
    BY ConsoleAssumption DEF ConsoleInv, ConsoleTypeOK
  <1>1. CASE WriteChar
    <2> DEFINE wraps == x_pos + WIDTH >= hor_res
               x == IF wraps THEN 0 ELSE x_pos
               y == IF wraps THEN y_pos + FONT ELSE y_pos
    <2>1. /\ x_pos' = x + WIDTH /\ fresh' = FALSE
          /\ IF y > ver_res - FONT
             THEN /\ y_pos' = ver_res - FONT
                  /\ screen' = Drawn([r \in Rows |-> Scrolled(r, Shift(y))], ver_res - FONT,
                                     fresh \/ wraps)
             ELSE y_pos' = y /\ screen' = Drawn(screen, y, fresh \/ wraps)
      BY <1>1 DEF WriteChar
    <2>2. x + WIDTH \in Nat /\ x + WIDTH < hor_res
      BY <1>0
    <2>3. y \in Nat /\ x_pos' \in Nat /\ x_pos' < hor_res /\ fresh' = FALSE
      BY <1>0, <2>1, <2>2
    <2>4. CASE ~fresh /\ ~wraps
      <3>0. Bottom = y_pos + FONT /\ Bottom <= ver_res
        BY <2>4 DEF ConsoleInv, CursorInside, Bottom
      <3>1. y = y_pos /\ y_pos + FONT <= ver_res
        BY <2>4, <3>0
      <3>2. \A r \in Rows : screen[r] = IF r < y_pos + FONT THEN (y_pos + FONT) - 1 - r ELSE BLANK
        <4> SUFFICES ASSUME NEW r \in Rows
                     PROVE  screen[r] = IF r < y_pos + FONT THEN (y_pos + FONT) - 1 - r ELSE BLANK
          OBVIOUS
        <4>1. screen[r] = IF r < Bottom THEN Bottom - 1 - r ELSE BLANK
          BY DEF ConsoleInv, TextIsWhole
        <4> QED BY <3>0, <4>1, Zenon
      <3>3. y_pos' = y_pos /\ screen' = Drawn(screen, y_pos, FALSE)
        <4>1. ~(y > ver_res - FONT)
          BY <1>0, <3>1
        <4>2. (fresh \/ wraps) = FALSE
          BY <2>4
        <4> QED BY <2>1, <3>1, <4>1, <4>2
      <3>4. /\ screen' \in [Rows -> Nat \cup {BLANK}]
            /\ \A r \in Rows : screen'[r] = IF r < y_pos + FONT THEN (y_pos + FONT) - 1 - r ELSE BLANK
        BY <1>0, <3>1, <3>2, <3>3, DrawnOver
      <3>5. y_pos' \in Nat /\ y_pos' + FONT <= ver_res
        BY <1>0, <3>0, <3>3
      <3> QED BY <2>3, <3>3, <3>4, <3>5, AfterGlyph
    <2>5. CASE fresh \/ wraps
      <3>1. y <= ver_res /\ \A r \in Rows : screen[r] = IF r < y THEN y - 1 - r ELSE BLANK
        <4>1. CASE ~fresh /\ wraps
          BY <4>1 DEF ConsoleInv, CursorInside, TextIsWhole, Bottom
        <4>2. CASE fresh /\ ~wraps
          BY <4>2 DEF ConsoleInv, CursorInside, TextIsWhole, Bottom
        <4>3. CASE fresh /\ wraps
          BY <1>0, <4>3 DEF ConsoleInv
        <4> QED BY <2>5, <4>1, <4>2, <4>3
      <3> HIDE DEF y, x
      <3>2. CASE y > ver_res - FONT
        <4> DEFINE rows == [r \in Rows |-> Scrolled(r, Shift(y))]
                   z == ver_res - FONT
        <4>1. y_pos' = z /\ screen' = Drawn(rows, z, TRUE)
          BY <2>1, <2>5, <3>2
        <4>2. /\ z \in Nat /\ rows \in [Rows -> Nat \cup {BLANK}]
              /\ \A r \in Rows : rows[r] = IF r < z THEN z - 1 - r ELSE BLANK
          BY <1>0, <2>3, <3>1, <3>2, ScrolledText
        <4>3. z + FONT = ver_res
          BY <1>0
        <4> HIDE DEF rows, z
        <4>4. /\ screen' \in [Rows -> Nat \cup {BLANK}]
              /\ \A r \in Rows : screen'[r] = IF r < z + FONT THEN (z + FONT) - 1 - r ELSE BLANK
          <5>1. z + FONT <= ver_res
            BY <1>0, <4>3
          <5> QED BY <4>1, <4>2, <5>1, DrawnBelow
        <4>5. y_pos' \in Nat /\ y_pos' + FONT <= ver_res
          BY <1>0, <4>1, <4>2, <4>3
        <4> QED BY <2>3, <4>1, <4>4, <4>5, AfterGlyph
      <3>3. CASE ~(y > ver_res - FONT)
        <4>1. y_pos' = y /\ screen' = Drawn(screen, y, TRUE)
          BY <2>1, <2>5, <3>3
        <4>2. y + FONT <= ver_res
          BY <1>0, <2>3, <3>3
        <4>3. /\ screen' \in [Rows -> Nat \cup {BLANK}]
              /\ \A r \in Rows : screen'[r] = IF r < y + FONT THEN (y + FONT) - 1 - r ELSE BLANK
          BY <1>0, <2>3, <3>1, <4>1, <4>2, DrawnBelow
        <4>4. y_pos' \in Nat /\ y_pos' + FONT <= ver_res
          BY <2>3, <4>1, <4>2
        <4> QED BY <2>3, <4>1, <4>3, <4>4, AfterGlyph
      <3> QED BY <3>2, <3>3
    <2> QED BY <1>0, <2>4, <2>5
  <1>2. CASE NewLine
    <2>1. /\ ~fresh /\ fresh' = TRUE /\ x_pos' = 0
          /\ y_pos' = y_pos + FONT /\ screen' = screen
      BY <1>2 DEF NewLine, MayEnd
    <2>2. Bottom' = Bottom
      BY <2>1 DEF Bottom
    <2> QED BY <1>0, <2>1, <2>2 DEF ConsoleInv, ConsoleTypeOK, CursorInside, TextIsWhole
  <1>3. CASE CarriageReturn
    BY <1>0, <1>3 DEF CarriageReturn, ConsoleInv, ConsoleTypeOK, CursorInside, TextIsWhole, Bottom
  <1>4. CASE UNCHANGED console
    BY <1>4 DEF console, ConsoleInv, ConsoleTypeOK, CursorInside, TextIsWhole, Bottom
  <1> QED BY <1>1, <1>2, <1>3, <1>4 DEF ConsoleNext

LEMMA ConsoleInvHolds == ConsoleSpec => []ConsoleInv
  BY InitConsoleInv, StepConsoleInv, PTL DEF ConsoleSpec

-----------------------------------------------------------------------------
\* The cursor of the console stays on the screen, however long lines are.
THEOREM CursorStaysInside == ConsoleSpec => []CursorInside
  <1>1. ConsoleInv => CursorInside
    BY DEF ConsoleInv
  <1> QED BY <1>1, ConsoleInvHolds, PTL

\* Scrolling keeps the last lines of the text whole and in order, also on a screen
\* whose height is no multiple of the glyphs'.
THEOREM TextStaysWhole == ConsoleSpec => []TextIsWhole
  <1>1. ConsoleInv => TextIsWhole
    BY DEF ConsoleInv
  <1> QED BY <1>1, ConsoleInvHolds, PTL
=============================================================================
