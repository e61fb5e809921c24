------------------------------ MODULE Console ------------------------------
(* kernel/src/logger.rs: text on the framebuffer.  Logger::write_char puts a  *)
(* glyph at the cursor, wraps lines that are full and scrolls.  A pixel row   *)
(* of the screen is modelled by the number of pixel rows of text that have    *)
(* come after it, so the text is in order if these count down to the cursor.  *)
EXTENDS Integers

CONSTANTS
    hor_res,  \* width of the screen in pixels
    ver_res,  \* height of the screen in pixels
    FONT,     \* height of a glyph, 20 in the code
    WIDTH     \* width of a glyph

\* A glyph fits on the screen, and is narrower.
ASSUME ConsoleAssumption ==
    /\ {hor_res, ver_res, FONT, WIDTH} \subseteq Nat \ {0}
    /\ WIDTH < hor_res
    /\ FONT <= ver_res

VARIABLES
    x_pos, y_pos, \* the cursor
    screen,       \* what each pixel row shows
    fresh         \* no glyph has been drawn since the last new line

console == <<x_pos, y_pos, screen, fresh>>

BLANK == -1
Rows == 0..(ver_res - 1)

ConsoleTypeOK ==
    /\ x_pos \in Nat
    /\ y_pos \in Nat
    /\ screen \in [Rows -> Nat \cup {BLANK}]
    /\ fresh \in BOOLEAN

-----------------------------------------------------------------------------
\* Logger::new and clear
ConsoleInit ==
    /\ x_pos = 0
    /\ y_pos = 0
    /\ screen = [r \in Rows |-> BLANK]
    /\ fresh = TRUE

\* Mutant: the text moves up by a whole glyph.
ShiftWhole(y) == FONT

\* By how much write_char moves the text up if the glyph at y would not fit.
Shift(y) == FONT - (ver_res - y)

\* Row r after the text has moved up by d and the rows from ver_res - FONT on have
\* been cleared.
Scrolled(r, d) == IF r < ver_res - FONT THEN screen[r + d] ELSE BLANK

\* write_rendered_char at row y on top of rows: the glyph's rows are the last.
Drawn(rows, y, new) ==
    [r \in Rows |->
        IF r \in y..(y + FONT - 1) THEN (y + FONT) - 1 - r
        ELSE IF new /\ rows[r] # BLANK THEN rows[r] + FONT ELSE rows[r]]

\* write_char of a character with a glyph
WriteChar ==
    LET wraps == x_pos + WIDTH >= hor_res
        x == IF wraps THEN 0 ELSE x_pos
        y == IF wraps THEN y_pos + FONT ELSE y_pos
        new == fresh \/ wraps
    IN  /\ IF y > ver_res - FONT
           THEN LET d == Shift(y)
                IN  /\ y_pos' = ver_res - FONT
                    /\ screen' = Drawn([r \in Rows |-> Scrolled(r, d)], ver_res - FONT, new)
           ELSE /\ y_pos' = y
                /\ screen' = Drawn(screen, y, new)
        /\ x_pos' = x + WIDTH
        /\ fresh' = FALSE

\* Mutant: an empty line is written without its prefix.
MayEndAlways == TRUE

\* Logger::write begins every line with its prefix.
MayEnd == ~fresh

\* write_char('\n')
NewLine ==
    /\ MayEnd
    /\ y_pos' = y_pos + FONT
    /\ x_pos' = 0
    /\ fresh' = TRUE
    /\ UNCHANGED screen

\* write_char('\r')
CarriageReturn ==
    /\ x_pos' = 0
    /\ UNCHANGED <<y_pos, screen, fresh>>

ConsoleNext == WriteChar \/ NewLine \/ CarriageReturn

ConsoleSpec == ConsoleInit /\ [][ConsoleNext]_console

-----------------------------------------------------------------------------
\* The row below the last line of text.
Bottom == IF fresh THEN y_pos ELSE y_pos + FONT

\* The cursor never leaves the screen, so that neither the subtraction of y_pos from
\* ver_res overflows nor a pixel is written outside the framebuffer.
CursorInside == x_pos < hor_res /\ Bottom <= ver_res

\* Above the cursor the screen shows the last rows of the text that was written, in
\* order and without a gap, whatever wraps and scrolls came before; below, nothing.
TextIsWhole ==
    \A r \in Rows : screen[r] = IF r < Bottom THEN Bottom - 1 - r ELSE BLANK
=============================================================================
