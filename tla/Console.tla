------------------------------ MODULE Console ------------------------------
(***************************************************************************)
(* src/console.c, as the command "con" uses it: create_console() makes an  *)
(* image and the pictures of a font, write_console() draws a character at  *)
(* the cursor, moves it, starts a new line and scrolls.                    *)
(*                                                                         *)
(* Characters are numbered in the order they are written, and shows is the *)
(* number of the character that a pixel of the display belongs to.         *)
(***************************************************************************)
EXTENDS Integers, FiniteSets

CONSTANTS DisplaySizes, \* widths and heights of the display; con has 200
          GlyphSizes,   \* widths and heights of a rendered character
          MaxWrites     \* bound on the characters; con writes 3

ConsoleAssumption ==
    /\ DisplaySizes \cup GlyphSizes \subseteq Nat
    /\ MaxWrites \in Nat

VARIABLES pc,      \* "console", "ready", "done"; "null" when there is none,
                   \* "hung" in scroll_image(), "fault" after a null pointer
                   \* or a store behind the block of the display
          display, \* width and height of the display
          render,  \* those of a rendered character
          x, y,    \* the cursor
          written, \* characters written so far
          shows    \* the character in each pixel, 0 for none

vars == <<pc, display, render, x, y, written, shows>>

Size(S) == [width: S, height: S]

Pixels(s) == (0 .. s.width - 1) \X (0 .. s.height - 1)

Init ==
    /\ pc = "console"
    /\ display \in Size(DisplaySizes)
    /\ render \in Size(GlyphSizes)
    /\ x = 0 /\ y = 0
    /\ written = 0
    /\ shows = [p \in Pixels(display) |-> 0]

(* Only the console itself is looked at when it could not be allocated: a  *)
(* display or a font that is null is followed by the first write.          *)
CreateConsole ==
    /\ pc = "console"
    /\ pc' \in {"ready", "null", "fault"}
    /\ UNCHANGED <<display, render, x, y, written, shows>>

(* insert_image() clips a character at the edges of the display. *)
Drawn ==
    {p \in Pixels(display) : /\ p[1] - x \in 0 .. render.width - 1
                             /\ p[2] - y \in 0 .. render.height - 1}

(* The font may have no such character, whose null pointer is then read;   *)
(* and allocate_image() made room for the first pixel only, so that the    *)
(* others go to whatever is behind it.                                     *)
DrawFails ==
    /\ pc = "ready"
    /\ Drawn # {}
    /\ pc' = "fault"
    /\ UNCHANGED <<display, render, x, y, written, shows>>

LineIsFull(right) == right > display.width

(* Mutant of ScreenIsFull: the screen ends with its last row. *)
ScreenEndsAtEdge(bottom) == bottom >= display.height

ScreenIsFull(bottom) == bottom > display.height

(* write_console().  Scrolling up does not return (Image, UpNeverReturns). *)
WriteConsole ==
    LET right  == x + render.width
        bottom == IF LineIsFull(right) THEN y + render.height ELSE y
    IN  /\ pc = "ready"
        /\ written < MaxWrites
        /\ written' = written + 1
        /\ shows' = [p \in Pixels(display) |-> IF p \in Drawn THEN written' ELSE shows[p]]
        /\ x' = IF LineIsFull(right) THEN 0 ELSE right
        /\ IF ScreenIsFull(bottom)
           THEN y' = bottom - render.height /\ pc' = "hung"
           ELSE y' = bottom /\ pc' = "ready"
        /\ UNCHANGED <<display, render>>

(* The command shows the display and returns; it frees nothing. *)
DisplayImage ==
    /\ pc = "ready"
    /\ pc' = "done"
    /\ UNCHANGED <<display, render, x, y, written, shows>>

Next == CreateConsole \/ DrawFails \/ WriteConsole \/ DisplayImage

Spec == Init /\ [][Next]_vars

---------------------------------------------------------------------------
TypeOK ==
    /\ pc \in {"console", "ready", "done", "null", "hung", "fault"}
    /\ display \in Size(DisplaySizes) /\ render \in Size(GlyphSizes)
    /\ x \in 0 .. display.width /\ y \in 0 .. display.height
    /\ written \in 0 .. MaxWrites
    /\ shows \in [Pixels(display) -> 0 .. MaxWrites]

(* Characters that begin in a line, and lines that begin on the display:   *)
(* the one that begins at the very edge, and shows nothing, is counted.    *)
PerLine == display.width \div render.width + 1
Lines   == display.height \div render.height + 1

Moves == render.width > 0 /\ render.height > 0

(* The cursor is where the characters written so far take it, in lines of  *)
(* PerLine; the console hangs at the end of the last line, not before and  *)
(* not after.  A font without columns or rows never gets there.            *)
CursorFollowsWrites ==
    Moves =>
        /\ pc # "hung" => /\ x = (written % PerLine) * render.width
                          /\ y = (written \div PerLine) * render.height
                          /\ written < PerLine * Lines
        /\ pc = "hung" => written = PerLine * Lines

(* What a character k shows: all of it, unless it is the last of its line  *)
(* or in the last line, of which only what is left of the display remains, *)
(* nothing at all when the display is a multiple of the character.         *)
Columns(k) == IF k % PerLine = 0 THEN display.width % render.width ELSE render.width
Rows(k)    == IF k > PerLine * (Lines - 1)
              THEN display.height % render.height ELSE render.height

(* No character is drawn over another, and each shows what fits.           *)
EveryCharacterKeepsItsPlace ==
    Moves =>
        \A k \in 1 .. written :
            Cardinality({p \in Pixels(display) : shows[p] = k}) = Columns(k) * Rows(k)
===========================================================================
