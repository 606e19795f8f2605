------------------------------ MODULE Graphics ------------------------------
(***************************************************************************)
(* The graphical commands together.  A behaviour is one call into one part *)
(* of them: "font" loads and searches a font, "glyph" draws a character of *)
(* it, "image" is an operation on images, "file" the command ri and        *)
(* "console" the command con.  The parts share names of variables (each C  *)
(* function has its own width, its own pc) but no memory, so the variables *)
(* of the parts that are not called are out of use.                        *)
(***************************************************************************)
EXTENDS Font

CONSTANTS Widths, Heights, TileSizes, Bytes, BlockWord, \* of Glyph
          Sizes, Coordinates, FixedPoint, ImageWord,    \* of Image
          Dimensions, FileSizes, FileWord, LongWord,    \* of ImageFile
          DisplaySizes, GlyphSizes, MaxWrites           \* of Console

VARIABLES part,                            \* the part that is called
          tile_size, tile, drawn, ink,
          image, source, block, overrun, args, scrollx, scrolly,
          file, room, resized,
          display, render, written, shows,
          width, height, x, y, data        \* of several parts

glyphVars == <<tile_size, tile, drawn, ink>>
imageVars == <<image, source, block, overrun, args, scrollx, scrolly>>
imageFileVars == <<file, room, resized>>
consoleVars == <<display, render, written, shows>>
sharedVars == <<width, height, x, y, data>>
fontVars == <<fileVars, entries, chars, sortVars, searchVars>>
graphicsVars == <<part, vars, glyphVars, imageVars, imageFileVars, consoleVars, sharedVars>>

Glyph == INSTANCE Glyph WITH Word <- BlockWord
Image == INSTANCE Image WITH Word <- ImageWord
ImageFile == INSTANCE ImageFile WITH Word <- FileWord
Console == INSTANCE Console

ASSUME GraphicsAssumption ==
    /\ Glyph!GlyphAssumption
    /\ Image!ImageAssumption
    /\ ImageFile!ImageFileAssumption
    /\ Console!ConsoleAssumption

NotUsed == "not used"

FontNotUsed ==
    /\ total = NotUsed /\ delivers = NotUsed /\ code = NotUsed
    /\ entries = NotUsed /\ chars = NotUsed
    /\ step = NotUsed /\ check = NotUsed /\ key = NotUsed
    /\ low = NotUsed /\ high = NotUsed /\ asked = NotUsed /\ found = NotUsed

GlyphNotUsed ==
    tile_size = NotUsed /\ tile = NotUsed /\ drawn = NotUsed /\ ink = NotUsed

ImageNotUsed ==
    /\ image = NotUsed /\ source = NotUsed /\ block = NotUsed /\ overrun = NotUsed
    /\ args = NotUsed /\ scrollx = NotUsed /\ scrolly = NotUsed

FileNotUsed == file = NotUsed /\ room = NotUsed /\ resized = NotUsed

ConsoleNotUsed ==
    display = NotUsed /\ render = NotUsed /\ written = NotUsed /\ shows = NotUsed

SizeNotUsed     == width = NotUsed /\ height = NotUsed
PositionNotUsed == x = NotUsed /\ y = NotUsed

GraphicsInit ==
    \/ /\ part = "font" /\ Init
       /\ GlyphNotUsed /\ ImageNotUsed /\ FileNotUsed /\ ConsoleNotUsed
       /\ SizeNotUsed /\ PositionNotUsed /\ data = NotUsed
    \/ /\ part = "glyph" /\ Glyph!Init
       /\ FontNotUsed /\ ImageNotUsed /\ FileNotUsed /\ ConsoleNotUsed
       /\ pc = NotUsed /\ heap = NotUsed
    \/ /\ part = "image" /\ Image!Init
       /\ FontNotUsed /\ GlyphNotUsed /\ FileNotUsed /\ ConsoleNotUsed
       /\ SizeNotUsed /\ PositionNotUsed /\ heap = NotUsed
    \/ /\ part = "file" /\ ImageFile!Init
       /\ FontNotUsed /\ GlyphNotUsed /\ ImageNotUsed /\ ConsoleNotUsed
       /\ PositionNotUsed /\ data = NotUsed
    \/ /\ part = "console" /\ Console!Init
       /\ FontNotUsed /\ GlyphNotUsed /\ ImageNotUsed /\ FileNotUsed
       /\ SizeNotUsed /\ heap = NotUsed /\ data = NotUsed

FontStep ==
    /\ part = "font" /\ Next
    /\ UNCHANGED <<part, glyphVars, imageVars, imageFileVars, consoleVars, sharedVars>>

GlyphStep ==
    /\ part = "glyph" /\ Glyph!Next
    /\ UNCHANGED <<part, vars, imageVars, imageFileVars, consoleVars>>

ImageStep(Step) ==
    /\ part = "image" /\ Step
    /\ UNCHANGED <<part, fontVars, heap, glyphVars, imageFileVars, consoleVars,
                   width, height, x, y>>

FileStep ==
    /\ part = "file" /\ ImageFile!Next
    /\ UNCHANGED <<part, fontVars, glyphVars, imageVars, consoleVars, x, y, data>>

ConsoleStep ==
    /\ part = "console" /\ Console!Next
    /\ UNCHANGED <<part, fontVars, heap, glyphVars, imageVars, imageFileVars,
                   width, height, data>>

GraphicsNext ==
    FontStep \/ GlyphStep \/ ImageStep(Image!Next) \/ FileStep \/ ConsoleStep

(* The fairness of Font and of Image: nothing here waits for anyone.       *)
GraphicsSpec ==
    /\ GraphicsInit
    /\ [][GraphicsNext]_graphicsVars
    /\ WF_graphicsVars(FontStep /\ pc # "ready")
    /\ WF_graphicsVars(ImageStep(Image!ScrollStep))

---------------------------------------------------------------------------
(* loadfont() and getcharacter(), font.c:22-60 and 140-160: what is loaded *)
(* is sorted and complete, what a search has excluded was not asked for,   *)
(* and a failed load loses at most the character that was being read.      *)
FontIsInOrder ==
    part = "font" =>
        TypeOK /\ TableIsSorted /\ SearchExcludes /\ FailedLoadLosesOne

(* renderfont(): every tile is made of its own three bits, every pixel of  *)
(* a character is set once, the block is too small for exactly those whose *)
(* size wraps, and the shapes fit together.                                *)
CharacterIsDrawn ==
    /\ [](part = "glyph" =>
              /\ Glyph!TypeOK
              /\ Glyph!EveryPixelOnce
              /\ Glyph!OverrunsWhenItWraps
              /\ Glyph!ShapesFit)
    /\ [][part = "glyph" => Glyph!ReadsItsBits]_graphicsVars

(* insert_image, fill_image, resize_image and scroll_image: they draw what *)
(* is selected, into their rectangle and nowhere else, and outside of the  *)
(* block only where allocate_image() made it too small; scrolling up does  *)
(* not return.                                                             *)
ImagesAreDrawn ==
    part = "image" =>
        /\ Image!TypeOK
        /\ Image!DrawsOnlyItsRectangle
        /\ Image!LeavesOnlyAllocated
        /\ Image!InsertsSelection
        /\ Image!ResizeIsNear
        /\ Image!UpNeverReturns

(* load_image() and ri: what is accepted is whole, everything is freed,    *)
(* and what is shown lies in its block but for two cases.                  *)
ImageFilesAreShown ==
    part = "file" =>
        /\ ImageFile!TypeOK
        /\ ImageFile!AcceptedFilesAreWhole
        /\ ImageFile!ReturnsClean
        /\ ImageFile!ShowsItsBlock

(* write_console(): the cursor is where the characters take it, and no     *)
(* character covers another.                                               *)
ConsoleKeepsItsText ==
    part = "console" =>
        /\ Console!TypeOK
        /\ Console!CursorFollowsWrites
        /\ Console!EveryCharacterKeepsItsPlace

(* loadfont() ends but for a file that is cut off, and scrolling ends but  *)
(* for scrolling up.                                                       *)
CallsEnd ==
    /\ part = "font" => LoadEnds
    /\ Image!DownReturns
===========================================================================
