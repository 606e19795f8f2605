------------------------------- MODULE Image -------------------------------
(***************************************************************************)
(* The operations of src/image.c on the pixels of an image: insert, fill,  *)
(* resize and scroll.  An image is one block of lines, and every operation *)
(* computes its own indices into it, in 32 bits.                           *)
(*                                                                         *)
(* A behaviour is one call.  A pixel is an image and a place in it, so     *)
(* that a picture tells where each of its pixels came from; what is read   *)
(* outside an image is Garbage.  The block of an image may be smaller than *)
(* its size says: what is stored behind it is in some other memory, and is *)
(* found there again.                                                      *)
(***************************************************************************)
EXTENDS Integers

CONSTANTS Sizes,       \* widths and heights of images
          Coordinates, \* values of the other arguments
          FixedPoint,  \* fixedpoint of resize_image_buffer, 0xffff
          Word         \* a uint32_t counts modulo this, 2^32

ImageAssumption ==
    /\ Word \in Nat \ {0}
    /\ FixedPoint \in Nat \ {0}
    /\ Sizes \cup Coordinates \subseteq 0 .. Word - 1

VARIABLES pc,     \* "call", the loop or the end of an operation, "fault"
                  \* after a division by 0 or a store outside of image
          image,  \* width and height of the image that is drawn into
          source, \* those of the image that is inserted or resized
          block,  \* pixels that were allocated for image
          overrun, \* something was stored outside of them
          data,   \* memory from the start of image, a cell for each pixel
          args,   \* the arguments of the call
          scrollx, scrolly

vars == <<pc, image, source, block, overrun, data, args, scrollx, scrolly>>

Garbage == <<"garbage", 0, 0>>

Image == {i \in [width: Sizes, height: Sizes] : i.width * i.height < Word}

(* allocate_image() makes room for one pixel, whatever the size;           *)
(* load_image() for all of them.                                           *)
Room(i) == {1, i.width * i.height}

(* A pixel for each position of an image, one line after the other. *)
Cells(i) == 0 .. i.width * i.height - 1

Inside(i, x, y) == x < i.width /\ y < i.height

(* get_pixel(): x is added to the pointer, behind the 32-bit product. *)
Index(i, x, y) == x + ((i.width * y) % Word)

(* source[y*width+x], all of it in 32 bits. *)
SourcePixel(x, y) ==
    LET n == (y * source.width + x) % Word
    IN  IF n \in Cells(source)
        THEN <<"source", n % source.width, n \div source.width>>
        ELSE Garbage

Own(n) == <<"image", n % image.width, n \div image.width>>

NoArgs == [none |-> TRUE]

Init ==
    /\ pc = "call"
    /\ image \in Image
    /\ source \in Image
    /\ block \in Room(image)
    /\ overrun = FALSE
    /\ data = [n \in Cells(image) |-> Own(n)]
    /\ args = NoArgs
    /\ scrollx = 0 /\ scrolly = 0

(* Pixels are stored at the places that were computed for them.  No two of *)
(* them have the same place as long as all are positions of image.         *)
Draw(pixel, place) ==
    LET at(n) == {p \in DOMAIN place : place[p] = n}
    IN  /\ data' = [n \in Cells(image) |->
                       IF at(n) = {} THEN data[n] ELSE pixel[CHOOSE p \in at(n) : TRUE]]
        /\ overrun' = \E p \in DOMAIN place : place[p] \notin 0 .. block - 1

(* dest[y*destwidth+x], in 32 bits. *)
DestPlace(p) == (p[2] * image.width + p[1]) % Word

(* Mutant of Span: nothing is clipped. *)
SpanUnclipped(from, count, limit) == from .. ((from + count) % Word) - 1

(* The counters of "for (i = from; i < from + count; i++)" below a limit.  *)
Span(from, count, limit) ==
    {i \in from .. ((from + count) % Word) - 1 : i < limit}

Positions(x, y, width, height) ==
    Span(x, width, image.width) \X Span(y, height, image.height)

(* The pixel of source that belongs at a position. *)
SourceOf(a, x, y) == SourcePixel(x - a.x + a.copyx, y - a.y + a.copyy)

(* A width or a height of 0 stands for that of source, whatever copyx and  *)
(* copyy are.                                                              *)
Insert(x, y, copyx, copyy, copywidth, copyheight) ==
    LET a == [x |-> x, y |-> y, copyx |-> copyx, copyy |-> copyy,
              width  |-> IF copywidth = 0 THEN source.width ELSE copywidth,
              height |-> IF copyheight = 0 THEN source.height ELSE copyheight]
    IN  /\ pc = "call"
        /\ pc' = "inserted"
        /\ args' = a
        /\ Draw([p \in Positions(x, y, a.width, a.height) |-> SourceOf(a, p[1], p[2])],
                [p \in Positions(x, y, a.width, a.height) |-> DestPlace(p)])
        /\ UNCHANGED <<image, source, block, scrollx, scrolly>>

Fill(x, y, width, height) ==
    /\ pc = "call"
    /\ pc' = "filled"
    /\ args' = [x |-> x, y |-> y, width |-> width, height |-> height]
    /\ Draw([p \in Positions(x, y, width, height) |-> <<"color", 0, 0>>],
            [p \in Positions(x, y, width, height) |-> Index(image, p[1], p[2])])
    /\ UNCHANGED <<image, source, block, scrollx, scrolly>>

(* The line or column of an image of one size that line or column n of the *)
(* resized one shows: fixed point arithmetic in 64 bits.                   *)
Sample(n, from, to) == (n * ((from * FixedPoint) \div to)) \div FixedPoint

Grid == (0 .. image.width - 1) \X (0 .. image.height - 1)

(* Every pixel of image is set.  The division by a width or height of 0    *)
(* faults or, on the other processor, gives 0.                             *)
Resize ==
    LET pixel(p) == SourcePixel(Sample(p[1], source.width, image.width),
                                Sample(p[2], source.height, image.height))
    IN  /\ pc = "call"
        /\ args' = NoArgs
        /\ IF image.width = 0 \/ image.height = 0
           THEN pc' \in {"fault", "resized"} /\ UNCHANGED <<overrun, data>>
           ELSE /\ pc' = "resized"
                /\ Draw([p \in Grid |-> pixel(p)], [p \in Grid |-> DestPlace(p)])
        /\ UNCHANGED <<image, source, block, scrollx, scrolly>>

Scroll(y, down, x, right) ==
    /\ pc = "call"
    /\ pc' = "scroll"
    /\ args' = [x |-> x, y |-> y, down |-> down, right |-> right]
    /\ scrolly' = IF down THEN y ELSE (image.height - y) % Word
    /\ scrollx' = IF right THEN (image.width - x) % Word ELSE x
    /\ UNCHANGED <<image, source, block, overrun, data>>

(* The conditions of the loops: an unsigned counter is always >= 0. *)
InLines == ~args.down \/ scrolly < image.height

InLine  == args.right \/ scrollx < image.width

ScrollPixel ==
    LET tox  == (IF args.right THEN scrollx + args.x ELSE scrollx - args.x) % Word
        toy  == (IF args.down THEN scrollx - args.x ELSE scrollx + args.x) % Word
        from == Index(image, scrollx, scrolly)
        to   == Index(image, tox, toy)
    IN  /\ pc = "scroll"
        /\ InLines /\ InLine
        /\ IF to \in Cells(image)
           THEN /\ data' = [data EXCEPT ![to] =
                              IF from \in Cells(image) THEN data[from] ELSE Garbage]
                /\ overrun' = (overrun \/ to >= block)
                /\ pc' = pc
           ELSE pc' = "fault" /\ UNCHANGED <<overrun, data>>
        /\ scrollx' = (IF args.right THEN scrollx - 1 ELSE scrollx + 1) % Word
        /\ UNCHANGED <<image, source, block, args, scrolly>>

(* Mutant of ScrollLine: only the column starts again. *)
ScrollLineStays ==
    /\ pc = "scroll"
    /\ InLines /\ ~InLine
    /\ scrollx' = args.x
    /\ UNCHANGED <<pc, image, source, block, overrun, data, args, scrolly>>

ScrollLine ==
    /\ pc = "scroll"
    /\ InLines /\ ~InLine
    /\ scrolly' = (IF args.down THEN scrolly + 1 ELSE scrolly - 1) % Word
    /\ scrollx' = args.x
    /\ UNCHANGED <<pc, image, source, block, overrun, data, args>>

ScrollEnds ==
    /\ pc = "scroll"
    /\ ~InLines
    /\ pc' = "scrolled"
    /\ UNCHANGED <<image, source, block, overrun, data, args, scrollx, scrolly>>

Call ==
    \/ \E x, y, copyx, copyy, copywidth, copyheight \in Coordinates :
           Insert(x, y, copyx, copyy, copywidth, copyheight)
    \/ \E x, y, width, height \in Coordinates : Fill(x, y, width, height)
    \/ Resize
    \/ \E x, y \in Coordinates, down, right \in BOOLEAN : Scroll(y, down, x, right)

ScrollStep == ScrollPixel \/ ScrollLine \/ ScrollEnds

Next == Call \/ ScrollStep

(* The loops of scroll_image() wait for nobody. *)
Spec == Init /\ [][Next]_vars /\ WF_vars(ScrollStep)

---------------------------------------------------------------------------
TypeOK ==
    /\ pc \in {"call", "inserted", "filled", "resized", "scroll", "scrolled",
               "fault"}
    /\ image \in Image /\ source \in Image
    /\ block \in Room(image) /\ overrun \in BOOLEAN
    /\ DOMAIN data = Cells(image)
    /\ scrollx \in 0 .. Word - 1 /\ scrolly \in 0 .. Word - 1

(* The rectangle of the last call, as long as no sum of it wraps: one that *)
(* does is empty, whatever part of it lies in the image.                   *)
Rectangle ==
    IF args.x + args.width < Word /\ args.y + args.height < Word
    THEN {p \in Grid :
             /\ p[1] \in args.x .. args.x + args.width - 1
             /\ p[2] \in args.y .. args.y + args.height - 1}
    ELSE {}

Outside == Cells(image) \ {Index(image, p[1], p[2]) : p \in Rectangle}

(* insert_image and fill_image draw into their rectangle, clipped to the   *)
(* image, and nowhere else: neither the end of a line nor that of the      *)
(* block leaks into the next one.                                          *)
DrawsOnlyItsRectangle ==
    pc \in {"inserted", "filled"} =>
        \A n \in Cells(image) : data[n] = Own(n) <=> n \in Outside

(* An image of load_image() is not left by what is drawn into it.  One of  *)
(* allocate_image() (image.c:99) is left by everything but its first pixel. *)
LeavesOnlyAllocated ==
    pc \in {"inserted", "filled", "resized"} =>
        (overrun <=> /\ block < image.width * image.height
                     /\ (IF pc = "resized" THEN Grid ELSE Rectangle) \ {<<0, 0>>} # {})

(* What is inserted is the selection: a pixel as far from the corner of    *)
(* the rectangle shows the pixel as far from the corner of the selection,  *)
(* provided that is a pixel of source; image.h:31 tells how to select the   *)
(* whole image.                                                            *)
InsertsSelection ==
    pc = "inserted" =>
        \A p \in Rectangle :
            LET from == <<args.copyx + p[1] - args.x, args.copyy + p[2] - args.y>>
            IN  Inside(source, from[1], from[2]) =>
                    data[Index(image, p[1], p[2])] = <<"source", from[1], from[2]>>

(* A resized image shows at every place the pixel of source at the same    *)
(* place, or the one before it, as far as the fixed point reaches (beyond  *)
(* its 65535 lines and columns the rounding adds up), and never one        *)
(* outside; an image that keeps its size is copied as it is.               *)
ResizeIsNear ==
    (pc = "resized" /\ Cells(source) # {}) =>
        \A p \in Grid :
            LET exact == <<(p[1] * source.width) \div image.width,
                           (p[2] * source.height) \div image.height>>
                shown == data[Index(image, p[1], p[2])]
            IN  /\ shown # Garbage
                /\ p[1] <= FixedPoint => exact[1] - shown[2] \in {0, 1}
                /\ p[2] <= FixedPoint => exact[2] - shown[3] \in {0, 1}
                /\ source = image => shown = <<"source", p[1], p[2]>>

(* Scrolling down and left comes to an end, or to a store outside of the   *)
(* image.                                                                  *)
DownReturns ==
    (pc = "scroll" /\ args.down /\ ~args.right) ~> pc \in {"scrolled", "fault"}

(* Scrolling up does not, and scrolling right only has nothing to do: an   *)
(* unsigned counter is never below 0.                                      *)
UpNeverReturns ==
    pc = "scrolled" =>
        /\ args.down
        /\ args.right => scrolly = args.y
===========================================================================
