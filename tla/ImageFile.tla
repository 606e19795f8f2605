----------------------------- MODULE ImageFile -----------------------------
(***************************************************************************)
(* The command "ri" of src/term.c behind its open(): load_image() of       *)
(* src/image.c reads and checks a file, resize_image() may make another    *)
(* image of it, display_image() shows it and free_image() releases it.     *)
(*                                                                         *)
(* A file is its header, a width and a height, and its size; a block is    *)
(* what one malloc() returns, and room how many pixels the block that      *)
(* image->data leads to was made for.                                      *)
(***************************************************************************)
EXTENDS Integers

CONSTANTS Dimensions, \* widths and heights, in a header and on the command line
          FileSizes,  \* sizes of files, in bytes
          Word,       \* 32-bit numbers count modulo this
          LongWord    \* 64-bit numbers count modulo this

HeaderSize == 8
PixelSize  == 4

ImageFileAssumption ==
    /\ Word \in Nat /\ LongWord \in Nat
    /\ 1 < Word
    /\ Dimensions \subseteq 0 .. Word - 1
    /\ FileSizes \subseteq 0 .. LongWord - 1
    /\ PixelSize * Word + HeaderSize <= LongWord

VARIABLES pc,     \* the call that is next; "null" when load_image() failed,
                  \* "fault" after a null pointer, a division by 0 or a
                  \* store behind a block
          file,   \* the file: width and height of its header, size
          width, height, room, \* the image that the variable image leads to
          resized, \* it is the one that resize_image() made
          heap    \* live blocks: the image and its pixels, before and
                  \* after it is resized

vars == <<pc, file, width, height, room, resized, heap>>

File == [width: Dimensions, height: Dimensions, size: FileSizes]

Init ==
    /\ pc = "image"
    /\ file \in File
    /\ width = 0 /\ height = 0 /\ room = 0
    /\ resized = FALSE
    /\ heap = {}

(* load_image() returns NULL: the image is freed, its pixels are not. *)
LoadFails ==
    /\ pc' = "null"
    /\ heap' = heap \ {"image"}
    /\ UNCHANGED <<file, width, height, room, resized>>

AllocateImage ==
    /\ pc = "image"
    /\ \/ LoadFails
       \/ pc' = "header" /\ heap' = {"image"}
          /\ UNCHANGED <<file, width, height, room, resized>>

(* The bytes that arrive are not counted: a file that is shorter than the  *)
(* header leaves some of it to chance, which Init covers.                  *)
ReadHeader ==
    /\ pc = "header"
    /\ \/ LoadFails
       \/ /\ pc' = "check"
          /\ width' = file.width /\ height' = file.height
          /\ UNCHANGED <<file, room, resized, heap>>

(* A product of two 32-bit numbers. *)
Pixels == (width * height) % Word

(* Mutant of SizeFits: the size counts in 32 bits, in pixels. *)
SizeFitsRounded == ((file.size - HeaderSize) \div PixelSize) % Word = Pixels

(* The sizes are compared in 64 bits; the difference may wrap. *)
SizeFits == (file.size - HeaderSize) % LongWord = Pixels * PixelSize

CheckSize ==
    /\ pc = "check"
    /\ \/ LoadFails
       \/ /\ SizeFits
          /\ pc' = "pixels"
          /\ UNCHANGED <<file, width, height, room, resized, heap>>

AllocatePixels ==
    /\ pc = "pixels"
    /\ \/ LoadFails
       \/ /\ pc' = "read"
          /\ room' = Pixels
          /\ heap' = heap \cup {"pixels"}
          /\ UNCHANGED <<file, width, height, resized>>

ReadPixels ==
    /\ pc = "read"
    /\ \/ LoadFails
       \/ pc' = "loaded" /\ UNCHANGED <<file, width, height, room, resized, heap>>

(* free_image(NULL), behind the message. *)
FreeNull ==
    /\ pc = "null"
    /\ pc' = "fault"
    /\ UNCHANGED <<file, width, height, room, resized, heap>>

NoResize ==
    /\ pc = "loaded"
    /\ pc' = "display"
    /\ UNCHANGED <<file, width, height, room, resized, heap>>

(* allocate_image() fails at either block and frees the other; the old     *)
(* image is freed all the same, and the null pointer displayed.            *)
ResizeFails ==
    /\ pc = "loaded"
    /\ pc' = "fault"
    /\ heap' = heap \ {"image", "pixels"}
    /\ UNCHANGED <<file, width, height, room, resized>>

(* allocate_image() makes room for one pixel, whatever the size.  No       *)
(* pixels are a division by 0, more than one overrun the block: that may   *)
(* end the program or not.  The old image is freed behind it.              *)
Resize(w, h) ==
    /\ pc = "loaded"
    /\ width' = w /\ height' = h /\ room' = 1
    /\ resized' = TRUE
    /\ pc' \in IF w * h = 1 THEN {"display"} ELSE {"fault", "display"}
    /\ heap' = {"resized", "resized pixels"} \cup
                  (IF pc' = "fault" THEN heap ELSE {})
    /\ UNCHANGED file

(* blt() takes width * height pixels from the block, free_image() frees    *)
(* both blocks of the image that is shown.                                 *)
Display ==
    /\ pc = "display"
    /\ pc' = "done"
    /\ heap' = heap \ (IF resized THEN {"resized", "resized pixels"}
                                  ELSE {"image", "pixels"})
    /\ UNCHANGED <<file, width, height, room, resized>>

Next ==
    \/ AllocateImage
    \/ ReadHeader
    \/ CheckSize
    \/ AllocatePixels
    \/ ReadPixels
    \/ FreeNull
    \/ NoResize
    \/ ResizeFails
    \/ \E w, h \in Dimensions : Resize(w, h)
    \/ Display

Spec == Init /\ [][Next]_vars

---------------------------------------------------------------------------
TypeOK ==
    /\ pc \in {"image", "header", "check", "pixels", "read", "loaded",
               "display", "null", "fault", "done"}
    /\ file \in File
    /\ width \in 0 .. Word - 1 /\ height \in 0 .. Word - 1
    /\ room \in 0 .. Word - 1
    /\ resized \in BOOLEAN
    /\ heap \subseteq {"image", "pixels", "resized", "resized pixels"}

(* A file that is loaded has exactly the bytes of its header and of the    *)
(* pixels there is room for: none that is shorter than its header, cut off *)
(* or longer gets past the check, although the difference wraps.           *)
AcceptedFilesAreWhole ==
    pc \in {"read", "loaded"} => file.size = HeaderSize + PixelSize * room

(* When ri returns, everything it allocated is free.                       *)
ReturnsClean == pc = "done" => heap = {}

(* What is shown goes past the block of its image in two cases: the width  *)
(* and height of the file have a product that wraps, or the image was      *)
(* resized to more than the one pixel that allocate_image() makes room for.*)
ShowsItsBlock ==
    pc = "display" =>
        (width * height > room <=>
             IF resized THEN width * height > 1 ELSE width * height >= Word)
===========================================================================
