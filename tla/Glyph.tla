------------------------------- MODULE Glyph -------------------------------
(***************************************************************************)
(* renderfont() and read3() of src/font.c for one character: its data are  *)
(* 3 bits per tile, packed without gaps, and a tile is drawn as one of     *)
(* eight shapes of tile_size by tile_size pixels into the block allocated  *)
(* for the character.                                                      *)
(*                                                                         *)
(* A pixel is its index in the block; the two colours are "drawn in        *)
(* color" (the set ink) and "drawn in background".                         *)
(***************************************************************************)
EXTENDS Naturals, FiniteSets

CONSTANTS Widths, Heights, \* font->width and font->height, in tiles
          TileSizes,       \* tile_size, 16 bits from the command line
          Bytes,           \* what a byte of the data may be
          Word             \* the size of a block counts modulo this, 2^32

GlyphAssumption ==
    /\ Widths \cup Heights \cup TileSizes \subseteq Nat
    /\ Bytes \subseteq 0 .. 255
    /\ Word \in Nat \ {0}

VARIABLES width, height, \* font->width, font->height
          tile_size,
          data,          \* character->data
          x, y,          \* the tile that is drawn next
          tile,          \* the last value of read3()
          drawn, ink     \* pixels stored so far, and those in color

vars == <<width, height, tile_size, data, x, y, tile, drawn, ink>>

(* entry_size, without the code point in front of the data. *)
DataSize(w, h) == (w * h * 3 + 7) \div 8

Init ==
    /\ width \in Widths /\ height \in Heights /\ tile_size \in TileSizes
    /\ data \in [0 .. DataSize(width, height) - 1 -> Bytes]
    /\ x = 0 /\ y = 0
    /\ tile = 0
    /\ drawn = {} /\ ink = {}

(* render->width and render->height have 32 bits and never wrap.           *)
RenderWidth  == width * tile_size
RenderHeight == height * tile_size

(* What malloc() is asked for is their product in 32 bits. *)
Room == (RenderWidth * RenderHeight) % Word

readbit(value, bit) == (value \div (2 ^ (7 - bit))) % 2

(* One round of read3(): a bit of the current byte, then the next one,     *)
(* which may be in the next byte.                                          *)
NextBit(r, i) ==
    [base   |-> IF r.offset = 7 THEN r.base + 1 ELSE r.base,
     offset |-> IF r.offset = 7 THEN 0 ELSE r.offset + 1,
     value  |-> r.value + readbit(data[r.base], r.offset) * (2 ^ i)]

(* Mutant of read3: one bit of the three. *)
Read3Unpacked(index) == readbit(data[(index * 3) \div 8], (index * 3) % 8)

read3(index) ==
    LET start == [base   |-> (index * 3) \div 8,
                  offset |-> (index * 3) % 8,
                  value  |-> 0]
    IN  NextBit(NextBit(NextBit(start, 0), 1), 2).value

(* The four quarters of the diamond. *)
Inside(t, px, py) ==
    LET half == t \div 2
    IN  \/ px >= half /\ py < half  /\ py >= px + 1 - half
        \/ px >= half /\ py >= half /\ py < t - px + half - 1
        \/ px < half  /\ py < half  /\ py >= t - px - half
        \/ px < half  /\ py >= half /\ py < px + half

(* Whether a pixel of a tile is drawn in color. *)
InShape(k, t, px, py) ==
    \/ k = 1
    \/ k = 2 /\ py >= t - px - 1
    \/ k = 3 /\ py >= px
    \/ k = 4 /\ py <= px
    \/ k = 5 /\ py <= t - px - 1
    \/ k >= 6 /\ (k = 7 <=> ~Inside(t, px, py))

Pixels(t) == (0 .. t - 1) \X (0 .. t - 1)

Index(p) == (p[1] + x * tile_size) + (p[2] + y * tile_size) * RenderWidth

(* One round of the two loops over the tiles: all pixels of the tile. *)
DrawTile ==
    /\ y < height
    /\ x < width
    /\ tile' = read3(x + y * width)
    /\ drawn' = drawn \cup {Index(p) : p \in Pixels(tile_size)}
    /\ ink' = (ink \ {Index(p) : p \in Pixels(tile_size)}) \cup
              {Index(p) : p \in {q \in Pixels(tile_size) :
                                    InShape(tile', tile_size, q[1], q[2])}}
    /\ x' = (x + 1) % width
    /\ y' = IF x' = 0 THEN y + 1 ELSE y
    /\ UNCHANGED <<width, height, tile_size, data>>

Next == DrawTile

Spec == Init /\ [][Next]_vars

---------------------------------------------------------------------------
TypeOK ==
    /\ width \in Widths /\ height \in Heights /\ tile_size \in TileSizes
    /\ data \in [0 .. DataSize(width, height) - 1 -> Bytes]
    /\ x \in 0 .. width
    /\ y \in 0 .. height
    /\ tile \in 0 .. 7
    /\ ink \subseteq drawn /\ drawn \subseteq Nat

Done == y = height \/ width = 0

(* The bit at a place in the data, the first one being the highest of the  *)
(* first byte.                                                             *)
Bit(n) == (data[n \div 8] \div (2 ^ (7 - (n % 8)))) % 2

(* read3() takes the three bits of its tile, the first one lowest, also    *)
(* where they lie in two bytes, and for the last tile nothing behind the   *)
(* entry that the size of the file made room for.                          *)
ReadsItsBits ==
    LET n == 3 * (x + y * width)
    IN  tile' = Bit(n) + 2 * Bit(n + 1) + 4 * Bit(n + 2)

(* Tiles never overlap, and together they leave no pixel of the block as   *)
(* the pool had it.                                                        *)
EveryPixelOnce ==
    /\ Cardinality(drawn) = (x + y * width) * tile_size * tile_size
    /\ Done => drawn = 0 .. RenderWidth * RenderHeight - 1

(* The block is overrun by exactly the characters that have more pixels    *)
(* than 32 bits count: a large tile_size on the command line is enough.    *)
OverrunsWhenItWraps ==
    Done => (drawn \subseteq 0 .. Room - 1
                 <=> RenderWidth * RenderHeight < Word)

(* The shapes of a font fit together at every size: the diamond is the     *)
(* same from all four sides, its counterpart is the rest of the tile, and  *)
(* two opposite triangles cover the tile and share only their long side.   *)
ShapesFit ==
    \A p \in Pixels(tile_size) :
        LET t     == tile_size
            In(k, q) == InShape(k, t, q[1], q[2])
            left  == <<t - 1 - p[1], p[2]>>
            below == <<p[1], t - 1 - p[2]>>
        IN  /\ In(6, p) <=> In(6, left)
            /\ In(6, p) <=> In(6, below)
            /\ In(7, p) <=> ~In(6, p)
            /\ In(2, p) \/ In(5, p)
            /\ In(2, p) /\ In(5, p) <=> p[1] + p[2] = t - 1
            /\ In(3, p) \/ In(4, p)
            /\ In(3, p) /\ In(4, p) <=> p[1] = p[2]
===========================================================================
