# Roxus in TLA+

Roxus (`src/`) is a small operating system that runs as one UEFI application: it
sets up the firmware's protocols, starts a terminal, runs commands and scripts,
draws images and fonts, and emulates an NES.  This directory models its own logic,
model-checks it with TLC and proves part of it with TLAPS.  The firmware is the
environment: every call of it may succeed or fail, wherever the code lets it.

## The system

There is one thread and there are no interrupt handlers.  What is hard is not
interleaving but sequence: buffers and pointers that are reused between commands,
scripts inside scripts, firmware calls that fail between two steps, counters and
addresses at the edge of their width, and loops that have to end.

| Component | Source | State | Operations | Correct when |
|---|---|---|---|---|
| Setup, main | `roxus.c`, `main.c` | protocol pointers, chosen modes, errors | six `*_setup`, warnings, `efi_main` | the best mode is set; what failed is announced before something trips over it |
| Line input | `input.c`, `term()` | one buffer of 256 units, pointer, counter | a branch per kind of key | what runs is what was typed and not erased |
| Terminal, scripts | `term.c` | current directory, frames of `run()`, files, pool blocks | 25 commands, `run()` | nothing closed or freed is used; scripts end; `exit` ends the right loop |
| Byte ring | `ring.c`, command `ring` | buffer, two pointers | forge, write, read, data | a queue that loses only when it is full |
| ANSI output | `output.c`, `string.c` | position in the string, escape state, firmware attribute and cursor | a branch per character and sequence | the text and nothing of a sequence is printed; the last colour wins |
| NES loader | `nes/nes.c` | header, three blocks, stage | one read or check after the other | every way out frees; what runs is in allocated memory |
| NES CPU | `nes/nes.c` | registers, memory, cycles | every opcode, reset, NMI | widths, stack page, costs; a frame ends |
| Fonts | `font.c` | table of characters, rendered tiles | load and sort, render, search | the table is in order; the search finds what was loaded; a picture fits its block |
| Images | `image.c` | width, height, pixels, blocks | load, resize, insert, fill, scroll, display | what is drawn stays in its rectangle; a file that is accepted is whole |
| Console | `console.c` | display, cursor | create, write | no character covers another |
| Core | `core/*.cpp` | packet buffers, ring heads, blocks | stream read/write, `update()`, constructor and destructor | packets arrive; nothing is read that was not written; blocks are freed once |
| Strings | `string.c` | none of its own | `itoa`, `parseInt`, `strcmp` | numbers and strings are what they stand for |
| Pointer | `roxus.c`, command `testpointer` | accumulated position, cursor | get state, reset, move | the cursor follows the movements |
| Blue screen | `bsod.c` | status, colours of the firmware | one | failures are told; one key is enough |
| Pool, C++ support | `compat/` | none of their own | | |

They interact by calls only.  `efi_main` runs the setup and then `term()`.
`term()` calls `input()` and `command()` on one buffer; `command()` calls `run()`,
which calls `command()` again with the same directory pointer but a `running` of
its own; `command()` also calls the ring, the emulator, fonts, images and
`output()`.  All of them share the globals of `roxus.c` and the pool of the
firmware.

`PROJECT.json` lists the components, and under `hazards` what is hard to test,
each at its line.

## Modules

| Module | Models | Checked by |
|---|---|---|
| `LossyQueue` | abstract: a queue that a write to a full one empties | `Ringbuffer` |
| `Ringbuffer` | `ring.c`: buffer and two offsets | run `InputOutput`, `RingbufferProofs` |
| `RingCommand` | the `ring` command; extends `Ringbuffer` | runs `InputOutput`, `RingCount`, `RingbufferProofs` |
| `LineEditor` | abstract: type, erase, enter, run the line | `LineInput` |
| `LineInput` | `input()` and the loop of `term()` on one buffer | run `InputOutput`, `InputOutputProofs` |
| `Terminal` | `term()`, `command()`, `run()`: directory, files, blocks, frames | run `Terminal`, `TerminalProofs` |
| `Script` | the text of `run()` and of a line: scan, split, look up | run `Services`, `ServicesProofs` |
| `NesRom` | `run_nes_rom()`: loader and frame loop | run `NesRom`, `NesRomProofs` |
| `NesCpu`, `MCNesCpu` | memory map, addressing, every opcode, frame loop | runs `NesCpu`, `NesFrames`, `NesCpuProofs` |
| `Boot` | `roxus_setup()`, `efi_main()`, commands that use the setup | run `Boot`, `BootProofs` |
| `AnsiOutput`, `MCAnsiOutput` | `output()` | runs `InputOutput`, `AnsiLow`, `InputOutputProofs` |
| `Font` | `loadfont()`, `getcharacter()` | run `Graphics`, `GraphicsProofs` |
| `Glyph` | `read3()` and `renderfont()`: one character | run `Graphics`, `GraphicsProofs` |
| `Image` | `insert`, `fill`, `resize`, `scroll` on pixels | run `Graphics`, `GraphicsProofs` |
| `ImageFile` | `load_image()` and the command `ri`: file and blocks | run `Graphics`, `GraphicsProofs` |
| `Console` | `console.c` and the command `con` | run `Graphics`, `GraphicsProofs` |
| `Strings` | `itoa()`, `parseInt()`, `strcmp()` | runs `Services`, `ItoaSign`, `ServicesProofs` |
| `PointerTest` | the command `testpointer` and the pointer's state | run `Services`, `ServicesProofs` |
| `BlueScreen` | `bsod()` | run `Services`, `ServicesProofs` |
| `CoreInterface` | `core/interface.cpp`: a ring of commands and its blocks | run `Services`, `ServicesProofs` |
| `CoreStream` | `core/stream.cpp`: packets between two cores | run `Streams` |
| `MCInputOutput` | the prompt, `output()` and the command `ring`, one of them per behaviour | run `InputOutput` |
| `Graphics`, `Services` | several of these, one call into one of them per behaviour | runs of the same names |

The parts below a command do not run together: there is one thread, and a call into
one of them is over before the next begins. `Graphics`, `Services` and
`MCInputOutput` therefore check several modules in one run: an initial state chooses
a part, and only its variables change. The parts of the first two use the same names
for some variables, as the functions of the C code do; `"not used"` marks those of
the parts that are not called; in `MCInputOutput` they rest in an initial state.
Each property of `Graphics` and `Services` is the conjunction of one part's type
invariant and of what matters about it, under a name of its own; the conjuncts are
in the part's module, each with its comment. The other modules do the same where
several invariants are about one thing (`TerminalInv`, `RunsWhatItLoaded`,
`SetupIsHonest`, `OutputIsTheText`). The mutants in `PROJECT.json` show for each
property one change of the code that breaks it.

### The byte ring

`write` and `read` of `Ringbuffer` are the offsets of the two pointers of the code
and `out` is what the last `read_ringbuffer` returned.  `Write` has no guard, as in
the code; `Read` has the guard of the only caller.  The refinement to `LossyQueue`
maps the queue to the unread slots in order (`Contents`).  It says that over any
interleaving and any wrap reads return the oldest unread byte and only a write to a
full ring loses any: all of them, since a full ring looks empty.  `RingCommand`
says what the user sees: `ring` with *n* arguments prints the low bytes of the
last *n* mod 16 of them, each as a string of its own (`StringOf`), which is empty
for a byte 0.  `InputOutput` uses a ring of 3 slots and up
to 6 arguments, which takes the write pointer around twice, and a character whose low
byte is 0.  The command reads only after its last write, so the run has no write
behind a read; the theorem `RingImplementsQueue` is about every order of both.

`RingCount` is refuted: `ring.h` calls `data_ringbuffer` the "Size of unread data",
and after as many unread writes as there are slots it returns 0.

### Line input

`mem` is the buffer of `term()` and a few cells of the stack behind it, because a
key without a character is stored without a look at `length`.  `string` and
`offset` are the two variables of `input()`; they move in different branches, and
`PointerIsOffset` says they agree.  `Spare` bounds how far past the end special
keys may go.  `term()` ignores the status of `input()`, so `RunCommand` is enabled
after a device error too.

`ImplementsLineEditor` refines the editor: an entered line is run exactly, with
nothing of an earlier and longer one, and after a device error what is run begins
with what was typed.  `ProgramStaysInBuffer` says what the rest is when nothing was
typed: the program of the last command, without its arguments.  `InputOutput`
takes a buffer of 3 and 2 spare cells: keys reach the limit, pass it and come back.

### Terminal

A frame is one activation of `run()`: its file, its buffer, the lines left and its
own `running`.  `dir` is the one variable whose address all frames hold.  A script
is the number of its lines; each command is chosen when its line is reached, which
includes `run` and `cd`.  `open` and `heap` are what the firmware has handed out;
both are finite, and that is also what ends a script that runs itself
(`PromptReturns`).  A file that is opened and not closed stays in `open`, as in the
code: `ls`, `run`, `font`, `con` and `ri` never close theirs, `cat` only after a
successful read.  `hung` stands for the three loops that may never end (`ls`,
`testpointer`, `loadfont()`), `fault` for a pointer that leads nowhere, as that of a
`malloc()` nobody looked at, or an overrun, as of the four units that `cat` has for
the size of a file.  `bsod` and `testpointer` show a blue screen and wait for a key.

`Ownership`: the directory is open, the text and the file of a frame are its own
and stay there until its end, whatever the scripts it calls change or free.
`ScriptsKeepTerminalRunning`: `exit` in a script never ends the terminal.
`LeaksAreForever`: what no variable leads to is never closed again.  Four handles
and three blocks give nests of three scripts next to a directory, or two with a
leak.  Commands of two lines and `cat` with two arguments are enough for a command
after a nested script, and a file after a failed one.

Fairness: while a script runs or `cat` is in its loop the steps of the program are
weakly fair (`ScriptStep`); the prompt is not, the user may stop typing, and neither
is the key that a blue screen waits for (`Key`), whether a person shows it or a
script.  `PromptReturns` therefore says: from some time on a blue screen is waited for
for ever, or every script comes back to the prompt unless it ends in `hung`, `fault` or
`off`.  Those are all the ways that keep the prompt away.

### NES

`NesRom` is the loader: one action per piece of the file, each with its failing
branches and the frees in front of its `return`.  The PlayChoice-10 data is read
into the variable `playchoice_10` itself, 8224 bytes onto the stack: the model
keeps whether the pointer still leads to its block, and `smashed` when the program
does not go on.  `OnlyOldNesRuns` shows that this ends there: the bits that mark
NES 2.0 enter the mapper number, so an image that passes the mapper check is not
NES 2.0, and it is for the NES.  `AllIsFreed`, `RunsInAllocatedRom` and
`PrgMaskInRom` are about the eleven ways out, the CPU's memory, and the mask that
keeps an address inside the ROM (an image with no bank at all has none).  The CPU
is a cost per instruction; `FrameOverrun` bounds what it exceeds a frame by, except
in the first, whose counter starts uninitialised.  Header bytes take the values that
decide a format, a trainer, a console or a mapper, and the file sizes are too
small, exact and large for NES 2.0.

`NesCpu` is the CPU.  One action per family of instructions takes the opcode and
addressing mode from the tables; registers keep their width; memory holds the cells
that were written, and what nobody wrote reads as `fill`, because `struct nes_state`
is not initialised.  The model keeps what the code does where that is not a 6502:
`push_addr` saves one digit of either byte and `pop_addr` swaps them
(`ReturnsMissTheProgram`), `BRK` goes to the reset vector, `ASL` keeps an address in
a byte (`ShiftsStayInZeroPage`), `ADC` and `SBC` work on the accumulator twice and
compute V before it changes (`OverflowIsNeverArithmetic`), a branch reads the byte
behind its operand.  `StepCosts` is what `NesRom` takes for granted; its `Costs`
are among the 2 to 8 cycles shown here, with the opcodes that cost nothing left
out.  `Finishes` is why that is right: a walk over such opcodes ends at the latest
in the gap below the ROM, which reads as 0, a `BRK`.  Run `NesCpu` puts each of the
256 opcodes first in a ROM of eight bytes that repeats, with operands and registers
at the edges, stack pointers at both ends; run `NesFrames` takes jumps, branches,
returns and unimplemented opcodes, and reset vectors in the RAM mirror, the gap and
the ROM.  A frame of 12 cycles is a few instructions.  The frame loop has no
partner, so every step is weakly fair.

### Boot

One action per setup function and per round of the two searches for the best mode.
A mode is its number of pixels or characters; `Word` is 8 so that a product of 9
wraps, as the 32-bit product of the code would.  `BestModesAreSet` is relative to
that product; a mode that nobody assigned may be any.  `OperationalMeansUsable`,
`FaultsWereAnnounced` and `NoDiskNoTerminal` relate what the user was told to what
happens: a warning about the file system is the last thing seen, because
`efi_main()` follows the pointer.  Three and two modes distinguish first, last and
middle, and ties.  Setup is weakly fair; the user is not.

### ANSI output

A number in a string is one character, because `parseInt()` reads it whole.
`PrintsTheText` compares what is printed with the text of the string by a
definition that knows only where sequences begin and end; it has to know that
moving the cursor does not end its sequence in this code.  `LastColoursWin` states
the effect of a list of codes at once, where the code goes one by one through the
firmware's attribute.  `TabsStayOnTheLine` rests on the column being counted before
it is compared.  Strings are up to three pieces out of nineteen, whole and broken;
the screen is 8 by 5 with tabs of 4, the cursor starts at either end of it, and the
attribute is one of two, so that a half of it that is not named can be seen to stay.
`output()` waits for nobody, so its steps are weakly fair.

`AnsiLow` is refuted: the comment on the codes 30 to 39 says "Low Intensity", 33, 37
and 39 set colours with the bright bit.

### Scripts and lines

`Script` is what `Terminal` abstracts from: the cells of a text, the pointers that
go over them and the terminators that are stored into them.  `run()` looks for a
newline or a terminator from the second unit on, ends the line with a terminator of
its own and goes on behind it; `command()` ends each argument with one and stores a
pointer to it.  Both write into the text they still have to read.  `RunsTheLines`
compares the commands that are run with the lines of the text as it was, by
definitions that know nothing of pointers.  `ScanStaysInBlock` says for which texts
the code leaves the block: those with no terminator, which a file need not have.
`ArgvIsLeftByFullLines` says which lines leave `argv`: of a script only one with at
least as many units as `argv` has places, of the prompt only a buffer that is all
spaces.  That one can be typed: `input()` takes a character for each of its 256 cells
and stores the terminator behind them.  A prompt's terminator is therefore anywhere in
the cells; behind the buffer only keys without a character precede it, none of which
is a space or a newline.  What an `input()` that failed leaves in the buffer is
`LineInput`'s.  Every text of six cells over four units is tried, as a script
of up to five and one cell behind its block and as a line of the prompt, with three
cells in its buffer and three places for arguments.

### Strings

A unit is a digit, a minus sign, a terminator or something else.  `itoa()` runs
with an `int` of 8 and an `efi_uint_t` of 16 bits, so that every number is tried in seven
bases.  `value /= base` is unsigned: `WritesTheNumber` is about numbers that are not
negative.  `FitsBelowPower` is the exact condition for the
four units that `cat` has for the size of a file.  `parseInt()` is compared with the value of
the leading digits modulo its width, on strings of up to five units that wrap it.

`ItoaSign` is refuted: the comment of `string.c:52` says "Apply negative sign", and
`WritesTheSign` that a negative number gets its sign and its digits.  In the bases of
the callers, 10 and 16, the loop never ends: the quotient of a negative number is cut
off to a negative one, units from outside the table of digits are stored behind one
another, and the call faults.  The run has its own configuration of `Strings` with
these two bases.

### Fonts

`Font` has one action per read of the file and per move of the insertion sort.  A
character is its number in the file, so that equal code points can be told apart:
`TableIsSorted` says that the table has the order of a stable sort and every
character.  A short read is kept as it is: `loadfont()` then frees what a pointer
nobody assigned leads to, over and over (`hung`, or `fault` if the firmware minds),
unless it was the first character, which is lost (`FailedLoadLosesOne`).  `SearchExcludes` is the invariant of the binary search and
`AnswersRight` its result, the empty font with its unsigned `0 - 1` included.
`CallsEnd` has `LoadEnds`: only a file that is cut off behind its first character
keeps `loadfont()`.  Files have up to four characters over three code points, which
gives each place of a sort and a search, and every pattern of repeats.

`Glyph` draws the tiles of one character.  `ReadsItsBits` says of `read3()` that it
takes three bits of its tile, over the end of a byte where they lie there;
`EveryPixelOnce` that tiles neither overlap nor leave a pixel as the pool had it;
`OverrunsWhenItWraps` that the block is too small for exactly the sizes whose
product wraps (`BlockWord` is 64 for 2^32; 3 by 2 tiles of up to 5 pixels pass it);
`ShapesFit` that the eight shapes complete each other.

### Images and the console

`Image` keeps for every pixel where it comes from, in cells that are numbered as the
memory is: every operation computes the index it stores to as the code does
(`DestPlace`, `Index`), so that a position that is not clipped lands in the next line,
which is what the mutant `SpanUnclipped` shows.  `DrawsOnlyItsRectangle` and
`InsertsSelection` compare what the loops with their 32-bit sums do with the
rectangle and the selection that were asked for; a sum that wraps draws nothing.
`block` is the room that was allocated: all pixels for `load_image()`, one for
`allocate_image()`, which every image the program draws into comes from.  What is
stored behind it is found there again, or belongs to somebody else by now;
`LeavesOnlyAllocated` says exactly when that happens: whenever the drawing has a pixel
but the first, in a block that is too small.  No test would see it, since the picture
is right.
`ResizeIsNear` bounds the error of the fixed-point division, which is one pixel as
long as the position is at most `FixedPoint`.  `scroll_image` counts
an unsigned line down until it is negative: `UpNeverReturns`, and the others end
(`DownReturns`).  Images are up to 4 by 4 and a word is 5 bits, with arguments 0, 1
and 31, so that sums wrap at the end of a word and clip inside of it.

`ImageFile` keeps sizes and blocks.  `AcceptedFilesAreWhole`: the check of the
length, whose difference may wrap, lets no file pass that is shorter or longer than
its pixels.  It multiplies width and height in 32 bits, though, so the length that
`image.c:24` compares to "verify file type" is that of a smaller image when the
product wraps, and `allocate_image()` makes room for one pixel whatever the size:
`ShowsItsBlock` says that those are the two cases in which what is shown goes past
its block.  A write behind a block goes on or ends in `fault`.

`Console` keeps for every pixel of the display which character it shows.
`CursorFollowsWrites` says where the cursor is after any number of characters, and
that the console hangs (in `scroll_image`) behind its last line and not before.  A
character that begins at the very edge is counted and shows nothing, which
`EveryCharacterKeepsItsPlace` takes into account.  Displays of 4 to 6 pixels and
characters of 2 and 3 fit a whole number of times and not.

### Pointer and blue screen

`PointerTest` accumulates movements; the division of a signed by an unsigned
number, its cut to 32 bits and the square are kept (words of 4 and 8 bits).
`CursorAddsSquares`: back and forth are the same way.  A device without a pointer
or an axis ends in `fault`.  `BlueScreen` keeps the one status variable that two
calls are added to; `FailuresAreTold` holds although nobody initialised it.  One
key, typed at any time, is enough (`CallsEnd`): the read of a key is weakly fair,
because a keyboard that holds a key does not fail for ever.

### Core

`CoreInterface` has the constructor with its three allocations, the program that
writes bytes, `update()` and the destructor.  Heads and ring start with any content,
because nobody initialises them.  `FreedOnce` has one exception, the second
buffer: after its allocation has failed the pointer dangles and the destructor frees
again.  `ReaderStaysBehind` and `Drains` are about the heads (2 bits here for 16,
with a ring of one less, as in the code: the byte behind the block is read when a
head is at its last value).  `update()` is weakly fair, as if whoever runs the core
called it in a loop; the program is not.  Nothing in the repository calls it yet, so
`Drains` is about the caller the interface is written for.

`CoreStream` has both ends of a `CoreComm`, and what a stream would have to deliver
(`pending`).  `Streams` is refuted: `stream.hpp:42` promises that "up to 16 packets can
be kept track of at a time" (`KeepsTrack`), but the search for a free place goes on
while a place is free, so that the first packet written is dropped.  Nothing in the
repository writes to a stream yet.

## Proofs

All are for every value of the constants, under the assumptions that the modules
name: `SizeAssumption`, `CharAssumption` and `MaxArgsAssumption` of the ring,
`LineInputAssumption`, `TerminalAssumption`, `NesRomAssumption`,
`NesCpuAssumption`, `BootAssumption`, `AnsiAssumption`, `FontAssumption`, and `GraphicsAssumption` and
`ServicesAssumption`, which are the conjunctions of those of their parts.  They say
that sizes are numbers, that what is enumerated has the width of its C type, and
little else.  `Strings` and `PointerTest` assume of the 32 and 64 bits that one is even
and divides the other, that the digits' table is shorter than an int's range, and that
64 ints fit a long.  `ImageFile` assumes that the wide word holds the size of a file of one
word's pixels, as 64 bits do for 32.  Each theorem rests on an inductive invariant
(`...IInv`), most of which are stronger than the property.

* `RingbufferProofs`.  `TypeOK` is inductive (`TypeCorrect`).  For
  `RingImplementsQueue`, `ContentsSeq` says of the mapping which slots it holds,
  `SlotAfterReadProps` that the n-th slot after the read pointer is the write
  pointer only for n = `Data`; then each action is a step of the queue, by cases
  on the wrap and on a full ring.  `RingPrintsLastArguments` is about the command:
  the write pointer is the number of arguments modulo the size, and the slots below
  it hold the last ones (`KeptInRing`); the drain has printed the slots below the
  read pointer (`Drained`), so that it stops after (argc - 1) % Size of them.
* `InputOutputProofs`, first `LineInput`.  `TypeOK /\ EditorInv` is inductive:
  `PointerIsOffset` is needed for the check of `offset` to say something of `string`,
  `LineHasNoNul` and `EnteredIsTerminated` for `PromptImplementsEditor`, where the
  C string has to be the line.  `ProgramIsKept`: what `RunCommand` leaves is the
  command up to its first space (`RunCommandLeavesProgram`), which is its only first
  word (`FirstWordIs`); every other step leaves the idle state.

  Then `AnsiOutput`.  The reference `Visible` is a recursive function from the end of
  the string to its beginning, so its values from each place on exist by induction in
  that direction (`VisibleIsText`, `TextAtLooksAhead`).  `OutputIsTheText` does not
  say how far `output()` has come; the invariant `InText` does: outside a sequence
  what is printed, followed by the text from `at` on, is the whole text; within one
  it is the text from the escape character on that follows, and no `m`, `f` or `H` has
  been passed since.  That is what `SequenceIsOver` needs to know that the sequence
  ends where the reference lets it end, and `SequenceGoesOn` that the cursor's
  letters do not end it.  For `SequencesTakeEffect` the attribute after each code is
  followed to the last (`IsPainted`, `PaintedHalves`), with the halves of a byte as
  remainder and quotient of 16 (`ColouredHalves`); that the list of codes ends at all
  is `CodesAreFinite`.  `StopIsOnTheLine` is the arithmetic of a tab.  The numbers in
  a string, the strings, the screen and where the cursor starts are arbitrary.
* `TerminalProofs`.  The three parts of `Ownership` need each other: `cd` keeps a
  frame's file only if no frame's file is the directory, and a frame's end keeps the
  others' text only if no two frames share it.  `QuietStep` and `CommandKeepsIInv`
  deal with the steps that leave frames alone.  `LostForEver` uses the invariant in
  both states of a step.
* `NesRomProofs`.  `HeapAtPiece` says what is allocated at each piece, which makes
  the three invariants of the loader inductive; `MapperZero` is the arithmetic on
  the header.  `FramesAreBounded` needs the range of `cycles` and that `frame` is
  positive only while the CPU runs, which with the frames left before the third
  makes `TypeOK` inductive for `RomIsRunWhole`.  `MaskFits` needs no state: only a
  size with a low byte of 1 has the small mask, and 0 banks are the exception.
* `NesCpuProofs`.  Each function of the emulator has a lemma in terms of `Leads`:
  from one machine to another in so many cycles, with writes to these cells and only
  these flags raised.  The lemmas chain as the calls do, and every family of
  instructions has a step lemma that ends in `StepIsRight`: the cost, the cells a
  stack operation or a shift writes, and the overflow flag.  The invariant adds to
  the types that memory is a map of written cells to bytes (`Memory`).
  `ReturnsMiss` is the arithmetic of `push_addr` and `pop_addr`, for every address
  and not only the sampled ones.  So what `NesRom` takes for granted of an
  instruction is proved: 2 to 8 cycles, or none.
* `BootProofs`.  `Finds` is the invariant of either search: nothing better than
  `best` was answered, and nothing as good before `bestmode`.  It is about areas in
  a function of their own, so that one lemma (`QueriedFinds`) serves the product
  that wraps and the one that does not.  `FailuresAreErrors` goes through the
  setups in their order: what is past and not usable is among the errors, which are
  what is shown.
* `GraphicsProofs`.  One section for each part of `Graphics`; `OnePartSteps` reduces
  a step of `GraphicsSpec` to a step of the part that is called.
  * Fonts.  The sort needs an invariant of its loop: in between two insertions the
    first `step` entries are the first `step` characters in order and the others are
    untouched; within one (`Inserting`) the same holds with the place that is open
    left out, and the key is in front of what was moved.  `AllKept` says that no
    character is lost, which `SearchIsRight` needs for the answer null, as it needs
    `SearchExcludes` and the order of the table for a probe to exclude a whole half.
  * Characters.  `drawn` is `DrawnSoFar`: whole lines of tiles and a part of one.
    A pixel's index and its two coordinates determine each other (`TilePixel`,
    `TileIs`), so that the next tile is disjoint from what is drawn (`TileIsNext`)
    and adds its square to the number of pixels.  `NextBitIs` follows `read3()`
    from bit to bit, over the end of a byte.
  * Image files.  `FileAtPiece` says which blocks live and what is known of the
    sizes at each call; `CheckedSizeIsRight` is the arithmetic of the length check.
  * The console.  Every pixel shows the character whose place it is in, if that is
    written (`ShownInPlace`); `CursorMoves` is the arithmetic of the last column
    and the last line, and `CharacterShows` counts the pixels of a place as a
    product of two parts of an interval (`PartSize`).
  * Images.  `ImageIInv` says of each operation what every pixel of the image is
    after it, in the terms of its loops (a word's sums, the clipped span);
    `RectangleIsDrawn`, `SelectionIsInserted` and `ResizingIsNear` relate that to the
    rectangle, the selection and the exact quotient.  The indices are one-to-one only on
    the positions of the image (`GridPlace`, `DestPlaceIs`, `IndexIsAt`), which is what
    the clip gives (`PositionsInGrid`): from there `DrawIs` tells what each cell holds
    after the loops, and `OverrunsOnlyAllocated` that only the first pixel lies within
    a block of one.  `ResizeIsNear` has its bound
    from there: a fixed-point quotient is at most one below the exact one up to the
    position `FixedPoint`, and TLC finds positions behind it where it is not.
* `ServicesProofs`, in the same way for `Services`.
  * `BlocksAtPiece` says how each way out of the constructor leaves the blocks; a
    dangling pointer has none left.  `ReaderNeverOvertakes` replaces the difference
    of two heads by `Distance`, which an advance of the reader by no more than that
    reduces by as much (`AdvanceReader`).
  * `ScreenTellsItsFailures`: `StatusIsKept` follows the one status variable through
    the two calls that are added to it.
  * `CursorGoesOneWay`: the equation with `PlaceAfter` is the invariant.  That the
    recursive function exists and that one more movement adds one more square is
    shown by induction (`RecursionExists`, `WayIsPlaceAfter`, `WaysAgree`);
    `BackOverResolution` and `SquareOfRest` are the arithmetic: what a movement back
    leaves of a word is the negated distance, whose square is the same.
  * `NumbersAndStringsAreExact`: a number that is not negative has left its rests
    (`Divided`), which are its digits before, during and after the swaps
    (`WritesDigits`, `Reverses`); from the last rest, 0, back to the number they are
    the value of the digits (`RestsAreTheDigits`) and count them against the power
    (`RestsCountThePower`).
  * `LinesAreRun`: the line begins behind the newline of the last command and nothing
    behind the scan was written to (`ScanIsRight`), so that the next newline the scan
    meets is the next one of the text (`NextPlace`); within a line the pointers of
    `argv` stand behind the spaces that were met, which are terminators now
    (`LineIsSplit`), and each string ends where the next space was
    (`ArgumentsAreRight`).  The places of a unit in order exist because those of each
    beginning of the text do (`EnumerationExists`).

Every invariant and every action property of a run that passes is proved.
Model-checked only:

* `WritesTheSign`, `KeepsTrack`, `DataCountsUnread` and `LowIntensityIsNotBright`, which
  the runs refute.
* Every liveness property (`DrainEnds`, `PromptReturns`, `Returns`, `Finishes`,
  `SetupEnds`, `Ends`, `CallsEnd`): they rest on weak fairness, whose `ENABLED` the
  prover does not expand.

## Not modelled

* What commands print, and the texts of the blue screen: output only.
* The unchecked `argv[1]`: a pointer nobody assigned leads anywhere.
* The depth of the C stack under nested scripts: a property of the build.
* NES tiles, `copy_image`, `peek_ringbuffer`, `destroy_ringbuffer`, `irq`,
  `screenshot`, `read_u64` and `read_u16`: no caller.
* `core/program.cpp`: `load()` is a stub and `jump()` returns at once.
* `memcpy`, `memset`, `calloc`, `new` and `delete`: their callers use them as C
  defines them.
* `include/efi`: declarations.  `qemu/`, `roxus/`, build scripts: no program logic.

## Plan

1. Composition: `Terminal` with the loader in place of `Nes`, and with `LineInput` as
   its prompt, so that the handles and blocks of an image are the terminal's.
2. Proofs: the liveness properties by their ranking arguments, as far as these are
   invariants and action properties.  A property of all numbers
   is an induction, which `WellFoundedInduction` gives for a set instead of a
   predicate (`WFMin` for the numbers that are not in it), and a recursive function
   exists because each of its beginnings does.
