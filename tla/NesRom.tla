------------------------------ MODULE NesRom ------------------------------
(***************************************************************************)
(* run_nes_rom() of src/nes/nes.c: the image file is read piece by piece,  *)
(* its header decides what is read and whether it is run, three frames are *)
(* emulated and everything is freed, on each of the eleven ways out.       *)
(*                                                                         *)
(* Bytes of the header are numbers; a bit field is cut out by \div and %.  *)
(* An instruction is the cycles it costs; what it does is NesCpu's.        *)
(***************************************************************************)
EXTENDS Naturals, FiniteSets

CONSTANTS Prg, Chr,               \* values of the two size bytes
          Flags0, Flags1, Flags2, \* values of the first three flag bytes
          FileSize,               \* values of file_info.fileSize
          VBlank,                 \* VBLANK_CYCLES, 2270 in the code
          Costs,                  \* cycles of an instruction that has any
          Word,                   \* cycles counts modulo this, 2^32
          StartCycles             \* values of nes.cycles, not initialised

ASSUME NesRomAssumption ==
    /\ Prg \cup Chr \cup Flags0 \cup Flags1 \cup Flags2 \subseteq 0 .. 255
    /\ FileSize \subseteq Nat
    /\ VBlank \in Nat \ {0}
    /\ Costs \subseteq 1 .. 8
    /\ Word \in Nat
    /\ VBlank + 8 < Word
    /\ StartCycles \subseteq 0 .. Word - 1

VARIABLES pc,          \* the piece that is dealt with next
          header,      \* the header of the image, and the size of its file
          heap,        \* which of the three allocations are live
          playchoice,  \* the pointer playchoice_10: "null", "block" or, once
                       \* it has been read into, "garbage"
          frame,       \* vertical blanks so far
          cycles       \* nes.cycles

vars == <<pc, header, heap, playchoice, frame, cycles>>

Header == [prg: Prg, chr: Chr, flags0: Flags0, flags1: Flags1,
           flags2: Flags2, restZero: BOOLEAN, size: FileSize]

(* NES 2.0 is recognised by two bits, and by a file that holds the sizes   *)
(* its extended fields give.                                               *)
PrgSize2 == header.prg + (header.flags2 % 16) * 256
ChrSize2 == header.chr + (header.flags2 \div 16) * 256
Nes2 ==
    /\ (header.flags1 \div 4) % 4 = 2
    /\ 16384 * PrgSize2 + 8192 * ChrSize2 <= header.size

PrgRomSize == IF Nes2 THEN PrgSize2 ELSE header.prg
ChrRomSize == IF Nes2 THEN ChrSize2 ELSE header.chr

ArchaicInes == (header.flags0 \div 4) % 4 = 1
Ines ==
    /\ header.flags0 = 0
    /\ header.flags1 = 0
    /\ header.flags2 = 0
    /\ header.restZero
Ines07 == ~(Nes2 \/ ArchaicInes \/ Ines)

TrainerPresent == (header.flags0 \div 4) % 2 = 1

(* 0 is NES, 2 is PLAYCHOICE_10. *)
ConsoleType == IF ArchaicInes \/ Ines07 THEN 0 ELSE header.flags1 % 4

(* Mutation: the high bits taken from flags[2].                           *)
MapperFromFlags2 ==
    (header.flags0 \div 16) +
    (IF Nes2 THEN (header.flags2 % 16) * 256 ELSE 0)

(* The high bits come from flags[0] a second time, not from flags[1]. *)
Mapper ==
    (header.flags0 \div 16) + (IF Nes2 THEN (header.flags1 % 16) * 256 ELSE 0)

(* get_byte masks an address into the ROM by nes.prg_size, a byte.         *)
PrgMask == IF PrgRomSize % 256 = 1 THEN 16384 ELSE 32768

Init ==
    /\ pc = "info"
    /\ header \in Header
    /\ heap = {}
    /\ playchoice = "null"
    /\ frame = 0
    /\ cycles \in StartCycles

(* A piece that can only be read or not. *)
Proceed(here, next) ==
    /\ pc = here
    /\ pc' = next
    /\ UNCHANGED <<header, heap, playchoice, frame, cycles>>

(* return, after the frees that stand before it. *)
Leave(here, freed) ==
    /\ pc = here
    /\ pc' = "returned"
    /\ heap' = heap \ freed
    /\ UNCHANGED <<header, playchoice, frame, cycles>>

GetInfo == Proceed("info", "header") \/ Leave("info", {})

(* A short or failed read, or the wrong magic, ends it. *)
ReadHeader == Proceed("header", "trainer") \/ Leave("header", {})

ReadTrainer ==
    \/ Proceed("trainer", "prg")
    \/ TrainerPresent /\ Leave("trainer", {})

(* Mutation: a failed read frees nothing.                                 *)
LoadRomLeaks(here, next, block) ==
    /\ pc = here
    /\ \/ pc' = next /\ heap' = heap \cup {block}
       \/ pc' = "returned" /\ UNCHANGED heap
    /\ UNCHANGED <<header, playchoice, frame, cycles>>

(* malloc and read of one ROM: three outcomes. *)
LoadRom(here, next, block) ==
    /\ pc = here
    /\ \/ pc' = next /\ heap' = heap \cup {block}
       \/ pc' = "returned" /\ heap' = {}
    /\ UNCHANGED <<header, playchoice, frame, cycles>>

LoadPrg == LoadRom("prg", "chr", "prg")
LoadChr == LoadRom("chr", "playchoice", "chr")

(* free(playchoice_10) releases the block only if the pointer still leads  *)
(* to it.                                                                  *)
PlaychoiceFreed == IF playchoice' = "block" THEN {"playchoice"} ELSE {}

(* The data is read into the pointer, not where it points: the part of it  *)
(* that arrives overwrites the pointer, and when it is longer than that    *)
(* the stack behind it; the program may go on ("title") or not.            *)
LoadPlaychoice ==
    /\ pc = "playchoice"
    /\ IF ConsoleType = 2
       THEN \/ pc' = "returned" /\ heap' = {} /\ UNCHANGED playchoice
            \/ /\ playchoice' \in {"block", "garbage"}
               /\ pc' = "returned" \/ (playchoice' = "garbage" /\ pc' = "smashed")
               /\ heap' = {"playchoice"} \ PlaychoiceFreed
            \/ /\ playchoice' = "garbage"
               /\ pc' \in {"title", "smashed"}
               /\ heap' = heap \cup {"playchoice"}
       ELSE pc' = "title" /\ UNCHANGED <<heap, playchoice>>
    /\ UNCHANGED <<header, frame, cycles>>

(* The frees of the later ways out: playchoice_10 too, if the console type *)
(* is PLAYCHOICE_10.                                                       *)
AllFreed ==
    {"prg", "chr"} \cup
    (IF ConsoleType = 2 /\ playchoice = "block" THEN {"playchoice"} ELSE {})

ReadTitle == Proceed("title", "mapper") \/ Leave("title", AllFreed)

CheckMapper ==
    \/ Mapper = 0 /\ Proceed("mapper", "reset")
    \/ Mapper # 0 /\ Leave("mapper", AllFreed)

(* reset() pushes and jumps like an interrupt, which costs 7 cycles. *)
Reset ==
    /\ pc = "reset"
    /\ pc' = "run"
    /\ cycles' = (cycles + 7) % Word
    /\ UNCHANGED <<header, heap, playchoice, frame>>

(* An instruction that is not implemented has no cycles and changes        *)
(* nothing here; NesCpu shows that it cannot go on like that.              *)
CpuStep ==
    /\ pc = "run"
    /\ cycles < VBlank
    /\ \E c \in Costs : cycles' = (cycles + c) % Word
    /\ UNCHANGED <<pc, header, heap, playchoice, frame>>

(* Mutation: the cycles are not cleared.                                  *)
VerticalBlankKeepsCycles ==
    /\ pc = "run"
    /\ cycles >= VBlank
    /\ frame' = frame + 1
    /\ cycles' = (cycles + 7) % Word
    /\ pc' = IF frame' = 3 THEN "cleanup" ELSE "run"
    /\ UNCHANGED <<header, heap, playchoice>>

(* Mutation: the frame is not counted.                                    *)
VerticalBlankUncounted ==
    /\ pc = "run"
    /\ cycles >= VBlank
    /\ cycles' = 7
    /\ UNCHANGED <<pc, header, heap, playchoice, frame>>

(* The frame is over: the counter is cleared and nmi() costs 7. *)
VerticalBlank ==
    /\ pc = "run"
    /\ cycles >= VBlank
    /\ frame' = frame + 1
    /\ cycles' = 7
    /\ pc' = IF frame' = 3 THEN "cleanup" ELSE "run"
    /\ UNCHANGED <<header, heap, playchoice>>

Cleanup == Leave("cleanup", AllFreed)

Next ==
    \/ GetInfo
    \/ ReadHeader
    \/ ReadTrainer
    \/ LoadPrg
    \/ LoadChr
    \/ LoadPlaychoice
    \/ ReadTitle
    \/ CheckMapper
    \/ Reset
    \/ CpuStep
    \/ VerticalBlank
    \/ Cleanup

(* Nothing in run_nes_rom() waits for anyone. *)
Spec == Init /\ [][Next]_vars /\ WF_vars(Next)

---------------------------------------------------------------------------
Stages == {"info", "header", "trainer", "prg", "chr", "playchoice", "title",
           "mapper", "reset", "run", "smashed", "cleanup",
           "returned"}

TypeOK ==
    /\ pc \in Stages
    /\ header \in Header
    /\ heap \subseteq {"prg", "chr", "playchoice"}
    /\ playchoice \in {"null", "block", "garbage"}
    /\ frame \in 0 .. 3
    /\ cycles \in 0 .. Word - 1

(* Every way out frees what was allocated by then; the one exception is    *)
(* the PlayChoice-10 data, once its own pointer was overwritten.           *)
AllIsFreed ==
    pc = "returned" =>
        heap \subseteq (IF playchoice = "garbage" THEN {"playchoice"} ELSE {})

(* The CPU reads its program from memory that is still allocated.          *)
RunsInAllocatedRom ==
    pc \in {"reset", "run", "cleanup"} => {"prg", "chr"} \subseteq heap

(* The bits that make an image NES 2.0 are also bits of its mapper, so no  *)
(* NES 2.0 image is ever run, and none with the PlayChoice-10 data: what   *)
(* runs is an NES.                                                         *)
OnlyOldNesRuns ==
    pc \in {"reset", "run", "cleanup"} =>
        ~Nes2 /\ ConsoleType = 0 /\ playchoice = "null"

(* The masked address stays in the ROM that was allocated, unless the      *)
(* image has none: an image with no bank at all is read past its end.      *)
PrgMaskInRom ==
    (pc \in {"reset", "run"} /\ PrgRomSize # 0) =>
        PrgMask <= 16384 * PrgRomSize

(* What reaches the CPU of run_nes_rom() was loaded whole and is of a kind *)
(* the emulator knows: the conditions of lines 1252 to 1396 together.      *)
RunsWhatItLoaded ==
    TypeOK /\ RunsInAllocatedRom /\ OnlyOldNesRuns /\ PrgMaskInRom

(* A frame overruns its budget by less than one instruction; only the      *)
(* first, which starts from a counter nobody set, may be of any length.    *)
FrameOverrun == frame > 0 => cycles < VBlank + 8

(* The emulator returns to the terminal, unless it lost its stack.         *)
Returns == <>(pc \in {"returned", "smashed"})
===========================================================================
