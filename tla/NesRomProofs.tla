--------------------------- MODULE NesRomProofs ---------------------------
(***************************************************************************)
(* What holds of the loader and of its loop for every image, every file    *)
(* size, every frame length and every cost of an instruction.              *)
(***************************************************************************)
EXTENDS NesRom, TLAPS

Running == {"reset", "run", "cleanup"}

(* What is allocated at each piece, and what it says of the image: the     *)
(* strengthening that makes the three safety invariants inductive.         *)
HeapAtPiece ==
    /\ pc \in {"info", "header", "trainer", "prg"} => heap = {}
    /\ pc = "chr" => heap = {"prg"}
    /\ pc = "playchoice" => heap = {"prg", "chr"}
    /\ pc \in {"info", "header", "trainer", "prg", "chr", "playchoice"} =>
           playchoice = "null"
    /\ pc \in {"title", "mapper"} =>
           \/ ConsoleType # 2 /\ playchoice = "null" /\ heap = {"prg", "chr"}
           \/ /\ ConsoleType = 2 /\ playchoice = "garbage"
              /\ heap = {"prg", "chr", "playchoice"}
    /\ pc \in Running => heap = {"prg", "chr"} /\ playchoice = "null" /\ Mapper = 0
    /\ AllIsFreed

IInv == header \in Header /\ HeapAtPiece

(* An image with a mapper number of 0 is not NES 2.0, because the bits     *)
(* that mark NES 2.0 enter the number; and it is for the NES console.      *)
LEMMA MapperZero ==
    ASSUME header \in Header, Mapper = 0
    PROVE  ~Nes2 /\ ConsoleType = 0
<1>1. header.flags0 \in 0 .. 255 /\ header.flags1 \in 0 .. 255
  BY NesRomAssumption DEF Header
<1>2. ~Nes2
  <2>1. SUFFICES ASSUME Nes2 PROVE FALSE
    OBVIOUS
  <2>2. (header.flags1 \div 4) % 4 = 2
    BY <2>1 DEF Nes2
  <2>3. header.flags1 % 16 # 0
    BY <1>1, <2>2
  <2>4. Mapper = (header.flags0 \div 16) + (header.flags1 % 16) * 256
    BY <2>1 DEF Mapper
  <2>5. header.flags0 \div 16 \in Nat /\ header.flags1 % 16 \in Nat
    BY <1>1
  <2> QED
    BY <2>3, <2>4, <2>5
<1>3. ConsoleType = 0
  <2>1. CASE ArchaicInes \/ Ines07
    BY <2>1 DEF ConsoleType
  <2>2. CASE ~(ArchaicInes \/ Ines07)
    <3>1. Ines
      BY <1>2, <2>2 DEF Ines07
    <3>2. header.flags1 % 4 = 0
      BY <3>1 DEF Ines
    <3> QED
      BY <3>2, <2>2 DEF ConsoleType
  <2> QED
    BY <2>1, <2>2
<1> QED
  BY <1>2, <1>3

(* The header is only ever read: what is computed from it does not change. *)
LEMMA HeaderFixed ==
    ASSUME UNCHANGED header
    PROVE  ConsoleType' = ConsoleType /\ Mapper' = Mapper
BY DEF ConsoleType, Mapper, ArchaicInes, Ines07, Ines, Nes2, PrgSize2, ChrSize2

LEMMA Initially == Init => IInv
BY DEF Init, IInv, HeapAtPiece, AllIsFreed, Running

LEMMA Inductive == IInv /\ [Next]_vars => IInv'
<1> SUFFICES ASSUME IInv, [Next]_vars PROVE IInv'
  OBVIOUS
<1> USE DEF IInv, HeapAtPiece, AllIsFreed, Running
<1>0. UNCHANGED header
  BY DEF Next, vars, GetInfo, ReadHeader, ReadTrainer, LoadPrg, LoadChr,
     LoadRom, LoadPlaychoice, ReadTitle, CheckMapper, Reset, CpuStep,
     VerticalBlank, Cleanup, Proceed, Leave
<1>h. ConsoleType' = ConsoleType /\ Mapper' = Mapper
  BY <1>0, HeaderFixed
<1>1. CASE GetInfo
  BY <1>1, <1>0, <1>h DEF GetInfo, Proceed, Leave
<1>2. CASE ReadHeader
  BY <1>2, <1>0, <1>h DEF ReadHeader, Proceed, Leave
<1>3. CASE ReadTrainer
  BY <1>3, <1>0, <1>h DEF ReadTrainer, Proceed, Leave
<1>4. CASE LoadPrg
  BY <1>4, <1>0, <1>h DEF LoadPrg, LoadRom
<1>5. CASE LoadChr
  BY <1>5, <1>0, <1>h DEF LoadChr, LoadRom
<1>6. CASE LoadPlaychoice
  BY <1>6, <1>0, <1>h DEF LoadPlaychoice, PlaychoiceFreed
<1>7. CASE ReadTitle
  BY <1>7, <1>0, <1>h DEF ReadTitle, Proceed, Leave, AllFreed
<1>8. CASE CheckMapper
  <2>1. CASE Mapper = 0 /\ Proceed("mapper", "reset")
    <3>1. ConsoleType = 0
      BY <2>1, MapperZero
    <3> QED
      BY <3>1, <2>1, <1>0, <1>h DEF Proceed
  <2>2. CASE Mapper # 0 /\ Leave("mapper", AllFreed)
    BY <2>2, <1>0, <1>h DEF Leave, AllFreed
  <2> QED
    BY <1>8, <2>1, <2>2 DEF CheckMapper
<1>9. CASE Reset \/ CpuStep \/ VerticalBlank
  BY <1>9, <1>0, <1>h DEF Reset, CpuStep, VerticalBlank
<1>10. CASE Cleanup
  BY <1>10, <1>0, <1>h DEF Cleanup, Leave, AllFreed
<1>11. CASE UNCHANGED vars
  BY <1>11, <1>0, <1>h DEF vars
<1> QED
  BY <1>1, <1>2, <1>3, <1>4, <1>5, <1>6, <1>7, <1>8, <1>9, <1>10, <1>11 DEF Next

(* No way out of run_nes_rom() leaks, but for the PlayChoice-10 data; the  *)
(* CPU never runs out of freed memory; and NES 2.0 images never run.       *)
THEOREM LoaderIsSafe ==
    Spec => [](AllIsFreed /\ RunsInAllocatedRom /\ OnlyOldNesRuns)
<1>1. IInv => AllIsFreed /\ RunsInAllocatedRom /\ OnlyOldNesRuns
  BY MapperZero DEF IInv, HeapAtPiece, Running, RunsInAllocatedRom, OnlyOldNesRuns
<1> QED
  BY <1>1, Initially, Inductive, PTL DEF Spec

---------------------------------------------------------------------------
(* The cycle counter is a word; frames only pass after the reset; and      *)
(* after the first vertical blank the counter is bounded.                  *)
CyclesInv ==
    /\ cycles \in 0 .. Word - 1
    /\ frame \in Nat
    /\ frame > 0 => pc \in {"run", "cleanup", "returned"}
    /\ FrameOverrun

LEMMA CyclesInitially == Init => CyclesInv
BY NesRomAssumption DEF Init, CyclesInv, FrameOverrun

LEMMA CyclesInductive == CyclesInv /\ [Next]_vars => CyclesInv'
<1> SUFFICES ASSUME CyclesInv, [Next]_vars PROVE CyclesInv'
  OBVIOUS
<1> USE NesRomAssumption DEF CyclesInv, FrameOverrun
<1>1. CASE Reset
  BY <1>1 DEF Reset
<1>2. CASE CpuStep
  <2>1. PICK c \in Costs : cycles' = (cycles + c) % Word
    BY <1>2 DEF CpuStep
  <2>2. cycles < VBlank /\ c \in 1 .. 8
    BY <1>2 DEF CpuStep
  <2>3. cycles' = cycles + c
    BY <2>1, <2>2
  <2> QED
    BY <1>2, <2>2, <2>3 DEF CpuStep
<1>3. CASE VerticalBlank
  BY <1>3 DEF VerticalBlank
<1>4. CASE GetInfo \/ ReadHeader \/ ReadTrainer \/ LoadPrg \/ LoadChr
  BY <1>4 DEF GetInfo, ReadHeader, ReadTrainer, LoadPrg, LoadChr, LoadRom,
     Proceed, Leave
<1>5. CASE LoadPlaychoice \/ ReadTitle \/ CheckMapper \/ Cleanup
  BY <1>5 DEF LoadPlaychoice, ReadTitle, CheckMapper, Cleanup, Proceed,
     Leave
<1>6. CASE UNCHANGED vars
  BY <1>6 DEF vars
<1> QED
  BY <1>1, <1>2, <1>3, <1>4, <1>5, <1>6 DEF Next

(* Every frame but the first overruns its budget by less than one          *)
(* instruction, whatever the budget is.                                    *)
THEOREM FramesAreBounded == Spec => []FrameOverrun
<1>1. CyclesInv => FrameOverrun
  BY DEF CyclesInv
<1> QED
  BY <1>1, CyclesInitially, CyclesInductive, PTL DEF Spec

---------------------------------------------------------------------------
(* Every third vertical blank ends the loop, which bounds the frames.      *)
TypesInv ==
    /\ IInv
    /\ CyclesInv
    /\ TypeOK
    /\ pc \in {"reset", "run"} => frame < 3

LEMMA TypesInitially == Init => TypesInv
<1> SUFFICES ASSUME Init PROVE TypesInv
  OBVIOUS
<1>1. IInv /\ CyclesInv
  BY Initially, CyclesInitially
<1>2. TypeOK
  BY NesRomAssumption DEF Init, TypeOK, Stages
<1> QED
  BY <1>1, <1>2 DEF Init, TypesInv

LEMMA TypesInductive == TypesInv /\ [Next]_vars => TypesInv'
<1> SUFFICES ASSUME TypesInv, [Next]_vars PROVE TypesInv'
  OBVIOUS
<1>1. IInv' /\ CyclesInv'
  BY Inductive, CyclesInductive DEF TypesInv
<1>2. /\ TypeOK
      /\ frame > 0 => pc \in {"run", "cleanup", "returned"}
      /\ pc \in {"reset", "run"} => frame < 3
      /\ header' \in Header
      /\ cycles' \in 0 .. Word - 1
  BY <1>1 DEF TypesInv, CyclesInv, IInv
<1>3. TypeOK' /\ (pc \in {"reset", "run"} => frame < 3)'
  <2>1. CASE GetInfo \/ ReadHeader \/ ReadTrainer \/ LoadPrg \/ LoadChr
    BY <1>2, <2>1 DEF TypeOK, Stages, GetInfo, ReadHeader, ReadTrainer, LoadPrg,
       LoadChr, LoadRom, Proceed, Leave
  <2>2. CASE LoadPlaychoice
    BY <1>2, <2>2 DEF TypeOK, Stages, LoadPlaychoice
  <2>3. CASE ReadTitle \/ CheckMapper \/ Cleanup
    <3>1. /\ pc' \in Stages /\ pc' # "run" /\ playchoice' = playchoice
          /\ frame' = frame /\ cycles' = cycles
          /\ heap' = heap \/ heap' = heap \ AllFreed
          /\ pc' = "reset" => pc = "mapper"
      BY <2>3 DEF Stages, ReadTitle, CheckMapper, Cleanup, Proceed, Leave
    <3>2. heap' \subseteq {"prg", "chr", "playchoice"}
      BY <1>2, <3>1 DEF TypeOK
    <3>3. pc' \in {"reset", "run"} => frame = 0
      BY <1>2, <3>1 DEF TypeOK
    <3> QED
      BY <1>2, <3>1, <3>2, <3>3 DEF TypeOK
  <2>4. CASE Reset \/ CpuStep
    BY <1>2, <2>4 DEF TypeOK, Stages, Reset, CpuStep
  <2>5. CASE VerticalBlank
    BY <1>2, <2>5 DEF TypeOK, Stages, VerticalBlank
  <2>6. CASE UNCHANGED vars
    BY <1>2, <2>6 DEF TypeOK, vars
  <2> QED
    BY <2>1, <2>2, <2>3, <2>4, <2>5, <2>6 DEF Next
<1> QED
  BY <1>1, <1>3 DEF TypesInv

(* The mask is one bank for a ROM whose size has a low byte of 1, which    *)
(* has at least one, and two banks for any other.                          *)
LEMMA MaskFits ==
    ASSUME header \in Header, PrgRomSize # 0
    PROVE  PrgMask <= 16384 * PrgRomSize
<1>1. header.prg \in 0 .. 255 /\ header.flags2 \in 0 .. 255
  BY NesRomAssumption DEF Header
<1>2. header.flags2 % 16 \in Nat
  BY <1>1
<1>3. PrgRomSize \in Nat
  BY <1>1, <1>2 DEF PrgRomSize, PrgSize2
<1>4. CASE PrgRomSize = 1
  BY <1>4 DEF PrgMask
<1>5. CASE PrgRomSize >= 2
  BY <1>3, <1>5 DEF PrgMask
<1> QED
  BY <1>3, <1>4, <1>5

(* Whatever the image says, the CPU runs a ROM that is allocated, of a     *)
(* kind the emulator knows, and masks its addresses into it.               *)
THEOREM RomIsRunWhole == Spec => []RunsWhatItLoaded
<1>1. TypesInv => RunsWhatItLoaded
  <2> SUFFICES ASSUME TypesInv PROVE RunsWhatItLoaded
    OBVIOUS
  <2>1. TypeOK /\ header \in Header
    BY DEF TypesInv, IInv
  <2>2. RunsInAllocatedRom /\ OnlyOldNesRuns
    BY MapperZero DEF TypesInv, IInv, HeapAtPiece, Running, RunsInAllocatedRom,
       OnlyOldNesRuns
  <2>3. PrgMaskInRom
    BY <2>1, MaskFits DEF PrgMaskInRom
  <2> QED
    BY <2>1, <2>2, <2>3 DEF RunsWhatItLoaded
<1> QED
  BY <1>1, TypesInitially, TypesInductive, PTL DEF Spec
===========================================================================
