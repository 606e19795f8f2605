------------------------------ MODULE NesCpu ------------------------------
(***************************************************************************)
(* The CPU of src/nes/nes.c: struct nes_state, its memory map, cpu_step()  *)
(* and the loop of run_nes_rom() that drives it for three frames.          *)
(*                                                                         *)
(* Bytes and addresses keep their width.  Memory holds the cells that were *)
(* written; what nobody wrote reads as nes.fill, because struct nes_state  *)
(* is not initialised.  The PRG ROM is a pattern that repeats.             *)
(***************************************************************************)
EXTENDS Integers, Sequences, FiniteSets

CONSTANTS Roms,    \* patterns of PRG ROM
          Starts,  \* values of struct nes_state before reset()
          VBlank,  \* VBLANK_CYCLES, 2270 in the code
          Sample   \* addresses of the program that are pushed as examples

Byte    == 0 .. 255
Address == 0 .. 2^16 - 1

(* The bits of enum flags. *)
C == 0
Z == 1
I == 2
D == 3
B == 4
UNUSED_FLAG == 5
V == 6
N == 7

(* Where the ROM says an interrupt goes. *)
RESET_VECTOR == \hfffc
NMI_VECTOR   == \hfffa

NesState == [a: Byte, x: Byte, y: Byte, s: Byte, p: SUBSET (0 .. 7),
             pc: Address, cycles: Nat, fill: Byte]

ASSUME NesCpuAssumption ==
    /\ \A rom \in Roms : Len(rom) \in {1, 2, 4, 8, 16} /\ rom \in Seq(Byte)
    /\ Starts \subseteq NesState
    /\ VBlank \in Nat \ {0}
    /\ Sample \subseteq Address

VARIABLES nes,    \* the registers, p as the set of its bits
          mem,    \* ram, ppu, apu_io and test: the cells that were written
          rom,    \* prg_rom
          phase,  \* "reset", "run" or "done"
          frame   \* vertical blanks so far

vars == <<nes, mem, rom, phase, frame>>

---------------------------------------------------------------------------
Bits(byte) == {i \in 0 .. 7 : (byte \div 2^i) % 2 = 1}

Value(bits) ==
    LET bit(i) == IF i \in bits THEN 2^i ELSE 0
    IN  bit(0) + bit(1) + bit(2) + bit(3) + bit(4) + bit(5) + bit(6) + bit(7)

(* A machine is what an instruction works on: registers and memory. *)
Machine == [reg |-> nes, mem |-> mem]

Cell(addr) ==
    IF addr < \h2000 THEN addr % \h800
    ELSE IF addr < \h4000 THEN \h2000 + (addr % 8)
    ELSE addr

Read(m, cell) == IF cell \in DOMAIN m.mem THEN m.mem[cell] ELSE m.reg.fill

(* Between the last register and the ROM nothing answers, with a 0. *)
get_byte(m, addr) ==
    IF addr < \h4020 THEN Read(m, Cell(addr))
    ELSE IF addr < \h8000 THEN 0
    ELSE rom[(addr % Len(rom)) + 1]

(* m with the memory of a cell that may be written for the first time. *)
Open(m, cell) ==
    [m EXCEPT !.mem = [c \in DOMAIN @ \cup {cell} |-> IF c \in DOMAIN @ THEN @[c] ELSE 0]]

Write(m, cell, value) == [Open(m, cell) EXCEPT !.mem[cell] = value]

set_byte(m, addr, value) ==
    IF addr < \h4020 THEN Write(m, Cell(addr), value) ELSE m

set_flag(m, flag, value) ==
    [m EXCEPT !.reg.p = IF value THEN @ \cup {flag} ELSE @ \ {flag}]

update_zn(m, value) == set_flag(set_flag(m, Z, value = 0), N, value >= 128)

update_v(m, original, operand) ==
    LET sign(byte) == byte >= 128
    IN  set_flag(m, V, sign(original) = sign(operand)
                       /\ sign(original) # sign(m.reg.a))

(* Mutation: the stack pointer points at the last byte, not below it. *)
PushAbove(m, value) ==
    [Write(m, \h100 + m.reg.s + 1, value) EXCEPT !.reg.s = (@ - 1) % 256]

push(m, value) ==
    [Write(m, \h100 + m.reg.s, value) EXCEPT !.reg.s = (@ - 1) % 256]

Popped(m) == [m EXCEPT !.reg.s = (@ + 1) % 256]
Top(m)    == Read(m, \h100 + ((m.reg.s + 1) % 256))

cycle(m, cycles) == [m EXCEPT !.reg.cycles = @ + cycles]

(* Mutation: the address is pushed byte by byte, not digit by digit. *)
PushBytes(m, addr) == push(push(m, addr \div 256), addr % 256)

push_addr(m, addr) == push(push(m, (addr \div 256) % 16), addr % 16)

pop_addr(m) ==
    [Popped(Popped(m)) EXCEPT !.reg.pc = Top(m) * 256 + Top(Popped(m))]

push_status(m) ==
    LET set == set_flag(m, UNUSED_FLAG, TRUE) IN push(set, Value(set.reg.p))

pop_status(m) == [Popped(m) EXCEPT !.reg.p = Bits(Top(m)) \ {B}]

Word(m, addr) == get_byte(m, (addr + 1) % 65536) * 256 + get_byte(m, addr)

(* The B flag is cleared for BRK too, which has just set it. *)
interrupt(m, vector) ==
    LET saved == push_status(push_addr(set_flag(m, B, FALSE), m.reg.pc))
    IN  cycle([saved EXCEPT !.reg.pc = Word(saved, vector)], 7)

PpuInitial == [i \in \h2000 .. \h2007 |-> IF i = \h2002 THEN 160 ELSE 0]

reset(m) ==
    LET in == set_flag(interrupt(m, RESET_VECTOR), I, TRUE)
    IN  [in EXCEPT !.reg.s = 255,
                   !.mem = [c \in DOMAIN @ \cup DOMAIN PpuInitial |->
                               IF c \in DOMAIN PpuInitial THEN PpuInitial[c] ELSE @[c]]]

---------------------------------------------------------------------------
(* Addressing.  m.reg.pc is past the opcode. *)
addr_abs(m) == Word(m, m.reg.pc)
addr_zpg(m) == get_byte(m, m.reg.pc)

addr_ind(m) ==
    LET addr == addr_abs(m)
        next == IF addr % 256 # 255 THEN addr + 1 ELSE addr - 255
    IN  get_byte(m, next) * 256 + get_byte(m, addr)

(* Twice indirect, and the carry into the zero page's neighbour is kept on *)
(* the first of the two.                                                   *)
addr_xind(m) ==
    LET zpg  == (addr_zpg(m) + m.reg.x) % 256
        addr == get_byte(m, zpg + 1) * 256 + get_byte(m, zpg)
    IN  get_byte(m, (addr + 1) % 256) * 256 + get_byte(m, addr)

Target(m, mode) ==
    CASE mode = "imm"  -> m.reg.pc
      [] mode = "zpg"  -> addr_zpg(m)
      [] mode = "zpgx" -> addr_zpg(m) + m.reg.x
      [] mode = "zpgy" -> addr_zpg(m) + m.reg.y
      [] mode = "abs"  -> addr_abs(m)
      [] mode = "absx" -> (addr_abs(m) + m.reg.x) % 65536
      [] mode = "absy" -> (addr_abs(m) + m.reg.y) % 65536
      [] mode = "xind" -> addr_xind(m)
      [] mode = "indy" -> (addr_ind(m) + m.reg.y) % 256

(* The page boundary cycle. *)
Crossing(m, mode) ==
    LET page(addr) == addr \div 256
        base == IF mode \in {"zpgx", "zpgy"} THEN addr_zpg(m) ELSE addr_abs(m)
    IN  IF mode \in {"zpgx", "zpgy", "absx", "absy"}
           /\ page(base) # page(Target(m, mode))
        THEN 1 ELSE 0

Length(mode) == IF mode \in {"abs", "absx", "absy", "indy"} THEN 2 ELSE 1

Skip(m, bytes) == [m EXCEPT !.reg.pc = (@ + bytes) % 65536]

(* m once its operand has been read. *)
Past(m, mode) == cycle(Skip(m, Length(mode)), Crossing(m, mode))

---------------------------------------------------------------------------
(* The opcodes cpu_step() has a case for, by instruction and mode. *)
GroupOne(base) ==
    [xind |-> base + 1, zpg |-> base + 5, imm |-> base + 9,
     abs |-> base + 13, indy |-> base + 17, zpgx |-> base + 21,
     absy |-> base + 25, absx |-> base + 29]

Logic == [ORA |-> GroupOne(\h00), AND |-> GroupOne(\h20), EOR |-> GroupOne(\h40)]
Adc == GroupOne(\h60)
Sbc == GroupOne(\he0)

Loads ==
    [LDA |-> GroupOne(\ha0),
     LDX |-> [imm |-> \ha2, zpg |-> \ha6, zpgy |-> \hb6, abs |-> \hae,
              absy |-> \hbe],
     LDY |-> [imm |-> \ha0, zpg |-> \ha4, zpgx |-> \hb4, abs |-> \hac,
              absx |-> \hbc]]

Stores ==
    [STA |-> [mode \in DOMAIN GroupOne(0) \ {"imm"} |-> GroupOne(\h80)[mode]],
     STX |-> [zpg |-> \h86, zpgy |-> \h96, abs |-> \h8e],
     STY |-> [zpg |-> \h84, zpgx |-> \h94, abs |-> \h8c]]

Asl == [zpg |-> \h06, zpgx |-> \h16, abs |-> \h0e, absx |-> \h1e]
Bit == [zpg |-> \h24, abs |-> \h2c]

(* The flag a branch tests, and the value it wants. *)
Branches ==
    [BPL |-> <<\h10, N, FALSE>>, BMI |-> <<\h30, N, TRUE>>,
     BVC |-> <<\h50, V, FALSE>>, BVS |-> <<\h70, V, TRUE>>,
     BCC |-> <<\h90, C, FALSE>>, BCS |-> <<\hb0, C, TRUE>>,
     BNE |-> <<\hd0, Z, FALSE>>, BEQ |-> <<\hf0, Z, TRUE>>]

FlagOps ==
    [CLC |-> <<\h18, C, FALSE>>, SEC |-> <<\h38, C, TRUE>>,
     CLI |-> <<\h58, I, FALSE>>, SEI |-> <<\h78, I, TRUE>>,
     CLD |-> <<\hd8, D, FALSE>>, SED |-> <<\hf8, D, TRUE>>,
     CLV |-> <<\hb8, V, FALSE>>]

Implied ==
    [BRK |-> \h00, PHP |-> \h08, ASL |-> \h0a, JSR |-> \h20, PLP |-> \h28,
     RTI |-> \h40, PHA |-> \h48, JMP |-> \h4c, RTS |-> \h60, PLA |-> \h68,
     JMP_ind |-> \h6c, DEY |-> \h88, TXA |-> \h8a, TYA |-> \h98, TXS |-> \h9a,
     TAY |-> \ha8, TAX |-> \haa, TSX |-> \hba, INY |-> \hc8, DEX |-> \hca,
     INX |-> \he8, NOP |-> \hea]

Opcodes(table) == {table[i] : i \in DOMAIN table}

Implemented ==
    Opcodes(Implied) \cup Opcodes(Adc) \cup Opcodes(Sbc) \cup Opcodes(Asl)
    \cup Opcodes(Bit) \cup {b[1] : b \in Opcodes(Branches) \cup Opcodes(FlagOps)}
    \cup UNION {Opcodes(t) : t \in Opcodes(Logic) \cup Opcodes(Loads)
                                   \cup Opcodes(Stores)}

ReadCost ==
    [imm |-> 2, zpg |-> 3, zpgx |-> 4, zpgy |-> 4, abs |-> 4, absx |-> 4,
     absy |-> 4, xind |-> 6, indy |-> 5]
WriteCost ==
    [zpg |-> 3, zpgx |-> 4, zpgy |-> 4, abs |-> 4, absx |-> 5, absy |-> 5,
     xind |-> 6, indy |-> 6]
AslCost == [zpg |-> 5, zpgx |-> 6, abs |-> 6, absx |-> 7]

---------------------------------------------------------------------------
Opcode == get_byte(Machine, nes.pc)

(* The machine when an instruction's case is entered: past its opcode.     *)
Fetched == Skip(Machine, 1)

(* One cpu_step() whose opcode is op, and which leaves m at some cost. *)
Execute(op, m, cost) ==
    /\ phase = "run"
    /\ nes.cycles < VBlank
    /\ Opcode = op
    /\ nes' = cycle(m, cost).reg
    /\ mem' = m.mem
    /\ UNCHANGED <<rom, phase, frame>>

Operand(mode) == get_byte(Fetched, Target(Fetched, mode))
Ready(mode)   == Past(Fetched, mode)

Nop == Execute(Implied.NOP, Fetched, 2)

Goto(m, addr) == [m EXCEPT !.reg.pc = addr]

Jsr ==
    LET m == push_addr(Fetched, (nes.pc + 3) % 65536)
    IN  Execute(Implied.JSR, Goto(m, addr_abs(m)), 6)

Rts == Execute(Implied.RTS, pop_addr(Fetched), 6)
Rti == Execute(Implied.RTI, pop_addr(pop_status(Fetched)), 6)

(* Mutation: a jump costs nothing. *)
JmpForFree ==
    \/ Execute(Implied.JMP, Goto(Fetched, addr_abs(Fetched)), 0)
    \/ Execute(Implied.JMP_ind, Goto(Fetched, addr_ind(Fetched)), 0)

Jmp ==
    \/ Execute(Implied.JMP, Goto(Fetched, addr_abs(Fetched)), 3)
    \/ Execute(Implied.JMP_ind, Goto(Fetched, addr_ind(Fetched)), 5)

(* BRK goes where reset does. *)
Brk == Execute(Implied.BRK, interrupt(set_flag(Fetched, B, TRUE), RESET_VECTOR), 0)

(* The offset is the byte behind the operand. *)
Branch ==
    \E b \in Opcodes(Branches) :
        LET m      == Skip(Fetched, 1)
            byte   == get_byte(m, m.reg.pc)
            addr   == (m.reg.pc + byte - (IF byte >= 128 THEN 256 ELSE 0)) % 65536
            extra  == IF addr \div 256 # m.reg.pc \div 256 THEN 1 ELSE 0
        IN  IF (b[2] \in nes.p) = b[3]
            THEN Execute(b[1], Goto(m, addr), 3 + extra)
            ELSE Execute(b[1], m, 2)

Flag == \E f \in Opcodes(FlagOps) : Execute(f[1], set_flag(Fetched, f[2], f[3]), 2)

Store(name, value) ==
    \E mode \in DOMAIN Stores[name] :
        Execute(Stores[name][mode],
                set_byte(Ready(mode), Target(Fetched, mode), value),
                WriteCost[mode])

Sta == Store("STA", nes.a)
Stx == Store("STX", nes.x)
Sty == Store("STY", nes.y)

SetA(m, value) == [m EXCEPT !.reg.a = value]
SetX(m, value) == [m EXCEPT !.reg.x = value]
SetY(m, value) == [m EXCEPT !.reg.y = value]

(* Only LDY sets the flags. *)
Lda ==
    \E mode \in DOMAIN Loads.LDA :
        Execute(Loads.LDA[mode], SetA(Ready(mode), Operand(mode)), ReadCost[mode])
Ldx ==
    \E mode \in DOMAIN Loads.LDX :
        Execute(Loads.LDX[mode], SetX(Ready(mode), Operand(mode)), ReadCost[mode])
Ldy ==
    \E mode \in DOMAIN Loads.LDY :
        Execute(Loads.LDY[mode],
                update_zn(SetY(Ready(mode), Operand(mode)), Operand(mode)),
                ReadCost[mode])

Stack ==
    \/ Execute(Implied.PHP, push_status(set_flag(Fetched, B, TRUE)), 3)
    \/ Execute(Implied.PLP, pop_status(Fetched), 4)
    \/ Execute(Implied.PHA, push(Fetched, nes.a), 3)
    \/ LET value == Top(Fetched)
       IN  Execute(Implied.PLA, update_zn(SetA(Popped(Fetched), value), value), 4)

Transfer ==
    \/ Execute(Implied.TAX, update_zn(SetX(Fetched, nes.a), nes.a), 2)
    \/ Execute(Implied.TAY, update_zn(SetY(Fetched, nes.a), nes.a), 2)
    \/ Execute(Implied.TSX, update_zn(SetX(Fetched, nes.s), nes.s), 2)
    \/ Execute(Implied.TXA, update_zn(SetA(Fetched, nes.x), nes.x), 2)
    \/ Execute(Implied.TXS, [Fetched EXCEPT !.reg.s = nes.x], 2)
    \/ Execute(Implied.TYA, update_zn(SetA(Fetched, nes.y), nes.y), 2)

Count ==
    LET up(byte) == (byte + 1) % 256
        down(byte) == (byte - 1) % 256
    IN  \/ Execute(Implied.INX, update_zn(SetX(Fetched, up(nes.x)), up(nes.x)), 2)
        \/ Execute(Implied.INY, update_zn(SetY(Fetched, up(nes.y)), up(nes.y)), 2)
        \/ Execute(Implied.DEX, update_zn(SetX(Fetched, down(nes.x)), down(nes.x)), 2)
        \/ Execute(Implied.DEY, update_zn(SetY(Fetched, down(nes.y)), down(nes.y)), 2)

Combine(name, b1, b2) ==
    CASE name = "ORA" -> b1 \cup b2
      [] name = "AND" -> b1 \cap b2
      [] name = "EOR" -> (b1 \cup b2) \ (b1 \cap b2)

Logical ==
    \E name \in DOMAIN Logic : \E mode \in DOMAIN Logic[name] :
        LET a == Value(Combine(name, Bits(nes.a), Bits(Operand(mode))))
        IN  Execute(Logic[name][mode], update_zn(SetA(Ready(mode), a), a),
                    ReadCost[mode])

(* Mutation: temp is still the operand when it is added. *)
AdcOperand ==
    \E mode \in DOMAIN Adc :
        LET sum == (nes.a + Operand(mode)) % 256
            m   == SetA(Ready(mode), sum)
        IN  Execute(Adc[mode],
                    set_flag(update_zn(update_v(m, nes.a, Operand(mode)), sum),
                             C, nes.a > sum),
                    ReadCost[mode])

(* V is computed before a changes, and temp, which held the operand, is    *)
(* overwritten with a before it is added: a is doubled.                    *)
AddWithCarry ==
    \E mode \in DOMAIN Adc :
        LET m   == update_v(Ready(mode), nes.a, 255 - Operand(mode))
            sum == (nes.a + nes.a) % 256
        IN  Execute(Adc[mode],
                    set_flag(update_zn(SetA(m, sum), sum), C, nes.a > sum),
                    ReadCost[mode])

(* The same for the difference. *)
SubtractWithCarry ==
    \E mode \in DOMAIN Sbc :
        LET m          == update_v(Ready(mode), nes.a, Operand(mode))
            difference == (nes.a - nes.a) % 256
        IN  Execute(Sbc[mode],
                    set_flag(update_zn(SetA(m, difference), difference),
                             C, difference > nes.a),
                    ReadCost[mode])

(* The address goes through temp, a byte.  No flag is set. *)
ShiftLeft ==
    \/ Execute(Implied.ASL, SetA(Fetched, (2 * nes.a) % 256), 2)
    \/ \E mode \in DOMAIN Asl :
         LET temp == Target(Fetched, mode) % 256
         IN  Execute(Asl[mode],
                     set_byte(Ready(mode), temp, (2 * get_byte(Fetched, temp)) % 256),
                     AslCost[mode])

TestBits ==
    \E mode \in DOMAIN Bit :
        LET buffer == Bits(nes.a) \cap Bits(Operand(mode))
            m      == set_flag(Ready(mode), N, 7 \in buffer)
        IN  Execute(Bit[mode], set_flag(set_flag(m, V, 6 \in buffer), Z, buffer = {}),
                    ReadCost[mode])

(* A warning, and no cycles. *)
Unimplemented == Opcode \notin Implemented /\ Execute(Opcode, Fetched, 0)

cpu_step ==
    \/ Nop \/ Jsr \/ Rts \/ Rti \/ Jmp \/ Brk \/ Branch \/ Flag
    \/ Sta \/ Stx \/ Sty \/ Lda \/ Ldx \/ Ldy
    \/ Stack \/ Transfer \/ Count \/ Logical
    \/ AddWithCarry \/ SubtractWithCarry \/ ShiftLeft \/ TestBits
    \/ Unimplemented

---------------------------------------------------------------------------
Init ==
    /\ nes \in Starts
    /\ mem = [cell \in {} |-> 0]
    /\ rom \in Roms
    /\ phase = "reset"
    /\ frame = 0

Reset ==
    /\ phase = "reset"
    /\ phase' = "run"
    /\ nes' = reset(Machine).reg
    /\ mem' = reset(Machine).mem
    /\ UNCHANGED <<rom, frame>>

(* The end of a frame: the cycles start again, and nmi(). *)
VerticalBlank ==
    /\ phase = "run"
    /\ nes.cycles >= VBlank
    /\ LET m == interrupt([Machine EXCEPT !.reg.cycles = 0], NMI_VECTOR)
       IN  nes' = m.reg /\ mem' = m.mem
    /\ frame' = frame + 1
    /\ phase' = IF frame' = 3 THEN "done" ELSE "run"
    /\ UNCHANGED rom

Next == Reset \/ cpu_step \/ VerticalBlank

Spec == Init /\ [][Next]_vars

(* The loop waits for nobody. *)
FairSpec == Spec /\ WF_vars(Next)

---------------------------------------------------------------------------
Cells == 0 .. \h7ff \cup \h2000 .. \h2007 \cup \h4000 .. \h401f

TypeOK ==
    /\ nes \in NesState
    /\ DOMAIN mem \subseteq Cells
    /\ \A cell \in DOMAIN mem : mem[cell] \in Byte
    /\ rom \in Roms
    /\ phase \in {"reset", "run", "done"}
    /\ frame \in 0 .. 3

(* What an instruction costs is what NesRom assumes: between 2 and 8       *)
(* cycles, or none; and one without cycles does nothing but move to the    *)
(* next byte.                                                              *)
StepCosts ==
    [][(phase = "run" /\ frame' = frame) =>
          LET cost == nes'.cycles - nes.cycles
          IN  \/ cost \in 2 .. 8
              \/ /\ cost = 0
                 /\ nes' = [nes EXCEPT !.pc = (@ + 1) % 65536]
                 /\ mem' = mem]_vars

Changed == {cell \in DOMAIN mem' : cell \notin DOMAIN mem \/ mem'[cell] # mem[cell]}

(* What a call, a BRK or an NMI saves lands in page 1, whatever the stack  *)
(* pointer is: it wraps, and no push reaches the page above.               *)
StackStaysInPageOne ==
    [][(phase = "run" /\ nes'.s \in {(nes.s - k) % 256 : k \in 1 .. 3}
        /\ Opcode # Implied.TXS) =>
          Changed \subseteq \h100 .. \h1ff]_vars

(* ASL on an absolute address shifts a byte of the zero page instead.      *)
ShiftsStayInZeroPage ==
    [][(phase = "run" /\ frame' = frame /\ Opcode \in Opcodes(Asl)) =>
          Changed \subseteq 0 .. 255]_vars

(* The instructions that write to a page of their own, the stack and the   *)
(* shifts, never write to another one.                                     *)
WritesStayInTheirPage == StackStaysInPageOne /\ ShiftsStayInZeroPage

(* The overflow flag never comes from arithmetic: ADC and SBC compute it   *)
(* from an accumulator that has not changed yet.                           *)
OverflowIsNeverArithmetic ==
    [][(V \in nes'.p /\ V \notin nes.p) =>
          Opcode \in Opcodes(Bit) \cup {Implied.PLP, Implied.RTI}]_vars

(* Of an address only the low digit of either byte is saved, and they are  *)
(* swapped when it is restored: no return from a subroutine or from an     *)
(* interrupt leads back into the program.                                  *)
ReturnsMissTheProgram ==
    \A addr \in Sample : pop_addr(push_addr(Machine, addr)).reg.pc < \h1000

(* The registers and the memory keep the widths of struct nes_state, and   *)
(* no saved address leads back into the program.                           *)
MachineIsSound == TypeOK /\ ReturnsMissTheProgram

(* Three frames pass, whatever the program is: bytes that are no           *)
(* instruction cost nothing, but a walk over them ends at the latest in    *)
(* the gap below the ROM, whose zeroes are BRKs.                           *)
Finishes == <>(phase = "done")
===========================================================================
