---------------------------- MODULE NesCpuProofs ----------------------------
(***************************************************************************)
(* What every program and every state of struct nes_state keep: the widths *)
(* of the registers and of memory, the cost of an instruction, the pages   *)
(* that are written to and the flags that arithmetic never raises.         *)
(*                                                                         *)
(* An instruction is a chain of the functions of the emulator, each of     *)
(* which works on a machine.  Leads() says what such a chain keeps from    *)
(* its beginning on, and one lemma for each function prolongs it.          *)
(***************************************************************************)
EXTENDS NesCpu, TLAPS

Flags == 0 .. 7

(* Memory of which some cells were written. *)
Memory == UNION {[S -> Byte] : S \in SUBSET Cells}

Machines == [reg : NesState, mem : Memory]

(* From one machine to a later one some cycles passed, none but these      *)
(* cells were written and none but these flags raised.                     *)
Leads(from, m, passed, cells, raised) ==
    /\ m \in Machines
    /\ m.reg.cycles = from.reg.cycles + passed
    /\ \A c \in DOMAIN m.mem : c \notin cells =>
           c \in DOMAIN from.mem /\ m.mem[c] = from.mem[c]
    /\ m.reg.p \subseteq from.reg.p \cup raised

(* The types of a machine's parts. *)
LEMMA Parts ==
    ASSUME NEW m \in Machines
    PROVE  /\ m.reg \in NesState
           /\ m.reg.a \in Byte /\ m.reg.x \in Byte /\ m.reg.y \in Byte
           /\ m.reg.s \in Byte /\ m.reg.fill \in Byte /\ m.reg.p \in SUBSET Flags
           /\ m.reg.pc \in Address /\ m.reg.cycles \in Nat
           /\ DOMAIN m.mem \subseteq Cells
           /\ m.mem \in [DOMAIN m.mem -> Byte]
<1>1. m.reg \in NesState /\ m.mem \in Memory
  BY DEF Machines
<1>2. DOMAIN m.mem \subseteq Cells /\ m.mem \in [DOMAIN m.mem -> Byte]
  BY <1>1 DEF Memory
<1> QED
  BY <1>1, <1>2 DEF NesState, Flags

LEMMA WrapsByte ==
    ASSUME NEW n \in Int
    PROVE  n % 256 \in Byte
BY DEF Byte

LEMMA WrapsAddress ==
    ASSUME NEW n \in Int
    PROVE  n % 65536 \in Address
BY DEF Address

LEMMA Widths ==
    ASSUME NEW n
    PROVE  (n \in Byte => n \in Nat) /\ (n \in Address => n \in Nat)
BY DEF Byte, Address

LEMMA Remainder ==
    ASSUME NEW n \in Nat, NEW w \in Nat \ {0}
    PROVE  n % w \in 0 .. w - 1
OBVIOUS

(* The functions that change one register. *)
LEMMA RegisterLeads ==
    ASSUME NEW from, NEW passed, NEW cells, NEW raised, NEW m,
           Leads(from, m, passed, cells, raised)
    PROVE  /\ \A v \in Byte : Leads(from, [m EXCEPT !.reg.a = v], passed, cells, raised)
           /\ \A v \in Byte : Leads(from, [m EXCEPT !.reg.x = v], passed, cells, raised)
           /\ \A v \in Byte : Leads(from, [m EXCEPT !.reg.y = v], passed, cells, raised)
           /\ \A v \in Byte : Leads(from, [m EXCEPT !.reg.s = v], passed, cells, raised)
           /\ \A v \in Address : Leads(from, [m EXCEPT !.reg.pc = v], passed, cells, raised)
<1>1. m \in Machines
  BY DEF Leads
<1>2. ASSUME NEW v \in Byte
      PROVE  Leads(from, [m EXCEPT !.reg.a = v], passed, cells, raised)
  BY DEF Leads, Machines, NesState
<1>3. ASSUME NEW v \in Byte
      PROVE  Leads(from, [m EXCEPT !.reg.x = v], passed, cells, raised)
  BY DEF Leads, Machines, NesState
<1>4. ASSUME NEW v \in Byte
      PROVE  Leads(from, [m EXCEPT !.reg.y = v], passed, cells, raised)
  BY DEF Leads, Machines, NesState
<1>5. ASSUME NEW v \in Byte
      PROVE  Leads(from, [m EXCEPT !.reg.s = v], passed, cells, raised)
  BY DEF Leads, Machines, NesState
<1>6. ASSUME NEW v \in Address
      PROVE  Leads(from, [m EXCEPT !.reg.pc = v], passed, cells, raised)
  BY DEF Leads, Machines, NesState
<1> QED
  BY <1>2, <1>3, <1>4, <1>5, <1>6

LEMMA FlagLeads ==
    ASSUME NEW from, NEW passed, NEW cells, NEW raised, NEW m,
           Leads(from, m, passed, cells, raised),
           NEW flag \in Flags, NEW value \in BOOLEAN, flag \in raised \/ value = FALSE
    PROVE  Leads(from, set_flag(m, flag, value), passed, cells, raised)
<1>1. CASE value = TRUE
  <2>1. set_flag(m, flag, value) = [m EXCEPT !.reg.p = @ \cup {flag}]
    BY <1>1 DEF set_flag
  <2> QED
    BY <1>1, <2>1 DEF Leads, Machines, NesState, Flags
<1>2. CASE value = FALSE
  <2>1. set_flag(m, flag, value) = [m EXCEPT !.reg.p = @ \ {flag}]
    BY <1>2 DEF set_flag
  <2> QED
    BY <2>1 DEF Leads, Machines, NesState, Flags
<1> QED
  BY <1>1, <1>2

LEMMA CycleLeads ==
    ASSUME NEW from, NEW passed \in Nat, NEW cells, NEW raised, NEW m,
           Leads(from, m, passed, cells, raised), from.reg.cycles \in Nat,
           NEW more \in Nat
    PROVE  Leads(from, cycle(m, more), passed + more, cells, raised)
BY DEF Leads, Machines, NesState, cycle

(* An address of the memory map below the cartridge is one of its cells. *)
LEMMA CellIsOne ==
    ASSUME NEW addr \in Nat, addr < \h4020
    PROVE  Cell(addr) \in Cells
BY DEF Cell, Cells

LEMMA ReadIsByte ==
    ASSUME NEW m \in Machines, NEW cell
    PROVE  Read(m, cell) \in Byte
BY Parts DEF Read

Rom == \A n \in Nat : rom[(n % Len(rom)) + 1] \in Byte

LEMMA RomIsBytes ==
    ASSUME rom \in Roms
    PROVE  Rom
<1>1. Len(rom) \in {1, 2, 4, 8, 16} /\ rom \in Seq(Byte)
  BY NesCpuAssumption
<1>2. ASSUME NEW n \in Nat
      PROVE  (n % Len(rom)) + 1 \in 1 .. Len(rom)
  <2>1. Len(rom) \in Nat \ {0}
    <3>1. \A k \in {1, 2, 4, 8, 16} : k \in Nat \ {0}
      OBVIOUS
    <3> QED
      BY <1>1, <3>1
  <2>2. n % Len(rom) \in 0 .. Len(rom) - 1
    BY <2>1, Remainder
  <2> QED
    BY <2>1, <2>2
<1> QED
  BY <1>1, <1>2 DEF Rom

LEMMA GetByteIsByte ==
    ASSUME Rom, NEW m \in Machines, NEW addr \in Nat
    PROVE  get_byte(m, addr) \in Byte
<1>1. CASE addr < \h4020
  BY <1>1, ReadIsByte DEF get_byte
<1>2. CASE ~(addr < \h4020) /\ addr < \h8000
  BY <1>2 DEF get_byte, Byte
<1>3. CASE ~(addr < \h4020) /\ ~(addr < \h8000)
  BY <1>3 DEF get_byte, Rom
<1> QED
  BY <1>1, <1>2, <1>3

(* What a write does to memory. *)
LEMMA WriteLeads ==
    ASSUME NEW from, NEW passed, NEW cells, NEW raised, NEW m,
           Leads(from, m, passed, cells, raised),
           NEW cell \in Cells, cell \in cells, NEW value \in Byte
    PROVE  /\ Leads(from, Write(m, cell, value), passed, cells, raised)
           /\ Write(m, cell, value).reg = m.reg
           /\ DOMAIN Write(m, cell, value).mem = DOMAIN m.mem \cup {cell}
           /\ \A c \in DOMAIN Write(m, cell, value).mem :
                  Write(m, cell, value).mem[c] = IF c = cell THEN value ELSE m.mem[c]
<1> DEFINE grown == [c \in DOMAIN m.mem \cup {cell} |->
                        IF c \in DOMAIN m.mem THEN m.mem[c] ELSE 0]
           after == [c \in DOMAIN m.mem \cup {cell} |->
                        IF c = cell THEN value ELSE m.mem[c]]
<1>1. m \in Machines /\ DOMAIN m.mem \subseteq Cells /\ m.mem \in [DOMAIN m.mem -> Byte]
      /\ m.reg \in NesState
  BY Parts DEF Leads
<1>2. grown \in Memory /\ DOMAIN grown = DOMAIN m.mem \cup {cell}
  <2>1. grown \in [DOMAIN m.mem \cup {cell} -> Byte]
    BY <1>1 DEF Byte
  <2>2. DOMAIN m.mem \cup {cell} \in SUBSET Cells
    BY <1>1
  <2> QED
    BY <2>1, <2>2 DEF Memory
<1>3. [grown EXCEPT ![cell] = value] = after
  OBVIOUS
<1>4. Open(m, cell) \in Machines /\ Open(m, cell).mem = grown /\ Open(m, cell).reg = m.reg
  <2>1. Open(m, cell) = [m EXCEPT !.mem = grown]
    BY DEF Open
  <2> HIDE DEF grown
  <2> QED
    BY <1>1, <1>2, <2>1 DEF Machines
<1>5. after \in Memory
  <2>1. after \in [DOMAIN m.mem \cup {cell} -> Byte]
    BY <1>1
  <2>2. DOMAIN m.mem \cup {cell} \in SUBSET Cells
    BY <1>1
  <2> QED
    BY <2>1, <2>2 DEF Memory
<1> HIDE DEF grown
<1>6. /\ Write(m, cell, value) \in Machines /\ Write(m, cell, value).reg = m.reg
      /\ Write(m, cell, value).mem = after
  <2>1. Write(m, cell, value) = [Open(m, cell) EXCEPT !.mem = [grown EXCEPT ![cell] = value]]
    BY <1>4 DEF Write
  <2> HIDE DEF after
  <2> QED
    BY <1>3, <1>4, <1>5, <2>1 DEF Machines
<1> QED
  BY <1>1, <1>6 DEF Leads

(* The stack is page 1, whatever the stack pointer is. *)
Stack1 == \h100 .. \h1ff

LEMMA StackIsCells ==
    ASSUME NEW v \in Byte
    PROVE  \h100 + v \in Stack1 /\ \h100 + v \in Cells
BY DEF Byte, Stack1, Cells

LEMMA Neighbours ==
    ASSUME NEW v \in Byte
    PROVE  /\ (v - 1) % 256 \in Byte /\ (v + 1) % 256 \in Byte
           /\ (v - 1) % 256 # v
           /\ (((v - 1) % 256) + 1) % 256 = v
<1>1. v \in Int /\ v \in 0 .. 255
  BY DEF Byte
<1>2. (v - 1) % 256 = IF v = 0 THEN 255 ELSE v - 1
  BY <1>1
<1>3. (v + 1) % 256 = IF v = 255 THEN 0 ELSE v + 1
  BY <1>1
<1>4. (((v - 1) % 256) + 1) % 256 = v
  BY <1>1, <1>2
<1> QED
  BY <1>1, <1>2, <1>3, <1>4 DEF Byte

(* What a push leaves: the byte under the old stack pointer, all else as   *)
(* it was.                                                                 *)
LEMMA PushLeads ==
    ASSUME NEW from, NEW passed, NEW cells, NEW raised, NEW m,
           Leads(from, m, passed, cells, raised), Stack1 \subseteq cells,
           NEW value \in Byte
    PROVE  /\ Leads(from, push(m, value), passed, cells, raised)
           /\ push(m, value).reg.s = (m.reg.s - 1) % 256
           /\ push(m, value).reg.pc = m.reg.pc /\ push(m, value).reg.p = m.reg.p
           /\ \h100 + m.reg.s \in DOMAIN push(m, value).mem
           /\ DOMAIN m.mem \subseteq DOMAIN push(m, value).mem
           /\ \A c \in DOMAIN push(m, value).mem :
                  push(m, value).mem[c] =
                      IF c = \h100 + m.reg.s THEN value ELSE m.mem[c]
<1> DEFINE cell == \h100 + m.reg.s
           w == Write(m, cell, value)
<1>1. m.reg.s \in Byte /\ m \in Machines
  BY Parts DEF Leads
<1>2. cell \in cells /\ cell \in Cells
  BY <1>1, StackIsCells
<1>3. /\ Leads(from, w, passed, cells, raised) /\ w.reg = m.reg
      /\ DOMAIN w.mem = DOMAIN m.mem \cup {cell}
      /\ \A c \in DOMAIN w.mem : w.mem[c] = IF c = cell THEN value ELSE m.mem[c]
  <2> HIDE DEF cell
  <2> QED
    BY <1>2, WriteLeads
<1>4. push(m, value) = [w EXCEPT !.reg.s = (w.reg.s - 1) % 256]
  BY DEF push
<1>5. (m.reg.s - 1) % 256 \in Byte
  BY <1>1, Neighbours
<1> DEFINE n == [w EXCEPT !.reg.s = (m.reg.s - 1) % 256]
<1>6. push(m, value) = n
  BY <1>3, <1>4
<1> HIDE DEF w
<1>7. Leads(from, n, passed, cells, raised)
  BY <1>3, <1>5, RegisterLeads
<1>8. n.mem = w.mem /\ n.reg = [w.reg EXCEPT !.s = (m.reg.s - 1) % 256]
  BY <1>3, <1>5 DEF Leads, Machines
<1>9. n.reg.s = (m.reg.s - 1) % 256 /\ n.reg.pc = m.reg.pc /\ n.reg.p = m.reg.p
  BY <1>1, <1>3, <1>8, Parts DEF NesState
<1> HIDE DEF n
<1> QED
  BY <1>3, <1>6, <1>7, <1>8, <1>9

LEMMA Digits ==
    ASSUME NEW addr \in Address
    PROVE  (addr \div 256) % 16 \in 0 .. 15 /\ addr % 16 \in 0 .. 15 /\ 0 .. 15 \subseteq Byte
<1>1. addr \in Nat
  BY DEF Address
<1>2. addr \div 256 \in Nat
  BY <1>1
<1>3. (addr \div 256) % 16 \in 0 .. 15 /\ addr % 16 \in 0 .. 15
  BY <1>1, <1>2
<1> QED
  BY <1>3 DEF Byte

LEMMA PushAddrLeads ==
    ASSUME NEW from, NEW passed, NEW cells, NEW raised, NEW m,
           Leads(from, m, passed, cells, raised), Stack1 \subseteq cells,
           NEW addr \in Address
    PROVE  Leads(from, push_addr(m, addr), passed, cells, raised)
<1>1. (addr \div 256) % 16 \in Byte /\ addr % 16 \in Byte
  BY Digits
<1> QED
  BY <1>1, PushLeads DEF push_addr

LEMMA ValueIsByte ==
    ASSUME NEW bits
    PROVE  Value(bits) \in Byte
<1> DEFINE bit(i) == IF i \in bits THEN 2^i ELSE 0
<1>1. /\ bit(0) \in {0, 1} /\ bit(1) \in {0, 2} /\ bit(2) \in {0, 4} /\ bit(3) \in {0, 8}
      /\ bit(4) \in {0, 16} /\ bit(5) \in {0, 32} /\ bit(6) \in {0, 64} /\ bit(7) \in {0, 128}
  OBVIOUS
<1>2. Value(bits) = bit(0) + bit(1) + bit(2) + bit(3) + bit(4) + bit(5) + bit(6) + bit(7)
  BY DEF Value
<1> HIDE DEF bit
<1> QED
  BY <1>1, <1>2 DEF Byte

LEMMA PushStatusLeads ==
    ASSUME NEW from, NEW passed, NEW cells, NEW raised, NEW m,
           Leads(from, m, passed, cells, raised), Stack1 \subseteq cells,
           UNUSED_FLAG \in raised
    PROVE  Leads(from, push_status(m), passed, cells, raised)
<1>1. UNUSED_FLAG \in Flags /\ TRUE \in BOOLEAN
  BY DEF UNUSED_FLAG, Flags
<1>2. Leads(from, set_flag(m, UNUSED_FLAG, TRUE), passed, cells, raised)
  BY <1>1, FlagLeads
<1> QED
  BY <1>2, ValueIsByte, PushLeads DEF push_status

LEMMA AddressIs ==
    ASSUME NEW n \in Int, 0 <= n, n <= 65535
    PROVE  n \in Address
BY DEF Address

LEMMA TwoBytes ==
    ASSUME NEW high \in Byte, NEW lowest \in Byte
    PROVE  high * 256 + lowest \in Address
<1>1. high \in 0 .. 255 /\ lowest \in 0 .. 255
  BY DEF Byte
<1> DEFINE n == high * 256 + lowest
<1>2. n \in Int /\ 0 <= n /\ n <= 65535
  BY <1>1
<1> HIDE DEF n
<1>3. n \in Address
  BY <1>2, AddressIs
<1> QED
  BY <1>3 DEF n

LEMMA WordIsAddress ==
    ASSUME Rom, NEW m \in Machines, NEW addr \in Nat
    PROVE  Word(m, addr) \in Address
<1>1. (addr + 1) % 65536 \in Nat
  BY WrapsAddress, Widths
<1>2. get_byte(m, (addr + 1) % 65536) \in Byte /\ get_byte(m, addr) \in Byte
  BY <1>1, GetByteIsByte
<1> QED
  BY <1>2, TwoBytes DEF Word

LEMMA InterruptLeads ==
    ASSUME Rom, NEW from, NEW passed \in Nat, NEW cells, NEW raised, NEW m,
           Leads(from, m, passed, cells, raised), Stack1 \subseteq cells,
           UNUSED_FLAG \in raised, from.reg.cycles \in Nat, NEW vector \in Nat
    PROVE  Leads(from, interrupt(m, vector), passed + 7, cells, raised)
<1> DEFINE quiet == set_flag(m, B, FALSE)
           saved == push_status(push_addr(quiet, m.reg.pc))
           there == [saved EXCEPT !.reg.pc = Word(saved, vector)]
<1>1. B \in Flags /\ FALSE \in BOOLEAN
  BY DEF B, Flags
<1>2. m.reg.pc \in Address
  BY Parts DEF Leads
<1>3. Leads(from, quiet, passed, cells, raised)
  BY <1>1, FlagLeads
<1> HIDE DEF quiet
<1>4. Leads(from, push_addr(quiet, m.reg.pc), passed, cells, raised)
  BY <1>2, <1>3, PushAddrLeads
<1>5. Leads(from, saved, passed, cells, raised)
  BY <1>4, PushStatusLeads
<1> HIDE DEF saved
<1>6. Word(saved, vector) \in Address
  BY <1>5, WordIsAddress DEF Leads
<1>7. Leads(from, there, passed, cells, raised)
  BY <1>5, <1>6, RegisterLeads
<1>8. interrupt(m, vector) = cycle(there, 7)
  BY DEF interrupt, there, saved, quiet
<1> HIDE DEF there
<1> QED
  BY <1>7, <1>8, CycleLeads

LEMMA PoppedLeads ==
    ASSUME NEW from, NEW passed, NEW cells, NEW raised, NEW m,
           Leads(from, m, passed, cells, raised)
    PROVE  Leads(from, Popped(m), passed, cells, raised) /\ Top(m) \in Byte
<1>1. m \in Machines /\ m.reg.s \in Byte
  BY Parts DEF Leads
<1>2. (m.reg.s + 1) % 256 \in Byte
  BY <1>1, Neighbours
<1>3. Popped(m) = [m EXCEPT !.reg.s = (m.reg.s + 1) % 256]
  BY DEF Popped
<1> QED
  BY <1>1, <1>2, <1>3, RegisterLeads, ReadIsByte DEF Top

LEMMA PopAddrLeads ==
    ASSUME NEW from, NEW passed, NEW cells, NEW raised, NEW m,
           Leads(from, m, passed, cells, raised)
    PROVE  Leads(from, pop_addr(m), passed, cells, raised)
<1>1. Leads(from, Popped(m), passed, cells, raised) /\ Top(m) \in Byte
  BY PoppedLeads
<1>2. Leads(from, Popped(Popped(m)), passed, cells, raised) /\ Top(Popped(m)) \in Byte
  BY <1>1, PoppedLeads
<1> QED
  BY <1>1, <1>2, TwoBytes, RegisterLeads DEF pop_addr

(* Pulling the flags may raise any of them. *)
LEMMA PopStatusLeads ==
    ASSUME NEW from, NEW passed, NEW cells, NEW m,
           Leads(from, m, passed, cells, Flags)
    PROVE  Leads(from, pop_status(m), passed, cells, Flags)
<1>1. Leads(from, Popped(m), passed, cells, Flags)
  BY PoppedLeads
<1> DEFINE bits == Bits(Top(m)) \ {B}
<1>2. bits \subseteq Flags
  BY DEF Bits, Flags
<1>3. pop_status(m) = [Popped(m) EXCEPT !.reg.p = bits]
  BY DEF pop_status
<1> HIDE DEF bits
<1> QED
  BY <1>1, <1>2, <1>3 DEF Leads, Machines, NesState, Flags

LEMMA SetByteLeads ==
    ASSUME NEW from, NEW passed, NEW cells, NEW raised, NEW m,
           Leads(from, m, passed, cells, raised),
           NEW addr \in Nat, addr < \h4020 => Cell(addr) \in cells, NEW value \in Byte
    PROVE  /\ Leads(from, set_byte(m, addr, value), passed, cells, raised)
           /\ set_byte(m, addr, value).reg = m.reg
<1>1. CASE addr < \h4020
  BY <1>1, CellIsOne, WriteLeads DEF set_byte
<1>2. CASE ~(addr < \h4020)
  BY <1>2 DEF set_byte
<1> QED
  BY <1>1, <1>2

---------------------------------------------------------------------------
(* Addressing: wherever an operand is, reading it gives a byte. *)
Modes == {"imm", "zpg", "zpgx", "zpgy", "abs", "absx", "absy", "xind", "indy"}

LEMMA SumIsNat ==
    ASSUME NEW n \in Nat, NEW k \in Nat
    PROVE  n + k \in Nat /\ (n + k) % 256 \in Byte /\ (n + k) % 65536 \in Address
<1>1. n + k \in Nat
  OBVIOUS
<1> QED
  BY <1>1, WrapsByte, WrapsAddress

LEMMA IndirectIsAddress ==
    ASSUME Rom, NEW m \in Machines
    PROVE  addr_ind(m) \in Address
<1> DEFINE addr == addr_abs(m)
           next == IF addr % 256 # 255 THEN addr + 1 ELSE addr - 255
<1>1. addr \in Nat
  <2>1. m.reg.pc \in Nat
    BY Parts DEF Address
  <2>2. addr \in Address
    BY <2>1, WordIsAddress DEF addr_abs
  <2> QED
    BY <2>2 DEF Address
<1>2. addr_ind(m) = get_byte(m, next) * 256 + get_byte(m, addr)
  BY DEF addr_ind
<1> HIDE DEF addr
<1>3. next \in Nat
  BY <1>1
<1> HIDE DEF next
<1>4. get_byte(m, next) \in Byte /\ get_byte(m, addr) \in Byte
  BY <1>1, <1>3, GetByteIsByte
<1> QED
  BY <1>2, <1>4, TwoBytes

LEMMA TwiceIndirectIsAddress ==
    ASSUME Rom, NEW m \in Machines
    PROVE  addr_xind(m) \in Address
<1> DEFINE zpg  == (addr_zpg(m) + m.reg.x) % 256
           addr == get_byte(m, zpg + 1) * 256 + get_byte(m, zpg)
<1>1. zpg \in Byte
  <2>1. m.reg.pc \in Nat /\ m.reg.x \in Nat
    BY Parts, Widths
  <2>2. addr_zpg(m) \in Byte
    BY <2>1, GetByteIsByte DEF addr_zpg
  <2>3. addr_zpg(m) \in Nat
    BY <2>2, Widths
  <2> QED
    BY <2>1, <2>3, SumIsNat
<1>2. addr_xind(m) = get_byte(m, (addr + 1) % 256) * 256 + get_byte(m, addr)
  BY DEF addr_xind
<1> HIDE DEF zpg
<1>3. zpg \in Nat /\ zpg + 1 \in Nat
  BY <1>1 DEF Byte
<1>4. addr \in Address
  BY <1>3, GetByteIsByte, TwoBytes
<1> HIDE DEF addr
<1>5. addr \in Nat /\ 1 \in Nat
  BY <1>4, Widths
<1>6. (addr + 1) % 256 \in Nat
  BY <1>5, SumIsNat, Widths
<1>7. get_byte(m, (addr + 1) % 256) \in Byte /\ get_byte(m, addr) \in Byte
  BY <1>5, <1>6, GetByteIsByte
<1> QED
  BY <1>2, <1>7, TwoBytes

LEMMA TargetIsNat ==
    ASSUME Rom, NEW m \in Machines, NEW mode \in Modes
    PROVE  Target(m, mode) \in Nat
<1>1. m.reg.pc \in Nat /\ m.reg.x \in Nat /\ m.reg.y \in Nat
  BY Parts, Widths
<1>2. addr_zpg(m) \in Nat
  BY <1>1, GetByteIsByte, Widths DEF addr_zpg
<1>3. addr_abs(m) \in Nat
  BY <1>1, WordIsAddress, Widths DEF addr_abs
<1>4. addr_ind(m) \in Nat /\ addr_xind(m) \in Nat
  BY IndirectIsAddress, TwiceIndirectIsAddress, Widths
<1>5. /\ addr_zpg(m) + m.reg.x \in Nat /\ addr_zpg(m) + m.reg.y \in Nat
      /\ (addr_abs(m) + m.reg.x) % 65536 \in Address
      /\ (addr_abs(m) + m.reg.y) % 65536 \in Address
      /\ (addr_ind(m) + m.reg.y) % 256 \in Byte
  <2>1. addr_zpg(m) + m.reg.x \in Nat /\ addr_zpg(m) + m.reg.y \in Nat
    BY <1>1, <1>2
  <2>2. (addr_abs(m) + m.reg.x) % 65536 \in Address
    BY <1>1, <1>3, SumIsNat
  <2>3. (addr_abs(m) + m.reg.y) % 65536 \in Address
    BY <1>1, <1>3, SumIsNat
  <2>4. (addr_ind(m) + m.reg.y) % 256 \in Byte
    BY <1>1, <1>4, SumIsNat
  <2> QED
    BY <2>1, <2>2, <2>3, <2>4
<1>6. /\ (addr_abs(m) + m.reg.x) % 65536 \in Nat
      /\ (addr_abs(m) + m.reg.y) % 65536 \in Nat
      /\ (addr_ind(m) + m.reg.y) % 256 \in Nat
  BY <1>5, Widths
<1> QED
  BY <1>1, <1>2, <1>3, <1>4, <1>5, <1>6 DEF Target, Modes

LEMMA SkipLeads ==
    ASSUME NEW from, NEW passed, NEW cells, NEW raised, NEW m,
           Leads(from, m, passed, cells, raised), NEW bytes \in {1, 2}
    PROVE  Leads(from, Skip(m, bytes), passed, cells, raised)
<1>1. m.reg.pc \in Nat /\ bytes \in Nat
  BY Parts, Widths DEF Leads
<1>2. (m.reg.pc + bytes) % 65536 \in Address
  BY <1>1, SumIsNat
<1>3. Skip(m, bytes) = [m EXCEPT !.reg.pc = (m.reg.pc + bytes) % 65536]
  BY DEF Skip
<1> QED
  BY <1>2, <1>3, RegisterLeads

LEMMA PastLeads ==
    ASSUME NEW from, NEW passed \in Nat, NEW cells, NEW raised, NEW m,
           Leads(from, m, passed, cells, raised), from.reg.cycles \in Nat, NEW mode
    PROVE  /\ Leads(from, Past(m, mode), passed + Crossing(m, mode), cells, raised)
           /\ Crossing(m, mode) \in {0, 1}
<1>1. Crossing(m, mode) \in {0, 1}
  BY DEF Crossing
<1>2. Length(mode) \in {1, 2}
  BY DEF Length
<1>3. Leads(from, Skip(m, Length(mode)), passed, cells, raised)
  BY <1>2, SkipLeads
<1>4. Crossing(m, mode) \in Nat
  BY <1>1
<1> QED
  BY <1>1, <1>3, <1>4, CycleLeads DEF Past

---------------------------------------------------------------------------
(* The inductive invariant: memory is a function besides, and the loop has *)
(* left for good once the third frame has passed.                          *)
CpuIInv == TypeOK /\ mem \in Memory /\ (phase # "done" => frame < 3)

(* The flags that arithmetic may raise. *)
Quiet == Flags \ {V}

(* What every instruction has to show. *)
CostIsRight ==
    LET cost == nes'.cycles - nes.cycles
    IN  \/ cost \in 2 .. 8
        \/ cost = 0 /\ nes' = [nes EXCEPT !.pc = (@ + 1) % 65536] /\ mem' = mem

StackIsRight ==
    nes'.s \in {(nes.s - k) % 256 : k \in 1 .. 3} /\ Opcode # Implied.TXS =>
        Changed \subseteq Stack1

ShiftIsRight == Opcode \in Opcodes(Asl) => Changed \subseteq 0 .. 255

OverflowIsRight ==
    V \in nes'.p /\ V \notin nes.p => Opcode \in Opcodes(Bit) \cup {Implied.PLP, Implied.RTI}

StepIsRight ==
    CpuIInv' /\ CostIsRight /\ StackIsRight /\ ShiftIsRight /\ OverflowIsRight

LEMMA MachineIsOne ==
    ASSUME CpuIInv
    PROVE  /\ Machine \in Machines /\ Machine.reg = nes /\ Machine.mem = mem
           /\ nes \in NesState /\ nes.cycles \in Nat /\ Rom
           /\ nes.a \in Byte /\ nes.x \in Byte /\ nes.y \in Byte /\ nes.s \in Byte
           /\ nes.pc \in Address /\ nes.p \subseteq Flags
<1>1. Machine \in Machines /\ Machine.reg = nes /\ Machine.mem = mem /\ nes \in NesState
  BY DEF CpuIInv, TypeOK, Machine, Machines
<1>2. Rom
  BY RomIsBytes DEF CpuIInv, TypeOK
<1> QED
  BY <1>1, <1>2 DEF NesState, Flags

LEMMA StartLeads ==
    ASSUME CpuIInv, NEW cells, NEW raised
    PROVE  /\ Leads(Machine, Machine, 0, cells, raised)
           /\ Leads(Machine, Fetched, 0, cells, raised)
           /\ Fetched \in Machines
<1>1. Leads(Machine, Machine, 0, cells, raised)
  BY MachineIsOne DEF Leads
<1>2. Leads(Machine, Fetched, 0, cells, raised)
  BY <1>1, SkipLeads DEF Fetched
<1> QED
  BY <1>1, <1>2 DEF Leads

LEMMA Executed ==
    ASSUME CpuIInv, NEW op, NEW m, NEW cost \in Nat, NEW passed \in Nat,
           NEW cells, NEW raised,
           Leads(Machine, m, passed, cells, raised), Execute(op, m, cost)
    PROVE  /\ CpuIInv' /\ frame' = frame
           /\ nes'.cycles - nes.cycles = passed + cost
           /\ Changed \subseteq cells
           /\ nes'.p \subseteq nes.p \cup raised
           /\ nes'.s = m.reg.s
           /\ Opcode = op
<1> DEFINE after == cycle(m, cost)
<1>1. /\ phase = "run" /\ phase' = phase /\ rom' = rom /\ frame' = frame
      /\ nes' = after.reg /\ mem' = m.mem /\ Opcode = op
  BY DEF Execute
<1>2. m \in Machines /\ m.reg \in NesState /\ m.reg.cycles \in Nat
  BY Parts DEF Leads
<1>3. after.reg = [m.reg EXCEPT !.cycles = m.reg.cycles + cost] /\ after.mem = m.mem
  BY <1>2 DEF cycle, Machines
<1>4. /\ after.reg \in NesState /\ after.reg.s = m.reg.s /\ after.reg.p = m.reg.p
      /\ after.reg.cycles = m.reg.cycles + cost
  BY <1>2, <1>3 DEF NesState
<1> HIDE DEF after
<1>5. mem' \in Memory /\ DOMAIN mem' \subseteq Cells /\ \A c \in DOMAIN mem' : mem'[c] \in Byte
  BY <1>1, <1>2, Parts DEF Machines
<1>6. CpuIInv'
  BY <1>1, <1>4, <1>5 DEF CpuIInv, TypeOK
<1>7. nes'.cycles - nes.cycles = passed + cost
  <2>1. m.reg.cycles = nes.cycles + passed /\ nes.cycles \in Nat
    BY MachineIsOne DEF Leads
  <2> QED
    BY <1>1, <1>4, <2>1
<1>8. Changed \subseteq cells /\ nes'.p \subseteq nes.p \cup raised
  BY <1>1, <1>4, MachineIsOne DEF Leads, Changed
<1> QED
  BY <1>1, <1>4, <1>6, <1>7, <1>8

(* An instruction that writes nothing and raises no overflow is right if   *)
(* its cost is.                                                            *)
LEMMA ReadingStep ==
    ASSUME CpuIInv, NEW op, NEW m, NEW cost \in Nat, NEW passed \in Nat,
           Leads(Machine, m, passed, {}, Quiet), Execute(op, m, cost),
           passed + cost \in 2 .. 8
    PROVE  StepIsRight
<1>1. /\ CpuIInv' /\ nes'.cycles - nes.cycles = passed + cost
      /\ Changed \subseteq {} /\ nes'.p \subseteq nes.p \cup Quiet
  BY Executed
<1>2. V \in nes'.p => V \in nes.p
  BY <1>1 DEF Quiet
<1> QED
  BY <1>1, <1>2 DEF StepIsRight, CostIsRight, StackIsRight, ShiftIsRight, OverflowIsRight

LEMMA Numbers ==
    /\ \A n \in 2 .. 7 : n \in Nat /\ 0 + n \in 2 .. 8
    /\ \A n \in 2 .. 7, k \in {0, 1} : n \in Nat /\ k \in Nat /\ 0 + k \in Nat
                                       /\ (0 + k) + n \in 2 .. 8
OBVIOUS

LEMMA NopStep ==
    ASSUME CpuIInv, Nop
    PROVE  StepIsRight
BY StartLeads, ReadingStep, Numbers DEF Nop

(* The modes of the tables, and what they cost. *)
LEMMA ReadingModes ==
    ASSUME NEW mode,
           \/ mode \in DOMAIN Loads.LDA \/ mode \in DOMAIN Loads.LDX
           \/ mode \in DOMAIN Loads.LDY \/ mode \in DOMAIN Adc \/ mode \in DOMAIN Sbc
           \/ mode \in DOMAIN Bit \/ \E name \in DOMAIN Logic : mode \in DOMAIN Logic[name]
    PROVE  mode \in Modes /\ ReadCost[mode] \in 2 .. 7
<1>1. mode \in Modes
  <2>1. \A base : DOMAIN GroupOne(base) = Modes \ {"zpgy"}
    BY DEF GroupOne, Modes
  <2>2. /\ DOMAIN Loads.LDA \subseteq Modes /\ DOMAIN Loads.LDX \subseteq Modes
        /\ DOMAIN Loads.LDY \subseteq Modes
    BY <2>1 DEF Loads, Modes
  <2>3. DOMAIN Adc \subseteq Modes /\ DOMAIN Sbc \subseteq Modes /\ DOMAIN Bit \subseteq Modes
    BY <2>1 DEF Adc, Sbc, Bit, Modes
  <2>4. \A name \in DOMAIN Logic : DOMAIN Logic[name] \subseteq Modes
    BY <2>1 DEF Logic
  <2> QED
    BY <2>2, <2>3, <2>4
<1>2. ReadCost[mode] \in {2, 3, 4, 5, 6}
  BY <1>1 DEF Modes, ReadCost
<1> QED
  BY <1>1, <1>2

LEMMA GotoLeads ==
    ASSUME NEW from, NEW passed, NEW cells, NEW raised, NEW m,
           Leads(from, m, passed, cells, raised), NEW addr \in Address
    PROVE  Leads(from, Goto(m, addr), passed, cells, raised)
BY RegisterLeads DEF Goto

LEMMA JumpStep ==
    ASSUME CpuIInv, Rts \/ Jmp
    PROVE  StepIsRight
<1>1. Leads(Machine, Fetched, 0, {}, Quiet) /\ Fetched \in Machines /\ Rom
  BY StartLeads, MachineIsOne
<1>2. CASE Rts
  BY <1>1, <1>2, PopAddrLeads, ReadingStep, Numbers DEF Rts
<1>3. CASE Jmp
  <2>1. Fetched.reg.pc \in Nat
    BY <1>1, Parts, Widths
  <2>2. addr_abs(Fetched) \in Address /\ addr_ind(Fetched) \in Address
    BY <1>1, <2>1, WordIsAddress, IndirectIsAddress DEF addr_abs
  <2>3. /\ Leads(Machine, Goto(Fetched, addr_abs(Fetched)), 0, {}, Quiet)
        /\ Leads(Machine, Goto(Fetched, addr_ind(Fetched)), 0, {}, Quiet)
    BY <1>1, <2>2, GotoLeads
  <2> QED
    BY <1>3, <2>3, ReadingStep, Numbers DEF Jmp
<1> QED
  BY <1>2, <1>3

LEMMA BranchStep ==
    ASSUME CpuIInv, Branch
    PROVE  StepIsRight
<1> DEFINE m      == Skip(Fetched, 1)
           byte   == get_byte(m, m.reg.pc)
           addr   == (m.reg.pc + byte - (IF byte >= 128 THEN 256 ELSE 0)) % 65536
           extra  == IF addr \div 256 # m.reg.pc \div 256 THEN 1 ELSE 0
<1>1. PICK b \in Opcodes(Branches) :
          IF (b[2] \in nes.p) = b[3]
          THEN Execute(b[1], Goto(m, addr), 3 + extra)
          ELSE Execute(b[1], m, 2)
  BY DEF Branch
<1>2. Leads(Machine, m, 0, {}, Quiet) /\ m \in Machines /\ Rom
  <2>1. Leads(Machine, m, 0, {}, Quiet)
    BY StartLeads, SkipLeads
  <2>2. m \in Machines
    BY <2>1 DEF Leads
  <2> QED
    BY <2>1, <2>2, MachineIsOne
<1> HIDE DEF m
<1>3. m.reg.pc \in Nat
  BY <1>2, Parts, Widths
<1>4. byte \in Nat
  BY <1>2, <1>3, GetByteIsByte, Widths
<1> HIDE DEF byte
<1>5. addr \in Address
  <2>1. m.reg.pc + byte - (IF byte >= 128 THEN 256 ELSE 0) \in Int
    BY <1>3, <1>4
  <2> QED
    BY <2>1, WrapsAddress
<1> HIDE DEF addr
<1>6. Leads(Machine, Goto(m, addr), 0, {}, Quiet)
  BY <1>2, <1>5, GotoLeads
<1>7. 3 + extra \in 2 .. 7
  OBVIOUS
<1> HIDE DEF extra
<1> QED
  BY <1>1, <1>2, <1>6, <1>7, ReadingStep, Numbers

LEMMA FlagTable ==
    /\ \A i \in DOMAIN FlagOps : FlagOps[i][2] \in {C, I, D, V}
    /\ \A i \in DOMAIN FlagOps : i # "CLV" => FlagOps[i][2] \in {C, I, D}
    /\ \A i \in DOMAIN FlagOps : FlagOps[i][3] = TRUE \/ FlagOps[i][3] = FALSE
    /\ FlagOps["CLV"][3] = FALSE
BY DEF FlagOps

LEMMA FlagStep ==
    ASSUME CpuIInv, Flag
    PROVE  StepIsRight
<1>1. PICK f \in Opcodes(FlagOps) : Execute(f[1], set_flag(Fetched, f[2], f[3]), 2)
  BY DEF Flag
<1>2. f[2] \in Flags /\ f[3] \in BOOLEAN /\ (f[2] \in Quiet \/ f[3] = FALSE)
  <2>1. PICK i \in DOMAIN FlagOps : f = FlagOps[i]
    BY DEF Opcodes
  <2>2. {C, I, D, V} \subseteq Flags /\ {C, I, D} \subseteq Quiet
    BY DEF C, I, D, V, Flags, Quiet
  <2> QED
    BY <2>1, <2>2, FlagTable
<1>3. Leads(Machine, set_flag(Fetched, f[2], f[3]), 0, {}, Quiet)
  BY <1>2, StartLeads, FlagLeads
<1> QED
  BY <1>1, <1>3, ReadingStep, Numbers

LEMMA UpdateLeads ==
    ASSUME NEW from, NEW passed, NEW cells, NEW m,
           Leads(from, m, passed, cells, Quiet), NEW value \in Byte
    PROVE  Leads(from, update_zn(m, value), passed, cells, Quiet)
<1>1. Z \in Flags /\ Z \in Quiet /\ N \in Flags /\ N \in Quiet
  BY DEF Z, N, V, Flags, Quiet
<1>2. (value = 0) \in BOOLEAN /\ (value >= 128) \in BOOLEAN
  OBVIOUS
<1>3. Leads(from, set_flag(m, Z, value = 0), passed, cells, Quiet)
  BY <1>1, <1>2, FlagLeads
<1> QED
  BY <1>1, <1>2, <1>3, FlagLeads DEF update_zn

(* The machine once an operand was read, and the operand. *)
LEMMA ReadyLeads ==
    ASSUME CpuIInv, NEW cells, NEW raised, NEW mode
    PROVE  /\ Leads(Machine, Ready(mode), 0 + Crossing(Fetched, mode), cells, raised)
           /\ Crossing(Fetched, mode) \in {0, 1}
           /\ mode \in Modes => Operand(mode) \in Byte /\ Target(Fetched, mode) \in Nat
<1>1. Leads(Machine, Fetched, 0, cells, raised) /\ Fetched \in Machines /\ Rom
      /\ Machine.reg.cycles \in Nat
  BY StartLeads, MachineIsOne
<1>2. mode \in Modes => Target(Fetched, mode) \in Nat
  BY <1>1, TargetIsNat
<1>3. mode \in Modes => Operand(mode) \in Byte
  BY <1>1, <1>2, GetByteIsByte DEF Operand
<1> QED
  BY <1>1, <1>2, <1>3, PastLeads DEF Ready

(* An instruction that only reads, in some mode. *)
LEMMA OperandStep ==
    ASSUME CpuIInv, NEW op, NEW m, NEW mode, NEW cost \in 2 .. 7,
           Leads(Machine, m, 0 + Crossing(Fetched, mode), {}, Quiet),
           Execute(op, m, cost)
    PROVE  StepIsRight
<1>1. Crossing(Fetched, mode) \in {0, 1}
  BY ReadyLeads
<1>2. 0 + Crossing(Fetched, mode) \in Nat /\ cost \in Nat
      /\ (0 + Crossing(Fetched, mode)) + cost \in 2 .. 8
  BY <1>1, Numbers
<1> QED
  BY <1>2, ReadingStep

LEMMA LoadStep ==
    ASSUME CpuIInv, Lda \/ Ldx \/ Ldy
    PROVE  StepIsRight
<1>1. CASE Lda
  <2>1. PICK mode \in DOMAIN Loads.LDA :
            Execute(Loads.LDA[mode], SetA(Ready(mode), Operand(mode)), ReadCost[mode])
    BY <1>1 DEF Lda
  <2>2. mode \in Modes /\ ReadCost[mode] \in 2 .. 7
    BY ReadingModes
  <2>3. Leads(Machine, SetA(Ready(mode), Operand(mode)), 0 + Crossing(Fetched, mode),
              {}, Quiet)
    BY <2>2, ReadyLeads, RegisterLeads DEF SetA
  <2> QED
    BY <2>1, <2>2, <2>3, OperandStep
<1>2. CASE Ldx
  <2>1. PICK mode \in DOMAIN Loads.LDX :
            Execute(Loads.LDX[mode], SetX(Ready(mode), Operand(mode)), ReadCost[mode])
    BY <1>2 DEF Ldx
  <2>2. mode \in Modes /\ ReadCost[mode] \in 2 .. 7
    BY ReadingModes
  <2>3. Leads(Machine, SetX(Ready(mode), Operand(mode)), 0 + Crossing(Fetched, mode),
              {}, Quiet)
    BY <2>2, ReadyLeads, RegisterLeads DEF SetX
  <2> QED
    BY <2>1, <2>2, <2>3, OperandStep
<1>3. CASE Ldy
  <2>1. PICK mode \in DOMAIN Loads.LDY :
            Execute(Loads.LDY[mode],
                    update_zn(SetY(Ready(mode), Operand(mode)), Operand(mode)),
                    ReadCost[mode])
    BY <1>3 DEF Ldy
  <2>2. mode \in Modes /\ ReadCost[mode] \in 2 .. 7
    BY ReadingModes
  <2>3. Operand(mode) \in Byte
    BY <2>2, ReadyLeads
  <2>4. Leads(Machine, SetY(Ready(mode), Operand(mode)), 0 + Crossing(Fetched, mode),
              {}, Quiet)
    BY <2>3, ReadyLeads, RegisterLeads DEF SetY
  <2>5. Leads(Machine, update_zn(SetY(Ready(mode), Operand(mode)), Operand(mode)),
              0 + Crossing(Fetched, mode), {}, Quiet)
    BY <2>3, <2>4, UpdateLeads
  <2> QED
    BY <2>1, <2>2, <2>5, OperandStep
<1> QED
  BY <1>1, <1>2, <1>3

LEMMA TransferStep ==
    ASSUME CpuIInv, Transfer
    PROVE  StepIsRight
<1>1. Leads(Machine, Fetched, 0, {}, Quiet)
      /\ nes.a \in Byte /\ nes.x \in Byte /\ nes.y \in Byte /\ nes.s \in Byte
  BY StartLeads, MachineIsOne
<1>2. /\ Leads(Machine, SetX(Fetched, nes.a), 0, {}, Quiet)
      /\ Leads(Machine, SetY(Fetched, nes.a), 0, {}, Quiet)
      /\ Leads(Machine, SetX(Fetched, nes.s), 0, {}, Quiet)
      /\ Leads(Machine, SetA(Fetched, nes.x), 0, {}, Quiet)
      /\ Leads(Machine, SetA(Fetched, nes.y), 0, {}, Quiet)
      /\ Leads(Machine, [Fetched EXCEPT !.reg.s = nes.x], 0, {}, Quiet)
  BY <1>1, RegisterLeads DEF SetA, SetX, SetY
<1>3. /\ Leads(Machine, update_zn(SetX(Fetched, nes.a), nes.a), 0, {}, Quiet)
      /\ Leads(Machine, update_zn(SetY(Fetched, nes.a), nes.a), 0, {}, Quiet)
      /\ Leads(Machine, update_zn(SetX(Fetched, nes.s), nes.s), 0, {}, Quiet)
      /\ Leads(Machine, update_zn(SetA(Fetched, nes.x), nes.x), 0, {}, Quiet)
      /\ Leads(Machine, update_zn(SetA(Fetched, nes.y), nes.y), 0, {}, Quiet)
  BY <1>1, <1>2, UpdateLeads
<1> QED
  BY <1>2, <1>3, ReadingStep, Numbers DEF Transfer

LEMMA CountStep ==
    ASSUME CpuIInv, Count
    PROVE  StepIsRight
<1> DEFINE up(byte) == (byte + 1) % 256
           down(byte) == (byte - 1) % 256
<1>1. Leads(Machine, Fetched, 0, {}, Quiet) /\ nes.x \in Byte /\ nes.y \in Byte
  BY StartLeads, MachineIsOne
<1>2. up(nes.x) \in Byte /\ up(nes.y) \in Byte /\ down(nes.x) \in Byte /\ down(nes.y) \in Byte
  BY <1>1, Neighbours
<1>3. \/ Execute(Implied.INX, update_zn(SetX(Fetched, up(nes.x)), up(nes.x)), 2)
      \/ Execute(Implied.INY, update_zn(SetY(Fetched, up(nes.y)), up(nes.y)), 2)
      \/ Execute(Implied.DEX, update_zn(SetX(Fetched, down(nes.x)), down(nes.x)), 2)
      \/ Execute(Implied.DEY, update_zn(SetY(Fetched, down(nes.y)), down(nes.y)), 2)
  BY DEF Count
<1> HIDE DEF up, down
<1>4. /\ Leads(Machine, SetX(Fetched, up(nes.x)), 0, {}, Quiet)
      /\ Leads(Machine, SetX(Fetched, down(nes.x)), 0, {}, Quiet)
      /\ Leads(Machine, SetY(Fetched, up(nes.y)), 0, {}, Quiet)
      /\ Leads(Machine, SetY(Fetched, down(nes.y)), 0, {}, Quiet)
  BY <1>1, <1>2, RegisterLeads DEF SetX, SetY
<1>5. /\ Leads(Machine, update_zn(SetX(Fetched, up(nes.x)), up(nes.x)), 0, {}, Quiet)
      /\ Leads(Machine, update_zn(SetX(Fetched, down(nes.x)), down(nes.x)), 0, {}, Quiet)
      /\ Leads(Machine, update_zn(SetY(Fetched, up(nes.y)), up(nes.y)), 0, {}, Quiet)
      /\ Leads(Machine, update_zn(SetY(Fetched, down(nes.y)), down(nes.y)), 0, {}, Quiet)
  BY <1>2, <1>4, UpdateLeads
<1> QED
  BY <1>3, <1>5, ReadingStep, Numbers

LEMMA LogicStep ==
    ASSUME CpuIInv, Logical
    PROVE  StepIsRight
<1>0. PICK name \in DOMAIN Logic :
          \E mode \in DOMAIN Logic[name] :
              LET a == Value(Combine(name, Bits(nes.a), Bits(Operand(mode))))
              IN  Execute(Logic[name][mode], update_zn(SetA(Ready(mode), a), a),
                          ReadCost[mode])
  BY DEF Logical
<1>1. PICK mode \in DOMAIN Logic[name] :
          LET a == Value(Combine(name, Bits(nes.a), Bits(Operand(mode))))
          IN  Execute(Logic[name][mode], update_zn(SetA(Ready(mode), a), a), ReadCost[mode])
  BY <1>0
<1> DEFINE a == Value(Combine(name, Bits(nes.a), Bits(Operand(mode))))
<1>2. mode \in Modes /\ ReadCost[mode] \in 2 .. 7
  BY <1>1, ReadingModes
<1>3. a \in Byte
  BY ValueIsByte
<1>4. Execute(Logic[name][mode], update_zn(SetA(Ready(mode), a), a), ReadCost[mode])
  BY <1>1
<1> HIDE DEF a
<1>5. Leads(Machine, SetA(Ready(mode), a), 0 + Crossing(Fetched, mode), {}, Quiet)
  BY <1>3, ReadyLeads, RegisterLeads DEF SetA
<1>6. Leads(Machine, update_zn(SetA(Ready(mode), a), a), 0 + Crossing(Fetched, mode),
            {}, Quiet)
  BY <1>3, <1>5, UpdateLeads
<1> QED
  BY <1>2, <1>4, <1>6, OperandStep

(* Fetching and addressing leave the registers alone. *)
LEMMA PastKeeps ==
    ASSUME NEW m \in Machines, NEW bytes, NEW more, NEW mode
    PROVE  /\ Skip(m, bytes).reg.a = m.reg.a /\ Skip(m, bytes).reg.s = m.reg.s
           /\ cycle(m, more).reg.a = m.reg.a /\ cycle(m, more).reg.s = m.reg.s
BY DEF Machines, NesState, Skip, cycle

LEMMA ReadyKeeps ==
    ASSUME CpuIInv, NEW mode
    PROVE  /\ Ready(mode).reg.a = nes.a /\ Ready(mode).reg.s = nes.s
           /\ Fetched.reg.a = nes.a /\ Fetched.reg.s = nes.s
<1>1. Machine \in Machines /\ Machine.reg = nes
  BY MachineIsOne
<1>2. Fetched.reg.a = nes.a /\ Fetched.reg.s = nes.s
  BY <1>1, PastKeeps DEF Fetched
<1>3. Length(mode) \in {1, 2}
  BY DEF Length
<1>4. Leads(Machine, Skip(Fetched, Length(mode)), 0, {}, Quiet)
  BY <1>3, StartLeads, SkipLeads
<1>5. Skip(Fetched, Length(mode)) \in Machines /\ Fetched \in Machines
  BY <1>4, StartLeads DEF Leads
<1> QED
  BY <1>2, <1>5, PastKeeps DEF Ready, Past

(* The overflow of an accumulator that has not changed. *)
LEMMA OverflowLeads ==
    ASSUME NEW from, NEW passed, NEW cells, NEW m, NEW operand,
           Leads(from, m, passed, cells, Quiet)
    PROVE  Leads(from, update_v(m, m.reg.a, operand), passed, cells, Quiet)
<1> DEFINE set == /\ (m.reg.a >= 128) = (operand >= 128)
                  /\ (m.reg.a >= 128) # (m.reg.a >= 128)
<1>1. update_v(m, m.reg.a, operand) = set_flag(m, V, FALSE)
  <2>1. set = FALSE
    OBVIOUS
  <2>2. update_v(m, m.reg.a, operand) = set_flag(m, V, set)
    BY Zenon DEF update_v
  <2> QED
    BY <2>1, <2>2
<1>2. V \in Flags /\ FALSE \in BOOLEAN
  BY DEF V, Flags
<1> QED
  BY <1>1, <1>2, FlagLeads

(* What is left to do once the overflow is set. *)
LEMMA ResultLeads ==
    ASSUME NEW from, NEW passed, NEW cells, NEW m, NEW result \in Byte,
           NEW carry \in BOOLEAN, Leads(from, m, passed, cells, Quiet)
    PROVE  Leads(from, set_flag(update_zn(SetA(m, result), result), C, carry),
                 passed, cells, Quiet)
<1>1. Leads(from, SetA(m, result), passed, cells, Quiet)
  BY RegisterLeads DEF SetA
<1>2. Leads(from, update_zn(SetA(m, result), result), passed, cells, Quiet)
  BY <1>1, UpdateLeads
<1>3. C \in Flags /\ C \in Quiet
  BY DEF C, V, Flags, Quiet
<1> QED
  BY <1>2, <1>3, FlagLeads

LEMMA TwiceIsByte ==
    ASSUME NEW n \in Nat
    PROVE  (n + n) % 256 \in Byte /\ (2 * n) % 256 \in Byte
<1>1. n + n \in Int /\ 2 * n \in Int
  OBVIOUS
<1> QED
  BY <1>1, WrapsByte

LEMMA ArithmeticStep ==
    ASSUME CpuIInv, AddWithCarry \/ SubtractWithCarry
    PROVE  StepIsRight
<1>1. CASE AddWithCarry
  <2>1. PICK mode \in DOMAIN Adc :
            LET m   == update_v(Ready(mode), nes.a, 255 - Operand(mode))
                sum == (nes.a + nes.a) % 256
            IN  Execute(Adc[mode],
                        set_flag(update_zn(SetA(m, sum), sum), C, nes.a > sum),
                        ReadCost[mode])
    BY <1>1 DEF AddWithCarry
  <2> DEFINE m   == update_v(Ready(mode), nes.a, 255 - Operand(mode))
             sum == (nes.a + nes.a) % 256
  <2>2. mode \in Modes /\ ReadCost[mode] \in 2 .. 7
    BY <2>1, ReadingModes
  <2>3. sum \in Byte /\ (nes.a > sum) \in BOOLEAN
    <3>1. nes.a \in Nat
      BY MachineIsOne, Widths
    <3>2. sum \in Byte
      BY <3>1, TwiceIsByte
    <3> HIDE DEF sum
    <3>3. (nes.a > sum) \in BOOLEAN
      OBVIOUS
    <3> QED
      BY <3>2, <3>3
  <2>4. Leads(Machine, m, 0 + Crossing(Fetched, mode), {}, Quiet)
    BY ReadyLeads, ReadyKeeps, OverflowLeads
  <2>5. Execute(Adc[mode], set_flag(update_zn(SetA(m, sum), sum), C, nes.a > sum),
                ReadCost[mode])
    BY <2>1
  <2> HIDE DEF m, sum
  <2> QED
    BY <2>2, <2>3, <2>4, <2>5, ResultLeads, OperandStep
<1>2. CASE SubtractWithCarry
  <2>1. PICK mode \in DOMAIN Sbc :
            LET m          == update_v(Ready(mode), nes.a, Operand(mode))
                difference == (nes.a - nes.a) % 256
            IN  Execute(Sbc[mode],
                        set_flag(update_zn(SetA(m, difference), difference),
                                 C, difference > nes.a),
                        ReadCost[mode])
    BY <1>2 DEF SubtractWithCarry
  <2> DEFINE m          == update_v(Ready(mode), nes.a, Operand(mode))
             difference == (nes.a - nes.a) % 256
  <2>2. mode \in Modes /\ ReadCost[mode] \in 2 .. 7
    BY <2>1, ReadingModes
  <2>3. difference \in Byte /\ (difference > nes.a) \in BOOLEAN
    <3>1. nes.a \in Nat
      BY MachineIsOne, Widths
    <3>2. nes.a - nes.a \in Int
      BY <3>1
    <3>3. difference \in Byte
      BY <3>2, WrapsByte
    <3> HIDE DEF difference
    <3>4. (difference > nes.a) \in BOOLEAN
      OBVIOUS
    <3> QED
      BY <3>3, <3>4
  <2>4. Leads(Machine, m, 0 + Crossing(Fetched, mode), {}, Quiet)
    BY ReadyLeads, ReadyKeeps, OverflowLeads
  <2>5. Execute(Sbc[mode],
                set_flag(update_zn(SetA(m, difference), difference),
                         C, difference > nes.a),
                ReadCost[mode])
    BY <2>1
  <2> HIDE DEF m, difference
  <2> QED
    BY <2>2, <2>3, <2>4, <2>5, ResultLeads, OperandStep
<1> QED
  BY <1>1, <1>2

(* The instructions that may raise the overflow flag. *)
LEMMA RaisingStep ==
    ASSUME CpuIInv, NEW op, NEW m, NEW cost \in Nat, NEW passed \in Nat,
           Leads(Machine, m, passed, {}, Flags), Execute(op, m, cost),
           passed + cost \in 2 .. 8,
           op \in Opcodes(Bit) \cup {Implied.PLP, Implied.RTI}
    PROVE  StepIsRight
<1>1. /\ CpuIInv' /\ nes'.cycles - nes.cycles = passed + cost
      /\ Changed \subseteq {} /\ Opcode = op
  BY Executed
<1> QED
  BY <1>1 DEF StepIsRight, CostIsRight, StackIsRight, ShiftIsRight, OverflowIsRight

LEMMA TestBitsStep ==
    ASSUME CpuIInv, TestBits
    PROVE  StepIsRight
<1> DEFINE buffer(mode) == Bits(nes.a) \cap Bits(Operand(mode))
           m(mode) == set_flag(Ready(mode), N, 7 \in buffer(mode))
           left(mode) == set_flag(set_flag(m(mode), V, 6 \in buffer(mode)), Z,
                                  buffer(mode) = {})
<1>1. PICK mode \in DOMAIN Bit : Execute(Bit[mode], left(mode), ReadCost[mode])
  BY DEF TestBits
<1>2. mode \in Modes /\ ReadCost[mode] \in 2 .. 7 /\ Crossing(Fetched, mode) \in {0, 1}
  BY ReadingModes, ReadyLeads
<1>3. N \in Flags /\ V \in Flags /\ Z \in Flags
  BY DEF N, V, Z, Flags
<1>4. /\ (7 \in buffer(mode)) \in BOOLEAN /\ (6 \in buffer(mode)) \in BOOLEAN
      /\ (buffer(mode) = {}) \in BOOLEAN
  OBVIOUS
<1>5. Leads(Machine, m(mode), 0 + Crossing(Fetched, mode), {}, Flags)
  BY <1>3, <1>4, ReadyLeads, FlagLeads
<1> HIDE DEF m
<1>6. Leads(Machine, set_flag(m(mode), V, 6 \in buffer(mode)),
            0 + Crossing(Fetched, mode), {}, Flags)
  BY <1>3, <1>4, <1>5, FlagLeads
<1>7. Leads(Machine, left(mode), 0 + Crossing(Fetched, mode), {}, Flags)
  BY <1>3, <1>4, <1>6, FlagLeads
<1> HIDE DEF left
<1>8. Bit[mode] \in Opcodes(Bit)
  BY DEF Opcodes
<1>9. 0 + Crossing(Fetched, mode) \in Nat /\ ReadCost[mode] \in Nat
      /\ (0 + Crossing(Fetched, mode)) + ReadCost[mode] \in 2 .. 8
  BY <1>2, Numbers
<1> QED
  BY <1>1, <1>7, <1>8, <1>9, RaisingStep

LEMMA RestoreStep ==
    ASSUME CpuIInv, Rti \/ Execute(Implied.PLP, pop_status(Fetched), 4)
    PROVE  StepIsRight
<1>1. Leads(Machine, pop_status(Fetched), 0, {}, Flags)
  BY StartLeads, PopStatusLeads
<1>2. Leads(Machine, pop_addr(pop_status(Fetched)), 0, {}, Flags)
  BY <1>1, PopAddrLeads
<1>3. CASE Rti
  BY <1>2, <1>3, RaisingStep, Numbers DEF Rti
<1>4. CASE Execute(Implied.PLP, pop_status(Fetched), 4)
  BY <1>1, <1>4, RaisingStep, Numbers
<1> QED
  BY <1>3, <1>4

LEMMA PullStep ==
    ASSUME CpuIInv,
           Execute(Implied.PLA,
                   update_zn(SetA(Popped(Fetched), Top(Fetched)), Top(Fetched)), 4)
    PROVE  StepIsRight
<1>1. Leads(Machine, Popped(Fetched), 0, {}, Quiet) /\ Top(Fetched) \in Byte
  BY StartLeads, PoppedLeads
<1>2. Leads(Machine, SetA(Popped(Fetched), Top(Fetched)), 0, {}, Quiet)
  BY <1>1, RegisterLeads DEF SetA
<1>3. Leads(Machine, update_zn(SetA(Popped(Fetched), Top(Fetched)), Top(Fetched)),
            0, {}, Quiet)
  BY <1>1, <1>2, UpdateLeads
<1> QED
  BY <1>3, ReadingStep, Numbers

(* The instructions that push. *)
LEMMA PushingStep ==
    ASSUME CpuIInv, NEW op, NEW m, NEW cost \in Nat, NEW passed \in Nat,
           Leads(Machine, m, passed, Stack1, Quiet), Execute(op, m, cost),
           passed + cost \in 2 .. 8, op \notin Opcodes(Asl)
    PROVE  StepIsRight
<1>1. /\ CpuIInv' /\ nes'.cycles - nes.cycles = passed + cost
      /\ Changed \subseteq Stack1 /\ nes'.p \subseteq nes.p \cup Quiet /\ Opcode = op
  BY Executed
<1>2. V \in nes'.p => V \in nes.p
  BY <1>1 DEF Quiet
<1> QED
  BY <1>1, <1>2 DEF StepIsRight, CostIsRight, StackIsRight, ShiftIsRight, OverflowIsRight

LEMMA PushesAreNoShifts ==
    /\ Implied.JSR \notin Opcodes(Asl) /\ Implied.BRK \notin Opcodes(Asl)
    /\ Implied.PHP \notin Opcodes(Asl) /\ Implied.PHA \notin Opcodes(Asl)
<1>1. \A op \in Opcodes(Asl) : op \in {6, 22, 14, 30}
  BY DEF Opcodes, Asl
<1>2. Implied.JSR = 32 /\ Implied.BRK = 0 /\ Implied.PHP = 8 /\ Implied.PHA = 72
  BY DEF Implied
<1> QED
  BY <1>1, <1>2

LEMMA VectorsAreNat == RESET_VECTOR \in Nat /\ NMI_VECTOR \in Nat
BY SMT DEF RESET_VECTOR, NMI_VECTOR

LEMMA PushStep ==
    ASSUME CpuIInv,
           \/ Jsr \/ Brk
           \/ Execute(Implied.PHP, push_status(set_flag(Fetched, B, TRUE)), 3)
           \/ Execute(Implied.PHA, push(Fetched, nes.a), 3)
    PROVE  StepIsRight
<1>1. /\ Leads(Machine, Fetched, 0, Stack1, Quiet) /\ Fetched \in Machines /\ Rom
      /\ Machine.reg.cycles \in Nat /\ nes.a \in Byte /\ nes.pc \in Nat
  BY StartLeads, MachineIsOne, Widths
<1>2. B \in Flags /\ B \in Quiet /\ UNUSED_FLAG \in Quiet /\ TRUE \in BOOLEAN
  BY DEF B, UNUSED_FLAG, V, Flags, Quiet
<1> DEFINE broken == set_flag(Fetched, B, TRUE)
<1>3. Leads(Machine, broken, 0, Stack1, Quiet)
  BY <1>1, <1>2, FlagLeads
<1>4. CASE Jsr
  <2> DEFINE m == push_addr(Fetched, (nes.pc + 3) % 65536)
  <2>1. 3 \in Nat
    OBVIOUS
  <2>2. (nes.pc + 3) % 65536 \in Address
    BY <1>1, <2>1, SumIsNat
  <2>3. Leads(Machine, m, 0, Stack1, Quiet)
    BY <1>1, <2>2, PushAddrLeads
  <2>4. Execute(Implied.JSR, Goto(m, addr_abs(m)), 6)
    BY <1>4 DEF Jsr
  <2> HIDE DEF m
  <2>5. m \in Machines
    BY <2>3 DEF Leads
  <2>6. m.reg.pc \in Nat
    BY <2>5, Parts, Widths
  <2>7. addr_abs(m) \in Address
    BY <1>1, <2>5, <2>6, WordIsAddress DEF addr_abs
  <2>8. Leads(Machine, Goto(m, addr_abs(m)), 0, Stack1, Quiet)
    BY <2>3, <2>7, GotoLeads
  <2> QED
    BY <2>4, <2>8, PushingStep, PushesAreNoShifts, Numbers
<1>5. CASE Brk
  <2>1. 0 \in Nat /\ 0 + 7 \in Nat /\ (0 + 7) + 0 \in 2 .. 8
    OBVIOUS
  <2>2. Execute(Implied.BRK, interrupt(broken, RESET_VECTOR), 0)
    BY Zenon, <1>5 DEF Brk
  <2> HIDE DEF broken
  <2>3. Leads(Machine, interrupt(broken, RESET_VECTOR), 0 + 7, Stack1, Quiet)
    BY <1>1, <1>2, <1>3, <2>1, VectorsAreNat, InterruptLeads
  <2> QED
    BY <2>1, <2>2, <2>3, PushingStep, PushesAreNoShifts
<1>6. CASE Execute(Implied.PHP, push_status(set_flag(Fetched, B, TRUE)), 3)
  <2>1. Execute(Implied.PHP, push_status(broken), 3)
    BY Zenon, <1>6
  <2> HIDE DEF broken
  <2>2. Leads(Machine, push_status(broken), 0, Stack1, Quiet)
    BY <1>2, <1>3, PushStatusLeads
  <2> QED
    BY <2>1, <2>2, PushingStep, PushesAreNoShifts, Numbers
<1>7. CASE Execute(Implied.PHA, push(Fetched, nes.a), 3)
  <2>1. Leads(Machine, push(Fetched, nes.a), 0, Stack1, Quiet)
    BY <1>1, PushLeads
  <2> QED
    BY <1>7, <2>1, PushingStep, PushesAreNoShifts, Numbers
<1> QED
  BY <1>4, <1>5, <1>6, <1>7

(* The instructions that write without a push: the stack pointer stays. *)
LEMMA WritingStep ==
    ASSUME CpuIInv, NEW op, NEW m, NEW cost \in 2 .. 7, NEW mode, NEW cells,
           Leads(Machine, m, 0 + Crossing(Fetched, mode), cells, Quiet),
           Execute(op, m, cost), m.reg.s = nes.s,
           op \notin Opcodes(Asl) \/ cells \subseteq 0 .. 255
    PROVE  StepIsRight
<1>1. Crossing(Fetched, mode) \in {0, 1}
  BY ReadyLeads
<1>2. 0 + Crossing(Fetched, mode) \in Nat /\ cost \in Nat
      /\ (0 + Crossing(Fetched, mode)) + cost \in 2 .. 8
  BY <1>1, Numbers
<1>3. /\ CpuIInv' /\ nes'.cycles - nes.cycles \in 2 .. 8
      /\ Changed \subseteq cells /\ nes'.p \subseteq nes.p \cup Quiet
      /\ Opcode = op /\ nes'.s = nes.s
  BY <1>2, Executed
<1>4. nes'.s \notin {(nes.s - k) % 256 : k \in 1 .. 3}
  <2>1. nes.s \in 0 .. 255
    BY MachineIsOne DEF Byte
  <2>2. \A n \in 0 .. 255, k \in 1 .. 3 : (n - k) % 256 # n
    OBVIOUS
  <2> QED
    BY <1>3, <2>1, <2>2
<1>5. V \in nes'.p => V \in nes.p
  BY <1>3 DEF Quiet
<1> QED
  BY <1>3, <1>4, <1>5
     DEF StepIsRight, CostIsRight, StackIsRight, ShiftIsRight, OverflowIsRight

LEMMA WritingModes ==
    ASSUME NEW name \in {"STA", "STX", "STY"}, NEW mode \in DOMAIN Stores[name]
    PROVE  /\ mode \in Modes /\ WriteCost[mode] \in 2 .. 7
           /\ Stores[name][mode] \notin Opcodes(Asl)
<1>1. DOMAIN Stores.STA = {"xind", "zpg", "abs", "indy", "zpgx", "absy", "absx"}
      /\ \A i \in DOMAIN Stores.STA : Stores.STA[i] \in {129, 133, 141, 145, 149, 153, 157}
  BY DEF Stores, GroupOne
<1>2. DOMAIN Stores.STX = {"zpg", "zpgy", "abs"}
      /\ \A i \in DOMAIN Stores.STX : Stores.STX[i] \in {134, 150, 142}
  BY DEF Stores
<1>3. DOMAIN Stores.STY = {"zpg", "zpgx", "abs"}
      /\ \A i \in DOMAIN Stores.STY : Stores.STY[i] \in {132, 148, 140}
  BY DEF Stores
<1>4. \A op \in Opcodes(Asl) : op \in {6, 22, 14, 30}
  BY DEF Opcodes, Asl
<1>5. mode \in {"xind", "zpg", "abs", "indy", "zpgx", "absy", "absx", "zpgy"}
  BY <1>1, <1>2, <1>3
<1>6. Stores[name][mode] \in {129, 133, 141, 145, 149, 153, 157, 134, 150, 142, 132, 148, 140}
  BY <1>1, <1>2, <1>3
<1>7. WriteCost[mode] \in {3, 4, 5, 6}
  BY <1>5 DEF WriteCost
<1> QED
  BY <1>4, <1>5, <1>6, <1>7 DEF Modes

LEMMA StoreStep ==
    ASSUME CpuIInv, Sta \/ Stx \/ Sty
    PROVE  StepIsRight
<1>1. PICK name \in {"STA", "STX", "STY"}, value \in Byte : Store(name, value)
  BY MachineIsOne DEF Sta, Stx, Sty
<1>2. PICK mode \in DOMAIN Stores[name] :
          Execute(Stores[name][mode],
                  set_byte(Ready(mode), Target(Fetched, mode), value), WriteCost[mode])
  BY <1>1 DEF Store
<1>3. /\ mode \in Modes /\ WriteCost[mode] \in 2 .. 7
      /\ Stores[name][mode] \notin Opcodes(Asl)
  BY WritingModes
<1>4. Target(Fetched, mode) \in Nat
      /\ Leads(Machine, Ready(mode), 0 + Crossing(Fetched, mode), Cells, Quiet)
  BY <1>3, ReadyLeads
<1>5. Target(Fetched, mode) < \h4020 => Cell(Target(Fetched, mode)) \in Cells
  BY <1>4, CellIsOne
<1> DEFINE m == set_byte(Ready(mode), Target(Fetched, mode), value)
<1>6. Leads(Machine, m, 0 + Crossing(Fetched, mode), Cells, Quiet) /\ m.reg = Ready(mode).reg
  BY <1>4, <1>5, SetByteLeads
<1>7. Execute(Stores[name][mode], m, WriteCost[mode])
  BY <1>2
<1> HIDE DEF m
<1>8. m.reg.s = nes.s
  BY <1>6, ReadyKeeps
<1> QED
  BY <1>3, <1>6, <1>7, <1>8, WritingStep

LEMMA ShiftLeftStep ==
    ASSUME CpuIInv, ShiftLeft
    PROVE  StepIsRight
<1>1. Fetched \in Machines /\ Rom /\ nes.a \in Nat
  BY StartLeads, MachineIsOne, Widths
<1>2. CASE Execute(Implied.ASL, SetA(Fetched, (2 * nes.a) % 256), 2)
  <2>1. (2 * nes.a) % 256 \in Byte
    BY <1>1, TwiceIsByte
  <2>2. Leads(Machine, SetA(Fetched, (2 * nes.a) % 256), 0, {}, Quiet)
    BY <2>1, StartLeads, RegisterLeads DEF SetA
  <2> QED
    BY <1>2, <2>2, ReadingStep, Numbers
<1>3. ASSUME NEW mode \in DOMAIN Asl,
             LET temp == Target(Fetched, mode) % 256
             IN  Execute(Asl[mode],
                         set_byte(Ready(mode), temp, (2 * get_byte(Fetched, temp)) % 256),
                         AslCost[mode])
      PROVE  StepIsRight
  <2> DEFINE temp == Target(Fetched, mode) % 256
             twice == (2 * get_byte(Fetched, temp)) % 256
             m == set_byte(Ready(mode), temp, twice)
  <2>1. mode \in Modes /\ AslCost[mode] \in 2 .. 7
    <3>1. mode \in {"zpg", "zpgx", "abs", "absx"}
      BY DEF Asl
    <3>2. AslCost[mode] \in {5, 6, 7}
      BY <3>1 DEF AslCost
    <3> QED
      BY <3>1, <3>2 DEF Modes
  <2>2. Execute(Asl[mode], m, AslCost[mode])
    BY <1>3
  <2>3. temp \in Byte /\ temp \in Nat
    <3>1. Target(Fetched, mode) \in Int
      BY <2>1, ReadyLeads
    <3> QED
      BY <3>1, WrapsByte, Widths
  <2> HIDE DEF temp
  <2>4. twice \in Byte
    <3>1. get_byte(Fetched, temp) \in Nat
      BY <1>1, <2>3, GetByteIsByte, Widths
    <3> QED
      BY <3>1, TwiceIsByte
  <2> HIDE DEF twice
  <2>5. Cell(temp) \in Byte
    BY <2>3 DEF Cell, Byte
  <2>6. Leads(Machine, Ready(mode), 0 + Crossing(Fetched, mode), Byte, Quiet)
    BY ReadyLeads
  <2>7. Leads(Machine, m, 0 + Crossing(Fetched, mode), Byte, Quiet)
        /\ m.reg = Ready(mode).reg
    BY <2>3, <2>4, <2>5, <2>6, SetByteLeads
  <2> HIDE DEF m
  <2>8. m.reg.s = nes.s /\ Byte \subseteq 0 .. 255
    BY <2>7, ReadyKeeps DEF Byte
  <2> QED
    BY <2>1, <2>2, <2>7, <2>8, WritingStep
<1> QED
  BY <1>2, <1>3 DEF ShiftLeft

(* A byte that is no instruction is walked over. *)
LEMMA UnimplementedStep ==
    ASSUME CpuIInv, Unimplemented
    PROVE  StepIsRight
<1>1. Machine.reg = nes /\ Machine.mem = mem /\ nes \in NesState /\ Fetched \in Machines
      /\ Leads(Machine, Fetched, 0, {}, {}) /\ nes.cycles \in Nat
  BY MachineIsOne, StartLeads
<1>2. Opcode \notin Implemented /\ Execute(Opcode, Fetched, 0)
  BY DEF Unimplemented
<1>3. 0 \in Nat
  OBVIOUS
<1>4. CpuIInv' /\ Changed \subseteq {} /\ nes'.p \subseteq nes.p \cup {}
  BY <1>1, <1>2, <1>3, Executed
<1>5. nes' = cycle(Fetched, 0).reg /\ mem' = Fetched.mem
  BY <1>2 DEF Execute
<1>6. Fetched.mem = mem /\ Fetched.reg = [nes EXCEPT !.pc = (nes.pc + 1) % 65536]
  BY <1>1 DEF Fetched, Skip, Machine
<1>7. cycle(Fetched, 0).reg = [Fetched.reg EXCEPT !.cycles = Fetched.reg.cycles + 0]
  BY <1>1 DEF cycle, Machines
<1>8. [Fetched.reg EXCEPT !.cycles = Fetched.reg.cycles + 0] = Fetched.reg
  BY <1>1 DEF Machines, NesState
<1>9. nes' = [nes EXCEPT !.pc = (@ + 1) % 65536]
  BY <1>5, <1>6, <1>7, <1>8
<1>10. nes'.cycles - nes.cycles = 0
  <2>1. nes'.cycles = nes.cycles
    BY <1>1, <1>9 DEF NesState
  <2> QED
    BY <1>1, <2>1
<1> QED
  BY <1>4, <1>5, <1>6, <1>9, <1>10
     DEF StepIsRight, CostIsRight, StackIsRight, ShiftIsRight, OverflowIsRight

LEMMA CpuStep ==
    ASSUME CpuIInv, cpu_step
    PROVE  StepIsRight
<1>1. CASE Stack
  <2>1. CASE Execute(Implied.PHP, push_status(set_flag(Fetched, B, TRUE)), 3)
    BY <2>1, PushStep
  <2>2. CASE Execute(Implied.PLP, pop_status(Fetched), 4)
    BY <2>2, RestoreStep
  <2>3. CASE Execute(Implied.PHA, push(Fetched, nes.a), 3)
    BY <2>3, PushStep
  <2>4. CASE Execute(Implied.PLA,
                     update_zn(SetA(Popped(Fetched), Top(Fetched)), Top(Fetched)), 4)
    BY <2>4, PullStep
  <2> QED
    BY Zenon, <1>1, <2>1, <2>2, <2>3, <2>4 DEF Stack
<1> QED
  BY <1>1, NopStep, JumpStep, RestoreStep, PushStep, BranchStep, FlagStep, StoreStep,
     LoadStep, TransferStep, CountStep, LogicStep, ArithmeticStep, ShiftLeftStep,
     TestBitsStep, UnimplementedStep
     DEF cpu_step

(* What the end of a frame leaves. *)
LEMMA BlankStep ==
    ASSUME CpuIInv, VerticalBlank
    PROVE  /\ CpuIInv' /\ Changed \subseteq Stack1 /\ nes'.p \subseteq nes.p \cup Quiet
           /\ frame' # frame
<1> DEFINE from == [Machine EXCEPT !.reg.cycles = 0]
           m == interrupt(from, NMI_VECTOR)
<1>1. /\ nes' = m.reg /\ mem' = m.mem /\ frame' = frame + 1 /\ rom' = rom
      /\ phase' = IF frame' = 3 THEN "done" ELSE "run"
      /\ phase = "run"
  BY DEF VerticalBlank
<1>2. Machine \in Machines /\ Machine.reg = nes /\ Machine.mem = mem /\ Rom
  BY MachineIsOne
<1>3. /\ from \in Machines /\ from.mem = mem /\ from.reg.p = nes.p
      /\ from.reg.cycles = 0
  BY <1>2 DEF Machines, NesState
<1> HIDE DEF from
<1>4. from.reg.cycles = from.reg.cycles + 0 /\ from.reg.cycles \in Nat /\ 0 \in Nat
  BY <1>3
<1>5. Leads(from, from, 0, Stack1, Quiet)
  BY <1>3, <1>4 DEF Leads
<1>6. UNUSED_FLAG \in Quiet
  BY DEF UNUSED_FLAG, V, Flags, Quiet
<1>7. Leads(from, m, 0 + 7, Stack1, Quiet)
  BY <1>2, <1>4, <1>5, <1>6, VectorsAreNat, InterruptLeads
<1> HIDE DEF m
<1>8. m \in Machines
  BY <1>7 DEF Leads
<1>9. nes' \in NesState /\ mem' \in Memory /\ DOMAIN mem' \subseteq Cells
      /\ \A c \in DOMAIN mem' : mem'[c] \in Byte
  BY <1>1, <1>8, Parts DEF Machines
<1>10. frame \in 0 .. 3 /\ frame < 3 /\ rom \in Roms
  BY <1>1 DEF CpuIInv, TypeOK
<1>11. CpuIInv'
  BY <1>1, <1>9, <1>10 DEF CpuIInv, TypeOK
<1>12. Changed \subseteq Stack1 /\ nes'.p \subseteq nes.p \cup Quiet
  BY <1>1, <1>3, <1>7 DEF Leads, Changed
<1> QED
  BY <1>1, <1>10, <1>11, <1>12

LEMMA PpuIsMemory ==
    /\ DOMAIN PpuInitial \subseteq Cells
    /\ \A c \in DOMAIN PpuInitial : PpuInitial[c] \in Byte
BY DEF PpuInitial, Cells, Byte

LEMMA ResetStep ==
    ASSUME CpuIInv, Reset
    PROVE  CpuIInv' /\ nes'.p \subseteq nes.p \cup Quiet
<1> DEFINE called == interrupt(Machine, RESET_VECTOR)
           in == set_flag(called, I, TRUE)
           over == [c \in DOMAIN in.mem \cup DOMAIN PpuInitial |->
                       IF c \in DOMAIN PpuInitial THEN PpuInitial[c] ELSE in.mem[c]]
           still == [in EXCEPT !.reg.s = 255]
<1>1. /\ nes' = reset(Machine).reg /\ mem' = reset(Machine).mem /\ phase = "reset"
      /\ phase' = "run" /\ rom' = rom /\ frame' = frame
  BY DEF Reset
<1>2. Leads(Machine, Machine, 0, Cells, Quiet) /\ Rom /\ Machine.reg.cycles \in Nat
      /\ Machine.reg = nes
  BY MachineIsOne, StartLeads
<1>3. UNUSED_FLAG \in Quiet /\ I \in Quiet /\ I \in Flags /\ TRUE \in BOOLEAN
      /\ Stack1 \subseteq Cells /\ 0 \in Nat
  BY DEF UNUSED_FLAG, I, V, Flags, Quiet, Stack1, Cells
<1>4. Leads(Machine, called, 0 + 7, Cells, Quiet)
  BY <1>2, <1>3, VectorsAreNat, InterruptLeads
<1> HIDE DEF called
<1>5. Leads(Machine, in, 0 + 7, Cells, Quiet)
  BY <1>3, <1>4, FlagLeads
<1>6. reset(Machine) = [in EXCEPT !.reg.s = 255, !.mem = over]
  BY Zenon DEF reset, in, called
<1> HIDE DEF in
<1>7. in \in Machines /\ DOMAIN in.mem \subseteq Cells /\ in.mem \in [DOMAIN in.mem -> Byte]
      /\ in.reg \in NesState /\ in.reg.p \subseteq nes.p \cup Quiet
  BY <1>2, <1>5, Parts DEF Leads
<1>8. over \in Memory
  <2>1. over \in [DOMAIN in.mem \cup DOMAIN PpuInitial -> Byte]
    BY <1>7, PpuIsMemory
  <2>2. DOMAIN in.mem \cup DOMAIN PpuInitial \in SUBSET Cells
    BY <1>7, PpuIsMemory
  <2> QED
    BY <2>1, <2>2 DEF Memory
<1> HIDE DEF over
<1>9. 255 \in Byte
  BY DEF Byte
<1>10. nes' = [in.reg EXCEPT !.s = 255] /\ mem' = over
  BY <1>1, <1>6, <1>7 DEF Machines
<1>11. nes' \in NesState /\ nes'.p = in.reg.p
  BY <1>7, <1>9, <1>10 DEF NesState
<1>12. DOMAIN mem' \subseteq Cells /\ \A c \in DOMAIN mem' : mem'[c] \in Byte
  BY <1>8, <1>10 DEF Memory
<1>13. CpuIInv'
  BY <1>1, <1>8, <1>10, <1>11, <1>12 DEF CpuIInv, TypeOK
<1> QED
  BY <1>7, <1>11, <1>13

LEMMA CpuInit == Init => CpuIInv
<1> SUFFICES ASSUME Init
             PROVE  CpuIInv
  OBVIOUS
<1>1. nes \in NesState /\ rom \in Roms
  BY NesCpuAssumption DEF Init
<1>2. mem \in [{} -> Byte] /\ DOMAIN mem = {}
  BY DEF Init
<1>3. mem \in Memory /\ DOMAIN mem \subseteq Cells /\ \A c \in DOMAIN mem : mem[c] \in Byte
  BY <1>2 DEF Memory
<1> QED
  BY <1>1, <1>3 DEF Init, CpuIInv, TypeOK

LEMMA CpuKeeps == CpuIInv /\ [Next]_vars => CpuIInv'
<1> SUFFICES ASSUME CpuIInv, [Next]_vars
             PROVE  CpuIInv'
  OBVIOUS
<1>1. CASE Reset
  BY <1>1, ResetStep
<1>2. CASE cpu_step
  BY <1>2, CpuStep DEF StepIsRight
<1>3. CASE VerticalBlank
  BY <1>3, BlankStep
<1>4. CASE UNCHANGED vars
  BY <1>4 DEF CpuIInv, TypeOK, vars
<1> QED
  BY <1>1, <1>2, <1>3, <1>4 DEF Next

(* Of an address that was pushed and popped two digits are left, in the    *)
(* wrong order.                                                            *)
LEMMA ReturnsMiss ==
    ASSUME NEW m \in Machines, NEW addr \in Address
    PROVE  pop_addr(push_addr(m, addr)).reg.pc < \h1000
<1> DEFINE high == (addr \div 256) % 16
           lowest == addr % 16
           once == push(m, high)
           twice == push(once, lowest)
<1>1. high \in 0 .. 15 /\ lowest \in 0 .. 15 /\ high \in Byte /\ lowest \in Byte
  BY Digits
<1>2. push_addr(m, addr) = twice
  BY DEF push_addr
<1>3. m.reg.cycles \in Nat /\ m.reg.s \in Byte
  BY Parts
<1>4. Leads(m, m, 0, Stack1, {}) /\ Stack1 \subseteq Stack1
  BY <1>3 DEF Leads
<1> HIDE DEF high, lowest
<1>5. /\ Leads(m, once, 0, Stack1, {}) /\ once.reg.s = (m.reg.s - 1) % 256
      /\ \h100 + m.reg.s \in DOMAIN once.mem
      /\ once.mem[\h100 + m.reg.s] = high
  <2>1. /\ Leads(m, once, 0, Stack1, {}) /\ once.reg.s = (m.reg.s - 1) % 256
        /\ \h100 + m.reg.s \in DOMAIN once.mem
        /\ \A c \in DOMAIN once.mem :
               once.mem[c] = IF c = \h100 + m.reg.s THEN high ELSE m.mem[c]
    BY <1>1, <1>4, PushLeads
  <2> HIDE DEF once
  <2> QED
    BY <2>1
<1> HIDE DEF once
<1>6. /\ Leads(m, twice, 0, Stack1, {}) /\ twice.reg.s = (once.reg.s - 1) % 256
      /\ \h100 + once.reg.s \in DOMAIN twice.mem
      /\ DOMAIN once.mem \subseteq DOMAIN twice.mem
      /\ \A c \in DOMAIN twice.mem :
             twice.mem[c] = IF c = \h100 + once.reg.s THEN lowest ELSE once.mem[c]
  BY <1>1, <1>4, <1>5, PushLeads
<1> HIDE DEF twice
<1>7. once.reg.s \in Byte /\ once.reg.s # m.reg.s /\ (once.reg.s + 1) % 256 = m.reg.s
  BY <1>3, <1>5, Neighbours
<1>8. (twice.reg.s + 1) % 256 = once.reg.s
  BY <1>6, <1>7, Neighbours
<1>9. Top(twice) = lowest
  BY <1>6, <1>8 DEF Top, Read
<1>10. Popped(twice).reg.s = once.reg.s /\ Popped(twice).mem = twice.mem
  <2>1. twice \in Machines /\ twice.reg \in NesState
    BY <1>6, Parts DEF Leads
  <2>2. Popped(twice) = [twice EXCEPT !.reg.s = once.reg.s]
    BY <1>8 DEF Popped
  <2> QED
    BY <2>1, <2>2 DEF Machines, NesState
<1>11. Top(Popped(twice)) = high
  <2>1. \h100 + m.reg.s # \h100 + once.reg.s
    BY <1>3, <1>7, Widths
  <2>2. twice.mem[\h100 + m.reg.s] = high /\ \h100 + m.reg.s \in DOMAIN twice.mem
    BY <1>5, <1>6, <2>1
  <2> QED
    BY <1>7, <1>10, <2>2 DEF Top, Read
<1>12. pop_addr(twice).reg.pc = lowest * 256 + high
  <2>1. Leads(m, Popped(Popped(twice)), 0, Stack1, {})
    BY <1>6, PoppedLeads
  <2>2. Popped(Popped(twice)) \in Machines /\ Popped(Popped(twice)).reg \in NesState
    BY <2>1, Parts DEF Leads
  <2>3. pop_addr(twice) = [Popped(Popped(twice)) EXCEPT !.reg.pc = lowest * 256 + high]
    BY <1>9, <1>11 DEF pop_addr
  <2> QED
    BY <2>2, <2>3 DEF Machines, NesState
<1>13. lowest * 256 + high < 4096
  BY <1>1
<1> QED
  BY <1>2, <1>12, <1>13

(* Whatever the program and the state before reset(), the registers and    *)
(* the memory keep the widths of struct nes_state (nes.c), and no address  *)
(* that push_addr() saves comes back from pop_addr() as one of the ROM:    *)
(* this for every address, not for the samples of the run alone.           *)
THEOREM RegistersKeepTheirWidths == Spec => []MachineIsSound
<1>1. CpuIInv => MachineIsSound
  <2> SUFFICES ASSUME CpuIInv
               PROVE  MachineIsSound
    OBVIOUS
  <2>1. Machine \in Machines
    BY MachineIsOne
  <2>2. ReturnsMissTheProgram
    BY <2>1, ReturnsMiss, NesCpuAssumption DEF ReturnsMissTheProgram
  <2> QED
    BY <2>2 DEF CpuIInv, MachineIsSound
<1> QED
  BY <1>1, CpuInit, CpuKeeps, PTL DEF Spec

(* Every call of cpu_step() takes 2 to 8 cycles or, on a byte it has no    *)
(* case for, none: then it moves on by one byte and changes nothing else.  *)
(* This is what the model of run_nes_rom() in NesRom takes for granted.    *)
THEOREM InstructionsCostTwoToEight == Spec => StepCosts
<1>1. CpuIInv /\ [Next]_vars =>
          [(phase = "run" /\ frame' = frame) =>
              LET cost == nes'.cycles - nes.cycles
              IN  \/ cost \in 2 .. 8
                  \/ /\ cost = 0
                     /\ nes' = [nes EXCEPT !.pc = (@ + 1) % 65536]
                     /\ mem' = mem]_vars
  <2> SUFFICES ASSUME CpuIInv, Next, phase = "run", frame' = frame
               PROVE  CostIsRight
    BY DEF vars, CostIsRight
  <2>1. CASE Reset
    BY <2>1 DEF Reset
  <2>2. CASE cpu_step
    BY <2>2, CpuStep DEF StepIsRight
  <2>3. CASE VerticalBlank
    BY <2>3, BlankStep
  <2> QED
    BY <2>1, <2>2, <2>3 DEF Next
<1> QED
  BY <1>1, CpuInit, CpuKeeps, PTL DEF Spec, StepCosts

(* A call, a BRK or the end of a frame writes to page 1 only, wherever the *)
(* stack pointer is, and an ASL on memory to page 0 only, whatever the     *)
(* address it was given.                                                   *)
THEOREM StackAndShiftsStay == Spec => WritesStayInTheirPage
<1>1. CpuIInv /\ [Next]_vars =>
          /\ [(phase = "run" /\ nes'.s \in {(nes.s - k) % 256 : k \in 1 .. 3}
               /\ Opcode # Implied.TXS) =>
                 Changed \subseteq \h100 .. \h1ff]_vars
          /\ [(phase = "run" /\ frame' = frame /\ Opcode \in Opcodes(Asl)) =>
                 Changed \subseteq 0 .. 255]_vars
  <2> SUFFICES ASSUME CpuIInv, Next, phase = "run"
               PROVE  /\ StackIsRight
                      /\ frame' = frame => ShiftIsRight
    BY DEF vars, StackIsRight, ShiftIsRight, Stack1
  <2>1. CASE Reset
    BY <2>1 DEF Reset
  <2>2. CASE cpu_step
    BY <2>2, CpuStep DEF StepIsRight
  <2>3. CASE VerticalBlank
    BY <2>3, BlankStep DEF StackIsRight
  <2> QED
    BY <2>1, <2>2, <2>3 DEF Next
<1> QED
  BY <1>1, CpuInit, CpuKeeps, PTL
     DEF Spec, WritesStayInTheirPage, StackStaysInPageOne, ShiftsStayInZeroPage

(* No ADC and no SBC ever raises the overflow flag: BIT, PLP and RTI are   *)
(* the only instructions that do.                                          *)
THEOREM ArithmeticNeverOverflows == Spec => OverflowIsNeverArithmetic
<1>1. CpuIInv /\ [Next]_vars =>
          [(V \in nes'.p /\ V \notin nes.p) =>
              Opcode \in Opcodes(Bit) \cup {Implied.PLP, Implied.RTI}]_vars
  <2> SUFFICES ASSUME CpuIInv, Next
               PROVE  OverflowIsRight
    BY DEF vars, OverflowIsRight
  <2>1. CASE Reset
    BY <2>1, ResetStep DEF Quiet, OverflowIsRight
  <2>2. CASE cpu_step
    BY <2>2, CpuStep DEF StepIsRight
  <2>3. CASE VerticalBlank
    BY <2>3, BlankStep DEF Quiet, OverflowIsRight
  <2> QED
    BY <2>1, <2>2, <2>3 DEF Next
<1> QED
  BY <1>1, CpuInit, CpuKeeps, PTL DEF Spec, OverflowIsNeverArithmetic

=============================================================================
