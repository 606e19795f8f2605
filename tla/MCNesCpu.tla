----------------------------- MODULE MCNesCpu -----------------------------
(***************************************************************************)
(* Programs and machines for TLC: a first instruction, its operand, a      *)
(* second opcode and a reset vector, repeated all over the ROM.            *)
(***************************************************************************)
EXTENDS NesCpu

CONSTANTS First,       \* opcodes of the first instruction
          Low, High,   \* operand bytes
          Second,      \* opcodes of the second instruction
          Resets,      \* high bytes of the reset vector
          Registers,   \* values of a, x and y
          Fills        \* values of memory nobody wrote

Every == 0 .. 255

MCRoms ==
    {<<op, lo, hi, second, 0, start, 0, 0>> :
        op \in First, lo \in Low, hi \in High, second \in Second, start \in Resets}

(* The garbage in the stack pointer is at either end of its range. *)
MCStarts ==
    {[a |-> r, x |-> r, y |-> r, s |-> s, p |-> {}, pc |-> 4660,
      cycles |-> 0, fill |-> fill] :
        r \in Registers, s \in {0, 255}, fill \in Fills}
===========================================================================
