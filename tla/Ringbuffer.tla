---------------------------- MODULE Ringbuffer ----------------------------
(***************************************************************************)
(* The byte ring of src/ring.c: a malloc'ed buffer and the two pointers    *)
(* that chase each other around it.  A pointer is the offset from          *)
(* ringbuffer->buffer, so ringbuffer->end is Size.                         *)
(*                                                                         *)
(* write_ringbuffer has no guard: it never looks at the read pointer.      *)
(* read_ringbuffer has none either; its only caller (the "ring" command of *)
(* src/term.c) calls it while data_ringbuffer is not 0, and so does Read.  *)
(***************************************************************************)
EXTENDS Naturals, Sequences

CONSTANTS Size,   \* argument of forge_ringbuffer, 16 in src/term.c
          Byte    \* the values of a uint8_t that are told apart

ASSUME SizeAssumption == Size \in Nat \ {0}

VARIABLES stored,  \* contents of the Size slots
          write,   \* offset of the slot the next write fills
          read,    \* offset of the slot the next read returns
          out      \* what the last read_ringbuffer returned

ringVars == <<stored, write, read, out>>

Slots == 0 .. Size - 1

(* A pointer is incremented and loops when it reaches the end. *)
Advance(pointer) == IF pointer + 1 = Size THEN 0 ELSE pointer + 1

(* data_ringbuffer and unread_ringbuffer. *)
Data   == IF write >= read THEN write - read ELSE (write + Size) - read
Unread == write # read

(* forge_ringbuffer: the pool memory is not cleared. *)
RingInit ==
    /\ stored \in [Slots -> Byte]
    /\ write = 0
    /\ read = 0
    /\ out \in Byte

Write(data) ==
    /\ stored' = [stored EXCEPT ![write] = data]
    /\ write' = Advance(write)
    /\ UNCHANGED <<read, out>>

(* Mutant of Read: *++read in place of *read++. *)
ReadPreIncrement ==
    /\ Data # 0
    /\ out' = stored[Advance(read)]
    /\ read' = Advance(read)
    /\ UNCHANGED <<stored, write>>

Read ==
    /\ Data # 0
    /\ out' = stored[read]
    /\ read' = Advance(read)
    /\ UNCHANGED <<stored, write>>

RingNext == Read \/ \E data \in Byte : Write(data)

RingSpec == RingInit /\ [][RingNext]_ringVars

---------------------------------------------------------------------------
RingTypeOK ==
    /\ stored \in [Slots -> Byte]
    /\ write \in Slots
    /\ read \in Slots
    /\ out \in Byte

(* The n-th slot after the read pointer, and the unread bytes in order. *)
SlotAfterRead(n) == IF read + n < Size THEN read + n ELSE (read + n) - Size
Contents == [i \in 1 .. Data |-> stored[SlotAfterRead(i - 1)]]

Queue == INSTANCE LossyQueue WITH queue <- Contents

(* The ring implements the lossy queue: what read_ringbuffer returns, over *)
(* any interleaving of writes and reads and across every wrap of either    *)
(* pointer, is the oldest unread byte, and only a write to a full ring     *)
(* loses any.                                                              *)
ImplementsLossyQueue == Queue!Spec
===========================================================================
