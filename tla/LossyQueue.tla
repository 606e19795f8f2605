---------------------------- MODULE LossyQueue ----------------------------
(***************************************************************************)
(* What a client of the byte ring (src/ring.c) can rely on: a FIFO queue   *)
(* of fewer than Size bytes that forgets everything it holds when one more *)
(* byte is put into it while it is full.  Ringbuffer implements it.        *)
(***************************************************************************)
EXTENDS Naturals, Sequences

CONSTANTS Size,   \* the size the ring was forged with
          Byte    \* the values a slot can hold

VARIABLES queue,  \* bytes written and not yet read, oldest first
          out     \* the byte the last read returned

Init ==
    /\ queue = <<>>
    /\ out \in Byte

Put(data) ==
    /\ queue' = IF Len(queue) = Size - 1 THEN <<>> ELSE Append(queue, data)
    /\ UNCHANGED out

Get ==
    /\ queue # <<>>
    /\ out' = Head(queue)
    /\ queue' = Tail(queue)

Next == Get \/ \E data \in Byte : Put(data)

Spec == Init /\ [][Next]_<<queue, out>>
===========================================================================
