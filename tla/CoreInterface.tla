--------------------------- MODULE CoreInterface ---------------------------
(***************************************************************************)
(* class Interface of src/core/interface.cpp: the constructor allocates    *)
(* two rings for a program, update() takes its commands from one of them,  *)
(* the destructor releases what there is.  Nothing calls update() yet, and *)
(* the program is external: it puts bytes at output_write_head and does    *)
(* not overtake the reader.                                                *)
(*                                                                         *)
(* A byte is the kind of command that it is the first byte of: "free" is   *)
(* 0xaf, "known" another series that has a function, "unknown" any other.  *)
(***************************************************************************)
EXTENDS Naturals

CONSTANTS Word,         \* the heads are uint16_t, 2^16
          BufferSize,   \* bytes of a ring, 0xffff
          PointerBytes, \* bytes of the pointer behind a free command, 8
          MaxWrites     \* bound on the bytes the program writes

InterfaceAssumption ==
    /\ Word \in Nat /\ BufferSize \in Nat /\ PointerBytes \in Nat
    /\ 0 < BufferSize /\ BufferSize <= Word
    /\ PointerBytes < Word
    /\ MaxWrites \in Nat

VARIABLES pc,      \* the allocation that is next, "ready", "deleted"
          buffers, \* the pointer: "null", "live", "dangling"
          heap,    \* live blocks
          unsound, \* what was passed to free() and is no live block
          output_read_head, output_write_head,
          output_buffer, \* what an index finds, BufferSize and above behind it
          writes   \* bytes the program has written

blockVars == <<buffers, heap, unsound>>
ringVars  == <<output_read_head, output_write_head, output_buffer, writes>>
vars == <<pc, blockVars, ringVars>>

Kind  == {"free", "known", "unknown"}
Block == {"buffers", "output", "input", "stream"}

(* The stream is the one given to the constructor, if any.  The heads and  *)
(* the rings are never initialised.                                        *)
Init ==
    /\ pc = "buffers"
    /\ buffers = "null"
    /\ heap \in {{}, {"stream"}}
    /\ unsound = {}
    /\ output_read_head \in 0 .. Word - 1
    /\ output_write_head \in 0 .. Word - 1
    /\ output_buffer \in [0 .. Word - 1 -> Kind]
    /\ writes = 0

AllocateBuffers ==
    /\ pc = "buffers"
    /\ \/ pc' = "ready" /\ UNCHANGED blockVars
       \/ /\ pc' = "output"
          /\ buffers' = "live"
          /\ heap' = heap \cup {"buffers"}
          /\ UNCHANGED unsound
    /\ UNCHANGED ringVars

(* Mutant of AllocateOutput: the pointer stays, as after the second ring. *)
AllocateOutputKeepsPointer ==
    /\ pc = "output"
    /\ \/ pc' = "ready" /\ heap' = heap \ {"buffers"} /\ UNCHANGED buffers
       \/ pc' = "input" /\ heap' = heap \cup {"output"} /\ UNCHANGED buffers
    /\ UNCHANGED <<unsound, ringVars>>

AllocateOutput ==
    /\ pc = "output"
    /\ \/ pc' = "ready" /\ buffers' = "null" /\ heap' = heap \ {"buffers"}
       \/ pc' = "input" /\ heap' = heap \cup {"output"} /\ UNCHANGED buffers
    /\ UNCHANGED <<unsound, ringVars>>

(* Without a second ring both blocks are freed, and the pointer stays.     *)
AllocateInput ==
    /\ pc = "input"
    /\ pc' = "ready"
    /\ \/ buffers' = "dangling" /\ heap' = heap \ {"buffers", "output"}
       \/ heap' = heap \cup {"input"} /\ UNCHANGED buffers
    /\ UNCHANGED <<unsound, ringVars>>

delta_out == (output_write_head - output_read_head) % Word

Command == output_buffer[output_read_head]

(* The program: a byte, unless that would look like an empty ring. *)
ProgramWrites(b) ==
    /\ pc = "ready" /\ buffers # "null"
    /\ writes < MaxWrites
    /\ delta_out < Word - 1
    /\ output_buffer' = [output_buffer EXCEPT ![output_write_head] = b]
    /\ output_write_head' = (output_write_head + 1) % Word
    /\ writes' = writes + 1
    /\ UNCHANGED <<pc, blockVars, output_read_head>>

Updating == pc = "ready" /\ buffers # "null" /\ delta_out > 0

(* Mutant of HasPointer: the first byte of the command is counted in. *)
HasPointerOrLess == delta_out >= PointerBytes

HasPointer == delta_out > PointerBytes

(* The address of the pointer in the ring is freed, not the pointer: where *)
(* the index wraps that is the ring itself, elsewhere no block at all.     *)
FreeMemory ==
    LET first == (output_read_head + 1) % Word
    IN  /\ Updating /\ Command = "free" /\ HasPointer
        /\ output_read_head' = (first + PointerBytes) % Word
        /\ IF first = 0 /\ "output" \in heap
           THEN heap' = heap \ {"output"} /\ UNCHANGED unsound
           ELSE unsound' = unsound \cup {"inside"} /\ UNCHANGED heap
        /\ UNCHANGED <<pc, buffers, output_write_head, output_buffer, writes>>

SkipUnknown ==
    /\ Updating /\ Command = "unknown"
    /\ output_read_head' = (output_read_head + 1) % Word
    /\ UNCHANGED <<pc, blockVars, output_write_head, output_buffer, writes>>

(* The functions of the other commands are empty: they consume nothing,    *)
(* and neither does a free command whose pointer is not complete.          *)
Update == FreeMemory \/ SkipUnknown

(* What a dangling pointer leads to is taken to be unchanged: a pointer to *)
(* the ring that was freed, and null.                                      *)
Destroy ==
    LET freed == IF buffers = "null" THEN {}
                 ELSE {"buffers", "output"} \cup (heap \cap {"input"})
    IN  /\ pc = "ready"
        /\ pc' = "deleted"
        /\ heap' = heap \ (freed \cup {"stream"})
        /\ unsound' = unsound \cup (freed \ heap)
        /\ UNCHANGED <<buffers, ringVars>>

Next ==
    \/ AllocateBuffers \/ AllocateOutput \/ AllocateInput
    \/ \E b \in Kind : ProgramWrites(b)
    \/ Update
    \/ Destroy

(* Whoever calls update() calls it again and again until the end. *)
Spec == Init /\ [][Next]_vars /\ WF_vars(Update)

---------------------------------------------------------------------------
TypeOK ==
    /\ pc \in {"buffers", "output", "input", "ready", "deleted"}
    /\ buffers \in {"null", "live", "dangling"}
    /\ heap \subseteq Block
    /\ unsound \subseteq Block \cup {"inside"}
    /\ output_read_head \in 0 .. Word - 1 /\ output_write_head \in 0 .. Word - 1
    /\ output_buffer \in [0 .. Word - 1 -> Kind]
    /\ writes \in 0 .. MaxWrites

(* Whichever allocation failed, the destructor leaves nothing behind.      *)
DeletedIsClean == pc = "deleted" => heap = {}

(* What the pointer leads to is whole while the object lives, whichever    *)
(* allocation failed, and is freed once: except when it was the second     *)
(* ring that could not be allocated.                                       *)
FreedOnce ==
    buffers # "dangling" =>
        /\ "buffers" \notin unsound
        /\ pc = "ready" => (buffers = "live" <=> {"buffers", "input"} \subseteq heap)

(* update() does not read past what the program has written: it consumes   *)
(* at most what there was, from wherever the heads start.                  *)
ReaderStaysBehind ==
    [][output_read_head' # output_read_head => delta_out' < delta_out]_vars

(* Bytes that are no command are skipped: in the end the ring is empty,    *)
(* deleted, or held up by a command that nothing will ever consume.        *)
Drains ==
    <>[](pc # "ready" \/ buffers = "null" \/ delta_out = 0
         \/ Command = "known" \/ (Command = "free" /\ ~HasPointer))
===========================================================================
