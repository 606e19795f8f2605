---------------------------- MODULE RingCommand ----------------------------
(***************************************************************************)
(* The "ring" command of src/term.c, the only client of the byte ring: it  *)
(* forges a ring, writes the first character of every argument into it and *)
(* then prints what data_ringbuffer says is there.  Nothing stops it from  *)
(* writing more arguments than the ring has slots.                         *)
(***************************************************************************)
EXTENDS Ringbuffer

CONSTANTS Letters, \* the UTF-16 units an argument can begin with, 0 if empty
          MaxArgs  \* bound on the arguments of one command, 255 in src/term.c

ASSUME CharAssumption == Letters \subseteq Nat /\ Byte = {c % 256 : c \in Letters}
ASSUME MaxArgsAssumption == MaxArgs \in Nat

VARIABLES phase,    \* "write": the for loop, "drain": the while loop, "done"
          args,     \* first characters of the arguments written so far
          reads,    \* number of bytes read back
          shown     \* the strings given to print(), one for every byte

commandVars == <<ringVars, phase, args, reads, shown>>

CommandInit ==
    /\ RingInit
    /\ phase = "write"
    /\ args = <<>>
    /\ reads = 0
    /\ shown = <<>>

(* Mutant of WriteArgument: no cast. *)
WriteArgumentUncast(c) ==
    /\ phase = "write"
    /\ Len(args) < MaxArgs
    /\ Write(c)
    /\ args' = Append(args, c)
    /\ UNCHANGED <<phase, reads, shown>>

(* argv[i][0] is cast to uint8_t, which keeps its low byte. *)
WriteArgument(c) ==
    /\ phase = "write"
    /\ Len(args) < MaxArgs
    /\ Write(c % 256)
    /\ args' = Append(args, c)
    /\ UNCHANGED <<phase, reads, shown>>

NoMoreArguments ==
    /\ phase = "write"
    /\ phase' = "drain"
    /\ UNCHANGED <<ringVars, args, reads, shown>>

(* Mutant of PrintByte: peek_ringbuffer, which moves no pointer, is called *)
(* in its place; the same byte is printed over and over.                   *)
PrintBytePeeked ==
    /\ phase = "drain"
    /\ Data # 0
    /\ out' = stored[read]
    /\ UNCHANGED <<stored, write, read, phase, args, reads, shown>>

(* The string c: the byte is its one character, or ends it when it is 0. *)
StringOf(byte) == IF byte = 0 THEN <<>> ELSE <<byte>>

PrintByte ==
    /\ phase = "drain"
    /\ Read
    /\ shown' = Append(shown, StringOf(out'))
    /\ reads' = reads + 1
    /\ UNCHANGED <<phase, args>>

(* The command returns; the ring is never destroyed. *)
CommandReturns ==
    /\ phase = "drain"
    /\ Data = 0
    /\ phase' = "done"
    /\ UNCHANGED <<ringVars, args, reads, shown>>

CommandNext ==
    \/ \E c \in Letters : WriteArgument(c)
    \/ NoMoreArguments
    \/ PrintByte
    \/ CommandReturns

CommandSpec ==
    /\ CommandInit
    /\ [][CommandNext]_commandVars
    /\ WF_commandVars(CommandNext)

---------------------------------------------------------------------------
CommandTypeOK ==
    /\ RingTypeOK
    /\ phase \in {"write", "drain", "done"}
    /\ args \in Seq(Letters) /\ Len(args) <= MaxArgs
    /\ reads \in 0 .. Size - 1
    /\ shown \in Seq({StringOf(b) : b \in Byte}) /\ Len(shown) < Size

(* The byte that the n-th of the last "kept" arguments left in the ring. *)
LowByte(kept, n) == args[Len(args) - kept + n] % 256

(* Whatever the number of arguments, the command prints, in the order they *)
(* were typed, the low bytes of the last (argc - 1) % Size arguments: none *)
(* is printed twice, none comes out of order after a wrap, and a stale     *)
(* byte of the uncleared pool memory never appears.                        *)
PrintsLastArguments ==
    phase = "done" =>
        LET kept == Len(args) % Size
        IN  shown = [n \in 1 .. kept |-> StringOf(LowByte(kept, n))]

(* The command keeps to its ring and prints what its arguments began with. *)
CommandInv == CommandTypeOK /\ PrintsLastArguments

(* The drain loop ends, also when the write pointer has been around the    *)
(* ring any number of times before.                                        *)
DrainEnds == phase = "drain" ~> phase = "done"

(* include/roxus/ring.h:32: data_ringbuffer is the "Size of unread data in *)
(* ringbuffer", the bytes written and not yet read.                        *)
DataCountsUnread == Data = Len(args) - reads
===========================================================================
