----------------------------- MODULE LineInput -----------------------------
(***************************************************************************)
(* input() of src/input.c together with the loop of term() in src/term.c   *)
(* that calls it: one buffer on the stack of term() is filled by input(),  *)
(* cut into words by command(), and filled again, never cleared.           *)
(*                                                                         *)
(* mem is that buffer (cells 0 .. Length - 1) and the Spare cells of the   *)
(* stack that follow it.  Keys that find the device not ready, or that     *)
(* input() ignores, change nothing and are stuttering steps.               *)
(***************************************************************************)
EXTENDS Naturals, Sequences

CONSTANTS Length,   \* second argument of input(), 256 in src/term.c
          Spare,    \* bound: cells the model keeps after the buffer
          Char,     \* characters of the keys that have one
          Space,    \* the character that separates words
          Special,  \* what input() stores for a key without a character
          Nul       \* the terminator

ASSUME LineInputAssumption ==
    /\ Length \in Nat \ {0}
    /\ Spare \in Nat \ {0}
    /\ Space \in Char
    /\ Nul \notin Char \cup Special
    /\ Char \cap Special = {}

VARIABLES pc,       \* "idle" in term(), "editing" in input(), and after it
                    \* "entered" or "failed", by the status it returned
          mem,      \* the buffer and the cells behind it
          string,   \* the pointer input() advances, as an index of mem
          offset,   \* the number of characters input() believes it holds
          command   \* the C string command() was last called with

vars == <<pc, mem, string, offset, command>>

Last  == Length + Spare
Cells == 0 .. Last
Unit  == Char \cup Special \cup {Nul}

(* term() does not initialise the buffer. *)
Init ==
    /\ pc = "idle"
    /\ mem \in [Cells -> {Space, Nul}]
    /\ string = 0
    /\ offset = 0
    /\ command = <<>>

(* term() calls input(buffer, 256). *)
Prompt ==
    /\ pc = "idle"
    /\ pc' = "editing"
    /\ UNCHANGED <<mem, string, offset, command>>

Store(c) ==
    /\ mem' = [mem EXCEPT ![string] = c]
    /\ string' = string + 1
    /\ offset' = offset + 1
    /\ UNCHANGED <<pc, command>>

RegularKey(c) ==
    /\ pc = "editing"
    /\ offset < Length
    /\ Store(c)

(* Mutant of SpecialKey: offset++ is forgotten in its branch. *)
SpecialKeyUncounted(c) ==
    /\ pc = "editing"
    /\ string < Last
    /\ mem' = [mem EXCEPT ![string] = c]
    /\ string' = string + 1
    /\ UNCHANGED <<pc, offset, command>>

(* This branch does not look at length; Spare bounds it here. *)
SpecialKey(c) ==
    /\ pc = "editing"
    /\ string < Last
    /\ Store(c)

(* The terminator goes where the next character would have gone: the       *)
(* erased one stays in its cell.                                           *)
Backspace ==
    /\ pc = "editing"
    /\ offset > 0
    /\ mem' = [mem EXCEPT ![string] = Nul]
    /\ string' = string - 1
    /\ offset' = offset - 1
    /\ UNCHANGED <<pc, command>>

(* Mutant of Return: *string = 0 is left out. *)
ReturnUnterminated ==
    /\ pc = "editing"
    /\ pc' = "entered"
    /\ UNCHANGED <<mem, string, offset, command>>

Return ==
    /\ pc = "editing"
    /\ mem' = [mem EXCEPT ![string] = Nul]
    /\ pc' = "entered"
    /\ UNCHANGED <<string, offset, command>>

(* readKey or the outputString of an echo fails: input() returns at once.  *)
DeviceError ==
    /\ pc = "editing"
    /\ pc' = "failed"
    /\ UNCHANGED <<mem, string, offset, command>>

(* The length of the C string in mem; without a terminator in the cells it *)
(* runs out of the modelled memory.                                        *)
IsCStringLength(n) ==
    /\ \A i \in 0 .. n - 1 : mem[i] # Nul
    /\ n \in Cells => mem[n] = Nul

(* Mutant of RunCommand: the words are cut in a copy of the string. *)
RunCommandOnCopy ==
    /\ pc \in {"entered", "failed"}
    /\ \E n \in 0 .. Last + 1 :
         /\ IsCStringLength(n)
         /\ command' = [i \in 1 .. n |-> mem[i - 1]]
    /\ pc' = "idle"
    /\ string' = 0
    /\ offset' = 0
    /\ UNCHANGED mem

(* term() does not look at the status of input() and command() cuts the    *)
(* string into words by overwriting its spaces.  input() has returned, and *)
(* its variables start from 0 in the next call.                            *)
RunCommand ==
    /\ pc \in {"entered", "failed"}
    /\ \E n \in 0 .. Last + 1 :
         /\ IsCStringLength(n)
         /\ command' = [i \in 1 .. n |-> mem[i - 1]]
         /\ mem' = [i \in Cells |->
                      IF i < n /\ mem[i] = Space THEN Nul ELSE mem[i]]
    /\ pc' = "idle"
    /\ string' = 0
    /\ offset' = 0

Next ==
    \/ Prompt
    \/ \E c \in Char : RegularKey(c)
    \/ \E c \in Special : SpecialKey(c)
    \/ Backspace
    \/ Return
    \/ DeviceError
    \/ RunCommand

Spec == Init /\ [][Next]_vars

---------------------------------------------------------------------------
TypeOK ==
    /\ pc \in {"idle", "editing", "entered", "failed"}
    /\ mem \in [Cells -> Unit]
    /\ string \in Cells
    /\ offset \in Nat
    /\ command \in Seq(Unit)

(* The pointer that is written through and the counter that is checked     *)
(* move together (they are separate variables of input()).                 *)
PointerIsOffset == string = offset

(* The characters up to the pointer are typed ones: no terminator written  *)
(* for a backspace is ever left inside the line.                           *)
LineHasNoNul == \A i \in 0 .. offset - 1 : mem[i] # Nul

(* After input() succeeds the string is terminated where the line ends.    *)
EnteredIsTerminated == pc = "entered" => mem[string] = Nul

(* However keys and backspaces are interleaved, what lies past the buffer  *)
(* was put there by keys without a character: the check of length holds    *)
(* for all the others, also after special keys went past it.               *)
OverrunIsSpecial == \A i \in Length .. offset - 1 : mem[i] \in Special

EditorInv ==
    /\ PointerIsOffset
    /\ LineHasNoNul
    /\ EnteredIsTerminated
    /\ OverrunIsSpecial

Line == [i \in 1 .. offset |-> mem[i - 1]]

Editor == INSTANCE LineEditor WITH state <- pc, line <- Line

(* The prompt implements the line editor: after a line was entered exactly *)
(* the characters typed and not erased are run, nothing left in the buffer *)
(* by an earlier and longer line; after a device error the command begins  *)
(* with them.                                                              *)
ImplementsLineEditor == Editor!Spec

FirstWord(s) ==
    CHOOSE w \in {SubSeq(s, 1, n) : n \in 0 .. Len(s)} :
        /\ \A i \in 1 .. Len(w) : w[i] # Space
        /\ Len(w) < Len(s) => s[Len(w) + 1] = Space

(* Between two lines the buffer still holds the program named by the last  *)
(* command, and nothing else: when the device fails before a key was       *)
(* typed, that program is run again, without its arguments.                *)
ProgramStaysInBuffer ==
    (pc = "idle" /\ command # <<>>) =>
        \A n \in 0 .. Last + 1 :
            IsCStringLength(n) =>
                [i \in 1 .. n |-> mem[i - 1]] = FirstWord(command)
===========================================================================
