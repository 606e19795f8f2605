------------------------------- MODULE Script -------------------------------
(***************************************************************************)
(* The text of a command in src/term.c: run() looks for the lines of a     *)
(* script in the block it was read into, and command() cuts a line, or the *)
(* buffer of the prompt, into the arguments argv.  Both store terminators  *)
(* into the text they are still reading.                                   *)
(*                                                                         *)
(* A unit is a newline, a space, a terminator, "x" or "a"; the program     *)
(* named <<"x">> stands for exit, every other one returns.                 *)
(***************************************************************************)
EXTENDS Integers, SequencesExt

CONSTANTS Units,   \* units of the text, some of those above
          MaxSize, \* bound on the units of a script
          Behind,  \* cells behind the block that can be read
          MaxArgs  \* places of argv and cells of the prompt's buffer, 256

ASSUME ScriptAssumption ==
    /\ Units \subseteq {"newline", "space", "nul", "x", "a"}
    /\ MaxSize \in Nat /\ Behind \in Nat
    /\ MaxArgs \in 1 .. MaxSize + Behind

VARIABLES pc,     \* "scan", "split", "lookup", "done", "fault"
          script, \* the text is a script, not the line of the prompt
          text,   \* the cells as they were at first
          size,   \* units of the block
          mem,    \* the cells
          start, end, running, \* of run()
          argv, pos, \* of command(); pos is its parameter, moved along
          ran     \* the arguments of the commands that were run

vars == <<pc, script, text, size, mem, start, end, running, argv, pos, ran>>

Cell == 0 .. MaxSize + Behind - 1

(* What lies behind the block may be anything.  input() has terminated the *)
(* line of the prompt, but not within the buffer: it takes a character for *)
(* each cell and then stores the terminator (input.c:34,57), and keys      *)
(* without a character are stored behind the end too (input.c:29).  Lines  *)
(* that an input() that failed leaves are LineInput's.                     *)
Init ==
    /\ text \in [Cell -> Units]
    /\ mem = text
    /\ start = 0 /\ end = 0
    /\ running = TRUE
    /\ pos = 0
    /\ ran = <<>>
    /\ \/ /\ script = TRUE
          /\ size \in 0 .. MaxSize
          /\ pc = "scan"
          /\ argv = <<>>
       \/ /\ script = FALSE
          /\ size = MaxArgs
          /\ \E i \in Cell :
                /\ text[i] = "nul"
                /\ \A n \in size .. i - 1 : text[n] \notin {"space", "newline"}
          /\ pc = "split"
          /\ argv = <<0>>

(* Mutant of ScanNext: the first cell is looked at too. *)
ScanFirst == IF start = 0 /\ end = 0 /\ ran = <<>> THEN 0 ELSE end + 1

(* The cell that "*++end" reads: never the first one. *)
ScanNext == end + 1

ScanEnds ==
    /\ pc = "scan" /\ ScanNext \in Cell
    /\ mem[ScanNext] = "nul" \/ ~running
    /\ end' = ScanNext
    /\ pc' = "done"
    /\ UNCHANGED <<script, text, size, mem, start, running, argv, pos, ran>>

ScanUnit ==
    /\ pc = "scan" /\ ScanNext \in Cell
    /\ mem[ScanNext] \notin {"nul", "newline"} /\ running
    /\ end' = ScanNext
    /\ UNCHANGED <<pc, script, text, size, mem, start, running, argv, pos, ran>>

(* A line is cut off and command() called. *)
ScanLine ==
    /\ pc = "scan" /\ ScanNext \in Cell
    /\ mem[ScanNext] = "newline" /\ running
    /\ end' = ScanNext
    /\ mem' = [mem EXCEPT ![ScanNext] = "nul"]
    /\ argv' = <<start>>
    /\ pos' = start
    /\ pc' = "split"
    /\ UNCHANGED <<script, text, size, start, running, ran>>

ScanTooFar ==
    /\ pc = "scan" /\ ScanNext \notin Cell
    /\ pc' = "fault"
    /\ UNCHANGED <<script, text, size, mem, start, end, running, argv, pos, ran>>

(* One more argument, which may be stored behind argv. *)
SplitSpace ==
    /\ pc = "split"
    /\ mem[pos] = "space"
    /\ mem' = [mem EXCEPT ![pos] = "nul"]
    /\ pos' = pos + 1
    /\ argv' = Append(argv, pos')
    /\ pc' = IF Len(argv) < MaxArgs THEN "split" ELSE "fault"
    /\ UNCHANGED <<script, text, size, start, end, running, ran>>

(* Mutant of SplitUnit: the pointer stays. *)
SplitUnitStays ==
    /\ pc = "split"
    /\ mem[pos] \notin {"space", "nul"}
    /\ UNCHANGED vars

SplitUnit ==
    /\ pc = "split"
    /\ mem[pos] \notin {"space", "nul"}
    /\ pos' = pos + 1
    /\ UNCHANGED <<pc, script, text, size, mem, start, end, running, argv, ran>>

SplitEnds ==
    /\ pc = "split"
    /\ mem[pos] = "nul"
    /\ pc' = "lookup"
    /\ UNCHANGED <<script, text, size, mem, start, end, running, argv, pos, ran>>

(* The string an argument points to: up to the next terminator. *)
StringAt(m, i) ==
    LET terminator == Min({n \in Cell : n >= i /\ m[n] = "nul"})
    IN  [k \in 1 .. terminator - i |-> m[i + k - 1]]

Exit == <<"x">>

(* The program is run; the commands that change the text or the terminal   *)
(* are in Terminal.                                                        *)
Lookup ==
    LET args == [k \in DOMAIN argv |-> StringAt(mem, argv[k])]
    IN  /\ pc = "lookup"
        /\ ran' = Append(ran, args)
        /\ running' = (running /\ args[1] # Exit)
        /\ start' = end + 1
        /\ pc' = IF script THEN "scan" ELSE "done"
        /\ UNCHANGED <<script, text, size, mem, end, argv, pos>>

Next ==
    \/ ScanEnds \/ ScanUnit \/ ScanLine \/ ScanTooFar
    \/ SplitSpace \/ SplitUnit \/ SplitEnds
    \/ Lookup

(* Nobody is waited for. *)
Spec == Init /\ [][Next]_vars /\ WF_vars(Next)

---------------------------------------------------------------------------
TypeOK ==
    /\ pc \in {"scan", "split", "lookup", "done", "fault"}
    /\ script \in BOOLEAN /\ running \in BOOLEAN
    /\ text \in [Cell -> Units] /\ mem \in [Cell -> Units \cup {"nul"}]
    /\ size \in 0 .. MaxSize \cup {MaxArgs}
    /\ start \in 0 .. MaxSize + Behind /\ end \in Cell /\ pos \in Cell
    /\ \A k \in DOMAIN argv : argv[k] \in Cell
    /\ Len(argv) <= MaxArgs + 1

(* The numbers in a sequence are those of a set, in order. *)
Lists(places, set) ==
    /\ \A j, k \in DOMAIN places : j < k => places[j] < places[k]
    /\ \A i \in set : \E k \in DOMAIN places : places[k] = i

(* The places of one unit in a part of the text, in order. *)
PlacesOf(unit, from, to) ==
    LET set == {i \in from .. to : text[i] = unit}
    IN  CHOOSE places \in [1 .. Cardinality(set) -> set] : Lists(places, set)

(* The arguments of the line in some cells: what stands between spaces.    *)
Arguments(from, to) ==
    LET cuts == <<from - 1>> \o PlacesOf("space", from, to) \o <<to + 1>>
    IN  [k \in 1 .. Len(cuts) - 1 |->
            [n \in 1 .. cuts[k + 1] - cuts[k] - 1 |-> text[cuts[k] + n]]]

(* The cells of a text that count: those in front of its first terminator; *)
(* one in the very first cell of a script only empties the first line.     *)
Counted ==
    LET nul == {i \in Cell : text[i] = "nul" /\ (script => i > 0)}
    IN  IF nul = {} THEN MaxSize + Behind - 1 ELSE Min(nul) - 1

(* The lines of the text: what a newline ends, the rest is none. *)
Lines ==
    IF ~script THEN <<Arguments(0, Counted)>>
    ELSE LET ends == PlacesOf("newline", 1, Counted)
         IN  [k \in DOMAIN ends |->
                 IF k = 1 /\ text[0] = "nul" THEN <<<<>>>>
                 ELSE Arguments(IF k = 1 THEN 0 ELSE ends[k - 1] + 1, ends[k] - 1)]

(* The commands that are run are the lines of the text with the arguments  *)
(* between their spaces, one after the other and up to exit: no terminator *)
(* that a command stores into its line is taken for the end of the script. *)
RunsTheLines ==
    /\ IsPrefix(ran, Lines)
    /\ \A k \in 1 .. Len(ran) - 1 : ran[k][1] # Exit
    /\ pc = "done" => \/ Len(ran) = Len(Lines)
                      \/ ran # <<>> /\ Last(ran)[1] = Exit

(* The scan leaves the block of a script only if the script has no         *)
(* terminator behind its first unit.                                       *)
ScanStaysInBlock ==
    (script /\ end >= size) => \A i \in 1 .. size - 1 : text[i] # "nul"

(* argv is left by a line of a script with as many units as it has places; *)
(* the line of the prompt comes to no end only when every cell of its      *)
(* buffer is a space, which leaves argv too.                               *)
ArgvIsLeftByFullLines ==
    pc = "fault" => IF script THEN Len(argv) > MaxArgs => end - start >= MaxArgs
                    ELSE \A i \in 0 .. MaxArgs - 1 : text[i] = "space"

(* Every text comes to its end, or runs into memory that is not there.     *)
TextEnds == <>(pc \in {"done", "fault"})
===========================================================================
