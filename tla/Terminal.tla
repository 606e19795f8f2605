----------------------------- MODULE Terminal -----------------------------
(***************************************************************************)
(* The command interpreter of src/term.c: term(), command() and run(),     *)
(* which call each other.  A script is a frame of run() on the stack of    *)
(* term(); the commands in it are those of the prompt, "run" included, so  *)
(* frames pile up, and all of them share the one directory of term().      *)
(*                                                                         *)
(* The firmware decides which file, pool and device calls succeed, and     *)
(* what a script contains: the number of its lines is chosen when it is    *)
(* loaded and each command when its line is reached.  A handle is what     *)
(* open() returns and close() releases, a block what one malloc'ed object  *)
(* takes.  Commands that only print or set a mode are one action, Other.   *)
(* The user is waited for at the prompt and by the blue screen.            *)
(***************************************************************************)
EXTENDS Naturals, Sequences

CONSTANTS Handles,   \* file handles the firmware can give out
          Blocks,    \* objects the pool has room for
          Null,      \* the null pointer
          MaxLines,  \* bound on the lines of a script
          MaxArgs    \* bound on the arguments of "cat", 255 in the code

ASSUME TerminalAssumption ==
    /\ Null \notin Handles \cup Blocks
    /\ MaxLines \in Nat
    /\ MaxArgs \in Nat

VARIABLES pc,       \* "ready" for the next command, "cat" in its loop, "bsod"
                    \* and "testpointer" while the blue screen of these two
                    \* waits for a key, "hung" in a loop without end, "fault"
                    \* after a null pointer was followed or memory was
                    \* overrun, "off" after a reset
          running,  \* the variable of term()
          stack,    \* the frames of run(), the innermost one last
          dir,      \* the current directory of term()
          open,     \* handles opened and not closed
          heap,     \* blocks allocated and not freed
          args      \* arguments the loop of "cat" has left

vars == <<pc, running, stack, dir, open, heap, args>>

Frame == [file: Handles, buffer: Blocks, lines: 0 .. MaxLines, running: BOOLEAN]

Level == Len(stack)
Top   == stack[Level]

(* openVolume may fail: term() says so and goes on with a null directory.  *)
Init ==
    /\ pc = "ready"
    /\ running = TRUE
    /\ stack = <<>>
    /\ dir \in Handles \cup {Null}
    /\ open = {dir} \ {Null}
    /\ heap = {}
    /\ args = 0

(* The innermost loop has a command to run: term() has read a line, or the *)
(* loop of run() has found the next end of line.                           *)
AtCommand ==
    /\ pc = "ready"
    /\ IF Level = 0 THEN running ELSE Top.running /\ Top.lines > 0

(* The stack after that command was taken from it. *)
Taken ==
    IF Level = 0 THEN stack ELSE [stack EXCEPT ![Level].lines = @ - 1]

(* Every file command follows *dir before anything else. *)
FileCommand ==
    /\ AtCommand
    /\ dir # Null

NoDirectory ==
    /\ AtCommand
    /\ dir = Null
    /\ pc' = "fault"
    /\ UNCHANGED <<running, stack, dir, open, heap, args>>

(* open() fails: the command prints a message or, ls, nothing. *)
OpenFails ==
    /\ FileCommand
    /\ stack' = Taken
    /\ UNCHANGED <<pc, running, dir, open, heap, args>>

(* Only the running of the innermost loop is reached by exit. *)
Exit ==
    /\ AtCommand
    /\ IF Level = 0
       THEN running' = FALSE /\ UNCHANGED stack
       ELSE stack' = [Taken EXCEPT ![Level].running = FALSE] /\ UNCHANGED running
    /\ UNCHANGED <<pc, dir, open, heap, args>>

(* Mutant of Cd: *dir keeps the handle that was closed. *)
CdKeepsOld(newdir) ==
    /\ FileCommand
    /\ newdir \in Handles \ open
    /\ \E closed \in {{}, {dir}} : open' = (open \cup {newdir}) \ closed
    /\ stack' = Taken
    /\ UNCHANGED <<pc, running, dir, heap, args>>

(* The new directory is opened relative to the old one, which is closed    *)
(* next; dir moves on whether or not close() succeeds.                     *)
Cd(newdir) ==
    /\ FileCommand
    /\ newdir \in Handles \ open
    /\ \E closed \in {{}, {dir}} : open' = (open \cup {newdir}) \ closed
    /\ dir' = newdir
    /\ stack' = Taken
    /\ UNCHANGED <<pc, running, heap, args>>

(* The handle is never closed, and a read() that keeps failing keeps the   *)
(* loop going: it ends on size = 0, whatever the status.                   *)
Ls(directory) ==
    /\ FileCommand
    /\ directory \in Handles \ open
    /\ open' = open \cup {directory}
    /\ pc' \in {"ready", "hung"}
    /\ stack' = Taken
    /\ UNCHANGED <<running, dir, heap, args>>

(* run(): getInfo() or malloc() fails, or read() does and the buffer is    *)
(* lost too; the file is not closed.                                       *)
RunFails(file) ==
    /\ FileCommand
    /\ file \in Handles \ open
    /\ open' = open \cup {file}
    /\ \/ UNCHANGED heap
       \/ \E buffer \in Blocks \ heap : heap' = heap \cup {buffer}
    /\ stack' = Taken
    /\ UNCHANGED <<pc, running, dir, args>>

Run(file, buffer, lines) ==
    /\ FileCommand
    /\ file \in Handles \ open
    /\ buffer \in Blocks \ heap
    /\ open' = open \cup {file}
    /\ heap' = heap \cup {buffer}
    /\ stack' = Append(Taken, [file |-> file, buffer |-> buffer,
                               lines |-> lines, running |-> TRUE])
    /\ UNCHANGED <<pc, running, dir, args>>

(* Mutant of ScriptEnds: only exit ends a script. *)
ScriptEndsOnExit ==
    /\ pc = "ready"
    /\ Level > 0
    /\ ~Top.running
    /\ heap' = heap \ {Top.buffer}
    /\ stack' = SubSeq(stack, 1, Level - 1)
    /\ UNCHANGED <<pc, running, dir, open, args>>

(* The loop of run() ends on the terminator or on running: the buffer is   *)
(* freed, the file stays open.                                             *)
ScriptEnds ==
    /\ pc = "ready"
    /\ Level > 0
    /\ ~Top.running \/ Top.lines = 0
    /\ heap' = heap \ {Top.buffer}
    /\ stack' = SubSeq(stack, 1, Level - 1)
    /\ UNCHANGED <<pc, running, dir, open, args>>

(* The emulator gets the file, and it is closed when the emulator returns; *)
(* an image with PlayChoice-10 data may cost it its stack (NesRom).        *)
Nes(file) ==
    /\ FileCommand
    /\ file \in Handles \ open
    /\ \E lost \in SUBSET (Blocks \ heap) : heap' = heap \cup lost
    /\ \/ UNCHANGED <<pc, open>>
       \/ pc' = "fault" /\ open' = open \cup {file}
    /\ stack' = Taken
    /\ UNCHANGED <<running, dir, args>>

(* font and con: neither the file nor what was built from it is released;  *)
(* a short file keeps loadfont() in its loop, a failed renderfont() is     *)
(* followed.                                                               *)
FontOrCon(file) ==
    /\ FileCommand
    /\ file \in Handles \ open
    /\ open' = open \cup {file}
    /\ \E lost \in SUBSET (Blocks \ heap) : heap' = heap \cup lost
    /\ pc' \in {"ready", "hung", "fault"}
    /\ stack' = Taken
    /\ UNCHANGED <<running, dir, args>>

(* ri: the image is freed at the end, also when load_image() returned NULL *)
(* (and lost the pixels, if it was their read() that failed) or            *)
(* resize_image() did; resizing overruns the one pixel that                *)
(* allocate_image() makes room for.  The file is not closed.               *)
Ri(file) ==
    /\ FileCommand
    /\ file \in Handles \ open
    /\ open' = open \cup {file}
    /\ \/ pc' = "ready" /\ UNCHANGED heap
       \/ pc' = "fault" /\ \E lost \in SUBSET (Blocks \ heap) : heap' = heap \cup lost
    /\ stack' = Taken
    /\ UNCHANGED <<running, dir, args>>

(* cat with n arguments. *)
Cat(n) ==
    /\ AtCommand
    /\ pc' = "cat"
    /\ args' = n
    /\ stack' = Taken
    /\ UNCHANGED <<running, dir, open, heap>>

(* Mutant of CatFile: the file is also closed when open() failed and left  *)
(* the pointer with whatever the stack held.                               *)
CatFileClosesStale ==
    /\ pc = "cat"
    /\ args > 0
    /\ dir # Null
    /\ \E file \in open \ {dir} : open' = open \ {file}
    /\ args' = args - 1
    /\ UNCHANGED <<pc, running, stack, dir, heap>>

(* One round: open() fails; or read() fails, and the file is left open; or *)
(* the file is printed and closed.  The buffer is freed in either case.    *)
(* It is used without a look at the result of malloc(), and the size of    *)
(* the file may have more digits than num[4] has places (Strings).         *)
CatFile ==
    /\ pc = "cat"
    /\ args > 0
    /\ dir # Null
    /\ \/ UNCHANGED <<pc, open>>
       \/ \E file \in Handles \ open :
             open' = open \cup {file} /\ pc' \in {"cat", "fault"}
    /\ args' = args - 1
    /\ UNCHANGED <<running, stack, dir, heap>>

CatNoDirectory ==
    /\ pc = "cat"
    /\ args > 0
    /\ dir = Null
    /\ pc' = "fault"
    /\ UNCHANGED <<running, stack, dir, open, heap, args>>

CatEnds ==
    /\ pc = "cat"
    /\ args = 0
    /\ pc' = "ready"
    /\ UNCHANGED <<running, stack, dir, open, heap, args>>

(* ring: the ring and its buffer are never freed, and a failed malloc() of *)
(* the ring is followed.                                                   *)
Ring ==
    /\ AtCommand
    /\ \/ pc' = "fault" /\ UNCHANGED heap
       \/ pc' = "ready" /\ \E lost \in SUBSET (Blocks \ heap) : heap' = heap \cup lost
    /\ stack' = Taken
    /\ UNCHANGED <<running, dir, open, args>>

(* testpointer: two images are allocated and never freed, and drawn into   *)
(* (Image); the pointer may be missing; what its reset returned is shown   *)
(* by bsod().                                                              *)
TestPointer ==
    /\ AtCommand
    /\ \E lost \in SUBSET (Blocks \ heap) : heap' = heap \cup lost
    /\ pc' \in {"testpointer", "fault"}
    /\ stack' = Taken
    /\ UNCHANGED <<running, dir, open, args>>

(* The loop behind it ends only when the pointer fails.                    *)
TestPointerKey ==
    /\ pc = "testpointer"
    /\ pc' \in {"ready", "hung", "fault"}
    /\ UNCHANGED <<running, stack, dir, open, heap, args>>

Bsod ==
    /\ AtCommand
    /\ pc' = "bsod"
    /\ stack' = Taken
    /\ UNCHANGED <<running, dir, open, heap, args>>

BsodKey ==
    /\ pc = "bsod"
    /\ pc' = "ready"
    /\ UNCHANGED <<running, stack, dir, open, heap, args>>

(* The read of a key at the end of bsod() has an answer. *)
Key == BsodKey \/ TestPointerKey

(* reset with a valid type does not return. *)
Reset ==
    /\ AtCommand
    /\ pc' = "off"
    /\ stack' = Taken
    /\ UNCHANGED <<running, dir, open, heap, args>>

(* clear, echo, time, gopinfo, gopmode, goptest, textinfo, textmode, a cd  *)
(* without an argument, a reset of no valid type, an unknown command:      *)
(* neither their output nor their status changes what is modelled here.    *)
(* They may follow a protocol that is missing (Boot), and itoa() leaves    *)
(* its array for a negative number (Strings).                              *)
Other ==
    /\ AtCommand
    /\ pc' \in {"ready", "fault"}
    /\ stack' = Taken
    /\ UNCHANGED <<running, dir, open, heap, args>>

FileStep ==
    \/ NoDirectory
    \/ OpenFails
    \/ \E h \in Handles :
         \/ Cd(h)
         \/ Ls(h)
         \/ RunFails(h)
         \/ \E b \in Blocks, n \in 0 .. MaxLines : Run(h, b, n)
         \/ Nes(h)
         \/ FontOrCon(h)
         \/ Ri(h)

Next ==
    \/ FileStep
    \/ Exit
    \/ ScriptEnds
    \/ \E n \in 0 .. MaxArgs : Cat(n)
    \/ CatFile
    \/ CatNoDirectory
    \/ CatEnds
    \/ Ring
    \/ TestPointer
    \/ Bsod
    \/ Key
    \/ Reset
    \/ Other

Spec == Init /\ [][Next]_vars

(* The program takes the next step of a script.  The user may stop typing  *)
(* at the prompt, and need not press a key.                                *)
ScriptStep == Next /\ ~Key /\ (Level > 0 \/ pc = "cat")

FairSpec == Spec /\ WF_vars(ScriptStep)

---------------------------------------------------------------------------
TypeOK ==
    /\ pc \in {"ready", "cat", "bsod", "testpointer", "hung", "fault", "off"}
    /\ running \in BOOLEAN
    /\ stack \in Seq(Frame)
    /\ dir \in Handles \cup {Null}
    /\ open \subseteq Handles
    /\ heap \subseteq Blocks
    /\ args \in 0 .. MaxArgs

(* The directory every frame uses is an open one: a script that changes it *)
(* (and so closes the one its caller started in) never leaves a caller     *)
(* with a closed handle.                                                   *)
DirIsOpen == dir # Null => dir \in open

(* The text a frame is in the middle of is allocated, and no two frames    *)
(* share it: what a nested script frees at its end is its own, and nothing *)
(* is freed twice.                                                         *)
ScriptsKeepTheirText ==
    \A i \in 1 .. Level :
        /\ stack[i].buffer \in heap
        /\ \A j \in 1 .. i - 1 : stack[i].buffer # stack[j].buffer

(* The file of a frame stays open, is not another frame's and never        *)
(* becomes the directory: no cd, in any script it calls, closes it.        *)
ScriptsKeepTheirFile ==
    \A i \in 1 .. Level :
        /\ stack[i].file \in open \ {dir}
        /\ \A j \in 1 .. i - 1 : stack[i].file # stack[j].file

Ownership == DirIsOpen /\ ScriptsKeepTheirText /\ ScriptsKeepTheirFile

(* exit in a script, however deep, never ends the terminal: while a script *)
(* runs, term() is still running.                                          *)
ScriptsKeepTerminalRunning == Level > 0 => running

(* Every script, however deep, owns what it works with, and the terminal   *)
(* of term() outlives it.                                                  *)
TerminalInv == TypeOK /\ Ownership /\ ScriptsKeepTerminalRunning

(* What no variable of the program leads to any more. *)
LostHandles == open \ ({dir} \cup {stack[i].file : i \in 1 .. Level})

(* A lost handle stays lost: nothing ever closes it.                       *)
LeaksAreForever == [][LostHandles \subseteq LostHandles']_vars

(* Scripts that run scripts, themselves included, come to an end: each     *)
(* level holds a handle and a block, and the firmware runs out of them.    *)
(* Unless a command hangs, faults or resets, or a blue screen is never     *)
(* answered, the prompt comes back.                                        *)
PromptReturns ==
    \/ <>[](pc \in {"bsod", "testpointer"})
    \/ Level > 0 ~> (Level = 0 \/ pc \in {"hung", "fault", "off"})
===========================================================================
