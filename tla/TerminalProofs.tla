-------------------------- MODULE TerminalProofs --------------------------
(***************************************************************************)
(* Proofs about Terminal, for any number of handles, blocks, script lines  *)
(* and nested scripts: who owns what, and that what is lost stays lost.    *)
(***************************************************************************)
EXTENDS Terminal, SequenceTheorems, TLAPS

(* Ownership is inductive with the types; running is needed beside it for  *)
(* the run command alone, which must not start a frame after exit.         *)
IInv == TypeOK /\ Ownership /\ ScriptsKeepTerminalRunning

USE TerminalAssumption

(* The frames a step leaves alone, but for their lines and running.        *)
FramesKept ==
    /\ stack' \in Seq(Frame)
    /\ Len(stack') = Level
    /\ \A i \in 1 .. Level : /\ stack'[i].file = stack[i].file
                             /\ stack'[i].buffer = stack[i].buffer

(* Taking a line from the innermost script keeps every frame's file and    *)
(* buffer.                                                                 *)
LEMMA TakenKeepsFrames ==
    ASSUME TypeOK, AtCommand
    PROVE  /\ Taken \in Seq(Frame)
           /\ Len(Taken) = Level
           /\ \A i \in 1 .. Level : /\ Taken[i].file = stack[i].file
                                    /\ Taken[i].buffer = stack[i].buffer
<1>1. CASE Level = 0
    BY <1>1 DEF Taken, TypeOK, Level
<1>2. CASE Level # 0
    <2>1. Level \in 1 .. Len(stack) /\ Top \in Frame
        BY <1>2 DEF TypeOK, Level, Top
    <2>2. Top.lines > 0
        BY <1>2 DEF AtCommand
    <2>3. [Top EXCEPT !.lines = @ - 1] \in Frame
        BY <2>1, <2>2 DEF Frame
    <2>4. Taken = [stack EXCEPT ![Level] = [Top EXCEPT !.lines = @ - 1]]
        BY <1>2 DEF Taken, Top
    <2>5. [Top EXCEPT !.lines = @ - 1].file = Top.file
          /\ [Top EXCEPT !.lines = @ - 1].buffer = Top.buffer
        BY <2>1 DEF Frame
    <2> QED
        BY <2>1, <2>3, <2>4, <2>5 DEF TypeOK, Level, Top
<1> QED
    BY <1>1, <1>2

(* A step that keeps the frames and the directory, and closes and frees    *)
(* nothing, keeps every owner's property.                                  *)
LEMMA QuietStep ==
    ASSUME IInv, FramesKept, dir' = dir, open \subseteq open',
           heap \subseteq heap', running' = running \/ Level = 0
    PROVE  Ownership' /\ ScriptsKeepTerminalRunning'
<1>1. /\ Level' = Level
      /\ Level \in Nat
      /\ \A i \in 1 .. Level : /\ stack'[i].file = stack[i].file
                               /\ stack'[i].buffer = stack[i].buffer
    BY DEF FramesKept, Level, IInv, TypeOK
<1>2. DirIsOpen'
    BY DEF DirIsOpen, IInv, Ownership
<1>3. ScriptsKeepTheirText'
    BY <1>1 DEF ScriptsKeepTheirText, IInv, Ownership
<1>4. ScriptsKeepTheirFile'
    BY <1>1 DEF ScriptsKeepTheirFile, IInv, Ownership
<1>5. ScriptsKeepTerminalRunning'
    <2>1. Level' > 0 => Level > 0
        BY <1>1
    <2>2. Level > 0 => running' = running
        OBVIOUS
    <2> QED
        BY <2>1, <2>2, Zenon DEF ScriptsKeepTerminalRunning, IInv
<1> QED
    BY <1>2, <1>3, <1>4, <1>5 DEF Ownership

(* A step of a command that only opens handles and allocates blocks.       *)
LEMMA CommandKeepsIInv ==
    ASSUME IInv, AtCommand, stack' = Taken, TypeOK',
           UNCHANGED <<running, dir>>, open \subseteq open', heap \subseteq heap'
    PROVE  IInv'
<1>1. FramesKept
    BY TakenKeepsFrames DEF IInv, FramesKept
<1> QED
    BY <1>1, QuietStep DEF IInv

(* exit changes the running of one frame at most.                          *)
LEMMA ExitKeepsFrames ==
    ASSUME IInv, Exit
    PROVE  FramesKept
<1>1. CASE Level = 0
    BY <1>1 DEF Exit, IInv, TypeOK, FramesKept, Level
<1>2. CASE Level # 0
    <2>1. /\ Taken \in Seq(Frame)
          /\ Len(Taken) = Level
          /\ \A i \in 1 .. Level : /\ Taken[i].file = stack[i].file
                                   /\ Taken[i].buffer = stack[i].buffer
        BY TakenKeepsFrames DEF Exit, IInv
    <2>2. Level \in 1 .. Len(Taken) /\ Taken[Level] \in Frame
        BY <1>2, <2>1 DEF IInv, TypeOK, Level
    <2>3. /\ [Taken[Level] EXCEPT !.running = FALSE] \in Frame
          /\ [Taken[Level] EXCEPT !.running = FALSE].file = Taken[Level].file
          /\ [Taken[Level] EXCEPT !.running = FALSE].buffer = Taken[Level].buffer
        BY <2>2 DEF Frame
    <2>4. stack' = [Taken EXCEPT ![Level] = [Taken[Level] EXCEPT !.running = FALSE]]
        BY <1>2 DEF Exit
    <2> QED
        BY <2>1, <2>2, <2>3, <2>4 DEF FramesKept
<1> QED
    BY <1>1, <1>2

LEMMA ExitKeepsIInv ==
    ASSUME IInv, Exit
    PROVE  IInv'
<1>1. FramesKept
    BY ExitKeepsFrames
<1>2. TypeOK'
    BY <1>1 DEF Exit, IInv, TypeOK, FramesKept
<1> QED
    BY <1>1, <1>2, QuietStep DEF Exit, IInv

LEMMA CdKeepsIInv ==
    ASSUME IInv, NEW newdir \in Handles, Cd(newdir)
    PROVE  IInv'
<1> USE DEF IInv, Ownership
<1>1. FramesKept
    BY TakenKeepsFrames DEF Cd, FileCommand, FramesKept
<1>2. PICK closed \in {{}, {dir}} : open' = (open \cup {newdir}) \ closed
    BY DEF Cd
<1>3. newdir \notin open /\ newdir # dir
    BY DEF Cd, FileCommand, DirIsOpen
<1>4. TypeOK'
    BY <1>1, <1>2 DEF Cd, TypeOK, FramesKept
<1>5. DirIsOpen'
    BY <1>2, <1>3 DEF Cd, DirIsOpen
<1>6. ScriptsKeepTheirText'
    BY <1>1 DEF Cd, ScriptsKeepTheirText, FramesKept, Level, TypeOK
<1>7. ScriptsKeepTheirFile'
    BY <1>1, <1>2, <1>3 DEF Cd, ScriptsKeepTheirFile, FramesKept, Level, TypeOK
<1>8. ScriptsKeepTerminalRunning'
    BY <1>1 DEF Cd, ScriptsKeepTerminalRunning, FramesKept, Level
<1> QED
    BY <1>4, <1>5, <1>6, <1>7, <1>8

(* run() puts one frame on top of those there are.                         *)
LEMMA RunPushesFrame ==
    ASSUME IInv, NEW file \in Handles, NEW buffer \in Blocks,
           NEW lines \in 0 .. MaxLines, Run(file, buffer, lines)
    PROVE  /\ Level \in Nat
           /\ stack' \in Seq(Frame)
           /\ Len(stack') = Level + 1
           /\ stack'[Level + 1].file = file
           /\ stack'[Level + 1].buffer = buffer
           /\ \A i \in 1 .. Level : /\ stack'[i].file = stack[i].file
                                    /\ stack'[i].buffer = stack[i].buffer
<1> DEFINE frame == [file |-> file, buffer |-> buffer,
                     lines |-> lines, running |-> TRUE]
<1>1. /\ Taken \in Seq(Frame)
      /\ Len(Taken) = Level
      /\ \A i \in 1 .. Level : /\ Taken[i].file = stack[i].file
                               /\ Taken[i].buffer = stack[i].buffer
    BY TakenKeepsFrames DEF Run, FileCommand, IInv
<1>2. frame \in Frame /\ frame.file = file /\ frame.buffer = buffer
    BY DEF Frame
<1> HIDE DEF frame
<1>3. stack' = Append(Taken, frame)
    BY DEF Run, frame
<1>4. Level \in Nat
    BY DEF Level, IInv, TypeOK
<1> QED
    BY <1>1, <1>2, <1>3, <1>4

(* The new frame's file and buffer were not open and not allocated, those  *)
(* of the frames below it were.                                            *)
LEMMA RunKeepsIInv ==
    ASSUME IInv, NEW file \in Handles, NEW buffer \in Blocks,
           NEW lines \in 0 .. MaxLines, Run(file, buffer, lines)
    PROVE  IInv'
<1>1. Level \in Nat
    BY RunPushesFrame
<1>2. /\ stack' \in Seq(Frame)
      /\ Len(stack') = Level + 1
      /\ stack'[Level + 1].file = file
      /\ stack'[Level + 1].buffer = buffer
      /\ \A i \in 1 .. Level : /\ stack'[i].file = stack[i].file
                               /\ stack'[i].buffer = stack[i].buffer
    BY RunPushesFrame
<1>3. TypeOK'
    BY <1>2 DEF Run, IInv, TypeOK
<1>4. DirIsOpen'
    BY DEF Run, IInv, Ownership, DirIsOpen
<1>5. ScriptsKeepTheirText'
    BY <1>1, <1>2 DEF Run, IInv, Ownership, ScriptsKeepTheirText, Level
<1>6. ScriptsKeepTheirFile'
    BY <1>1, <1>2
       DEF Run, FileCommand, IInv, Ownership, DirIsOpen, ScriptsKeepTheirFile, Level
<1>7. ScriptsKeepTerminalRunning'
    BY <1>1 DEF Run, FileCommand, AtCommand, IInv, ScriptsKeepTerminalRunning
<1> QED
    BY <1>3, <1>4, <1>5, <1>6, <1>7 DEF IInv, Ownership

(* What is left of a nonempty sequence without its last element.           *)
LEMMA WithoutLast ==
    ASSUME NEW S, NEW s \in Seq(S), Len(s) > 0
    PROVE  /\ SubSeq(s, 1, Len(s) - 1) \in Seq(S)
           /\ Len(SubSeq(s, 1, Len(s) - 1)) = Len(s) - 1
           /\ \A i \in 1 .. Len(s) - 1 : SubSeq(s, 1, Len(s) - 1)[i] = s[i]
<1> DEFINE n == Len(s) - 1
           t == SubSeq(s, 1, n)
<1>1. n \in Nat /\ \A i \in 1 .. n : s[i] \in S
    OBVIOUS
<1> HIDE DEF n
<1>2. /\ t \in Seq(S)
      /\ Len(t) = IF 1 <= n THEN n - 1 + 1 ELSE 0
      /\ \A i \in 1 .. n - 1 + 1 : t[i] = s[1 + i - 1]
    BY <1>1, SubSeqProperties
<1> HIDE DEF t
<1>3. Len(t) = n /\ \A i \in 1 .. n : t[i] = s[i]
    BY <1>1, <1>2
<1> QED
    BY <1>2, <1>3 DEF n, t

(* The buffer that is freed belongs to no frame that is left.              *)
LEMMA ScriptEndsKeepsIInv == IInv /\ ScriptEnds => IInv'
<1> SUFFICES ASSUME IInv, ScriptEnds
             PROVE  IInv'
    OBVIOUS
<1>1. Level \in Nat \ {0}
    BY DEF ScriptEnds, Level, IInv, TypeOK
<1>2. /\ stack' \in Seq(Frame)
      /\ Len(stack') = Level - 1
      /\ \A i \in 1 .. Level - 1 : stack'[i] = stack[i]
    <2>1. stack \in Seq(Frame) /\ stack' = SubSeq(stack, 1, Len(stack) - 1)
        BY DEF ScriptEnds, IInv, TypeOK, Level
    <2>2. Len(stack) > 0
        BY <1>1 DEF Level
    <2> QED
        BY <2>1, <2>2, WithoutLast DEF Level
<1>3. TypeOK' /\ DirIsOpen' /\ ScriptsKeepTerminalRunning'
    BY <1>1, <1>2 DEF ScriptEnds, IInv, TypeOK, Ownership, DirIsOpen,
                      ScriptsKeepTerminalRunning
<1>4. ScriptsKeepTheirText'
    BY <1>1, <1>2
       DEF ScriptEnds, IInv, Ownership, ScriptsKeepTheirText, Level, Top
<1>5. ScriptsKeepTheirFile'
    BY <1>1, <1>2 DEF ScriptEnds, IInv, Ownership, ScriptsKeepTheirFile, Level
<1> QED
    BY <1>3, <1>4, <1>5 DEF IInv, Ownership

LEMMA NextIInv == IInv /\ [Next]_vars => IInv'
<1> SUFFICES ASSUME IInv, [Next]_vars
             PROVE  IInv'
    OBVIOUS
<1>1. ASSUME AtCommand
      PROVE  Taken \in Seq(Frame)
    BY <1>1, TakenKeepsFrames DEF IInv
<1>2. ASSUME NoDirectory \/ CatNoDirectory \/ CatFile \/ CatEnds \/ Key \/ UNCHANGED vars
      PROVE  IInv'
    <2>1. TypeOK' /\ FramesKept
        BY <1>2 DEF NoDirectory, CatNoDirectory, CatFile, CatEnds, Key, BsodKey,
                    TestPointerKey, vars,
                    IInv, TypeOK, FramesKept, Level
    <2>2. /\ dir' = dir
          /\ running' = running
          /\ open \subseteq open'
          /\ heap \subseteq heap'
        BY <1>2 DEF NoDirectory, CatNoDirectory, CatFile, CatEnds, Key, BsodKey,
                    TestPointerKey, vars
    <2> QED
        BY <2>1, <2>2, QuietStep DEF IInv
<1>3. CASE OpenFails
    BY <1>1, <1>3, CommandKeepsIInv DEF OpenFails, FileCommand, IInv, TypeOK
<1>4. ASSUME NEW h \in Handles, Ls(h) \/ Ri(h)
      PROVE  IInv'
    <2>1. AtCommand /\ stack' = Taken /\ TypeOK'
        BY <1>1, <1>4 DEF Ls, Ri, FileCommand, IInv, TypeOK
    <2> QED
        BY <1>4, <2>1, CommandKeepsIInv DEF Ls, Ri
<1>5. ASSUME NEW h \in Handles, RunFails(h)
      PROVE  IInv'
    <2>1. AtCommand /\ stack' = Taken /\ TypeOK'
        BY <1>1, <1>5 DEF RunFails, FileCommand, IInv, TypeOK
    <2> QED
        BY <1>5, <2>1, CommandKeepsIInv DEF RunFails
<1>6. ASSUME NEW h \in Handles, Nes(h) \/ FontOrCon(h)
      PROVE  IInv'
    <2>1. AtCommand /\ stack' = Taken /\ TypeOK'
        BY <1>1, <1>6 DEF Nes, FontOrCon, FileCommand, IInv, TypeOK
    <2> QED
        BY <1>6, <2>1, CommandKeepsIInv DEF Nes, FontOrCon
<1>7. ASSUME NEW n \in 0 .. MaxArgs, Cat(n)
      PROVE  IInv'
    <2>1. AtCommand /\ stack' = Taken /\ TypeOK'
        BY <1>1, <1>7 DEF Cat, IInv, TypeOK
    <2> QED
        BY <1>7, <2>1, CommandKeepsIInv DEF Cat
<1>8. CASE Ring \/ TestPointer \/ Bsod \/ Reset \/ Other
    <2>1. AtCommand /\ stack' = Taken /\ TypeOK'
        BY <1>1, <1>8 DEF Ring, TestPointer, Bsod, Reset, Other, IInv, TypeOK
    <2>2. UNCHANGED <<running, dir>> /\ open \subseteq open' /\ heap \subseteq heap'
        BY <1>8 DEF Ring, TestPointer, Bsod, Reset, Other
    <2> QED
        BY <2>1, <2>2, CommandKeepsIInv
<1> QED
    BY <1>2, <1>3, <1>4, <1>5, <1>6, <1>7, <1>8, ExitKeepsIInv, CdKeepsIInv,
       RunKeepsIInv, ScriptEndsKeepsIInv DEF Next, FileStep

LEMMA InitIInv == Init => IInv
BY DEF Init, IInv, TypeOK, Ownership, DirIsOpen, ScriptsKeepTheirText,
       ScriptsKeepTheirFile, ScriptsKeepTerminalRunning, Level

(* At every moment of every nest of scripts (src/term.c) the directory is  *)
(* open, each script's text is allocated and its own, its file is open and *)
(* its own, and term() has not been told to stop.                          *)
THEOREM OwnershipInvariant ==
    Spec => []TerminalInv
BY InitIInv, NextIInv, PTL DEF Spec, IInv, TerminalInv

---------------------------------------------------------------------------
(* A handle that is open and is none of the program's stays so: cd closes  *)
(* only the directory, and what becomes the directory or a script's file   *)
(* was not open before.                                                    *)
LEMMA LostStaysLost ==
    ASSUME IInv, IInv', [Next]_vars
    PROVE  LostHandles \subseteq LostHandles'
<1> SUFFICES ASSUME NEW h \in LostHandles
             PROVE  h \in open' /\ h # dir' /\ \A i \in 1 .. Level' : stack'[i].file # h
    BY DEF LostHandles
<1>1. h \in open /\ h # dir /\ \A i \in 1 .. Level : stack[i].file # h
    BY DEF LostHandles
<1>2. CASE ScriptEnds
    <2>1. Level \in Nat \ {0} /\ stack \in Seq(Frame)
        BY <1>2 DEF ScriptEnds, Level, IInv, TypeOK
    <2>2. Level' = Level - 1 /\ \A i \in 1 .. Level - 1 : stack'[i] = stack[i]
        BY <1>2, <2>1, WithoutLast DEF ScriptEnds, Level
    <2> QED
        BY <1>1, <1>2, <2>1, <2>2 DEF ScriptEnds
<1>3. ASSUME NEW f \in Handles, NEW b \in Blocks, NEW n \in 0 .. MaxLines,
             Run(f, b, n)
      PROVE  h \in open' /\ h # dir' /\ \A i \in 1 .. Level' : stack'[i].file # h
    <2>1. f # h /\ h \in open' /\ h # dir'
        BY <1>1, <1>3 DEF Run
    <2>2. Level \in Nat /\ Level' = Level + 1
        BY <1>3, RunPushesFrame DEF Level
    <2>3. stack'[Level + 1].file = f
          /\ \A i \in 1 .. Level : stack'[i].file = stack[i].file
        BY <1>3, RunPushesFrame
    <2> QED
        BY <1>1, <2>1, <2>2, <2>3
<1>4. ASSUME FramesKept, h \in open', h # dir'
      PROVE  h \in open' /\ h # dir' /\ \A i \in 1 .. Level' : stack'[i].file # h
    BY <1>1, <1>4 DEF FramesKept, Level
<1>5. ASSUME AtCommand, stack' = Taken
      PROVE  FramesKept
    BY <1>5, TakenKeepsFrames DEF FramesKept, IInv
<1>6. ASSUME NEW d \in Handles, Cd(d)
      PROVE  FramesKept /\ h \in open' /\ h # dir'
    <2>1. d # h /\ h # dir
        BY <1>1, <1>6 DEF Cd
    <2> QED
        BY <1>1, <1>5, <1>6, <2>1 DEF Cd, FileCommand
<1>7. ASSUME NEW d \in Handles,
             Ls(d) \/ RunFails(d) \/ Nes(d) \/ FontOrCon(d) \/ Ri(d)
      PROVE  FramesKept /\ h \in open' /\ h # dir'
    BY <1>1, <1>5, <1>7 DEF Ls, RunFails, Nes, FontOrCon, Ri, FileCommand
<1>8. ASSUME NEW n \in 0 .. MaxArgs, Cat(n)
      PROVE  FramesKept /\ h \in open' /\ h # dir'
    BY <1>1, <1>5, <1>8 DEF Cat
<1>9. CASE OpenFails \/ Ring \/ TestPointer \/ Bsod \/ Reset \/ Other
    <2>1. FramesKept /\ h \in open' /\ h # dir'
        BY <1>1, <1>5, <1>9
           DEF OpenFails, FileCommand, Ring, TestPointer, Bsod, Reset, Other
    <2> QED
        BY <1>4, <2>1
<1>10. CASE Exit
    <2>1. FramesKept
        BY <1>10, ExitKeepsFrames
    <2> QED
        BY <1>1, <1>4, <1>10, <2>1 DEF Exit
<1>11. CASE NoDirectory \/ CatNoDirectory \/ CatFile \/ CatEnds \/ Key \/ UNCHANGED vars
    BY <1>1, <1>11 DEF NoDirectory, CatNoDirectory, CatFile, CatEnds, Key, BsodKey,
                    TestPointerKey, vars, Level
<1> QED
    BY <1>2, <1>3, <1>4, <1>6, <1>7, <1>8, <1>9, <1>10, <1>11 DEF Next, FileStep

(* No handle that src/term.c has lost is ever closed: ls, run, font, con,  *)
(* ri and a cat that fails use up the firmware's handles for good.         *)
THEOREM LostForEver == Spec => LeaksAreForever
<1>1. IInv /\ IInv' /\ [Next]_vars => [LostHandles \subseteq LostHandles']_vars
    BY LostStaysLost
<1>2. Spec => []IInv
    BY InitIInv, NextIInv, PTL DEF Spec
<1> QED
    BY <1>1, <1>2, PTL DEF Spec, LeaksAreForever
===========================================================================
