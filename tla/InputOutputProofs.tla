-------------------------- MODULE InputOutputProofs --------------------------
(***************************************************************************)
(* Proofs about the two halves of the text console, for all values of      *)
(* their constants.  LineInput: typing, the invariant that ties the        *)
(* pointer of input() to its counter and to the text in the buffer, and    *)
(* the refinement of LineEditor.  AnsiOutput: what output() prints is the  *)
(* text of its string, and its sequences do what they say.                 *)
(***************************************************************************)
EXTENDS LineInput, AnsiOutput, SequenceTheorems, WellFoundedInduction, TLAPS

(* EditorInv is inductive once the types are known, except that the types  *)
(* need it too: Backspace keeps string in the cells because string is      *)
(* offset, which it has checked.                                           *)
IInv == TypeOK /\ EditorInv

USE LineInputAssumption

LEMMA InitIInv == Init => IInv
BY DEF Init, IInv, TypeOK, EditorInv, Cells, Last, Unit,
       PointerIsOffset, LineHasNoNul, EnteredIsTerminated, OverrunIsSpecial

LEMMA StoreIInv ==
    ASSUME IInv, pc = "editing", NEW c \in Char \cup Special, Store(c),
           string < Last, c \in Char => offset < Length
    PROVE  IInv'
<1> USE DEF IInv, TypeOK, Store, Cells, Last, EditorInv, PointerIsOffset
<1>1. TypeOK'
    BY DEF Unit
<1>2. LineHasNoNul'
    BY DEF LineHasNoNul
<1>3. EnteredIsTerminated'
    BY DEF EnteredIsTerminated
<1>4. OverrunIsSpecial'
    BY DEF OverrunIsSpecial
<1> QED
    BY <1>1, <1>2, <1>3, <1>4

LEMMA NextIInv == IInv /\ [Next]_vars => IInv'
<1> SUFFICES ASSUME IInv, [Next]_vars
             PROVE  IInv'
    OBVIOUS
<1> USE DEF IInv, TypeOK, EditorInv, PointerIsOffset
<1>1. CASE Prompt
    BY <1>1 DEF Prompt, LineHasNoNul, EnteredIsTerminated, OverrunIsSpecial
<1>2. ASSUME NEW c \in Char, RegularKey(c)
      PROVE  IInv'
    <2>1. string < Last
        BY <1>2 DEF RegularKey, Last
    <2> QED
        BY <1>2, <2>1, StoreIInv DEF RegularKey
<1>3. ASSUME NEW c \in Special, SpecialKey(c)
      PROVE  IInv'
    BY <1>3, StoreIInv DEF SpecialKey
<1>4. CASE Backspace
    <2> USE <1>4 DEF Backspace, Cells, Last
    <2>1. TypeOK'
        BY DEF Unit
    <2>2. LineHasNoNul'
        BY DEF LineHasNoNul
    <2>3. EnteredIsTerminated' /\ OverrunIsSpecial'
        BY DEF EnteredIsTerminated, OverrunIsSpecial
    <2> QED
        BY <2>1, <2>2, <2>3
<1>5. CASE Return
    <2> USE <1>5 DEF Return, Cells, Last
    <2>1. TypeOK'
        BY DEF Unit
    <2>2. LineHasNoNul'
        BY DEF LineHasNoNul
    <2>3. EnteredIsTerminated' /\ OverrunIsSpecial'
        BY DEF EnteredIsTerminated, OverrunIsSpecial
    <2> QED
        BY <2>1, <2>2, <2>3
<1>6. CASE DeviceError
    BY <1>6 DEF DeviceError, LineHasNoNul, EnteredIsTerminated, OverrunIsSpecial
<1>7. CASE RunCommand
    <2>1. PICK n \in 0 .. Last + 1 :
            /\ command' = [i \in 1 .. n |-> mem[i - 1]]
            /\ mem' = [i \in Cells |->
                        IF i < n /\ mem[i] = Space THEN Nul ELSE mem[i]]
        BY <1>7 DEF RunCommand
    <2>2. pc' = "idle" /\ string' = 0 /\ offset' = 0
        BY <1>7 DEF RunCommand
    <2>3. mem' \in [Cells -> Unit]
        BY <2>1 DEF Unit
    <2>4. command' \in Seq(Unit)
        <3>1. \A i \in 1 .. n : i - 1 \in Cells
            BY DEF Cells, Last
        <3>2. command' \in [1 .. n -> Unit]
            BY <2>1, <3>1
        <3>3. n \in Nat
            BY DEF Last
        <3> QED
            BY <3>2, <3>3
    <2>5. 0 \in Cells
        BY DEF Cells, Last
    <2> QED
        BY <2>2, <2>3, <2>4, <2>5
           DEF LineHasNoNul, EnteredIsTerminated, OverrunIsSpecial
<1>8. CASE UNCHANGED vars
    BY <1>8 DEF vars, LineHasNoNul, EnteredIsTerminated, OverrunIsSpecial
<1> QED
    BY <1>1, <1>2, <1>3, <1>4, <1>5, <1>6, <1>7, <1>8 DEF Next

(* The pointer of input() (src/input.c) stays at its counter, the line     *)
(* before it holds no terminator, and only keys without a character are    *)
(* stored past the buffer, for every length of the buffer.                 *)
THEOREM EditorInvariant == Spec => [](TypeOK /\ EditorInv)
BY InitIInv, NextIInv, PTL DEF Spec, IInv
---------------------------------------------------------------------------
(* The line of the editor is the sequence of the first offset cells.       *)
LineIsCells ==
    /\ Line \in Seq(Unit)
    /\ Len(Line) = offset
    /\ \A i \in 1 .. offset : Line[i] = mem[i - 1]

(* The abstract line is well formed in every state of the invariant.       *)
LEMMA LineSeq == IInv => LineIsCells
<1> SUFFICES ASSUME IInv
             PROVE  LineIsCells
    OBVIOUS
<1>1. offset \in Nat /\ \A i \in 1 .. offset : i - 1 \in Cells
    BY DEF IInv, TypeOK, EditorInv, PointerIsOffset, Cells, Last
<1>2. Line \in [1 .. offset -> Unit]
    BY <1>1 DEF Line, IInv, TypeOK
<1> QED
    BY <1>1, <1>2 DEF LineIsCells, Line

(* Two lines of the same length with the same cells are the same line.     *)
LEMMA SameLine ==
    ASSUME IInv, IInv', offset' = offset,
           \A i \in 0 .. offset - 1 : mem'[i] = mem[i]
    PROVE  Line' = Line
<1>1. LineIsCells /\ LineIsCells'
    BY LineSeq, PTL
<1> QED
    BY <1>1, SeqEqual DEF LineIsCells, IInv, TypeOK

LEMMA StoreRefines ==
    ASSUME IInv, IInv', pc = "editing", NEW c \in Char \cup Special, Store(c),
           string < Last, c \in Char => offset < Length
    PROVE  Editor!Type(c)
<1>1. LineIsCells /\ LineIsCells'
    BY LineSeq, PTL
<1>2. c \in Unit
    BY DEF Unit
<1>3. /\ Append(Line, c) \in Seq(Unit)
      /\ Len(Append(Line, c)) = offset + 1
      /\ \A i \in 1 .. offset + 1 : Append(Line, c)[i] =
            IF i = offset + 1 THEN c ELSE Line[i]
    BY <1>1, <1>2, AppendProperties DEF LineIsCells, IInv, TypeOK
<1>4. offset' = offset + 1 /\ offset \in Nat
    BY DEF Store, IInv, TypeOK
<1>5. ASSUME NEW i \in 1 .. offset + 1
      PROVE  mem'[i - 1] = IF i = offset + 1 THEN c ELSE mem[i - 1]
    BY <1>4 DEF Store, IInv, TypeOK, EditorInv, PointerIsOffset, Cells, Last
<1>6. Line' = Append(Line, c)
    BY <1>1, <1>3, <1>4, <1>5, SeqEqual DEF LineIsCells
<1> QED
    BY <1>1, <1>6 DEF Store, Editor!Type, LineIsCells

LEMMA BackspaceRefines ==
    ASSUME IInv, IInv', Backspace
    PROVE  Editor!Erase
<1>1. LineIsCells /\ LineIsCells'
    BY LineSeq, PTL
<1>2. offset' = offset - 1 /\ offset \in Nat \ {0}
    BY DEF Backspace, IInv, TypeOK
<1>3. /\ SubSeq(Line, 1, offset - 1) \in Seq(Unit)
      /\ Len(SubSeq(Line, 1, offset - 1)) = offset - 1
      /\ \A i \in 1 .. offset - 1 : SubSeq(Line, 1, offset - 1)[i] = Line[i]
    BY <1>1, <1>2 DEF LineIsCells
<1>4. \A i \in 1 .. offset - 1 : mem'[i - 1] = mem[i - 1]
    BY <1>2 DEF Backspace, IInv, TypeOK, EditorInv, PointerIsOffset, Cells, Last
<1>5. Line' = SubSeq(Line, 1, offset - 1)
    BY <1>1, <1>2, <1>3, <1>4, SeqEqual DEF LineIsCells
<1>6. Line # <<>>
    BY <1>1, <1>2 DEF LineIsCells
<1> QED
    BY <1>1, <1>5, <1>6 DEF Backspace, Editor!Erase, LineIsCells

LEMMA ReturnRefines ==
    ASSUME IInv, IInv', Return
    PROVE  Editor!Leave
<1>1. Line' = Line
    BY SameLine
       DEF Return, IInv, TypeOK, EditorInv, PointerIsOffset, Cells, Last
<1> QED
    BY <1>1 DEF Return, Editor!Leave

LEMMA RunCommandRefines ==
    ASSUME IInv, IInv', RunCommand
    PROVE  Editor!RunLine
<1>1. LineIsCells /\ LineIsCells'
    BY LineSeq, PTL
<1>2. Line' = <<>>
    BY <1>1 DEF LineIsCells, RunCommand
<1>3. PICK n \in 0 .. Last + 1 :
        IsCStringLength(n) /\ command' = [i \in 1 .. n |-> mem[i - 1]]
    BY DEF RunCommand
<1>4. n \in Nat /\ offset \in Nat /\ offset \in Cells
    BY DEF IInv, TypeOK, EditorInv, PointerIsOffset, Last
<1>5. n >= offset
    BY <1>3, <1>4
       DEF IsCStringLength, IInv, EditorInv, LineHasNoNul, Cells, Last
<1>6. /\ command' \in Seq(Unit)
      /\ Len(command') = n
      /\ \A i \in 1 .. offset : command'[i] = mem[i - 1]
    BY <1>3, <1>4, <1>5 DEF IInv, TypeOK
<1>7. CASE pc = "entered"
    <2>1. n = offset
        BY <1>3, <1>4, <1>5, <1>7
           DEF IsCStringLength, IInv, EditorInv, EnteredIsTerminated,
               PointerIsOffset
    <2>2. command' = Line
        BY <1>1, <1>6, <2>1, SeqEqual DEF LineIsCells
    <2> QED
        BY <1>2, <1>7, <2>2 DEF RunCommand, Editor!RunLine
<1>8. CASE pc = "failed"
    <2>1. SubSeq(Line, 1, offset) = SubSeq(command', 1, offset)
        <3> DEFINE s == SubSeq(Line, 1, offset)
                   t == SubSeq(command', 1, offset)
        <3>1. s \in Seq(Unit) /\ Len(s) = offset
              /\ \A i \in 1 .. offset : s[i] = Line[i]
            BY <1>1, <1>4 DEF LineIsCells
        <3>2. t \in Seq(Unit) /\ Len(t) = offset
              /\ \A i \in 1 .. offset : t[i] = command'[i]
            BY <1>4, <1>5, <1>6
        <3> HIDE DEF s, t
        <3>3. \A i \in 1 .. offset : s[i] = t[i]
            BY <1>1, <1>6, <3>1, <3>2 DEF LineIsCells
        <3>4. s = t
            BY <3>1, <3>2, <3>3, SeqEqual
        <3> QED
            BY <3>4 DEF s, t
    <2>2. Editor!IsPrefix(Line, command')
        BY <1>1, <1>4, <1>5, <1>6, <2>1 DEF Editor!IsPrefix, LineIsCells
    <2> QED
        BY <1>2, <1>8, <2>2 DEF RunCommand, Editor!RunLine
<1> QED
    BY <1>7, <1>8 DEF RunCommand

(* The prompt implements the line editor: what was typed and not erased is *)
(* what is run, and after a device error the command begins with it.       *)
THEOREM PromptImplementsEditor == Spec => ImplementsLineEditor
<1>1. Init => Editor!Init
    <2> SUFFICES ASSUME Init
                 PROVE  Editor!Init
        OBVIOUS
    <2>1. LineIsCells
        BY InitIInv, LineSeq
    <2> QED
        BY <2>1 DEF Init, Editor!Init, LineIsCells
<1>2. IInv /\ IInv' /\ [Next]_vars => [Editor!Next]_<<pc, Line, command>>
    <2> SUFFICES ASSUME IInv, IInv', [Next]_vars
                 PROVE  [Editor!Next]_<<pc, Line, command>>
        OBVIOUS
    <2>1. CASE Prompt
        BY <2>1 DEF Prompt, Line, Editor!Next, Editor!Prompt
    <2>2. ASSUME NEW c \in Char, RegularKey(c)
          PROVE  Editor!Next
        <3>1. string < Last
            BY <2>2 DEF RegularKey, Last, IInv, TypeOK, EditorInv, PointerIsOffset
        <3> QED
            BY <2>2, <3>1, StoreRefines DEF RegularKey, Editor!Next
    <2>3. ASSUME NEW c \in Special, SpecialKey(c)
          PROVE  Editor!Next
        BY <2>3, StoreRefines DEF SpecialKey, Editor!Next
    <2>4. CASE Backspace
        BY <2>4, BackspaceRefines DEF Editor!Next
    <2>5. CASE Return
        BY <2>5, ReturnRefines DEF Editor!Next
    <2>6. CASE DeviceError
        BY <2>6 DEF DeviceError, Line, Editor!Next, Editor!Leave
    <2>7. CASE RunCommand
        BY <2>7, RunCommandRefines DEF Editor!Next
    <2>8. CASE UNCHANGED vars
        BY <2>8 DEF vars, Line
    <2> QED
        BY <2>1, <2>2, <2>3, <2>4, <2>5, <2>6, <2>7, <2>8 DEF Next
<1>3. Spec => []IInv
    BY InitIInv, NextIInv, PTL DEF Spec
<1> QED
    BY <1>1, <1>2, <1>3, PTL DEF Spec, ImplementsLineEditor, Editor!Spec
---------------------------------------------------------------------------
(* A prefix without spaces that a space or the end follows is the first    *)
(* word: there is no other.                                                *)
LEMMA FirstWordIs ==
    ASSUME NEW s \in Seq(Unit), NEW m \in 0 .. Len(s),
           \A i \in 1 .. m : s[i] # Space,
           m < Len(s) => s[m + 1] = Space
    PROVE  FirstWord(s) = SubSeq(s, 1, m)
<1> DEFINE Prefixes == {SubSeq(s, 1, n) : n \in 0 .. Len(s)}
           IsWord(w) == /\ \A i \in 1 .. Len(w) : w[i] # Space
                        /\ Len(w) < Len(s) => s[Len(w) + 1] = Space
<1>1. ASSUME NEW n \in 0 .. Len(s)
      PROVE  /\ Len(SubSeq(s, 1, n)) = n
             /\ \A i \in 1 .. n : SubSeq(s, 1, n)[i] = s[i]
    OBVIOUS
<1>2. SubSeq(s, 1, m) \in Prefixes /\ IsWord(SubSeq(s, 1, m))
    BY <1>1
<1>3. ASSUME NEW w \in Prefixes, IsWord(w)
      PROVE  w = SubSeq(s, 1, m)
    <2>1. PICK n \in 0 .. Len(s) : w = SubSeq(s, 1, n)
        OBVIOUS
    <2>2. Len(w) = n /\ \A i \in 1 .. n : w[i] = s[i]
        BY <1>1, <2>1
    <2>3. ~(n < m)
        <3>1. n < m => n + 1 \in 1 .. m /\ s[n + 1] = Space
            BY <1>3, <2>2
        <3> QED
            BY <3>1
    <2>4. ~(m < n)
        <3>1. m < n => m + 1 \in 1 .. n /\ s[m + 1] = Space
            OBVIOUS
        <3> QED
            BY <1>3, <2>2, <3>1
    <2> QED
        BY <2>1, <2>3, <2>4
<1> HIDE DEF Prefixes, IsWord
<1>4. (CHOOSE w \in Prefixes : IsWord(w)) = SubSeq(s, 1, m)
    BY <1>2, <1>3
<1> QED
    BY <1>4 DEF FirstWord, Prefixes, IsWord

(* What is left in the buffer is the command up to its first space.        *)
LEMMA RunCommandLeavesProgram ==
    ASSUME IInv, RunCommand
    PROVE  ProgramStaysInBuffer'
<1>1. PICK n \in 0 .. Last + 1 :
        /\ IsCStringLength(n)
        /\ command' = [i \in 1 .. n |-> mem[i - 1]]
        /\ mem' = [i \in Cells |->
                     IF i < n /\ mem[i] = Space THEN Nul ELSE mem[i]]
    BY DEF RunCommand
<1>2. /\ Last \in Nat /\ mem \in [Cells -> Unit] /\ n \in Nat
      /\ Space # Nul
    BY DEF IInv, TypeOK, Last
<1>3. /\ command' \in Seq(Unit) /\ Len(command') = n
      /\ \A i \in 1 .. n : command'[i] = mem[i - 1]
    <2>1. \A i \in 1 .. n : i - 1 \in Cells
        BY <1>2 DEF Cells
    <2>2. command' \in [1 .. n -> Unit]
        BY <1>1, <1>2, <2>1
    <2> QED
        BY <1>1, <1>2, <2>2
<1>4. ASSUME NEW m \in 0 .. Last + 1,
             \A i \in 0 .. m - 1 : mem'[i] # Nul,
             m \in Cells => mem'[m] = Nul
      PROVE  [i \in 1 .. m |-> mem'[i - 1]] = FirstWord(command')
    <2>1. m <= n
        <3>1. SUFFICES ASSUME n < m PROVE FALSE
            BY <1>2
        <3>2. n \in Cells /\ n \in 0 .. m - 1
            BY <1>2, <3>1 DEF Cells
        <3>3. mem[n] = Nul
            BY <1>1, <3>2 DEF IsCStringLength
        <3>4. mem'[n] = mem[n]
            BY <1>1, <1>2, <3>2
        <3> QED
            BY <1>4, <3>2, <3>3, <3>4
    <2>2. ASSUME NEW i \in 1 .. m
          PROVE  command'[i] # Space /\ mem'[i - 1] = command'[i]
        <3>1. i - 1 \in Cells /\ i - 1 < n /\ i \in 1 .. n /\ i - 1 \in 0 .. m - 1
            BY <1>2, <2>1 DEF Cells
        <3>2. mem'[i - 1] # Nul
            BY <1>4, <3>1
        <3>3. mem[i - 1] # Space /\ mem'[i - 1] = mem[i - 1]
            BY <1>1, <3>1, <3>2
        <3> QED
            BY <1>3, <3>1, <3>3
    <2>3. m < n => command'[m + 1] = Space
        <3> SUFFICES ASSUME m < n PROVE command'[m + 1] = Space
            OBVIOUS
        <3>1. m \in Cells /\ m \in 0 .. n - 1 /\ m + 1 \in 1 .. n
            BY <1>2 DEF Cells
        <3>2. mem[m] # Nul
            BY <1>1, <3>1 DEF IsCStringLength
        <3>3. mem'[m] = Nul
            BY <1>4, <3>1
        <3>4. mem[m] = Space
            BY <1>1, <3>1, <3>2, <3>3
        <3>5. command'[m + 1] = mem[(m + 1) - 1] /\ (m + 1) - 1 = m
            BY <1>3, <3>1
        <3> QED
            BY <3>4, <3>5
    <2>4. FirstWord(command') = SubSeq(command', 1, m)
        <3>1. m \in 0 .. Len(command') /\ command' \in Seq(Unit)
            BY <1>2, <1>3, <2>1
        <3>2. \A i \in 1 .. m : command'[i] # Space
            BY <2>2
        <3>3. m < Len(command') => command'[m + 1] = Space
            BY <1>3, <2>3
        <3> QED
            BY <3>1, <3>2, <3>3, FirstWordIs
    <2>5. SubSeq(command', 1, m) = [i \in 1 .. m |-> command'[i]]
        BY <1>3, <2>1
    <2>6. [i \in 1 .. m |-> command'[i]] = [i \in 1 .. m |-> mem'[i - 1]]
        BY <2>2
    <2> QED
        BY <2>4, <2>5, <2>6
<1> QED
    BY <1>4 DEF ProgramStaysInBuffer, IsCStringLength, FirstWord, Last

(* Between two lines the buffer of term() holds the program of the last    *)
(* command and no more, for every length of the buffer and of the line.    *)
THEOREM ProgramIsKept == Spec => []ProgramStaysInBuffer
<1>1. Init => IInv /\ ProgramStaysInBuffer
    BY InitIInv DEF Init, ProgramStaysInBuffer
<1>2. IInv /\ ProgramStaysInBuffer /\ [Next]_vars =>
          IInv' /\ ProgramStaysInBuffer'
    <2> SUFFICES ASSUME IInv, ProgramStaysInBuffer, [Next]_vars
                 PROVE  ProgramStaysInBuffer'
        BY NextIInv
    <2>1. CASE RunCommand
        BY <2>1, RunCommandLeavesProgram
    <2>2. CASE UNCHANGED vars
        <3>1. pc' = pc /\ mem' = mem /\ command' = command
            BY <2>2 DEF vars
        <3>2. SUFFICES ASSUME pc = "idle", command # <<>>,
                              NEW n \in 0 .. Last + 1, IsCStringLength(n)
                       PROVE  [i \in 1 .. n |-> mem'[i - 1]] = FirstWord(command')
            BY <3>1 DEF ProgramStaysInBuffer, IsCStringLength
        <3>3. [i \in 1 .. n |-> mem[i - 1]] = FirstWord(command)
            BY <3>2 DEF ProgramStaysInBuffer
        <3>4. FirstWord(command') = FirstWord(command)
            BY <3>1
        <3> QED
            BY <3>1, <3>3, <3>4
    <2>3. CASE pc' # "idle"
        BY <2>3 DEF ProgramStaysInBuffer
    <2>4. RunCommand \/ UNCHANGED vars \/ pc' # "idle"
        BY DEF Next, Prompt, RegularKey, SpecialKey, Store, Backspace, Return,
           DeviceError
    <2> QED
        BY <2>1, <2>2, <2>3, <2>4
<1> QED
    BY <1>1, <1>2, PTL DEF Spec

---------------------------------------------------------------------------
(* output().  It has nothing to do with the constants of LineInput.        *)
HIDE LineInputAssumption

(* Induction over the numbers, as the membership of a set. *)
LEMMA SetInduction ==
    ASSUME NEW S, 0 \in S, \A n \in Nat : n \in S => n + 1 \in S
    PROVE  Nat \subseteq S
<1> SUFFICES ASSUME NEW n \in Nat, n \notin S PROVE FALSE
  OBVIOUS
<1> DEFINE T == Nat \ S
<1>1. T \subseteq Nat /\ T # {}
  OBVIOUS
<1> HIDE DEF T
<1>2. PICK m \in T : \A k \in T : <<k, m>> \notin OpToRel(<, Nat)
  BY <1>1, WFMin, NatLessThanWellFounded
<1>3. \A k \in T : ~(k < m)
  BY <1>1, <1>2 DEF OpToRel
<1> QED
  BY <1>3 DEF T

LEMMA RangeInduction ==
    ASSUME NEW N \in Nat, NEW S, 0 \in S, \A n \in 0 .. N - 1 : n \in S => n + 1 \in S
    PROVE  0 .. N \subseteq S
<1> DEFINE T == {n \in Nat : n <= N => n \in S}
<1>1. 0 \in T
  OBVIOUS
<1>2. \A n \in Nat : n \in T => n + 1 \in T
  OBVIOUS
<1> HIDE DEF T
<1>3. Nat \subseteq T
  BY <1>1, <1>2, SetInduction
<1> QED
  BY <1>3 DEF T

(* The values that g makes of a, one after another, up to place N. *)
Recursive(f, A, a, g, N) ==
    /\ f \in [0 .. N -> A]
    /\ f[0] = a
    /\ \A n \in 1 .. N : f[n] = g[<<f[n - 1], n>>]

LEMMA RecursionExists ==
    ASSUME NEW A, NEW a, NEW g, NEW N, a \in A, g \in [A \X Nat -> A], N \in Nat
    PROVE  \E f : Recursive(f, A, a, g, N)
<1> DEFINE IsRecursive(f, k) ==
               f[0] = a /\ \A n \in 1 .. k : f[n] = g[<<f[n - 1], n>>]
           S == {k \in Nat : \E f \in [0 .. k -> A] : IsRecursive(f, k)}
<1>1. 0 \in S
  <2>1. [n \in 0 .. 0 |-> a] \in [0 .. 0 -> A]
    OBVIOUS
  <2>2. IsRecursive([n \in 0 .. 0 |-> a], 0)
    OBVIOUS
  <2> QED
    BY <2>1, <2>2
<1>2. ASSUME NEW k \in Nat, k \in S
      PROVE  k + 1 \in S
  <2>1. PICK f \in [0 .. k -> A] : IsRecursive(f, k)
    BY <1>2
  <2> DEFINE h == [n \in 0 .. k + 1 |-> IF n = k + 1 THEN g[<<f[k], k + 1>>] ELSE f[n]]
  <2>2. g[<<f[k], k + 1>>] \in A
    BY <2>1
  <2>3. h \in [0 .. k + 1 -> A]
    BY <2>1, <2>2
  <2>4. h[0] = a
    BY <2>1
  <2>5. ASSUME NEW n \in 1 .. k + 1
        PROVE  h[n] = g[<<h[n - 1], n>>]
    <3>1. CASE n = k + 1
      <4>1. n - 1 = k /\ n - 1 \in 0 .. k + 1 /\ n - 1 # k + 1
        BY <3>1
      <4>2. h[n] = g[<<f[k], k + 1>>] /\ h[n - 1] = f[k]
        BY <3>1, <4>1
      <4> HIDE DEF h
      <4> QED
        BY <3>1, <4>1, <4>2
    <3>2. CASE n \in 1 .. k
      <4>1. f[n] = g[<<f[n - 1], n>>]
        BY <2>1, <3>2
      <4>2. h[n] = f[n] /\ h[n - 1] = f[n - 1]
        BY <3>2
      <4> HIDE DEF h
      <4> QED
        BY <4>1, <4>2
    <3> QED
      BY <3>1, <3>2
  <2> HIDE DEF h
  <2> QED
    BY <2>3, <2>4, <2>5
<1>3. N \in S
  <2> HIDE DEF S
  <2> QED
    BY <1>1, <1>2, SetInduction
<1> QED
  BY <1>3 DEF Recursive

(* Division is the only way to write a number with a rest. *)
LEMMA DivisionIsUnique ==
    ASSUME NEW d \in Nat \ {0}, NEW q \in Int, NEW r \in 0 .. d - 1
    PROVE  ((d * q) + r) % d = r /\ ((d * q) + r) \div d = q
<1> DEFINE n == (d * q) + r
           k == n \div d
           m == n % d
<1>1. n \in Int /\ k \in Int /\ m \in 0 .. d - 1 /\ n = (d * k) + m
  OBVIOUS
<1> HIDE DEF k, m
<1>2. d * (k - q) = r - m
  BY <1>1
<1>3. ~(k - q >= 1)
  <2> SUFFICES ASSUME k - q >= 1 PROVE FALSE
    OBVIOUS
  <2>1. d * (k - q) >= d * 1
    BY <1>1
  <2> QED
    BY <1>1, <1>2, <2>1
<1>4. ~(q - k >= 1)
  <2> SUFFICES ASSUME q - k >= 1 PROVE FALSE
    OBVIOUS
  <2>1. d * (q - k) >= d * 1
    BY <1>1
  <2> QED
    BY <1>1, <1>2, <2>1
<1>5. k = q
  BY <1>1, <1>3, <1>4
<1>6. m = r
  BY <1>1, <1>2, <1>5
<1> QED
  BY <1>5, <1>6 DEF k, m

LEMMA DivisionOfLess ==
    ASSUME NEW d \in Nat \ {0}, NEW r \in 0 .. d - 1
    PROVE  r % d = r /\ r \div d = 0
<1>1. 0 \in Int /\ r = (d * 0) + r
  OBVIOUS
<1>2. ((d * 0) + r) % d = r /\ ((d * 0) + r) \div d = 0
  BY <1>1, DivisionIsUnique
<1> QED
  BY <1>1, <1>2

---------------------------------------------------------------------------
(* The text of a string from each of its places on. *)
Texts == [1 .. Len(given) + 2 -> Seq(STRING)]

TextAt(t, i) ==
    IF i > Len(given) THEN <<>>
    ELSE IF given[i] # "esc" THEN <<given[i]>> \o t[i + 1]
    ELSE IF Is(i + 1, "[") THEN t[After(i + 2)]
    ELSE t[i + 2]

IsText(t) == t \in Texts /\ \A i \in 1 .. Len(given) + 2 : t[i] = TextAt(t, i)

(* A set of places has a first one. *)
LEMMA FirstPlace ==
    ASSUME NEW S, S \subseteq Nat, S # {}
    PROVE  \E m \in S : \A k \in S : m <= k
<1>1. PICK m \in S : \A k \in S : <<k, m>> \notin OpToRel(<, Nat)
  BY WFMin, NatLessThanWellFounded
<1>2. ASSUME NEW k \in S
      PROVE  m <= k
  <2>1. k \in Nat /\ m \in Nat
    OBVIOUS
  <2>2. ~(k < m)
    BY <1>1, <2>1 DEF OpToRel
  <2> QED
    BY <2>1, <2>2
<1> QED
  BY <1>2

(* A sequence that begins before i ends at the first m, f or H from i on,  *)
(* or else with the string.                                                *)
LEMMA AfterIs ==
    ASSUME given \in Seq(STRING), NEW i \in 1 .. Len(given) + 1
    PROVE  /\ After(i) \in i .. Len(given) + 1
           /\ SequenceEnds(i) = {} => After(i) = Len(given) + 1
           /\ \A k \in SequenceEnds(i) :
                  (\A j \in SequenceEnds(i) : k <= j) => After(i) = k + 1
<1> DEFINE E == SequenceEnds(i)
<1>1. E \subseteq i .. Len(given) /\ Len(given) \in Nat
  BY DEF SequenceEnds
<1>2. CASE E = {}
  BY <1>1, <1>2 DEF After
<1>3. CASE E # {}
  <2> DEFINE c == CHOOSE j \in E : \A k \in E : j <= k
  <2> HIDE DEF E
  <2>1. \E j \in E : \A k \in E : j <= k
    <3>1. E \subseteq Nat
      BY <1>1
    <3> QED
      BY <1>3, <3>1, FirstPlace
  <2>2. c \in E /\ \A k \in E : c <= k
    BY <2>1
  <2>3. After(i) = 1 + c
    BY <1>3 DEF After, E
  <2> HIDE DEF c
  <2>4. c \in i .. Len(given)
    BY <1>1, <2>2
  <2>5. After(i) \in i .. Len(given) + 1
    BY <1>1, <2>3, <2>4
  <2>6. ASSUME NEW k \in E, \A j \in E : k <= j
        PROVE  After(i) = k + 1
    <3>1. k <= c /\ c <= k /\ k \in Int /\ c \in Int
      BY <1>1, <2>2, <2>6
    <3> QED
      BY <2>3, <3>1
  <2> QED
    BY <1>3, <2>5, <2>6 DEF E
<1> QED
  BY <1>2, <1>3

(* The right side of the equations only looks further on. *)
LEMMA TextAtLooksAhead ==
    ASSUME given \in Seq(STRING), NEW i \in 1 .. Len(given) + 2, NEW t, NEW u,
           \A j \in i + 1 .. Len(given) + 2 : t[j] = u[j]
    PROVE  TextAt(t, i) = TextAt(u, i)
<1>1. Len(given) \in Nat
  OBVIOUS
<1>2. CASE i > Len(given)
  BY <1>2 DEF TextAt
<1>3. CASE i <= Len(given) /\ Is(i + 1, "[")
  <2>1. i + 1 <= Len(given)
    BY <1>3 DEF Is
  <2>2. After(i + 2) \in i + 2 .. Len(given) + 1
    BY <1>1, <2>1, AfterIs
  <2>3. t[After(i + 2)] = u[After(i + 2)] /\ t[i + 1] = u[i + 1]
    BY <1>1, <2>1, <2>2
  <2> QED
    BY <1>3, <2>3 DEF TextAt
<1>4. CASE i <= Len(given) /\ ~Is(i + 1, "[")
  <2>1. t[i + 1] = u[i + 1] /\ t[i + 2] = u[i + 2]
    BY <1>1, <1>4
  <2> QED
    BY <1>4, <2>1 DEF TextAt
<1> QED
  BY <1>1, <1>2, <1>3, <1>4

LEMMA TextAtIsText ==
    ASSUME given \in Seq(STRING), NEW i \in 1 .. Len(given) + 2, NEW t,
           \A j \in i + 1 .. Len(given) + 2 : t[j] \in Seq(STRING)
    PROVE  TextAt(t, i) \in Seq(STRING)
<1>1. Len(given) \in Nat
  OBVIOUS
<1>2. CASE i > Len(given)
  BY <1>2 DEF TextAt
<1>3. CASE i <= Len(given) /\ Is(i + 1, "[")
  <2>1. i + 1 <= Len(given)
    BY <1>3 DEF Is
  <2>2. After(i + 2) \in i + 2 .. Len(given) + 1
    BY <1>1, <2>1, AfterIs
  <2>3. t[After(i + 2)] \in Seq(STRING) /\ t[i + 1] \in Seq(STRING)
    BY <1>1, <2>1, <2>2
  <2>4. given[i] \in STRING
    BY <1>1, <1>3
  <2>5. <<given[i]>> \o t[i + 1] \in Seq(STRING)
    BY <2>3, <2>4
  <2> DEFINE a == <<given[i]>> \o t[i + 1]
             b == t[After(i + 2)]
  <2>6. TextAt(t, i) = IF given[i] # "esc" THEN a ELSE b
    BY <1>1, <1>3 DEF TextAt
  <2> HIDE DEF a, b
  <2>7. a \in Seq(STRING) /\ b \in Seq(STRING)
    BY <2>3, <2>5 DEF a, b
  <2> QED
    BY <2>6, <2>7
<1>4. CASE i <= Len(given) /\ ~Is(i + 1, "[")
  <2>1. t[i + 1] \in Seq(STRING) /\ t[i + 2] \in Seq(STRING)
    BY <1>1, <1>4
  <2>2. given[i] \in STRING
    BY <1>1, <1>4
  <2>3. <<given[i]>> \o t[i + 1] \in Seq(STRING)
    BY <2>1, <2>2
  <2> DEFINE a == <<given[i]>> \o t[i + 1]
             b == t[i + 2]
  <2>4. TextAt(t, i) = IF given[i] # "esc" THEN a ELSE b
    BY <1>1, <1>4 DEF TextAt
  <2> HIDE DEF a, b
  <2>5. a \in Seq(STRING) /\ b \in Seq(STRING)
    BY <2>1, <2>3 DEF a, b
  <2> QED
    BY <2>4, <2>5
<1> QED
  BY <1>1, <1>2, <1>3, <1>4

(* Every string has a text, and Visible is it from its first place on.     *)
LEMMA VisibleIsText ==
    ASSUME given \in Seq(STRING)
    PROVE  \E t : IsText(t) /\ Visible = t[1]
<1> DEFINE n == Len(given)
           From(f, k) == /\ f \in [1 .. n + 2 -> Seq(STRING)]
                         /\ \A i \in n + 2 - k .. n + 2 : f[i] = TextAt(f, i)
           S == {k \in 0 .. n + 1 : \E f : From(f, k)}
<1>1. n \in Nat
  OBVIOUS
<1>2. 0 \in S
  <2> DEFINE f == [i \in 1 .. n + 2 |-> <<>>]
  <2>1. f \in [1 .. n + 2 -> Seq(STRING)]
    OBVIOUS
  <2>2. f[n + 2] = <<>> /\ TextAt(f, n + 2) = <<>>
    BY <1>1 DEF TextAt
  <2> HIDE DEF f, n
  <2>3. \A i \in n + 2 - 0 .. n + 2 : i = n + 2
    BY <1>1
  <2> QED
    BY <1>1, <2>1, <2>2, <2>3
<1>3. ASSUME NEW k \in 0 .. n, k \in S
      PROVE  k + 1 \in S
  <2>1. PICK f : From(f, k)
    BY <1>3
  <2> DEFINE p == n + 1 - k
             h == [i \in 1 .. n + 2 |-> IF i = p THEN TextAt(f, p) ELSE f[i]]
  <2>2. p \in 1 .. n + 1 /\ p \in 1 .. Len(given) + 2
    BY <1>1
  <2>3. TextAt(f, p) \in Seq(STRING)
    <3>1. \A j \in p + 1 .. Len(given) + 2 : f[j] \in Seq(STRING)
      BY <1>1, <2>1, <2>2
    <3> HIDE DEF p
    <3> QED
      BY <2>2, <3>1, TextAtIsText
  <2>4. h \in [1 .. n + 2 -> Seq(STRING)]
    <3> HIDE DEF n, p
    <3> QED
      BY <2>1, <2>3
  <2>5. ASSUME NEW i \in n + 2 - (k + 1) .. n + 2
        PROVE  h[i] = TextAt(h, i)
    <3>1. i \in p .. Len(given) + 2 /\ i \in 1 .. Len(given) + 2
      BY <1>1, <2>2
    <3>2. \A j \in i + 1 .. Len(given) + 2 : h[j] = f[j]
      <4> HIDE DEF p
      <4> QED
        BY <1>1, <2>2, <3>1
    <3> HIDE DEF h
    <3>3. TextAt(h, i) = TextAt(f, i)
      BY <3>1, <3>2, TextAtLooksAhead
    <3>4. CASE i = p
      <4>1. h[p] = TextAt(f, p)
        BY <2>2 DEF h
      <4> QED
        BY <3>3, <3>4, <4>1
    <3>5. CASE i # p
      <4>1. i \in n + 2 - k .. n + 2
        BY <1>1, <3>1, <3>5
      <4>2. h[i] = f[i]
        BY <3>1, <3>5 DEF h
      <4>3. f[i] = TextAt(f, i)
        BY <2>1, <4>1
      <4> QED
        BY <3>3, <4>2, <4>3
    <3> QED
      BY <3>4, <3>5
  <2> HIDE DEF h
  <2>6. From(h, k + 1)
    BY <2>4, <2>5
  <2>7. k + 1 \in 0 .. n + 1
    BY <1>1
  <2> HIDE DEF From
  <2> QED
    BY <2>6, <2>7
<1>4. 0 .. n + 1 \subseteq S
  <2> HIDE DEF S, n
  <2>1. n + 1 \in Nat /\ \A k \in 0 .. (n + 1) - 1 : k \in 0 .. n
    BY <1>1
  <2>2. \A k \in 0 .. (n + 1) - 1 : k \in S => k + 1 \in S
    BY <1>3, <2>1
  <2> QED
    BY <1>2, <2>1, <2>2, RangeInduction
<1>5. \E f : IsText(f)
  <2>1. n + 1 \in S
    <3> HIDE DEF S, n
    <3> QED
      BY <1>1, <1>4
  <2>2. PICK f : From(f, n + 1)
    BY <2>1
  <2>3. \A i \in 1 .. n + 2 : i \in n + 2 - (n + 1) .. n + 2
    BY <1>1
  <2> QED
    BY <2>2, <2>3 DEF IsText, Texts
<1> DEFINE E == [i \in 1 .. n + 2 |-> 0]
           c == CHOOSE t : t = [i \in 1 .. n + 2 |-> TextAt(t, i)]
<1>6. Visible = c[1]
  BY DEF Visible, TextAt
<1>7. \E t : t = [i \in 1 .. n + 2 |-> TextAt(t, i)]
  <2>1. PICK f : IsText(f)
    BY <1>5
  <2>2. f = [i \in 1 .. n + 2 |-> TextAt(f, i)]
    BY <2>1 DEF IsText, Texts
  <2> QED
    BY <2>2
<1>8. c = [i \in 1 .. n + 2 |-> TextAt(c, i)]
  <2> HIDE DEF n
  <2> QED
    BY <1>7
<1> HIDE DEF c
<1>9. \A i \in 1 .. n + 2 : c[i] = TextAt(c, i)
  BY <1>8
<1> DEFINE R == {k \in 0 .. n + 1 : \A i \in n + 2 - k .. n + 2 : c[i] \in Seq(STRING)}
<1>10. 0 \in R
  <2>1. c[n + 2] = <<>>
    <3>1. n + 2 \in 1 .. n + 2 /\ n + 2 > Len(given)
      BY <1>1
    <3>2. TextAt(c, n + 2) = <<>>
      BY <3>1 DEF TextAt
    <3> HIDE DEF n
    <3> QED
      BY <1>9, <3>1, <3>2
  <2> HIDE DEF n
  <2>4. c[n + 2] \in Seq(STRING)
    BY <2>1
  <2>2. \A i \in n + 2 - 0 .. n + 2 : i = n + 2
    BY <1>1
  <2> QED
    BY <1>1, <2>2, <2>4
<1>11. ASSUME NEW k \in 0 .. n, k \in R
       PROVE  k + 1 \in R
  <2> DEFINE p == n + 1 - k
  <2>1. p \in 1 .. Len(given) + 2 /\ p \in 1 .. n + 2
    BY <1>1
  <2>2. \A j \in p + 1 .. Len(given) + 2 : c[j] \in Seq(STRING)
    BY <1>1, <1>11
  <2>3. TextAt(c, p) \in Seq(STRING)
    <3> HIDE DEF p
    <3> QED
      BY <2>1, <2>2, TextAtIsText
  <2>4. c[p] \in Seq(STRING)
    <3> HIDE DEF p, n
    <3> QED
      BY <1>9, <2>1, <2>3
  <2>5. \A i \in n + 2 - (k + 1) .. n + 2 : i = p \/ i \in n + 2 - k .. n + 2
    BY <1>1
  <2>6. k + 1 \in 0 .. n + 1
    BY <1>1
  <2>7. \A i \in n + 2 - k .. n + 2 : c[i] \in Seq(STRING)
    BY <1>11
  <2> HIDE DEF p, n
  <2> QED
    BY <2>4, <2>5, <2>6, <2>7
<1>12. 0 .. n + 1 \subseteq R
  <2> HIDE DEF R, n
  <2>1. n + 1 \in Nat /\ \A k \in 0 .. (n + 1) - 1 : k \in 0 .. n
    BY <1>1
  <2>2. \A k \in 0 .. (n + 1) - 1 : k \in R => k + 1 \in R
    BY <1>11, <2>1
  <2> QED
    BY <1>10, <2>1, <2>2, RangeInduction
<1>13. \A i \in 1 .. n + 2 : c[i] \in Seq(STRING)
  <2>1. n + 1 \in R
    <3> HIDE DEF R, n
    <3> QED
      BY <1>1, <1>12
  <2>2. \A i \in 1 .. n + 2 : i \in n + 2 - (n + 1) .. n + 2
    BY <1>1
  <2> QED
    BY <2>1, <2>2
<1>14. c \in Texts
  <2> HIDE DEF n
  <2>1. c \in [1 .. n + 2 -> Seq(STRING)]
    BY <1>8, <1>13
  <2> QED
    BY <2>1 DEF Texts, n
<1> QED
  BY <1>6, <1>9, <1>14 DEF IsText

(* What has been printed is the text up to the place at or, within a       *)
(* sequence, up to the sequence, which has no end before at.  After a      *)
(* return there is some rest of the text.                                  *)
InText(t) ==
    /\ (status # "returned" /\ ~escaped) => t[1] = printed \o t[at]
    /\ (status # "returned" /\ escaped) =>
           /\ buffer \in 2 .. at
           /\ given[buffer - 1] = "esc"
           /\ t[1] = printed \o t[buffer - 1]
           /\ at > buffer => /\ given[buffer] = "["
                             /\ \A j \in buffer + 1 .. at - 1 : given[j] \notin {"m", "f", "H"}
    /\ \E rest \in Seq(STRING) : t[1] = printed \o rest

OutputInv ==
    /\ OutputTypeOK
    /\ printed \in Seq(STRING)
    /\ \E t : IsText(t) /\ Visible = t[1] /\ InText(t)

LEMMA GivenIsString ==
    ASSUME AnsiAssumption, OutputTypeOK
    PROVE  given \in Seq(STRING) /\ Len(given) \in Nat
<1>1. given \in Seq(STRING)
  BY DEF AnsiAssumption, OutputTypeOK
<1> QED
  BY <1>1

LEMMA OutputInitially == ASSUME AnsiAssumption, OutputInit PROVE OutputInv
<1>1. given \in Seq(STRING)
  BY DEF AnsiAssumption, OutputInit
<1>2. OutputTypeOK
  <2>1. cursor \in (0 .. Columns - 1) \X (0 .. Rows - 1) /\ attribute \in 0 .. 255
    BY DEF AnsiAssumption, OutputInit
  <2>2. 1 \in 1 .. Len(given) + 1
    BY <1>1
  <2>3. at \in 1 .. Len(given) + 1 /\ buffer \in 1 .. Len(given) + 1
    BY <2>2 DEF OutputInit
  <2>4. escaped \in BOOLEAN /\ status \in {"unset", "ok", "returned"} /\ given \in Seq(STRING)
    BY DEF OutputInit, AnsiAssumption
  <2> QED
    BY <2>1, <2>3, <2>4 DEF OutputTypeOK
<1>3. printed = <<>> /\ at = 1 /\ ~escaped
  BY DEF OutputInit
<1>4. PICK t : IsText(t) /\ Visible = t[1]
  BY <1>1, VisibleIsText
<1>5. t[1] \in Seq(STRING)
  BY <1>1, <1>4 DEF IsText, Texts
<1>6. t[1] = printed \o t[1]
  BY <1>3, <1>5
<1>7. InText(t)
  BY <1>3, <1>5, <1>6 DEF InText
<1> QED
  BY <1>2, <1>3, <1>4, <1>7 DEF OutputInv

LEMMA ForwardStaysOnScreen ==
    ASSUME AnsiAssumption, OutputTypeOK, NEW n \in Nat
    PROVE  Forward(n) \in (0 .. Columns - 1) \X (0 .. Rows - 1)
<1> DEFINE place == cursor[1] + n
           row == cursor[2] + (place \div Columns)
<1>1. /\ Columns \in Nat \ {0} /\ Rows \in Nat \ {0}
      /\ cursor[1] \in 0 .. Columns - 1 /\ cursor[2] \in 0 .. Rows - 1
  BY DEF AnsiAssumption, OutputTypeOK
<1>2. place \in Nat
  BY <1>1
<1> HIDE DEF place
<1>3. place % Columns \in 0 .. Columns - 1 /\ place \div Columns \in Nat
  <2>1. Columns \in Nat \ {0}
    BY <1>1
  <2>2. \A x \in Nat : x % Columns \in 0 .. Columns - 1 /\ x \div Columns \in Nat
    BY <2>1
  <2> QED
    BY <1>2, <2>2
<1>4. row \in Nat
  BY <1>1, <1>3
<1> HIDE DEF row
<1>5. (IF row < Rows THEN row ELSE Rows - 1) \in 0 .. Rows - 1
  BY <1>1, <1>4
<1> QED
  BY <1>3, <1>5 DEF Forward, place, row

LEMMA PlaceOnScreen ==
    ASSUME AnsiAssumption, OutputTypeOK, Looping, NEW row, NEW column, Place(row, column)
    PROVE  /\ cursor' \in (0 .. Columns - 1) \X (0 .. Rows - 1)
           /\ status' \in {"ok", "returned"}
           /\ status' = "ok" => at' = at + 1
           /\ status' = "returned" => at' = at
           /\ at' \in 1 .. Len(given) + 1
<1>1. Len(given) \in Nat
  BY GivenIsString
<1> QED
  BY <1>1 DEF Place, OutputTypeOK, GoOn, Fail, Looping

LEMMA ColouredIsByte ==
    ASSUME NEW value \in 0 .. 255, NEW code
    PROVE  Coloured(value, code) \in 0 .. 255
<1>1. \A c \in DOMAIN Foreground : Foreground[c] \in 0 .. 15
  BY DEF Foreground, Low, High
<1>2. \A c \in DOMAIN Background : Background[c] \in 0 .. 7
  BY DEF Background, Back
<1>3. value \div 16 \in 0 .. 15 /\ value % 16 \in 0 .. 15
  OBVIOUS
<1>4. CASE code \in DOMAIN Foreground
  <2> DEFINE f == Foreground[code]
  <2>1. f \in 0 .. 15
    BY <1>1, <1>4
  <2>2. Coloured(value, code) = ((value \div 16) * 16) + f
    BY <1>4 DEF Coloured
  <2> HIDE DEF f
  <2> QED
    BY <1>3, <2>1, <2>2
<1>5. CASE code \notin DOMAIN Foreground /\ code \in DOMAIN Background
  <2> DEFINE b == Background[code]
  <2>1. b \in 0 .. 7
    BY <1>2, <1>5
  <2>2. Coloured(value, code) = (value % 16) + b * 16
    BY <1>5 DEF Coloured
  <2> HIDE DEF b
  <2> QED
    BY <1>3, <2>1, <2>2
<1>6. CASE code \notin DOMAIN Foreground /\ code \notin DOMAIN Background
  BY <1>6 DEF Coloured
<1> QED
  BY <1>4, <1>5, <1>6

(* The attribute after each of the codes. *)
IsPainted(f, codes, n) ==
    /\ f \in [0 .. n -> 0 .. 255]
    /\ f[0] = attribute
    /\ \A k \in 1 .. n : f[k] = Coloured(f[k - 1], codes[k])

LEMMA AfterCodesIsPainted ==
    ASSUME attribute \in 0 .. 255, NEW codes, NEW n \in Nat
    PROVE  \E f : IsPainted(f, codes, n) /\ AfterCodes(codes, n) = f[n]
<1> DEFINE A == 0 .. 255
           g == [p \in A \X Nat |-> Coloured(p[1], codes[p[2]])]
           E(f) == [k \in 0 .. n |->
                       IF k = 0 THEN attribute ELSE Coloured(f[k - 1], codes[k])]
           c == CHOOSE f : f = E(f)
<1>1. g \in [A \X Nat -> A]
  <2>1. ASSUME NEW p \in A \X Nat
        PROVE  Coloured(p[1], codes[p[2]]) \in A
    <3>1. p[1] \in 0 .. 255
      OBVIOUS
    <3> QED
      BY <3>1, ColouredIsByte
  <2> QED
    BY <2>1
<1>2. AfterCodes(codes, n) = c[n]
  BY DEF AfterCodes
<1>3. PICK f : Recursive(f, A, attribute, g, n)
  <2> HIDE DEF g
  <2> QED
    BY <1>1, RecursionExists
<1>4. f \in [0 .. n -> A] /\ f[0] = attribute /\ \A k \in 1 .. n : f[k] = g[<<f[k - 1], k>>]
  BY <1>3 DEF Recursive
<1>5. ASSUME NEW k \in 1 .. n
      PROVE  f[k] = Coloured(f[k - 1], codes[k])
  <2>1. k - 1 \in 0 .. n /\ k \in Nat
    OBVIOUS
  <2>2. f[k - 1] \in A
    BY <1>4, <2>1
  <2>3. <<f[k - 1], k>> \in A \X Nat
    BY <2>1, <2>2
  <2>4. g[<<f[k - 1], k>>] = Coloured(f[k - 1], codes[k])
    BY <2>3
  <2> QED
    BY <1>4, <2>4
<1>6. f = E(f)
  <2> HIDE DEF g
  <2>1. \A k \in 0 .. n : k = 0 \/ k \in 1 .. n
    OBVIOUS
  <2>2. \A k \in 0 .. n : f[k] = IF k = 0 THEN attribute ELSE Coloured(f[k - 1], codes[k])
    BY <1>4, <1>5, <2>1
  <2> QED
    BY <1>4, <2>2
<1>7. c = E(c)
  <2> HIDE DEF E, g
  <2> QED
    BY <1>6
<1>8. c[0] = attribute /\ \A k \in 1 .. n : c[k] = Coloured(c[k - 1], codes[k])
  <2> HIDE DEF c
  <2>1. 0 \in 0 .. n /\ \A k \in 1 .. n : k \in 0 .. n /\ k # 0
    OBVIOUS
  <2> QED
    BY <1>7, <2>1
<1> DEFINE S == {k \in 0 .. n : c[k] \in A}
<1>9. 0 .. n \subseteq S
  <2> HIDE DEF c, E, g
  <2>1. 0 \in S
    BY <1>8
  <2>2. ASSUME NEW k \in 0 .. n - 1, k \in S
        PROVE  k + 1 \in S
    <3>1. c[k] \in 0 .. 255
      BY <2>2
    <3>2. k + 1 \in 1 .. n /\ (k + 1) - 1 = k /\ k + 1 \in 0 .. n
      OBVIOUS
    <3>3. c[k + 1] = Coloured(c[k], codes[k + 1])
      BY <1>8, <3>2
    <3>4. Coloured(c[k], codes[k + 1]) \in 0 .. 255
      BY <3>1, ColouredIsByte
    <3> QED
      BY <3>2, <3>3, <3>4
  <2> HIDE DEF S
  <2> QED
    BY <2>1, <2>2, RangeInduction
<1>10. c \in [0 .. n -> A]
  <2>1. \A k \in 0 .. n : c[k] \in A
    <3> HIDE DEF c
    <3> QED
      BY <1>9
  <2> HIDE DEF c, g
  <2> QED
    BY <1>7, <2>1
<1> QED
  <2> HIDE DEF c, g, E
  <2> QED
    BY <1>2, <1>8, <1>10 DEF IsPainted

(* However many codes follow, reading them ends with the string. *)
LEMMA CodesAreFinite ==
    ASSUME given \in Seq(STRING), NEW first \in Nat \ {0}
    PROVE  \E n \in Nat : DOMAIN Codes(first) = 1 .. n /\ Len(Codes(first)) = n
<1> DEFINE N == Len(given)
           g == [p \in Nat \X Nat |-> Behind(p[1]) + 1]
           E(f) == [k \in 0 .. N |-> IF k = 0 THEN first ELSE Behind(f[k - 1]) + 1]
           c == CHOOSE f : f = E(f)
           last == CHOOSE k \in 0 .. N :
                       /\ ~Is(Behind(c[k]), ";")
                       /\ \A j \in 0 .. k - 1 : Is(Behind(c[j]), ";")
<1>1. N \in Nat
  OBVIOUS
<1>2. Codes(first) = [k \in 1 .. last + 1 |-> ParseInt(c[k - 1])]
  BY DEF Codes
<1>3. \A i \in Nat : Behind(i) \in Nat /\ Behind(i) >= i
  BY DEF Behind
<1>4. g \in [Nat \X Nat -> Nat]
  <2>1. ASSUME NEW p \in Nat \X Nat
        PROVE  Behind(p[1]) + 1 \in Nat
    <3>1. p[1] \in Nat
      OBVIOUS
    <3>2. Behind(p[1]) \in Nat
      BY <1>3, <3>1
    <3> QED
      BY <3>2
  <2> QED
    BY <2>1
<1>5. PICK f : Recursive(f, Nat, first, g, N)
  <2> HIDE DEF g, N
  <2> QED
    BY <1>1, <1>4, RecursionExists
<1>6. f \in [0 .. N -> Nat] /\ f[0] = first /\ \A k \in 1 .. N : f[k] = g[<<f[k - 1], k>>]
  BY <1>5 DEF Recursive
<1>7. ASSUME NEW k \in 1 .. N
      PROVE  f[k] = Behind(f[k - 1]) + 1
  <2> HIDE DEF N
  <2>1. k - 1 \in 0 .. N /\ k \in Nat
    BY <1>1
  <2>2. f[k - 1] \in Nat
    BY <1>6, <2>1
  <2>3. g[<<f[k - 1], k>>] = Behind(f[k - 1]) + 1
    BY <2>1, <2>2
  <2> HIDE DEF g
  <2> QED
    BY <1>6, <2>3
<1>8. f = E(f)
  <2> HIDE DEF g, N
  <2>1. \A k \in 0 .. N : k = 0 \/ k \in 1 .. N
    BY <1>1
  <2>2. \A k \in 0 .. N : f[k] = IF k = 0 THEN first ELSE Behind(f[k - 1]) + 1
    BY <1>6, <1>7, <2>1
  <2> QED
    BY <1>6, <2>2
<1>9. c = E(c)
  <2> HIDE DEF E, g, N
  <2> QED
    BY <1>8
<1>10. c[0] = first /\ \A k \in 1 .. N : c[k] = Behind(c[k - 1]) + 1
  <2> HIDE DEF c, N
  <2>1. 0 \in 0 .. N /\ \A k \in 1 .. N : k \in 0 .. N /\ k # 0
    BY <1>1
  <2> QED
    BY <1>9, <2>1
<1> DEFINE S == {k \in 0 .. N : c[k] \in Nat /\ c[k] > k}
<1>11. 0 .. N \subseteq S
  <2> HIDE DEF c, E, g, N, last
  <2>1. 0 \in S
    BY <1>1, <1>10
  <2>2. ASSUME NEW k \in 0 .. N - 1, k \in S
        PROVE  k + 1 \in S
    <3>1. c[k] \in Nat /\ c[k] > k
      BY <2>2
    <3>2. k + 1 \in 1 .. N /\ (k + 1) - 1 = k /\ k + 1 \in 0 .. N
      BY <1>1
    <3>3. c[k + 1] = Behind(c[k]) + 1
      BY <1>10, <3>2
    <3>4. Behind(c[k]) \in Nat /\ Behind(c[k]) >= c[k]
      BY <1>3, <3>1
    <3>5. c[k + 1] \in Nat /\ c[k + 1] > k + 1
      BY <3>1, <3>3, <3>4
    <3> QED
      BY <3>2, <3>5
  <2> HIDE DEF S
  <2> QED
    BY <1>1, <2>1, <2>2, RangeInduction
<1>12. last \in 0 .. N
  <2> DEFINE T == {k \in 0 .. N : ~Is(Behind(c[k]), ";")}
  <2>1. N \in T
    <3> HIDE DEF c, N
    <3> DEFINE d == c[N]
               b == Behind(d)
    <3>1. d \in Nat /\ d > N
      BY <1>1, <1>11
    <3> HIDE DEF d
    <3>2. b \in Nat /\ b >= d
      BY <1>3, <3>1
    <3> HIDE DEF b
    <3>3. ~(b <= N)
      BY <1>1, <3>1, <3>2
    <3>4. ~Is(b, ";")
      BY <3>3 DEF Is, N
    <3>5. N \in 0 .. N
      BY <1>1
    <3>6. ~Is(Behind(c[N]), ";")
      BY <3>4 DEF b, d
    <3> QED
      BY <3>5, <3>6
  <2>2. T \subseteq Nat /\ T # {}
    <3> HIDE DEF c, N
    <3>1. \A k \in T : k \in 0 .. N
      OBVIOUS
    <3> HIDE DEF T
    <3> QED
      BY <1>1, <2>1, <3>1
  <2> HIDE DEF T
  <2>3. PICK m \in T : \A k \in T : m <= k
    BY <2>2, FirstPlace
  <2> HIDE DEF c, N
  <2>4. ~Is(Behind(c[m]), ";")
    BY DEF T
  <2>5. m \in 0 .. N
    BY DEF T
  <2>6. ASSUME NEW j \in 0 .. m - 1
        PROVE  Is(Behind(c[j]), ";")
    <3>1. j \in 0 .. N /\ ~(m <= j)
      BY <1>1, <2>5
    <3>2. j \notin T
      BY <2>3, <3>1
    <3> QED
      BY <3>1, <3>2 DEF T
  <2> QED
    BY <2>4, <2>5, <2>6
<1> HIDE DEF last, c
<1>13. last + 1 \in Nat
  BY <1>1, <1>12
<1>14. Len(Codes(first)) = last + 1 /\ DOMAIN Codes(first) = 1 .. last + 1
  BY <1>2, <1>13
<1> QED
  BY <1>13, <1>14

LEMMA MovePlaces == ASSUME MovePosition PROVE \E row, column : Place(row, column)
<1> DEFINE n == IF buffer + 1 # at THEN ParseInt(buffer + 1) ELSE 1
<1>1. /\ given[at] \in {"A", "B", "C", "D"}
      /\ CASE given[at] = "A" -> Place(cursor[2] - n, cursor[1])
           [] given[at] = "B" -> Place(cursor[2] + n, cursor[1])
           [] given[at] = "C" -> Place(cursor[2], cursor[1] + n)
           [] given[at] = "D" -> Place(cursor[2], cursor[1] - n)
  BY DEF MovePosition
<1> HIDE DEF n
<1>2. CASE given[at] = "A"
  BY <1>1, <1>2
<1>3. CASE given[at] = "B"
  BY <1>1, <1>3
<1>4. CASE given[at] = "C"
  BY <1>1, <1>4
<1>5. CASE given[at] = "D"
  BY <1>1, <1>5
<1> QED
  BY <1>1, <1>2, <1>3, <1>4, <1>5

LEMMA SpacesOfTab ==
    ASSUME AnsiAssumption, OutputTypeOK
    PROVE  TabSize - 1 - (cursor[1] % TabSize) \in 0 .. TabSize - 1
<1>1. TabSize \in Nat \ {0} /\ cursor[1] \in Nat
  BY DEF AnsiAssumption, OutputTypeOK
<1>2. \A x \in Nat : x % TabSize \in 0 .. TabSize - 1
  BY <1>1
<1>3. cursor[1] % TabSize \in 0 .. TabSize - 1
  BY <1>1, <1>2
<1> QED
  BY <1>1, <1>3

(* Each step keeps the types: at stays within the string, the cursor on the *)
(* screen and the attribute in its byte.                                     *)
LEMMA OutputTypes ==
    ASSUME AnsiAssumption, OutputTypeOK, OutputNext
    PROVE  OutputTypeOK'
<1>1. given \in Seq(STRING) /\ Len(given) \in Nat
  BY GivenIsString
<1>2. given' = given
  BY DEF OutputNext, SetAttributes, SetPosition, MovePosition, Parameter,
         ShortEscape, Escape, Tab, Character
<1>3. given' \in Seq(STRING)
  BY <1>2 DEF OutputTypeOK
<1>4. ASSUME Looping, GoOn
      PROVE  at' \in 1 .. Len(given) + 1 /\ status' \in {"unset", "ok", "returned"}
  BY <1>1, <1>4 DEF Looping, GoOn, OutputTypeOK
<1>5. ASSUME Looping, at' = at + 1
      PROVE  at' \in 1 .. Len(given) + 1
  BY <1>1, <1>5 DEF Looping, OutputTypeOK
<1>6. ASSUME Fail
      PROVE  at' \in 1 .. Len(given) + 1 /\ status' \in {"unset", "ok", "returned"}
  BY <1>6 DEF Fail, OutputTypeOK
<1>7. CASE SetAttributes
  <2>1. buffer + 1 \in Nat \ {0} /\ attribute \in 0 .. 255
    BY <1>1 DEF OutputTypeOK
  <2> DEFINE codes == Codes(buffer + 1)
  <2>2. PICK m \in Nat : Len(codes) = m
    BY <1>1, <2>1, CodesAreFinite
  <2>3. PICK n \in 0 .. Len(codes) :
            /\ attribute' = AfterCodes(codes, n)
            /\ IF n = Len(codes)
               THEN GoOn /\ escaped' = FALSE
               ELSE /\ codes[n + 1] \in Known \/ (n = 0 /\ status = "unset")
                    /\ Fail
                    /\ UNCHANGED escaped
    BY <1>7 DEF SetAttributes
  <2> HIDE DEF codes
  <2>4. n \in Nat
    BY <2>2
  <2>5. attribute' \in 0 .. 255
    <3>1. PICK f : IsPainted(f, codes, n) /\ AfterCodes(codes, n) = f[n]
      BY <2>1, <2>4, AfterCodesIsPainted
    <3> QED
      BY <2>3, <2>4, <3>1 DEF IsPainted
  <2>6. Looping /\ UNCHANGED <<buffer, cursor>>
    BY <1>7 DEF SetAttributes, Sequence
  <2>7. escaped' \in BOOLEAN /\ (GoOn \/ Fail)
    BY <2>3 DEF OutputTypeOK
  <2>8. at' \in 1 .. Len(given) + 1 /\ status' \in {"unset", "ok", "returned"}
    BY <1>4, <1>6, <2>6, <2>7
  <2> QED
    BY <1>2, <1>3, <2>5, <2>6, <2>7, <2>8 DEF OutputTypeOK
<1>8. CASE SetPosition
  <2>1. PICK row, column : Place(row, column)
    BY <1>8 DEF SetPosition
  <2>2. Looping
    BY <1>8 DEF SetPosition, Sequence
  <2>3. escaped' \in BOOLEAN /\ UNCHANGED <<buffer, attribute>>
    BY <1>8 DEF SetPosition, OutputTypeOK
  <2>4. /\ cursor' \in (0 .. Columns - 1) \X (0 .. Rows - 1)
        /\ status' \in {"ok", "returned"}
        /\ at' \in 1 .. Len(given) + 1
    BY <2>1, <2>2, PlaceOnScreen
  <2> QED
    BY <1>2, <1>3, <2>3, <2>4 DEF OutputTypeOK
<1>9. CASE MovePosition
  <2>1. \E row, column : Place(row, column)
    BY <1>9, MovePlaces
  <2>2. PICK row, column : Place(row, column)
    BY <2>1
  <2>3. Looping
    BY <1>9 DEF MovePosition, Sequence
  <2>4. UNCHANGED <<escaped, buffer, attribute>>
    BY <1>9 DEF MovePosition
  <2>5. /\ cursor' \in (0 .. Columns - 1) \X (0 .. Rows - 1)
        /\ status' \in {"ok", "returned"}
        /\ at' \in 1 .. Len(given) + 1
    BY <2>2, <2>3, PlaceOnScreen
  <2> QED
    BY <1>2, <1>3, <2>4, <2>5 DEF OutputTypeOK
<1>10. CASE Parameter
  <2>1. Looping /\ at' = at + 1 /\ UNCHANGED <<escaped, buffer, status, attribute, cursor>>
    BY <1>10 DEF Parameter, Sequence
  <2> QED
    BY <1>2, <1>3, <1>5, <2>1 DEF OutputTypeOK
<1>11. CASE ShortEscape
  <2>1. <<0, 0>> \in (0 .. Columns - 1) \X (0 .. Rows - 1)
    BY DEF AnsiAssumption
  <2>2. Looping /\ UNCHANGED <<buffer, attribute>>
    BY <1>11 DEF ShortEscape
  <2>3. /\ cursor' = <<0, 0>> \/ cursor' = cursor
        /\ escaped' = FALSE \/ escaped' = escaped
        /\ \/ GoOn
           \/ Fail
           \/ at' = at + 1 /\ status' = status
    BY <1>11 DEF ShortEscape
  <2>4. at' \in 1 .. Len(given) + 1 /\ status' \in {"unset", "ok", "returned"}
    BY <1>4, <1>5, <1>6, <2>2, <2>3 DEF OutputTypeOK
  <2> QED
    BY <1>2, <1>3, <2>1, <2>2, <2>3, <2>4 DEF OutputTypeOK
<1>12. CASE Escape
  <2>1. /\ Looping /\ at' = at + 1 /\ buffer' = at + 1 /\ escaped' = TRUE
        /\ UNCHANGED <<status, attribute, cursor>>
    BY <1>12 DEF Escape
  <2> QED
    BY <1>2, <1>3, <1>5, <2>1 DEF OutputTypeOK
<1>13. CASE Tab
  <2> DEFINE spaces == TabSize - 1 - (cursor[1] % TabSize)
  <2>1. spaces \in 0 .. TabSize - 1
    BY SpacesOfTab
  <2>2. Looping /\ UNCHANGED <<escaped, buffer, attribute>>
    BY <1>13 DEF Tab
  <2>3. \/ cursor' = Forward(spaces) /\ status' = (IF spaces = 0 THEN status ELSE "ok")
              /\ at' = at + 1
        \/ (\E n \in 0 .. spaces - 1 : cursor' = Forward(n)) /\ Fail
    BY <1>13 DEF Tab
  <2> HIDE DEF spaces
  <2>4. TabSize \in Nat
    BY DEF AnsiAssumption
  <2>5. spaces \in Nat /\ \A n \in 0 .. spaces - 1 : n \in Nat
    BY <2>1, <2>4
  <2>6. cursor' \in (0 .. Columns - 1) \X (0 .. Rows - 1)
    BY <2>3, <2>5, ForwardStaysOnScreen
  <2>7. at' \in 1 .. Len(given) + 1 /\ status' \in {"unset", "ok", "returned"}
    BY <1>5, <1>6, <2>2, <2>3 DEF OutputTypeOK
  <2> QED
    BY <1>2, <1>3, <2>2, <2>6, <2>7 DEF OutputTypeOK
<1>14. CASE Character
  <2>1. Looping /\ UNCHANGED <<escaped, buffer, attribute>>
    BY <1>14 DEF Character
  <2>2. (cursor' = Forward(1) /\ GoOn) \/ (cursor' = cursor /\ Fail)
    BY <1>14 DEF Character
  <2>3. Forward(1) \in (0 .. Columns - 1) \X (0 .. Rows - 1)
    BY ForwardStaysOnScreen
  <2>4. at' \in 1 .. Len(given) + 1 /\ status' \in {"unset", "ok", "returned"}
    BY <1>4, <1>6, <2>1, <2>2
  <2> QED
    BY <1>2, <1>3, <2>1, <2>2, <2>3, <2>4 DEF OutputTypeOK
<1> QED
  BY <1>7, <1>8, <1>9, <1>10, <1>11, <1>12, <1>13, <1>14 DEF OutputNext

LEMMA OneMorePrinted ==
    ASSUME NEW S, NEW p \in Seq(S), NEW r \in Seq(S), NEW g \in S
    PROVE  /\ p \o (<<g>> \o r) = Append(p, g) \o r
           /\ Append(p, g) \in Seq(S)
<1>1. <<g>> \in Seq(S) /\ Append(p, g) \in Seq(S)
  OBVIOUS
<1>2. p \o (<<g>> \o r) = (p \o <<g>>) \o r
  BY <1>1, ConcatAssociative
<1>3. p \o <<g>> = Append(p, g)
  OBVIOUS
<1> QED
  BY <1>1, <1>2, <1>3

LEMMA OneMoreCharacter ==
    \A p, r \in Seq(STRING) : \A g \in STRING :
        /\ p \o (<<g>> \o r) = Append(p, g) \o r
        /\ Append(p, g) \in Seq(STRING)
BY OneMorePrinted

(* The sequence at the place at goes on. *)
LEMMA SequenceGoesOn ==
    ASSUME AnsiAssumption, OutputTypeOK, printed \in Seq(STRING), NEW t, InText(t),
           Sequence, given[at] \notin {"m", "f", "H"},
           given' = given, at' = at + 1, UNCHANGED <<escaped, buffer, printed>>
    PROVE  InText(t)'
<1>1. at \in 1 .. Len(given) /\ Len(given) \in Nat
  BY GivenIsString DEF Sequence, Looping, OutputTypeOK
<1>2. /\ status # "returned" /\ escaped /\ given[buffer] = "["
      /\ buffer \in 2 .. at
      /\ given[buffer - 1] = "esc"
      /\ t[1] = printed \o t[buffer - 1]
      /\ at > buffer => \A j \in buffer + 1 .. at - 1 : given[j] \notin {"m", "f", "H"}
  BY DEF InText, Sequence, Looping
<1>3. buffer \in 2 .. at + 1
  BY <1>1, <1>2
<1>4. ASSUME NEW j \in buffer + 1 .. (at + 1) - 1
      PROVE  given[j] \notin {"m", "f", "H"}
  <2>1. CASE j = at
    BY <2>1
  <2>2. CASE j # at
    <3>1. at > buffer /\ j \in buffer + 1 .. at - 1
      BY <1>1, <1>2, <2>2
    <3> QED
      BY <1>2, <3>1
  <2> QED
    BY <2>1, <2>2
<1>5. \E rest \in Seq(STRING) : t[1] = printed \o rest
  BY DEF InText
<1> QED
  BY <1>2, <1>3, <1>4, <1>5 DEF InText

(* An m, an f or an H ends the sequence, and its text goes on behind. *)
LEMMA SequenceIsOver ==
    ASSUME AnsiAssumption, OutputTypeOK, printed \in Seq(STRING), NEW t, IsText(t), InText(t),
           Sequence, given[at] \in {"m", "f", "H"},
           given' = given, at' = at + 1, escaped' = FALSE, printed' = printed
    PROVE  InText(t)'
<1>1. at \in 1 .. Len(given) /\ Len(given) \in Nat /\ given \in Seq(STRING)
  BY GivenIsString DEF Sequence, Looping, OutputTypeOK
<1>2. /\ escaped /\ given[buffer] = "["
      /\ buffer \in 2 .. at
      /\ given[buffer - 1] = "esc"
      /\ t[1] = printed \o t[buffer - 1]
      /\ at > buffer => \A j \in buffer + 1 .. at - 1 : given[j] \notin {"m", "f", "H"}
  BY DEF InText, Sequence, Looping
<1>3. at # buffer
  BY <1>2
<1>4. at > buffer /\ at \in buffer + 1 .. Len(given)
  BY <1>1, <1>2, <1>3
<1>5. at \in SequenceEnds(buffer + 1)
  BY <1>4 DEF SequenceEnds
<1>6. ASSUME NEW j \in SequenceEnds(buffer + 1)
      PROVE  at <= j
  <2>1. j \in buffer + 1 .. Len(given) /\ given[j] \in {"m", "f", "H"}
    BY DEF SequenceEnds
  <2>2. j \notin buffer + 1 .. at - 1
    BY <1>2, <1>4, <2>1
  <2>3. buffer \in Int /\ at \in Int
    BY <1>1, <1>2
  <2> QED
    BY <2>1, <2>2, <2>3
<1>7. After(buffer + 1) = at + 1
  <2>1. buffer + 1 \in 1 .. Len(given) + 1
    BY <1>1, <1>2
  <2> QED
    BY <1>1, <1>5, <1>6, <2>1, AfterIs
<1>8. t[buffer - 1] = t[at + 1]
  <2>1. /\ buffer - 1 \in 1 .. Len(given) + 2 /\ ~(buffer - 1 > Len(given))
        /\ (buffer - 1) + 1 = buffer /\ (buffer - 1) + 2 = buffer + 1 /\ buffer <= Len(given)
    <3>1. Len(given) \in Nat /\ at \in 1 .. Len(given) /\ buffer \in 2 .. at
      BY <1>1, <1>2
    <3> QED
      BY <3>1
  <2>2. t[buffer - 1] = TextAt(t, buffer - 1)
    BY <2>1 DEF IsText
  <2>3. Is(buffer, "[")
    BY <1>2, <2>1 DEF Is
  <2> QED
    BY <1>2, <1>7, <2>1, <2>2, <2>3 DEF TextAt
<1>9. \E rest \in Seq(STRING) : t[1] = printed \o rest
  BY DEF InText
<1> QED
  BY <1>2, <1>8, <1>9 DEF InText

(* A character that is not escaped is printed. *)
LEMMA CharacterIsText ==
    ASSUME AnsiAssumption, OutputTypeOK, printed \in Seq(STRING), NEW t, IsText(t), InText(t),
           Looping, ~escaped, given[at] # "esc",
           given' = given, at' = at + 1, escaped' = escaped,
           printed' = Append(printed, given[at])
    PROVE  InText(t)' /\ printed' \in Seq(STRING)
<1>1. at \in 1 .. Len(given) /\ Len(given) \in Nat /\ given \in Seq(STRING)
  BY GivenIsString DEF Looping, OutputTypeOK
<1>2. t[1] = printed \o t[at]
  BY DEF InText, Looping
<1>3. at \in 1 .. Len(given) + 2 /\ at + 1 \in 1 .. Len(given) + 2 /\ ~(at > Len(given))
  BY <1>1
<1>4. t[at] = <<given[at]>> \o t[at + 1]
  BY <1>3 DEF IsText, TextAt
<1>5. t[at + 1] \in Seq(STRING) /\ given[at] \in STRING
  BY <1>1, <1>3 DEF IsText, Texts
<1>6. t[1] = printed' \o t[at + 1] /\ printed' \in Seq(STRING)
  <2> DEFINE rest == t[at + 1]
             g == given[at]
  <2>1. t[1] = printed \o (<<g>> \o rest) /\ printed' = Append(printed, g)
    BY <1>2, <1>4
  <2>2. rest \in Seq(STRING) /\ g \in STRING
    BY <1>5
  <2> HIDE DEF rest, g
  <2>3. /\ printed \o (<<g>> \o rest) = Append(printed, g) \o rest
        /\ Append(printed, g) \in Seq(STRING)
    BY <2>2, OneMoreCharacter
  <2> QED
    BY <2>1, <2>3 DEF rest
<1>7. \E rest \in Seq(STRING) : t[1] = printed' \o rest
  BY <1>5, <1>6
<1> QED
  BY <1>6, <1>7 DEF InText

LEMMA OutputPrints ==
    ASSUME AnsiAssumption, OutputTypeOK, printed \in Seq(STRING), NEW t, IsText(t), InText(t),
           OutputNext
    PROVE  InText(t)' /\ printed' \in Seq(STRING)
<1>1. ASSUME Fail, printed' = printed
      PROVE  InText(t)'
  BY <1>1 DEF InText, Fail
<1>2. CASE SetAttributes
  <2>1. /\ Sequence /\ given[at] = "m" /\ given' = given /\ printed' = printed
        /\ Fail \/ (GoOn /\ escaped' = FALSE)
    BY <1>2 DEF SetAttributes
  <2> QED
    BY <1>1, <2>1, SequenceIsOver DEF GoOn
<1>3. CASE SetPosition
  <2>1. /\ Sequence /\ given[at] \in {"f", "H"} /\ given' = given /\ printed' = printed
        /\ Fail \/ GoOn
        /\ escaped' = (escaped /\ status' = "returned")
    BY <1>3 DEF SetPosition, Place
  <2>2. GoOn => at' = at + 1 /\ escaped' = FALSE
    BY <2>1 DEF GoOn
  <2>3. given[at] \in {"m", "f", "H"}
    BY <2>1
  <2> QED
    BY <1>1, <2>1, <2>2, <2>3, SequenceIsOver
<1>4. CASE MovePosition
  <2>1. PICK row, column : Place(row, column)
    BY <1>4, MovePlaces
  <2>2. /\ Sequence /\ given[at] \in {"A", "B", "C", "D"}
        /\ UNCHANGED <<given, escaped, buffer, printed>>
    BY <1>4 DEF MovePosition
  <2>3. given[at] \notin {"m", "f", "H"}
    BY <2>2
  <2>4. Fail \/ at' = at + 1
    BY <2>1 DEF Place, GoOn
  <2> QED
    BY <1>1, <2>2, <2>3, <2>4, SequenceGoesOn
<1>5. CASE Parameter
  <2>1. /\ Sequence /\ given[at] \notin {"m", "f", "H"} /\ at' = at + 1
        /\ UNCHANGED <<given, escaped, buffer, printed>>
    BY <1>5 DEF Parameter
  <2> QED
    BY <2>1, SequenceGoesOn
<1>6. CASE ShortEscape
  <2>1. /\ Looping /\ escaped /\ given[buffer] # "["
        /\ given' = given /\ buffer' = buffer /\ printed' = printed
        /\ Fail \/ (at' = at + 1 /\ escaped' = FALSE)
    BY <1>6 DEF ShortEscape, GoOn
  <2>2. CASE Fail
    BY <1>1, <2>1, <2>2
  <2>3. CASE at' = at + 1 /\ escaped' = FALSE
    <3>1. at \in 1 .. Len(given) /\ Len(given) \in Nat
      BY <2>1, GivenIsString DEF Looping, OutputTypeOK
    <3>2. /\ buffer \in 2 .. at /\ ~(at > buffer)
          /\ given[buffer - 1] = "esc"
          /\ t[1] = printed \o t[buffer - 1]
      BY <2>1 DEF InText, Looping
    <3>3. buffer = at
      BY <3>1, <3>2
    <3>4. /\ at - 1 \in 1 .. Len(given) + 2 /\ ~(at - 1 > Len(given))
          /\ (at - 1) + 1 = at /\ (at - 1) + 2 = at + 1
      BY <3>1, <3>2, <3>3
    <3>5. t[at - 1] = TextAt(t, at - 1)
      BY <3>4 DEF IsText
    <3>6. ~Is(at, "[")
      BY <2>1, <3>3 DEF Is
    <3>7. t[at - 1] = t[at + 1]
      BY <3>2, <3>3, <3>4, <3>5, <3>6 DEF TextAt
    <3>8. \E rest \in Seq(STRING) : t[1] = printed \o rest
      BY DEF InText
    <3> QED
      BY <2>1, <2>3, <3>2, <3>3, <3>7, <3>8 DEF InText
  <2> QED
    BY <2>1, <2>2, <2>3
<1>7. CASE Escape
  <2>1. /\ Looping /\ ~escaped /\ given[at] = "esc" /\ escaped' = TRUE
        /\ buffer' = at + 1 /\ at' = at + 1 /\ UNCHANGED <<given, status, printed>>
    BY <1>7 DEF Escape
  <2>2. at \in 1 .. Len(given) /\ Len(given) \in Nat
    BY <2>1, GivenIsString DEF Looping, OutputTypeOK
  <2>3. t[1] = printed \o t[at]
    BY <2>1 DEF InText, Looping
  <2>4. at + 1 \in 2 .. at + 1 /\ (at + 1) - 1 = at /\ ~(at + 1 > at + 1)
    BY <2>2
  <2>5. \E rest \in Seq(STRING) : t[1] = printed \o rest
    BY DEF InText
  <2> QED
    BY <2>1, <2>3, <2>4, <2>5 DEF InText
<1>8. CASE Tab
  <2>1. /\ Looping /\ ~escaped /\ given[at] = "tab" /\ given' = given /\ escaped' = escaped
        /\ \/ Fail /\ printed' = printed
           \/ at' = at + 1 /\ printed' = Append(printed, "tab")
    BY <1>8 DEF Tab
  <2> QED
    BY <1>1, <2>1, CharacterIsText
<1>9. CASE Character
  <2>1. /\ Looping /\ ~escaped /\ given[at] # "esc" /\ given' = given /\ escaped' = escaped
        /\ \/ Fail /\ printed' = printed
           \/ at' = at + 1 /\ printed' = Append(printed, given[at])
    BY <1>9 DEF Character, GoOn
  <2> QED
    BY <1>1, <2>1, CharacterIsText
<1> QED
  BY <1>2, <1>3, <1>4, <1>5, <1>6, <1>7, <1>8, <1>9 DEF OutputNext

LEMMA FirstsAreGiven ==
    ASSUME NEW S, NEW p \in Seq(S), NEW r \in Seq(S), NEW s, s = p \o r
    PROVE  Len(p) <= Len(s) /\ p = SubSeq(s, 1, Len(p))
<1>1. Len(p) \in Nat /\ Len(r) \in Nat
  OBVIOUS
<1>2. /\ s \in Seq(S) /\ Len(s) = Len(p) + Len(r)
      /\ \A i \in 1 .. Len(p) + Len(r) : s[i] = IF i <= Len(p) THEN p[i] ELSE r[i - Len(p)]
  BY ConcatProperties
<1>3. Len(p) <= Len(s)
  BY <1>1, <1>2
<1> DEFINE q == SubSeq(s, 1, Len(p))
<1>4. q \in Seq(S) /\ Len(q) = Len(p) /\ \A i \in 1 .. Len(p) : q[i] = s[i]
  BY <1>1, <1>2, <1>3
<1> HIDE DEF q
<1>5. \A i \in 1 .. Len(p) : p[i] = q[i]
  BY <1>1, <1>2, <1>4
<1>6. p = q
  BY <1>4, <1>5, SeqEqual
<1> QED
  BY <1>3, <1>6 DEF q

LEMMA TextStays ==
    ASSUME given' = given, NEW t, IsText(t)
    PROVE  IsText(t)' /\ Visible' = Visible
<1>1. \A i : After(i)' = After(i)
  BY DEF After, SequenceEnds
<1>2. \A i : TextAt(t, i)' = TextAt(t, i)
  BY <1>1 DEF TextAt, Is
<1>3. IsText(t)'
  BY <1>2 DEF IsText, Texts
<1>4. Visible' = Visible
  BY <1>1 DEF Visible, Is
<1> QED
  BY <1>3, <1>4

LEMMA OutputInductive ==
    ASSUME AnsiAssumption, OutputInv, [OutputNext]_outputVars
    PROVE  OutputInv'
<1>1. CASE UNCHANGED outputVars
  <2>1. PICK t : IsText(t) /\ Visible = t[1] /\ InText(t)
    BY DEF OutputInv
  <2>2. UNCHANGED <<given, at, escaped, buffer, status, attribute, cursor, printed>>
    BY <1>1 DEF outputVars
  <2>3. IsText(t)' /\ Visible' = t[1]
    BY <2>1, <2>2, TextStays
  <2>4. InText(t)'
    BY <2>1, <2>2 DEF InText
  <2>5. OutputTypeOK' /\ printed' \in Seq(STRING)
    BY <2>2 DEF OutputInv, OutputTypeOK
  <2> QED
    BY <2>3, <2>4, <2>5 DEF OutputInv
<1>2. CASE OutputNext
  <2>1. OutputTypeOK /\ printed \in Seq(STRING)
    BY DEF OutputInv
  <2>2. PICK t : IsText(t) /\ Visible = t[1] /\ InText(t)
    BY DEF OutputInv
  <2>3. given' = given
    BY <1>2 DEF OutputNext, SetAttributes, SetPosition, MovePosition, Parameter,
                ShortEscape, Escape, Tab, Character
  <2>4. IsText(t)' /\ Visible' = t[1]
    BY <2>2, <2>3, TextStays
  <2>5. InText(t)' /\ printed' \in Seq(STRING)
    BY <1>2, <2>1, <2>2, OutputPrints
  <2>6. OutputTypeOK'
    BY <1>2, <2>1, OutputTypes
  <2> QED
    BY <2>4, <2>5, <2>6 DEF OutputInv
<1> QED
  BY <1>1, <1>2

LEMMA InTextIsPrinted == ASSUME AnsiAssumption, OutputInv PROVE PrintsTheText
<1>1. OutputTypeOK /\ printed \in Seq(STRING)
  BY DEF OutputInv
<1>2. PICK t : IsText(t) /\ Visible = t[1] /\ InText(t)
  BY DEF OutputInv
<1>3. PICK rest \in Seq(STRING) : t[1] = printed \o rest
  BY <1>2 DEF InText
<1>4. Len(printed) <= Len(Visible) /\ printed = SubSeq(Visible, 1, Len(printed))
  BY <1>1, <1>2, <1>3, FirstsAreGiven
<1>5. ASSUME status # "returned", at > Len(given)
      PROVE  printed = Visible
  <2>1. Len(given) \in Nat /\ given \in Seq(STRING)
    BY <1>1, GivenIsString
  <2>2. at = Len(given) + 1
    BY <1>1, <1>5, <2>1 DEF OutputTypeOK
  <2>3. \A i \in Len(given) + 1 .. Len(given) + 2 : t[i] = <<>>
    <3>1. ASSUME NEW i \in Len(given) + 1 .. Len(given) + 2
          PROVE  t[i] = <<>>
      <4>1. i \in 1 .. Len(given) + 2 /\ i > Len(given)
        BY <2>1
      <4>2. TextAt(t, i) = <<>>
        BY <4>1 DEF TextAt
      <4> QED
        BY <1>2, <4>1, <4>2 DEF IsText
    <3> QED
      BY <3>1
  <2>4. CASE ~escaped
    <3>1. t[1] = printed \o <<>>
      <4>1. t[1] = printed \o t[at]
        BY <1>2, <1>5, <2>4 DEF InText
      <4>2. t[at] = <<>>
        BY <2>1, <2>2, <2>3
      <4> QED
        BY <4>1, <4>2
    <3> QED
      BY <1>1, <1>2, <3>1
  <2>5. CASE escaped
    <3>1. /\ buffer \in 2 .. at
          /\ given[buffer - 1] = "esc"
          /\ t[1] = printed \o t[buffer - 1]
          /\ at > buffer => /\ given[buffer] = "["
                            /\ \A j \in buffer + 1 .. at - 1 : given[j] \notin {"m", "f", "H"}
      BY <1>2, <1>5, <2>5 DEF InText
    <3>2. /\ buffer - 1 \in 1 .. Len(given) + 2 /\ ~(buffer - 1 > Len(given))
          /\ (buffer - 1) + 1 = buffer /\ (buffer - 1) + 2 = buffer + 1
      BY <2>1, <2>2, <3>1
    <3>3. t[buffer - 1] = TextAt(t, buffer - 1)
      BY <1>2, <3>2 DEF IsText
    <3>4. CASE buffer = at
      <4>1. ~Is(buffer, "[") /\ buffer + 1 \in Len(given) + 1 .. Len(given) + 2
        BY <2>1, <2>2, <3>4 DEF Is
      <4>2. t[buffer - 1] = <<>>
        BY <2>3, <3>1, <3>2, <3>3, <4>1 DEF TextAt
      <4> QED
        BY <1>1, <1>2, <3>1, <4>2
    <3>5. CASE buffer # at
      <4>1. at > buffer /\ buffer <= Len(given) /\ at - 1 = Len(given)
        BY <2>1, <2>2, <3>1, <3>5
      <4>2. Is(buffer, "[")
        BY <3>1, <4>1 DEF Is
      <4>3. SequenceEnds(buffer + 1) = {}
        BY <3>1, <4>1 DEF SequenceEnds
      <4>4. After(buffer + 1) = Len(given) + 1
        BY <4>3 DEF After
      <4>5. Len(given) + 1 \in Len(given) + 1 .. Len(given) + 2
        BY <2>1
      <4>6. t[buffer - 1] = <<>>
        BY <2>3, <3>1, <3>2, <3>3, <4>2, <4>4, <4>5 DEF TextAt
      <4> QED
        BY <1>1, <1>2, <3>1, <4>6
    <3> QED
      BY <3>4, <3>5
  <2> QED
    BY <2>4, <2>5
<1> QED
  BY <1>4, <1>5 DEF PrintsTheText

(* Whatever string is output and whichever calls of the firmware fail,     *)
(* output() of output.c has printed the text of the string as far as it    *)
(* went, in its order, and all of it at the end.                           *)
THEOREM OutputKeepsToItsText == OutputSpec => []OutputIsTheText
<1> USE AnsiAssumption
<1>1. OutputInit => OutputInv
  BY OutputInitially
<1>2. OutputInv /\ [OutputNext]_outputVars => OutputInv'
  BY OutputInductive
<1>3. OutputInv => OutputIsTheText
  BY InTextIsPrinted DEF OutputInv, OutputIsTheText
<1> QED
  BY <1>1, <1>2, <1>3, PTL DEF OutputSpec

(* The codes up to place k that the table T of colours knows. *)
Those(T, codes, k) == {j \in 1 .. k : codes[j] \in DOMAIN T}

LEMMA LatestIs ==
    ASSUME NEW S, NEW k \in S, S \subseteq Int, \A j \in S : j <= k
    PROVE  Latest(S) = k
<1> DEFINE c == CHOOSE i \in S : \A j \in S : j <= i
<1>1. c \in S /\ \A j \in S : j <= c
  OBVIOUS
<1>2. Latest(S) = c
  BY DEF Latest
<1> HIDE DEF c
<1>3. c <= k /\ k <= c /\ c \in Int /\ k \in Int
  BY <1>1
<1> QED
  BY <1>2, <1>3

LEMMA OneMoreCode ==
    ASSUME NEW T, NEW codes, NEW k \in Nat
    PROVE  /\ codes[k + 1] \in DOMAIN T =>
                  Those(T, codes, k + 1) # {} /\ Latest(Those(T, codes, k + 1)) = k + 1
           /\ codes[k + 1] \notin DOMAIN T => Those(T, codes, k + 1) = Those(T, codes, k)
<1> DEFINE S == Those(T, codes, k + 1)
<1>1. \A j \in S : j \in 1 .. k + 1
  BY DEF Those
<1>2. k + 1 \in 1 .. k + 1
  OBVIOUS
<1>3. ASSUME codes[k + 1] \in DOMAIN T
      PROVE  S # {} /\ Latest(S) = k + 1
  <2>1. k + 1 \in S
    BY <1>2, <1>3 DEF Those
  <2> HIDE DEF S
  <2>2. S \subseteq Int /\ \A j \in S : j <= k + 1
    BY <1>1
  <2> QED
    BY <2>1, <2>2, LatestIs
<1>4. ASSUME codes[k + 1] \notin DOMAIN T
      PROVE  S = Those(T, codes, k)
  <2>1. \A j \in 1 .. k + 1 : j = k + 1 \/ j \in 1 .. k
    OBVIOUS
  <2>2. \A j \in 1 .. k : j \in 1 .. k + 1
    OBVIOUS
  <2> QED
    BY <1>4, <2>1, <2>2 DEF Those
<1> QED
  BY <1>3, <1>4

(* A code changes one half of the attribute at most. *)
LEMMA ColouredHalves ==
    ASSUME NEW value \in 0 .. 255, NEW code
    PROVE  /\ code \in DOMAIN Foreground =>
                  /\ Coloured(value, code) % 16 = Foreground[code]
                  /\ Coloured(value, code) \div 16 = value \div 16
                  /\ code \notin DOMAIN Background
           /\ code \in DOMAIN Background =>
                  /\ Coloured(value, code) % 16 = value % 16
                  /\ Coloured(value, code) \div 16 = Background[code]
                  /\ code \notin DOMAIN Foreground
           /\ (code \notin DOMAIN Foreground /\ code \notin DOMAIN Background) =>
                  Coloured(value, code) = value
<1>1. \A c \in DOMAIN Foreground : Foreground[c] \in 0 .. 15 /\ c \notin DOMAIN Background
  BY DEF Foreground, Low, High, Background
<1>2. \A c \in DOMAIN Background : Background[c] \in 0 .. 7 /\ c \notin DOMAIN Foreground
  BY DEF Background, Back, Foreground
<1>3. value \div 16 \in 0 .. 15 /\ value % 16 \in 0 .. 15
  OBVIOUS
<1>4. ASSUME code \in DOMAIN Foreground
      PROVE  /\ Coloured(value, code) % 16 = Foreground[code]
             /\ Coloured(value, code) \div 16 = value \div 16
             /\ code \notin DOMAIN Background
  <2> DEFINE f == Foreground[code]
             h == value \div 16
  <2>1. f \in 0 .. 15 /\ code \notin DOMAIN Background /\ h \in 0 .. 15
    BY <1>1, <1>3, <1>4
  <2>2. Coloured(value, code) = (h * 16) + f
    BY <1>4 DEF Coloured
  <2> HIDE DEF f, h
  <2>3. ((h * 16) + f) % 16 = f /\ ((h * 16) + f) \div 16 = h
    BY <2>1
  <2> QED
    BY <2>1, <2>2, <2>3 DEF f, h
<1>5. ASSUME code \in DOMAIN Background
      PROVE  /\ Coloured(value, code) % 16 = value % 16
             /\ Coloured(value, code) \div 16 = Background[code]
             /\ code \notin DOMAIN Foreground
  <2> DEFINE b == Background[code]
             l == value % 16
  <2>1. b \in 0 .. 7 /\ code \notin DOMAIN Foreground /\ l \in 0 .. 15
    BY <1>2, <1>3, <1>5
  <2>2. Coloured(value, code) = l + b * 16
    BY <1>5, <2>1 DEF Coloured
  <2> HIDE DEF b, l
  <2>3. (l + b * 16) % 16 = l /\ (l + b * 16) \div 16 = b
    BY <2>1
  <2> QED
    BY <2>1, <2>2, <2>3 DEF b, l
<1>6. ASSUME code \notin DOMAIN Foreground, code \notin DOMAIN Background
      PROVE  Coloured(value, code) = value
  BY <1>6 DEF Coloured
<1> QED
  BY <1>4, <1>5, <1>6

(* A half of a value is that of the latest code that names it. *)
Halved(half, T, codes, k, old) ==
    half = IF Those(T, codes, k) = {} THEN old ELSE T[codes[Latest(Those(T, codes, k))]]

LEMMA PaintedHalves ==
    ASSUME NEW codes, NEW n \in Nat, NEW f, IsPainted(f, codes, n)
    PROVE  /\ Halved(f[n] % 16, Foreground, codes, n, attribute % 16)
           /\ Halved(f[n] \div 16, Background, codes, n, attribute \div 16)
<1> DEFINE LowIs(k) == Halved(f[k] % 16, Foreground, codes, k, attribute % 16)
           HighIs(k) == Halved(f[k] \div 16, Background, codes, k, attribute \div 16)
           S == {k \in 0 .. n : LowIs(k) /\ HighIs(k)}
<1>1. 0 \in S
  <2>1. Those(Foreground, codes, 0) = {} /\ Those(Background, codes, 0) = {}
    BY DEF Those
  <2>2. f[0] = attribute
    BY DEF IsPainted
  <2>3. LowIs(0) /\ HighIs(0)
    BY <2>1, <2>2 DEF Halved
  <2>4. 0 \in 0 .. n
    OBVIOUS
  <2> HIDE DEF LowIs, HighIs
  <2> QED
    BY <2>3, <2>4
<1>2. ASSUME NEW k \in 0 .. n - 1, k \in S
      PROVE  k + 1 \in S
  <2>1. LowIs(k) /\ HighIs(k)
    BY <1>2
  <2>2. k \in 0 .. n /\ k \in Nat /\ k + 1 \in 1 .. n /\ k + 1 \in 0 .. n /\ (k + 1) - 1 = k
    OBVIOUS
  <2> DEFINE code == codes[k + 1]
  <2>3. f[k] \in 0 .. 255 /\ f[k + 1] = Coloured(f[k], code)
    BY <2>2 DEF IsPainted
  <2>4. ASSUME code \in DOMAIN Foreground
        PROVE  LowIs(k + 1) /\ HighIs(k + 1)
    <3>1. f[k + 1] % 16 = Foreground[code] /\ f[k + 1] \div 16 = f[k] \div 16
          /\ code \notin DOMAIN Background
      BY <2>3, <2>4, ColouredHalves
    <3>2. /\ Those(Foreground, codes, k + 1) # {}
          /\ Latest(Those(Foreground, codes, k + 1)) = k + 1
      BY <2>2, <2>4, OneMoreCode
    <3>3. Those(Background, codes, k + 1) = Those(Background, codes, k)
      BY <2>2, <3>1, OneMoreCode
    <3> QED
      BY <2>1, <3>1, <3>2, <3>3 DEF Halved
  <2>5. ASSUME code \in DOMAIN Background
        PROVE  LowIs(k + 1) /\ HighIs(k + 1)
    <3>1. f[k + 1] % 16 = f[k] % 16 /\ f[k + 1] \div 16 = Background[code]
          /\ code \notin DOMAIN Foreground
      BY <2>3, <2>5, ColouredHalves
    <3>2. /\ Those(Background, codes, k + 1) # {}
          /\ Latest(Those(Background, codes, k + 1)) = k + 1
      BY <2>2, <2>5, OneMoreCode
    <3>3. Those(Foreground, codes, k + 1) = Those(Foreground, codes, k)
      BY <2>2, <3>1, OneMoreCode
    <3> QED
      BY <2>1, <3>1, <3>2, <3>3 DEF Halved
  <2>6. ASSUME code \notin DOMAIN Foreground, code \notin DOMAIN Background
        PROVE  LowIs(k + 1) /\ HighIs(k + 1)
    <3>1. f[k + 1] = f[k]
      BY <2>3, <2>6, ColouredHalves
    <3>2. /\ Those(Foreground, codes, k + 1) = Those(Foreground, codes, k)
          /\ Those(Background, codes, k + 1) = Those(Background, codes, k)
      BY <2>2, <2>6, OneMoreCode
    <3> QED
      BY <2>1, <3>1, <3>2 DEF Halved
  <2> HIDE DEF LowIs, HighIs
  <2>7. LowIs(k + 1) /\ HighIs(k + 1)
    BY <2>4, <2>5, <2>6
  <2> QED
    BY <2>2, <2>7
<1>3. 0 .. n \subseteq S
  <2> HIDE DEF S
  <2> QED
    BY <1>1, <1>2, RangeInduction
<1>4. n \in S
  <2> HIDE DEF S
  <2> QED
    BY <1>3
<1> QED
  BY <1>4

LEMMA SequenceColours ==
    ASSUME AnsiAssumption, OutputTypeOK, OutputNext
    PROVE  LatestColours
<1> SUFFICES ASSUME AttributesEnd PROVE LatestColours
  BY DEF LatestColours
<1>1. Sequence /\ given[at] = "m" /\ status' # "returned" /\ Looping /\ escaped
  BY DEF AttributesEnd, Sequence
<1>2. SetAttributes
  BY <1>1 DEF OutputNext, SetPosition, MovePosition, Parameter, ShortEscape, Escape,
              Tab, Character, Sequence
<1>3. given \in Seq(STRING) /\ Len(given) \in Nat
  BY GivenIsString
<1>4. buffer + 1 \in Nat \ {0} /\ attribute \in 0 .. 255
  BY <1>3 DEF OutputTypeOK
<1> DEFINE codes == Codes(buffer + 1)
<1>5. PICK n \in Nat : DOMAIN codes = 1 .. n /\ Len(codes) = n
  BY <1>3, <1>4, CodesAreFinite
<1>6. attribute' = AfterCodes(codes, Len(codes))
  BY <1>1, <1>2 DEF SetAttributes, Fail
<1> HIDE DEF codes
<1>7. PICK f : IsPainted(f, codes, n) /\ AfterCodes(codes, n) = f[n]
  BY <1>4, AfterCodesIsPainted
<1>8. attribute' = f[n]
  BY <1>5, <1>6, <1>7
<1>9. /\ Halved(attribute' % 16, Foreground, codes, n, attribute % 16)
      /\ Halved(attribute' \div 16, Background, codes, n, attribute \div 16)
  BY <1>7, <1>8, PaintedHalves
<1>10. /\ Those(Foreground, codes, n) = {k \in DOMAIN codes : codes[k] \in DOMAIN Foreground}
      /\ Those(Background, codes, n) = {k \in DOMAIN codes : codes[k] \in DOMAIN Background}
  BY <1>5 DEF Those
<1> QED
  BY <1>9, <1>10 DEF Halved, codes, LatestColours

(* A line that is a number of tabs has room up to the stop that is next.   *)
LEMMA StopIsOnTheLine ==
    ASSUME NEW t \in Nat \ {0}, NEW line \in Nat \ {0}, NEW c \in 0 .. line - 1,
           line % t = 0
    PROVE  c + (t - 1 - (c % t)) < line
<1> DEFINE m == line \div t
           q == c \div t
           r == c % t
<1>1. m \in Int /\ line = t * m
  <2> DEFINE z == line % t
  <2>1. m \in Int /\ line = (t * m) + z
    OBVIOUS
  <2>2. z = 0
    OBVIOUS
  <2> HIDE DEF m, z
  <2>3. t * m \in Int
    BY <2>1
  <2> QED
    BY <2>1, <2>2, <2>3
<1>2. q \in Int /\ r \in 0 .. t - 1 /\ c = (t * q) + r
  OBVIOUS
<1> HIDE DEF m, q, r
<1>3. q + 1 <= m
  <2> SUFFICES ASSUME ~(q + 1 <= m) PROVE FALSE
    OBVIOUS
  <2>1. q - m >= 0 /\ q - m \in Nat
    BY <1>1, <1>2
  <2>2. t * (q - m) >= 0
    BY <2>1
  <2>3. t * (q - m) = (t * q) - (t * m)
    BY <1>1, <1>2
  <2> QED
    BY <1>1, <1>2, <2>2, <2>3
<1>4. t * (m - (q + 1)) >= 0
  BY <1>1, <1>2, <1>3
<1>5. t * (m - (q + 1)) = ((t * m) - (t * q)) - t
  BY <1>1, <1>2
<1>6. (t * q) + t <= line
  BY <1>1, <1>2, <1>4, <1>5
<1>7. c + (t - 1 - r) < line
  BY <1>2, <1>6
<1> QED
  BY <1>7 DEF r

(* What is less than a limit together with s is so together with less. *)
LEMMA StaysBelow ==
    ASSUME NEW c \in Nat, NEW s \in Nat, NEW limit \in Nat, NEW n \in 0 .. s, c + s < limit
    PROVE  c + n \in 0 .. limit - 1 /\ c + n >= c
OBVIOUS

LEMMA TabIsOnTheLine ==
    ASSUME AnsiAssumption, OutputTypeOK, OutputNext
    PROVE  TabStays
<1> SUFFICES ASSUME Columns % TabSize = 0, Looping, ~escaped, given[at] = "tab"
             PROVE  cursor'[2] = cursor[2] /\ cursor'[1] >= cursor[1]
  BY DEF TabStays
<1>1. Tab
  BY DEF OutputNext, SetAttributes, SetPosition, MovePosition, Parameter, ShortEscape,
         Escape, Character, Sequence
<1>2. /\ Columns \in Nat \ {0} /\ Rows \in Nat \ {0} /\ TabSize \in Nat \ {0}
      /\ cursor[1] \in 0 .. Columns - 1 /\ cursor[2] \in 0 .. Rows - 1
  BY DEF AnsiAssumption, OutputTypeOK
<1> DEFINE spaces == TabSize - 1 - (cursor[1] % TabSize)
<1>3. spaces \in 0 .. TabSize - 1
  BY SpacesOfTab
<1>4. cursor[1] + spaces < Columns
  BY <1>2, StopIsOnTheLine
<1>5. cursor' = Forward(spaces) \/ \E n \in 0 .. spaces - 1 : cursor' = Forward(n)
  BY <1>1 DEF Tab
<1> HIDE DEF spaces
<1>6. PICK n \in 0 .. spaces : cursor' = Forward(n)
  BY <1>2, <1>3, <1>5
<1> DEFINE place == cursor[1] + n
<1>7. place \in 0 .. Columns - 1 /\ place >= cursor[1]
  <2>1. /\ cursor[1] \in Nat /\ spaces \in Nat /\ Columns \in Nat
        /\ cursor[1] + spaces < Columns /\ n \in 0 .. spaces
    BY <1>2, <1>3, <1>4
  <2> QED
    BY <2>1, StaysBelow
<1>8. place % Columns = place /\ place \div Columns = 0
  <2>1. Columns \in Nat \ {0} /\ place \in 0 .. Columns - 1
    BY <1>2, <1>7
  <2> HIDE DEF place
  <2> QED
    BY <2>1, DivisionOfLess
<1>9. cursor' = <<place, cursor[2]>>
  <2>1. Forward(n) = <<place % Columns,
                       IF cursor[2] + (place \div Columns) < Rows
                       THEN cursor[2] + (place \div Columns) ELSE Rows - 1>>
    BY DEF Forward
  <2> HIDE DEF place
  <2>2. cursor[2] + 0 = cursor[2] /\ cursor[2] < Rows
    BY <1>2
  <2> QED
    BY <1>6, <1>8, <2>1, <2>2
<1> QED
  BY <1>7, <1>9

(* Of all the codes of a sequence of output() the last foreground and the  *)
(* last background decide, and a tab leaves the cursor on its line, on     *)
(* every screen that is a number of tabs wide.                             *)
THEOREM SequencesDoWhatTheySay == OutputSpec => SequencesTakeEffect
<1> USE AnsiAssumption
<1>1. OutputInit => OutputInv
  BY OutputInitially
<1>2. OutputInv /\ [OutputNext]_outputVars => OutputInv'
  BY OutputInductive
<1>3. OutputInv /\ [OutputNext]_outputVars => [LatestColours]_outputVars
  BY SequenceColours DEF OutputInv
<1>4. OutputInv /\ [OutputNext]_outputVars => [TabStays]_outputVars
  BY TabIsOnTheLine DEF OutputInv
<1> QED
  BY <1>1, <1>2, <1>3, <1>4, PTL
     DEF OutputSpec, SequencesTakeEffect, LastColoursWin, TabsStayOnTheLine
===========================================================================
