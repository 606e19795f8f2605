--------------------------- MODULE ServicesProofs ---------------------------
(***************************************************************************)
(* What holds of the parts that the system calls, in the specification of  *)
(* all of them: of a core's interface, for every width of the heads and    *)
(* every length of a pointer, whichever allocation fails; of the blue      *)
(* screen, whichever calls fail; of the pointer, for all movements and     *)
(* resolutions; of numbers and strings, for every width and base; and of   *)
(* scripts and lines, for every text.                                      *)
(***************************************************************************)
EXTENDS Services, FiniteSetTheorems, TLAPS

(* One part is called, and only its steps are taken. *)
LEMMA OneServiceSteps ==
    ASSUME [ServicesNext]_servicesVars
    PROVE  /\ part' = part
           /\ part = "script" => [Next]_vars
           /\ part = "string" => [Strings!Next]_(Strings!vars)
           /\ part = "pointer" => [Pointer!Next]_(Pointer!vars)
           /\ part = "bsod" => [Screen!Next]_(Screen!vars)
           /\ part = "interface" => [Interface!Next]_(Interface!vars)
<1>1. CASE UNCHANGED servicesVars
  BY <1>1 DEF servicesVars, vars, stringVars, pointerVars, screenVars, interfaceVars,
     Strings!vars, Pointer!vars, Screen!vars, Interface!vars, Interface!blockVars,
     Interface!ringVars
<1>2. CASE ScriptStep
  BY <1>2 DEF ScriptStep
<1>3. CASE StringStep
  BY <1>3 DEF StringStep
<1>4. CASE PointerStep
  BY <1>4 DEF PointerStep
<1>5. CASE ScreenStep(Screen!Next)
  BY <1>5 DEF ScreenStep
<1>6. CASE InterfaceStep(Interface!Next)
  BY <1>6 DEF InterfaceStep
<1> QED
  BY <1>1, <1>2, <1>3, <1>4, <1>5, <1>6 DEF ServicesNext

(* And it starts as it does by itself. *)
LEMMA OneServiceStarts ==
    ASSUME ServicesInit
    PROVE  /\ part = "script" => Init
           /\ part = "string" => Strings!Init
           /\ part = "pointer" => Pointer!Init
           /\ part = "bsod" => Screen!Init
           /\ part = "interface" => Interface!Init
BY DEF ServicesInit

---------------------------------------------------------------------------
(* What a core's interface has allocated after each allocation and how the *)
(* constructor left.                                                       *)
BlocksAtPiece ==
    /\ pc = "buffers" => buffers = "null" /\ heap \subseteq {"stream"}
    /\ pc = "output" => buffers = "live" /\ "buffers" \in heap
                        /\ heap \subseteq {"stream", "buffers"}
    /\ pc = "input" => buffers = "live" /\ {"buffers", "output"} \subseteq heap
                       /\ "input" \notin heap
    /\ pc = "ready" => IF buffers = "live"
                       THEN {"buffers", "input"} \subseteq heap
                       ELSE heap \subseteq {"stream"}
    /\ pc # "deleted" => unsound \subseteq {"inside"}
    /\ pc = "deleted" => heap = {}
    /\ buffers # "dangling" => "buffers" \notin unsound

InterfaceIInv == Interface!TypeOK /\ BlocksAtPiece

LEMMA InterfaceInitially ==
    ASSUME Interface!InterfaceAssumption, Interface!Init
    PROVE  InterfaceIInv
BY DEF Interface!InterfaceAssumption, Interface!Init, InterfaceIInv,
   Interface!TypeOK, BlocksAtPiece, Interface!Block

(* The constructor. *)
LEMMA AllocateStep ==
    ASSUME InterfaceIInv,
           \/ Interface!AllocateBuffers
           \/ Interface!AllocateOutput
           \/ Interface!AllocateInput
    PROVE  InterfaceIInv'
<1> USE DEF Interface!AllocateBuffers, Interface!AllocateOutput, Interface!AllocateInput
<1>1. UNCHANGED Interface!ringVars
  OBVIOUS
<1>2. Interface!TypeOK'
  BY <1>1 DEF InterfaceIInv, Interface!TypeOK, Interface!Block,
     Interface!ringVars, Interface!blockVars
<1>3. BlocksAtPiece'
  <2>1. BlocksAtPiece
    BY DEF InterfaceIInv
  <2>2. CASE Interface!AllocateBuffers
    BY <2>1, <2>2 DEF BlocksAtPiece, Interface!blockVars
  <2>3. CASE Interface!AllocateOutput
    BY <2>1, <2>3 DEF BlocksAtPiece
  <2>4. CASE Interface!AllocateInput
    BY <2>1, <2>4 DEF InterfaceIInv, Interface!TypeOK, Interface!Block, BlocksAtPiece
  <2> QED
    BY <2>2, <2>3, <2>4
<1> QED
  BY <1>2, <1>3 DEF InterfaceIInv

(* A head that is advanced stays a word. *)
LEMMA HeadsStay ==
    ASSUME Interface!InterfaceAssumption, NEW h \in Nat
    PROVE  h % HeadWord \in 0 .. HeadWord - 1
<1>1. HeadWord \in Nat \ {0}
  BY DEF Interface!InterfaceAssumption
<1> QED
  BY <1>1

(* The program and update(): only FreeMemory() touches the blocks. *)
LEMMA RingStep ==
    ASSUME Interface!InterfaceAssumption, InterfaceIInv,
           Interface!Update \/ \E b \in Interface!Kind : Interface!ProgramWrites(b)
    PROVE  InterfaceIInv'
<1> USE DEF Interface!InterfaceAssumption
<1>1. /\ output_read_head \in Nat /\ output_write_head \in Nat
      /\ HeadWord \in Nat \ {0} /\ PointerBytes \in Nat
  BY DEF InterfaceIInv, Interface!TypeOK
<1>2. ASSUME NEW b \in Interface!Kind, Interface!ProgramWrites(b)
      PROVE  InterfaceIInv'
  <2>1. output_write_head' \in 0 .. HeadWord - 1
    BY <1>1, <1>2, HeadsStay DEF Interface!ProgramWrites
  <2>2. writes' \in 0 .. MaxWrites
    BY <1>2 DEF InterfaceIInv, Interface!TypeOK, Interface!ProgramWrites
  <2>3. /\ pc' = pc /\ buffers' = buffers /\ heap' = heap /\ unsound' = unsound
        /\ output_read_head' = output_read_head
    BY <1>2 DEF Interface!ProgramWrites, Interface!blockVars
  <2>4. output_buffer' \in [0 .. HeadWord - 1 -> Interface!Kind]
    BY <1>2 DEF InterfaceIInv, Interface!TypeOK, Interface!ProgramWrites
  <2> QED
    BY <2>1, <2>2, <2>3, <2>4 DEF InterfaceIInv, Interface!TypeOK, BlocksAtPiece
<1>3. CASE Interface!FreeMemory
  <2>1. (output_read_head + 1) % HeadWord \in Nat
    BY <1>1
  <2>2. output_read_head' \in 0 .. HeadWord - 1
    BY <1>1, <1>3, <2>1, HeadsStay DEF Interface!FreeMemory
  <2>3. /\ pc' = pc /\ buffers' = buffers /\ writes' = writes
        /\ output_write_head' = output_write_head /\ output_buffer' = output_buffer
    BY <1>3 DEF Interface!FreeMemory
  <2>4. /\ pc = "ready" /\ buffers # "null"
        /\ \/ heap' = heap \ {"output"} /\ unsound' = unsound
           \/ heap' = heap /\ unsound' = unsound \cup {"inside"}
    BY <1>3 DEF Interface!FreeMemory, Interface!Updating
  <2>5. Interface!TypeOK'
    BY <2>2, <2>3, <2>4 DEF InterfaceIInv, Interface!TypeOK
  <2>6. BlocksAtPiece'
    BY <2>3, <2>4 DEF InterfaceIInv, BlocksAtPiece
  <2> QED
    BY <2>5, <2>6 DEF InterfaceIInv
<1>4. CASE Interface!SkipUnknown
  <2>1. output_read_head' \in 0 .. HeadWord - 1
    BY <1>1, <1>4, HeadsStay DEF Interface!SkipUnknown
  <2> QED
    BY <1>4, <2>1 DEF InterfaceIInv, Interface!TypeOK, BlocksAtPiece,
       Interface!SkipUnknown, Interface!blockVars
<1> QED
  BY <1>2, <1>3, <1>4 DEF Interface!Update

(* The destructor: what the constructor left is what it frees. *)
LEMMA DestroyStep ==
    ASSUME InterfaceIInv, Interface!Destroy
    PROVE  InterfaceIInv'
<1>1. /\ pc = "ready" /\ pc' = "deleted"
      /\ UNCHANGED <<buffers, Interface!ringVars>>
  BY DEF Interface!Destroy
<1>2. CASE buffers = "null"
  <2>1. heap' = heap \ {"stream"} /\ unsound' = unsound
    BY <1>2 DEF Interface!Destroy
  <2> QED
    BY <1>1, <1>2, <2>1 DEF InterfaceIInv, Interface!TypeOK, BlocksAtPiece,
       Interface!ringVars
<1>3. CASE buffers # "null"
  <2>1. /\ heap' = heap \ {"buffers", "output", "input", "stream"}
        /\ unsound' = unsound \cup ({"buffers", "output"} \ heap)
    BY <1>3 DEF Interface!Destroy
  <2>2. heap' = {}
    BY <2>1 DEF InterfaceIInv, Interface!TypeOK, Interface!Block
  <2>3. Interface!TypeOK'
    BY <1>1, <2>1, <2>2 DEF InterfaceIInv, Interface!TypeOK, Interface!Block,
       Interface!ringVars
  <2>4. buffers' # "dangling" => "buffers" \notin unsound'
    BY <1>1, <1>3, <2>1 DEF InterfaceIInv, Interface!TypeOK, BlocksAtPiece
  <2> QED
    BY <1>1, <2>2, <2>3, <2>4 DEF InterfaceIInv, BlocksAtPiece
<1> QED
  BY <1>2, <1>3

LEMMA InterfaceInductive ==
    ASSUME Interface!InterfaceAssumption, InterfaceIInv, [Interface!Next]_(Interface!vars)
    PROVE  InterfaceIInv'
<1>1. CASE UNCHANGED Interface!vars
  BY <1>1 DEF InterfaceIInv, Interface!TypeOK, BlocksAtPiece, Interface!vars,
     Interface!blockVars, Interface!ringVars
<1> QED
  BY <1>1, AllocateStep, RingStep, DestroyStep DEF Interface!Next

InterfaceIsSound == part = "interface" => InterfaceIInv

(* Whichever allocation fails, what the pointer leads to is whole while    *)
(* the object lives, is freed once, and nothing is left behind; but for a  *)
(* second ring that was not allocated.                                     *)
THEOREM InterfaceOwnsItsBlocks ==
    ServicesSpec => []BuffersAreOwned
<1> USE ServicesAssumption
<1>1. ServicesInit => InterfaceIsSound
  BY OneServiceStarts, InterfaceInitially DEF InterfaceIsSound
<1>2. InterfaceIsSound /\ [ServicesNext]_servicesVars => InterfaceIsSound'
  BY OneServiceSteps, InterfaceInductive DEF InterfaceIsSound
<1>3. InterfaceIsSound => BuffersAreOwned
  BY DEF InterfaceIsSound, BuffersAreOwned, InterfaceIInv, BlocksAtPiece,
     Interface!TypeOK, Interface!FreedOnce, Interface!DeletedIsClean
<1> QED
  BY <1>1, <1>2, <1>3, PTL DEF ServicesSpec

(* A difference of two words, as a word. *)
Distance(from, to) == IF to >= from THEN to - from ELSE to - from + HeadWord

LEMMA DistanceIsDelta ==
    ASSUME Interface!InterfaceAssumption,
           NEW from \in 0 .. HeadWord - 1, NEW to \in 0 .. HeadWord - 1
    PROVE  (to - from) % HeadWord = Distance(from, to)
BY DEF Interface!InterfaceAssumption, Distance

LEMMA AdvanceIs ==
    ASSUME Interface!InterfaceAssumption,
           NEW h \in 0 .. HeadWord - 1, NEW n \in 0 .. HeadWord - 1
    PROVE  (h + n) % HeadWord = IF h + n < HeadWord THEN h + n ELSE h + n - HeadWord
BY DEF Interface!InterfaceAssumption

(* Behind by d, a reader that advances by n of them is behind by d - n. *)
LEMMA AdvanceReader ==
    ASSUME Interface!InterfaceAssumption,
           NEW from \in 0 .. HeadWord - 1, NEW to \in 0 .. HeadWord - 1,
           NEW n \in 0 .. HeadWord - 1, n <= Distance(from, to)
    PROVE  /\ (from + n) % HeadWord \in 0 .. HeadWord - 1
           /\ Distance((from + n) % HeadWord, to) = Distance(from, to) - n
<1>1. (from + n) % HeadWord
        = IF from + n < HeadWord THEN from + n ELSE from + n - HeadWord
  BY AdvanceIs
<1> QED
  BY <1>1 DEF Interface!InterfaceAssumption, Distance

LEMMA UpdateStaysBehind ==
    ASSUME Interface!InterfaceAssumption, InterfaceIInv, InterfaceIInv',
           Interface!FreeMemory \/ Interface!SkipUnknown
    PROVE  Interface!delta_out' < Interface!delta_out
<1> DEFINE r == output_read_head
           w == output_write_head
<1>1. /\ r \in 0 .. HeadWord - 1 /\ w \in 0 .. HeadWord - 1
      /\ w' = w /\ r' \in 0 .. HeadWord - 1
  BY DEF InterfaceIInv, Interface!TypeOK, Interface!FreeMemory, Interface!SkipUnknown
<1>2. /\ Interface!delta_out = Distance(r, w) /\ Interface!delta_out' = Distance(r', w)
      /\ Distance(r, w) \in Nat /\ Distance(r, w) < HeadWord
  <2>1. Interface!delta_out = Distance(r, w) /\ Interface!delta_out' = Distance(r', w')
    BY <1>1, DistanceIsDelta DEF Interface!delta_out
  <2> QED
    BY <1>1, <2>1 DEF Distance, Interface!InterfaceAssumption
<1>3. Interface!delta_out > 0
  BY DEF Interface!FreeMemory, Interface!SkipUnknown, Interface!Updating
<1>4. 1 \in 0 .. HeadWord - 1 /\ 1 <= Distance(r, w)
  BY <1>2, <1>3 DEF Interface!InterfaceAssumption
<1>5. /\ (r + 1) % HeadWord \in 0 .. HeadWord - 1
      /\ Distance((r + 1) % HeadWord, w) = Distance(r, w) - 1
  BY <1>1, <1>4, AdvanceReader
<1>6. CASE Interface!SkipUnknown
  BY <1>2, <1>5, <1>6 DEF Interface!SkipUnknown
<1>7. CASE Interface!FreeMemory
  <2>1. PointerBytes < Distance(r, w) /\ PointerBytes \in 0 .. HeadWord - 1
    BY <1>2, <1>7 DEF Interface!FreeMemory, Interface!HasPointer,
       Interface!InterfaceAssumption
  <2>2. r' = (((r + 1) % HeadWord) + PointerBytes) % HeadWord
    BY <1>7 DEF Interface!FreeMemory
  <2>3. PointerBytes <= Distance((r + 1) % HeadWord, w)
    BY <1>2, <1>5, <2>1
  <2>4. Distance(r', w) = Distance((r + 1) % HeadWord, w) - PointerBytes
    BY <1>1, <1>5, <2>1, <2>2, <2>3, AdvanceReader
  <2> QED
    BY <1>2, <1>5, <2>1, <2>4
<1> QED
  BY <1>6, <1>7

(* The parts that are not an interface have no heads that move. *)
LEMMA HeadsMoveInInterface ==
    ASSUME [ServicesNext]_servicesVars, output_read_head' # output_read_head
    PROVE  part = "interface" /\ (Interface!FreeMemory \/ Interface!SkipUnknown)
<1>1. part = "interface" /\ Interface!Next
  BY DEF ServicesNext, ScriptStep, StringStep, PointerStep, ScreenStep,
     InterfaceStep, interfaceVars, servicesVars
<1> QED
  BY <1>1 DEF Interface!Next, Interface!Update, Interface!AllocateBuffers,
     Interface!AllocateOutput, Interface!AllocateInput,
     Interface!ProgramWrites, Interface!Destroy, Interface!ringVars

(* update() never reads past what the program has written, from wherever   *)
(* the heads start and wherever they wrap.                                 *)
THEOREM ReaderNeverOvertakes ==
    ServicesSpec => ReaderStaysBehind
<1> USE ServicesAssumption
<1>1. ServicesInit => InterfaceIsSound
  BY OneServiceStarts, InterfaceInitially DEF InterfaceIsSound
<1>2. InterfaceIsSound /\ [ServicesNext]_servicesVars => InterfaceIsSound'
  BY OneServiceSteps, InterfaceInductive DEF InterfaceIsSound
<1>3. InterfaceIsSound /\ InterfaceIsSound' /\ [ServicesNext]_servicesVars
        => [output_read_head' # output_read_head
               => Interface!delta_out' < Interface!delta_out]_(Interface!vars)
  BY HeadsMoveInInterface, OneServiceSteps, UpdateStaysBehind DEF InterfaceIsSound
<1> QED
  BY <1>1, <1>2, <1>3, PTL DEF ServicesSpec, ReaderStaysBehind, Interface!ReaderStaysBehind

---------------------------------------------------------------------------
(* What the one variable of bsod() holds of its first two calls until it   *)
(* has been shown, and when the screen is blue.                            *)
StatusIsKept ==
    /\ pc = "color" => failed = {} /\ attribute = "white on black"
    /\ pc \in {"clear", "show"} => (failed \cap {"color", "clear"} # {} => status)
    /\ pc \in {"key", "restore", "returned"} => (failed \cap {"color", "clear"} # {} => told)
    /\ attribute = "white on blue" => "color" \notin failed
    /\ (pc = "returned" /\ attribute = "white on blue") => "restore" \in failed

ScreenIInv == Screen!TypeOK /\ StatusIsKept

LEMMA ScreenInitially ==
    ASSUME Screen!BlueScreenAssumption, Screen!Init
    PROVE  ScreenIInv
BY DEF Screen!BlueScreenAssumption, Screen!Init, ScreenIInv, Screen!TypeOK, StatusIsKept

LEMMA ScreenInductive ==
    ASSUME Screen!BlueScreenAssumption, ScreenIInv, [Screen!Next]_(Screen!vars)
    PROVE  ScreenIInv'
<1>0. keys \in 0 .. MaxKeys /\ MaxKeys \in Nat
  BY DEF ScreenIInv, Screen!TypeOK, Screen!BlueScreenAssumption
<1> USE DEF ScreenIInv, Screen!TypeOK, StatusIsKept
<1>1. CASE UNCHANGED Screen!vars
  BY <1>1 DEF Screen!vars
<1>2. CASE Screen!SetColor
  BY <1>2 DEF Screen!SetColor, Screen!SetAttribute, Screen!Accumulated
<1>3. CASE Screen!Clear
  BY <1>3 DEF Screen!Clear, Screen!Accumulated
<1>4. CASE Screen!Show
  BY <1>4 DEF Screen!Show, Screen!Name
<1>5. CASE Screen!ReadKey
  <2> HIDE DEF ScreenIInv
  <2>1. keys' \in 0 .. MaxKeys
    BY <1>0, <1>5 DEF Screen!ReadKey
  <2> USE DEF ScreenIInv
  <2> QED
    BY <1>5, <2>1 DEF Screen!ReadKey
<1>6. CASE Screen!NoKey
  BY <1>6 DEF Screen!NoKey
<1>7. CASE Screen!Restore
  BY <1>7 DEF Screen!Restore, Screen!SetAttribute
<1>8. CASE Screen!Type
  <2> HIDE DEF ScreenIInv
  <2>1. keys' \in 0 .. MaxKeys
    BY <1>0, <1>8 DEF Screen!Type
  <2> USE DEF ScreenIInv
  <2> QED
    BY <1>8, <2>1 DEF Screen!Type
<1> QED
  BY <1>1, <1>2, <1>3, <1>4, <1>5, <1>6, <1>7, <1>8 DEF Screen!Next, Screen!Proceed

ScreenIsSound == part = "bsod" => ScreenIInv

(* Whichever calls of the firmware fail, a screen that could not be set up *)
(* is announced, although both statuses went into one variable, and only a *)
(* failure of the last call leaves it blue.                                *)
THEOREM ScreenTellsItsFailures ==
    ServicesSpec => []ScreenIsHonest
<1> USE ServicesAssumption
<1>1. ServicesInit => ScreenIsSound
  BY OneServiceStarts, ScreenInitially DEF ScreenIsSound
<1>2. ScreenIsSound /\ [ServicesNext]_servicesVars => ScreenIsSound'
  BY OneServiceSteps, ScreenInductive DEF ScreenIsSound
<1>3. ScreenIsSound => ScreenIsHonest
  BY DEF ScreenIsSound, ScreenIsHonest, ScreenIInv, StatusIsKept,
     Screen!FailuresAreTold, Screen!LeavesBlack
<1> QED
  BY <1>1, <1>2, <1>3, PTL DEF ServicesSpec

---------------------------------------------------------------------------
(* Induction, and functions that are defined by it. *)
LEMMA SetInduction ==
    ASSUME NEW S, 0 \in S, \A n \in Nat : n \in S => n + 1 \in S
    PROVE  Nat \subseteq S
<1> SUFFICES ASSUME NEW n \in Nat, n \notin S PROVE FALSE
  OBVIOUS
<1> DEFINE T == Nat \ S
<1>1. T \subseteq Nat /\ T # {}
  OBVIOUS
<1> HIDE DEF T
<1>2. PICK m \in T : \A k \in T : <<k, m>> \notin OpToRel(<, Nat)
  BY <1>1, WFMin, NatLessThanWellFounded
<1>3. \A k \in T : ~(k < m)
  BY <1>1, <1>2 DEF OpToRel
<1> QED
  BY <1>3 DEF T

LEMMA RangeInduction ==
    ASSUME NEW N \in Nat, NEW S, 0 \in S, \A n \in 0 .. N - 1 : n \in S => n + 1 \in S
    PROVE  0 .. N \subseteq S
<1> DEFINE T == {n \in Nat : n <= N => n \in S}
<1>1. 0 \in T
  OBVIOUS
<1>2. \A n \in Nat : n \in T => n + 1 \in T
  OBVIOUS
<1> HIDE DEF T
<1>3. Nat \subseteq T
  BY <1>1, <1>2, SetInduction
<1> QED
  BY <1>3 DEF T

(* The values that g makes of a, one after another, up to place N. *)
Recursive(f, A, a, g, N) ==
    /\ f \in [0 .. N -> A]
    /\ f[0] = a
    /\ \A n \in 1 .. N : f[n] = g[<<f[n - 1], n>>]

LEMMA RecursionExists ==
    ASSUME NEW A, NEW a, NEW g, NEW N, a \in A, g \in [A \X Nat -> A], N \in Nat
    PROVE  \E f : Recursive(f, A, a, g, N)
<1> DEFINE IsRecursive(f, k) ==
               f[0] = a /\ \A n \in 1 .. k : f[n] = g[<<f[n - 1], n>>]
           S == {k \in Nat : \E f \in [0 .. k -> A] : IsRecursive(f, k)}
<1>1. 0 \in S
  <2>1. [n \in 0 .. 0 |-> a] \in [0 .. 0 -> A]
    OBVIOUS
  <2>2. IsRecursive([n \in 0 .. 0 |-> a], 0)
    OBVIOUS
  <2> QED
    BY <2>1, <2>2
<1>2. ASSUME NEW k \in Nat, k \in S
      PROVE  k + 1 \in S
  <2>1. PICK f \in [0 .. k -> A] : IsRecursive(f, k)
    BY <1>2
  <2> DEFINE h == [n \in 0 .. k + 1 |-> IF n = k + 1 THEN g[<<f[k], k + 1>>] ELSE f[n]]
  <2>2. g[<<f[k], k + 1>>] \in A
    BY <2>1
  <2>3. h \in [0 .. k + 1 -> A]
    BY <2>1, <2>2
  <2>4. h[0] = a
    BY <2>1
  <2>5. ASSUME NEW n \in 1 .. k + 1
        PROVE  h[n] = g[<<h[n - 1], n>>]
    <3>1. CASE n = k + 1
      <4>1. n - 1 = k /\ n - 1 \in 0 .. k + 1 /\ n - 1 # k + 1
        BY <3>1
      <4>2. h[n] = g[<<f[k], k + 1>>] /\ h[n - 1] = f[k]
        BY <3>1, <4>1
      <4> HIDE DEF h
      <4> QED
        BY <3>1, <4>1, <4>2
    <3>2. CASE n \in 1 .. k
      <4>1. f[n] = g[<<f[n - 1], n>>]
        BY <2>1, <3>2
      <4>2. h[n] = f[n] /\ h[n - 1] = f[n - 1]
        BY <3>2
      <4> HIDE DEF h
      <4> QED
        BY <4>1, <4>2
    <3> QED
      BY <3>1, <3>2
  <2> HIDE DEF h
  <2> QED
    BY <2>3, <2>4, <2>5
<1>3. N \in S
  <2> HIDE DEF S
  <2> QED
    BY <1>1, <1>2, SetInduction
<1> QED
  BY <1>3 DEF Recursive

---------------------------------------------------------------------------
(* A cursor on its way over an axis. *)
Places == 0 .. PointerWord - 1

Squared(movement, r) == Pointer!Distance(movement, r) * Pointer!Distance(movement, r)

(* The places after each of some movements. *)
IsWay(f, movements, a, r) ==
    /\ f \in [0 .. Len(movements) -> Places]
    /\ f[0] = Start
    /\ \A n \in 1 .. Len(movements) :
           f[n] = (f[n - 1] + Squared(movements[n][a], r)) % PointerWord

LEMMA DistanceIsInt ==
    ASSUME Pointer!PointerAssumption, NEW m \in Movements, NEW r \in Nat \ {0}
    PROVE  /\ Pointer!Signed(m, PointerWord) \in Int
           /\ Pointer!Distance(m, r) \in Int
           /\ Squared(m, r) \in Int
<1> DEFINE n == Pointer!Signed(m, PointerWord)
           d == Pointer!Distance(m, r)
<1>1. m \in Nat /\ PointerWord \in Nat \ {0}
  BY DEF Pointer!PointerAssumption
<1>2. n \in Int
  BY <1>1 DEF Pointer!Signed
<1>3. d = IF n >= 0 THEN n \div r ELSE (r - n - 1) \div r
  BY DEF Pointer!Distance
<1> HIDE DEF n, d
<1>4. d \in Int
  BY <1>2, <1>3
<1>5. d * d \in Int
  BY <1>4
<1> QED
  BY <1>2, <1>4, <1>5 DEF n, d, Squared

LEMMA WayIsPlaceAfter ==
    ASSUME Pointer!PointerAssumption, NEW a \in Pointer!Axis, NEW r \in Nat \ {0},
           NEW movements \in Seq(Pointer!Movement)
    PROVE  \E f : /\ IsWay(f, movements, a, r)
                  /\ Pointer!PlaceAfter(movements, a, r) = f[Len(movements)]
<1> DEFINE N == Len(movements)
           W == PointerWord
           E(f) == [n \in 0 .. N |-> IF n = 0 THEN Start
                        ELSE (f[n - 1] + Squared(movements[n][a], r)) % W]
           s == [n \in Nat |-> IF n \in 1 .. N THEN Squared(movements[n][a], r) ELSE 0]
           g == [p \in Places \X Nat |-> (p[1] + s[p[2]]) % W]
<1>1. N \in Nat /\ W \in Nat \ {0} /\ Start \in Places
  BY DEF Pointer!PointerAssumption, Places
<1>2. ASSUME NEW n \in 1 .. N
      PROVE  Squared(movements[n][a], r) \in Int
  <2>1. movements[n] \in [Pointer!Axis -> Movements]
    BY DEF Pointer!Movement
  <2> QED
    BY <2>1, DistanceIsInt
<1>3. \A n \in Nat : s[n] \in Int
  BY <1>2
<1>4. g \in [Places \X Nat -> Places]
  <2>1. ASSUME NEW p \in Places \X Nat
        PROVE  (p[1] + s[p[2]]) % W \in Places
    <3>1. p[1] \in Int /\ s[p[2]] \in Int
      BY <1>3 DEF Places
    <3>2. \A x \in Int : x % W \in 0 .. W - 1
      BY <1>1
    <3> HIDE DEF s, W, N, E, g, Places
    <3>3. p[1] + s[p[2]] \in Int
      BY <3>1
    <3>4. (p[1] + s[p[2]]) % W \in 0 .. W - 1
      BY <3>2, <3>3
    <3> QED
      BY <3>4 DEF Places, W
  <2> QED
    BY <2>1
<1>5. PICK f : f \in [0 .. N -> Places] /\ f[0] = Start
                 /\ \A n \in 1 .. N : f[n] = g[<<f[n - 1], n>>]
  <2>1. Start \in Places
    BY <1>1
  <2>2. N \in Nat
    BY <1>1
  <2> HIDE DEF g, N
  <2>3. \E f : Recursive(f, Places, Start, g, N)
    BY <1>4, <2>1, <2>2, RecursionExists
  <2> QED
    BY <2>3 DEF Recursive
<1>6. ASSUME NEW n \in 1 .. N
      PROVE  f[n] = (f[n - 1] + Squared(movements[n][a], r)) % W
  <2>1. n \in Nat /\ n # 0 /\ n - 1 \in 0 .. N /\ n \in 0 .. N
    BY <1>1
  <2>2. f[n] = g[<<f[n - 1], n>>] /\ f[n - 1] \in Places
    <3> HIDE DEF g, N
    <3> QED
      BY <1>5, <2>1
  <2> QED
    BY <2>1, <2>2
<1>7. f[0] = Start
  BY <1>5
<1>8. f = E(f)
  BY <1>1, <1>5, <1>6, <1>7
<1> DEFINE c == CHOOSE h : h = E(h)
<1>9. c = E(c)
  BY <1>8
<1>10. Pointer!PlaceAfter(movements, a, r) = c[N]
  BY DEF Pointer!PlaceAfter, Squared
<1> HIDE DEF c
<1>11. ASSUME NEW n \in 0 .. N
       PROVE  c[n] = f[n]
  <2> DEFINE S == {k \in 0 .. N : c[k] = f[k]}
  <2>1. 0 \in S
    BY <1>1, <1>7, <1>9
  <2>2. ASSUME NEW k \in 0 .. N - 1, k \in S
        PROVE  k + 1 \in S
    <3>1. k + 1 \in 1 .. N /\ k + 1 # 0 /\ (k + 1) - 1 = k /\ c[k] = f[k]
      BY <1>1, <2>2
    <3>2. c[k + 1] = (c[k] + Squared(movements[k + 1][a], r)) % W
      BY <1>9, <3>1
    <3>3. f[k + 1] = (f[k] + Squared(movements[k + 1][a], r)) % W
      BY <1>6, <3>1
    <3> QED
      BY <3>1, <3>2, <3>3
  <2> HIDE DEF S, N
  <2>3. 0 .. N \subseteq S
    BY <1>1, <2>1, <2>2, RangeInduction
  <2> QED
    BY <2>3 DEF S
<1>12. IsWay(f, movements, a, r)
  BY <1>5, <1>6, <1>7 DEF IsWay
<1> QED
  BY <1>1, <1>10, <1>11, <1>12

LEMMA WaysAgree ==
    ASSUME Pointer!PointerAssumption, NEW a, NEW r,
           NEW movements \in Seq(Pointer!Movement), NEW m \in Pointer!Movement,
           NEW f, NEW h, IsWay(f, movements, a, r), IsWay(h, Append(movements, m), a, r)
    PROVE  h[Len(movements)] = f[Len(movements)]
<1> DEFINE N == Len(movements)
           S == {k \in 0 .. N : h[k] = f[k]}
           longer == Append(movements, m)
<1>1. N \in Nat /\ Len(longer) = N + 1 /\ \A n \in 1 .. N : longer[n] = movements[n]
  OBVIOUS
<1> HIDE DEF N, longer
<1>2. /\ f[0] = Start
      /\ \A n \in 1 .. N : f[n] = (f[n - 1] + Squared(movements[n][a], r)) % PointerWord
  BY DEF IsWay, N
<1>3. /\ h[0] = Start
      /\ \A n \in 1 .. N + 1 :
            h[n] = (h[n - 1] + Squared(longer[n][a], r)) % PointerWord
  BY <1>1 DEF IsWay, longer
<1>4. 0 \in S
  BY <1>1, <1>2, <1>3
<1>5. ASSUME NEW k \in 0 .. N - 1, k \in S
      PROVE  k + 1 \in S
  <2>1. k + 1 \in 1 .. N /\ k + 1 \in 1 .. N + 1 /\ (k + 1) - 1 = k /\ h[k] = f[k]
    BY <1>1, <1>5
  <2>2. f[k + 1] = (f[k] + Squared(movements[k + 1][a], r)) % PointerWord
    BY <1>2, <2>1
  <2>3. h[k + 1] = (h[k] + Squared(longer[k + 1][a], r)) % PointerWord
    BY <1>3, <2>1
  <2>4. longer[k + 1] = movements[k + 1]
    BY <1>1, <2>1
  <2>5. k + 1 \in 0 .. N
    BY <1>1, <2>1
  <2> QED
    BY <2>1, <2>2, <2>3, <2>4, <2>5
<1> HIDE DEF S
<1>6. 0 .. N \subseteq S
  BY <1>1, <1>4, <1>5, RangeInduction
<1>7. N \in S
  BY <1>1, <1>6
<1> QED
  BY <1>7 DEF S, N

(* A movement takes the cursor by one more square. *)
LEMMA PlaceAfterNone ==
    ASSUME Pointer!PointerAssumption, NEW a \in Pointer!Axis, NEW r \in Nat \ {0}
    PROVE  Pointer!PlaceAfter(<<>>, a, r) = Start
<1>1. <<>> \in Seq(Pointer!Movement) /\ Len(<<>>) = 0
  OBVIOUS
<1>2. PICK f : /\ IsWay(f, <<>>, a, r)
               /\ Pointer!PlaceAfter(<<>>, a, r) = f[Len(<<>>)]
  BY <1>1, WayIsPlaceAfter
<1> QED
  BY <1>1, <1>2 DEF IsWay

LEMMA PlaceAfterOneMore ==
    ASSUME Pointer!PointerAssumption, NEW a \in Pointer!Axis, NEW r \in Nat \ {0},
           NEW movements \in Seq(Pointer!Movement), NEW m \in Pointer!Movement
    PROVE  /\ Pointer!PlaceAfter(movements, a, r) \in Places
           /\ Pointer!PlaceAfter(Append(movements, m), a, r) =
                  (Pointer!PlaceAfter(movements, a, r) + Squared(m[a], r)) % PointerWord
<1> DEFINE N == Len(movements)
           longer == Append(movements, m)
<1>1. /\ N \in Nat /\ longer \in Seq(Pointer!Movement) /\ Len(longer) = N + 1
      /\ longer[N + 1] = m
  OBVIOUS
<1>2. PICK f : IsWay(f, movements, a, r) /\ Pointer!PlaceAfter(movements, a, r) = f[N]
  BY WayIsPlaceAfter
<1> HIDE DEF longer
<1>3. PICK h : IsWay(h, longer, a, r) /\ Pointer!PlaceAfter(longer, a, r) = h[Len(longer)]
  BY <1>1, WayIsPlaceAfter
<1>4. h[N] = f[N]
  BY <1>2, <1>3, WaysAgree DEF longer
<1>5. h[N + 1] = (h[N] + Squared(m[a], r)) % PointerWord
  <2>1. N + 1 \in 1 .. Len(longer) /\ (N + 1) - 1 = N
    BY <1>1
  <2> HIDE DEF N
  <2>2. h[N + 1] = (h[(N + 1) - 1] + Squared(longer[N + 1][a], r)) % PointerWord
    BY <1>3, <2>1 DEF IsWay
  <2> QED
    BY <1>1, <2>1, <2>2
<1>6. f[N] \in Places
  BY <1>1, <1>2 DEF IsWay
<1> HIDE DEF N
<1>7. Pointer!PlaceAfter(longer, a, r) = (Pointer!PlaceAfter(movements, a, r) + Squared(m[a], r)) % PointerWord
  BY <1>1, <1>2, <1>3, <1>4, <1>5
<1> QED
  BY <1>2, <1>6, <1>7 DEF longer

(* The same remainder, some words further. *)
LEMMA DivisionIsUnique ==
    ASSUME NEW d \in Nat \ {0}, NEW q \in Int, NEW r \in 0 .. d - 1
    PROVE  ((d * q) + r) % d = r /\ ((d * q) + r) \div d = q
<1> DEFINE n == (d * q) + r
           k == n \div d
           m == n % d
<1>1. n \in Int /\ k \in Int /\ m \in 0 .. d - 1 /\ n = (d * k) + m
  OBVIOUS
<1> HIDE DEF k, m
<1>2. d * (k - q) = r - m
  BY <1>1
<1>3. ~(k - q >= 1)
  <2> SUFFICES ASSUME k - q >= 1 PROVE FALSE
    OBVIOUS
  <2>1. d * (k - q) >= d * 1
    BY <1>1
  <2> QED
    BY <1>1, <1>2, <2>1
<1>4. ~(q - k >= 1)
  <2> SUFFICES ASSUME q - k >= 1 PROVE FALSE
    OBVIOUS
  <2>1. d * (q - k) >= d * 1
    BY <1>1
  <2> QED
    BY <1>1, <1>2, <2>1
<1>5. k = q
  BY <1>1, <1>3, <1>4
<1>6. m = r
  BY <1>1, <1>2, <1>5
<1> QED
  BY <1>5, <1>6 DEF k, m

LEMMA WordsDoNotCount ==
    ASSUME NEW d \in Nat \ {0}, NEW x \in Int, NEW q \in Int
    PROVE  ((d * q) + x) % d = x % d
<1> DEFINE k == x \div d
           m == x % d
<1>1. k \in Int /\ m \in 0 .. d - 1 /\ x = (d * k) + m
  OBVIOUS
<1> HIDE DEF k, m
<1>2. (d * q) + x = (d * (q + k)) + m /\ q + k \in Int
  <2>1. d * (q + k) = (d * q) + (d * k)
    BY <1>1
  <2> QED
    BY <1>1, <2>1
<1> HIDE DEF k
<1>3. ((d * (q + k)) + m) % d = m
  BY <1>1, <1>2, DivisionIsUnique
<1> QED
  BY <1>2, <1>3 DEF m

(* Whatever is left of a negative step, its square takes the cursor as far *)
(* as the square of the distance.                                          *)
LEMMA SquareOfRest ==
    ASSUME NEW d \in Nat \ {0}, NEW c \in Int, NEW x \in Int, NEW s \in Int,
           s = (-x) % d
    PROVE  (c + (s * s)) % d = (c + (x * x)) % d
<1> DEFINE k == (-x) \div d
<1>1. k \in Int /\ -x = (d * k) + s
  OBVIOUS
<1> HIDE DEF k
<1> DEFINE q == (d * (k * k)) + (2 * (x * k))
<1>2. k * k \in Int /\ x * k \in Int /\ q \in Int /\ s * s \in Int /\ x * x \in Int
  BY <1>1
<1>3. s = -(x + (d * k))
  BY <1>1
<1>4. s * s = (x + (d * k)) * (x + (d * k))
  BY <1>1, <1>3
<1>5. (x + (d * k)) * (x + (d * k)) = (d * q) + (x * x)
  BY <1>1
<1>6. c + (s * s) = (d * q) + (c + (x * x))
  BY <1>2, <1>4, <1>5
<1>7. c + (x * x) \in Int
  BY <1>2
<1> HIDE DEF q
<1>8. ((d * q) + (c + (x * x))) % d = (c + (x * x)) % d
  BY <1>2, <1>7, WordsDoNotCount
<1> QED
  BY <1>6, <1>8

LEMMA BackOverResolution ==
    ASSUME NEW W \in Nat \ {0}, NEW L \in Nat, NEW r \in Nat \ {0}, NEW n \in Int,
           n < 0, -L <= n, L % (r * W) = 0
    PROVE  ((n % L) \div r) % W = (-((r - n - 1) \div r)) % W
<1> DEFINE y == r - n - 1
           x == y \div r
           d == r * W
           k == L \div d
           e == y % r
<1>1. d \in Nat \ {0}
  OBVIOUS
<1>2. k \in Int /\ L = d * k
  <2> HIDE DEF d
  <2>1. L % d = 0
    BY DEF d
  <2> QED
    BY <1>1, <2>1
<1>3. L = r * (W * k) /\ W * k \in Int
  <2> HIDE DEF k
  <2> QED
    BY <1>2
<1>4. y \in Int
  OBVIOUS
<1>5. x \in Int /\ e \in 0 .. r - 1 /\ y = (r * x) + e
  <2> HIDE DEF y
  <2> QED
    BY <1>4
<1>6. n % L = L + n
  <2>1. L \in Nat \ {0} /\ L + n \in 0 .. L - 1 /\ (L * (-1)) + (L + n) = n /\ -1 \in Int
    OBVIOUS
  <2>2. ((L * (-1)) + (L + n)) % L = L + n
    BY <2>1, DivisionIsUnique
  <2> QED
    BY <2>1, <2>2
<1>7. L + n = (r * ((W * k) - x)) + (r - 1 - e)
  <2> DEFINE j == W * k
  <2> HIDE DEF j, x, e, k, d
  <2>1. r * (j - x) = (r * j) - (r * x) /\ r * j \in Int /\ r * x \in Int
    BY <1>3, <1>5 DEF j
  <2>2. L = r * j
    BY <1>3 DEF j
  <2>3. L + n = (r * (j - x)) + (r - 1 - e)
    BY <1>5, <2>1, <2>2 DEF y
  <2> QED
    BY <2>3 DEF j
<1> HIDE DEF x, k, e, d, y
<1>8. (W * k) - x \in Int /\ r - 1 - e \in 0 .. r - 1
  BY <1>3, <1>5
<1>9. (L + n) \div r = (W * k) - x
  <2> DEFINE q == (W * k) - x
             s == r - 1 - e
  <2>1. q \in Int /\ s \in 0 .. r - 1 /\ L + n = (r * q) + s
    BY <1>7, <1>8
  <2> HIDE DEF q, s
  <2>2. ((r * q) + s) \div r = q
    BY <2>1, DivisionIsUnique
  <2>3. (L + n) \div r = q
    BY <2>1, <2>2
  <2> QED
    BY <2>3 DEF q
<1>10. ((W * k) + (-x)) % W = (-x) % W
  <2> DEFINE z == -x
  <2>1. z \in Int /\ k \in Int
    BY <1>2, <1>5
  <2> HIDE DEF z
  <2>2. ((W * k) + z) % W = z % W
    BY <2>1, WordsDoNotCount
  <2> QED
    BY <2>2 DEF z
<1>11. (W * k) - x = (W * k) + (-x)
  BY <1>3, <1>5
<1>12. ((n % L) \div r) % W = (-x) % W
  BY <1>6, <1>9, <1>10, <1>11
<1> QED
  BY <1>12 DEF x, y

(* A movement forwards takes its distance; one back takes what its         *)
(* distance leaves of a word, where the words are a multiple of the        *)
(* resolution.                                                             *)
LEMMA StepForwards ==
    ASSUME Pointer!PointerAssumption, NEW a, NEW m \in Movements,
           resolution[a] \in Nat \ {0}, Pointer!Signed(m, PointerWord) >= 0
    PROVE  Pointer!Step(m, a) = Pointer!Distance(m, resolution[a])
<1> DEFINE n == Pointer!Signed(m, PointerWord)
           r == resolution[a]
           W == PointerWord
           L == ResolutionWord
<1>1. /\ W \in Nat \ {0} /\ L \in Nat /\ W <= L /\ m \in 0 .. W - 1
  BY DEF Pointer!PointerAssumption
<1>2. n \in 0 .. W - 1
  BY <1>1 DEF Pointer!Signed
<1>3. Pointer!Step(m, a) = ((n % L) \div r) % W
  BY DEF Pointer!Step, Pointer!Extended
<1>4. Pointer!Distance(m, resolution[a]) = n \div r
  BY DEF Pointer!Distance
<1> HIDE DEF n, r
<1>5. r \in Nat \ {0}
  BY DEF r
<1>6. n % L = n
  BY <1>1, <1>2
<1>7. n \div r \in 0 .. n
  <2> DEFINE k == n \div r
  <2>1. k \in Int /\ n % r \in 0 .. r - 1 /\ n = (r * k) + (n % r)
    BY <1>2, <1>5
  <2>2. n % r \in Int
    BY <2>1
  <2> HIDE DEF k
  <2>3. k >= 0
    <3> SUFFICES ASSUME k <= -1 PROVE FALSE
      BY <2>1
    <3>1. r * k <= -r
      BY <1>5, <2>1
    <3> QED
      BY <1>2, <1>5, <2>1, <3>1
  <2>4. r * k >= k
    BY <1>5, <2>1, <2>3
  <2>5. k <= n
    BY <1>2, <1>5, <2>1, <2>4
  <2> QED
    BY <1>2, <2>1, <2>3, <2>5 DEF k
<1>8. (n \div r) % W = n \div r
  BY <1>1, <1>2, <1>7
<1> QED
  BY <1>3, <1>4, <1>6, <1>8

LEMMA StepBack ==
    ASSUME Pointer!PointerAssumption, NEW a, NEW m \in Movements,
           resolution[a] \in Nat \ {0}, Pointer!Signed(m, PointerWord) < 0,
           ResolutionWord % (resolution[a] * PointerWord) = 0
    PROVE  Pointer!Step(m, a) = (-Pointer!Distance(m, resolution[a])) % PointerWord
<1> DEFINE n == Pointer!Signed(m, PointerWord)
           r == resolution[a]
           W == PointerWord
           L == ResolutionWord
<1>1. /\ W \in Nat \ {0} /\ L \in Nat /\ W <= L /\ m \in 0 .. W - 1
  BY DEF Pointer!PointerAssumption
<1>2. n \in Int /\ n < 0 /\ -W <= n
  BY <1>1 DEF Pointer!Signed
<1>3. Pointer!Step(m, a) = ((n % L) \div r) % W
  BY DEF Pointer!Step, Pointer!Extended
<1>4. Pointer!Distance(m, resolution[a]) = (r - n - 1) \div r
  BY <1>2 DEF Pointer!Distance
<1>5. r \in Nat \ {0} /\ L % (r * W) = 0
  OBVIOUS
<1> HIDE DEF n, r
<1>6. -L <= n
  BY <1>1, <1>2
<1>7. ((n % L) \div r) % W = (-((r - n - 1) \div r)) % W
  BY <1>1, <1>2, <1>5, <1>6, BackOverResolution
<1> QED
  BY <1>3, <1>4, <1>7

(* Either way a movement takes the cursor by the square of its distance.   *)
LEMMA MovesByItsSquare ==
    ASSUME Pointer!PointerAssumption, NEW a, NEW m \in Movements, NEW c \in Int,
           resolution[a] \in Nat \ {0},
           \/ ResolutionWord % (resolution[a] * PointerWord) = 0
           \/ Pointer!Signed(m, PointerWord) >= 0
    PROVE  (c + (Pointer!Step(m, a) * Pointer!Step(m, a))) % PointerWord =
               (c + Squared(m, resolution[a])) % PointerWord
<1> DEFINE x == Pointer!Distance(m, resolution[a])
           s == Pointer!Step(m, a)
           n == Pointer!Signed(m, PointerWord)
<1>1. x \in Int /\ n \in Int /\ Squared(m, resolution[a]) = x * x
  BY DistanceIsInt DEF Squared
<1>2. PointerWord \in Nat \ {0}
  BY DEF Pointer!PointerAssumption
<1>3. CASE n >= 0
  <2>1. s = x
    BY <1>3, StepForwards
  <2> QED
    BY <1>1, <2>1
<1>4. CASE n < 0
  <2>1. ResolutionWord % (resolution[a] * PointerWord) = 0
    BY <1>1, <1>4
  <2>2. s = (-x) % PointerWord
    BY <1>4, <2>1, StepBack
  <2> HIDE DEF x, s
  <2>3. s \in Int
    BY <1>1, <1>2, <2>2
  <2>4. (c + (s * s)) % PointerWord = (c + (x * x)) % PointerWord
    BY <1>1, <1>2, <2>2, <2>3, SquareOfRest
  <2> QED
    BY <1>1, <2>4 DEF s
<1> HIDE DEF x, s, n
<1> QED
  BY <1>1, <1>3, <1>4

LEMMA StepIsInt ==
    ASSUME Pointer!PointerAssumption, NEW a, NEW m \in Movements,
           resolution[a] \in Nat \ {0}
    PROVE  Pointer!Step(m, a) \in Int
<1> DEFINE n == Pointer!Signed(m, PointerWord)
           r == resolution[a]
           k == n % ResolutionWord
           l == k \div r
<1>1. n \in Int /\ r \in Nat \ {0}
  BY DistanceIsInt
<1>2. PointerWord \in Nat \ {0} /\ ResolutionWord \in Nat \ {0}
  BY DEF Pointer!PointerAssumption
<1> HIDE DEF n, r
<1>3. k \in Int
  BY <1>1, <1>2
<1> HIDE DEF k
<1>4. l \in Int
  BY <1>1, <1>3
<1> HIDE DEF l
<1>5. l % PointerWord \in Int
  BY <1>2, <1>4
<1> QED
  BY <1>5 DEF Pointer!Step, Pointer!Extended, n, r, k, l

LEMMA PointerNumbers ==
    ASSUME Pointer!PointerAssumption
    PROVE  /\ PointerWord \in Nat \ {0} /\ MaxReads \in Nat
           /\ Start \in 0 .. PointerWord - 1
           /\ \A m \in Movements : m \in Int
           /\ \A r \in Resolutions : r \in Nat
<1>1. /\ PointerWord \in Nat \ {0} /\ MaxReads \in Nat
      /\ Start \in 0 .. PointerWord - 1 /\ ResolutionWord \in Nat
      /\ Movements \subseteq 0 .. PointerWord - 1
      /\ Resolutions \subseteq 0 .. ResolutionWord - 1
  BY DEF Pointer!PointerAssumption
<1>2. \A m \in Movements : m \in Int
  BY <1>1
<1>3. \A r \in Resolutions : r \in Nat
  BY <1>1
<1> QED
  BY <1>1, <1>2, <1>3

PointerIInv == Pointer!TypeOK /\ Pointer!CursorAddsSquares

LEMMA PointerInitially ==
    ASSUME Pointer!PointerAssumption, Pointer!Init
    PROVE  PointerIInv
<1>1. Pointer!TypeOK
  <2>1. <<>> \in [1 .. 0 -> Pointer!Movement] /\ 0 \in 0 .. MaxReads
    BY PointerNumbers
  <2>2. read \in UNION {[1 .. n -> Pointer!Movement] : n \in 0 .. MaxReads}
    BY <2>1 DEF Pointer!Init
  <2>3. cursor \in [Pointer!Axis -> 0 .. PointerWord - 1]
    BY PointerNumbers DEF Pointer!Init
  <2>4. position \in [Pointer!Axis -> Int]
    BY DEF Pointer!Init
  <2> QED
    BY <2>2, <2>3, <2>4 DEF Pointer!Init, Pointer!TypeOK
<1>2. ASSUME NEW a \in Pointer!Axis, resolution[a] > 0
      PROVE  cursor[a] = Pointer!PlaceAfter(read, a, resolution[a])
  <2>1. resolution[a] \in Resolutions
    BY DEF Pointer!Init
  <2>2. resolution[a] \in Nat \ {0}
    BY <1>2, <2>1, PointerNumbers
  <2>3. read = <<>> /\ cursor[a] = Start
    BY DEF Pointer!Init
  <2> QED
    BY <2>2, <2>3, PlaceAfterNone
<1> QED
  BY <1>1, <1>2 DEF PointerIInv, Pointer!CursorAddsSquares

(* The movements that are read are a sequence, and stay one. *)
LEMMA OneMoreMovement ==
    ASSUME NEW S, NEW n \in Nat, NEW s \in [1 .. n -> S], NEW m \in S
    PROVE  /\ s \in Seq(S) /\ Len(s) = n
           /\ Append(s, m) \in [1 .. n + 1 -> S]
           /\ DOMAIN s = 1 .. n /\ DOMAIN Append(s, m) = 1 .. n + 1
           /\ Append(s, m)[n + 1] = m
           /\ \A i \in 1 .. n : Append(s, m)[i] = s[i]
<1>1. s \in Seq(S) /\ Len(s) = n /\ DOMAIN s = 1 .. n
  OBVIOUS
<1>2. Append(s, m) \in Seq(S) /\ Len(Append(s, m)) = n + 1
  BY <1>1
<1>3. Append(s, m)[n + 1] = m
  BY <1>1
<1>4. \A i \in 1 .. n : Append(s, m)[i] = s[i]
  BY <1>1
<1>5. Append(s, m) \in [1 .. n + 1 -> S] /\ DOMAIN Append(s, m) = 1 .. n + 1
  <2> DEFINE t == Append(s, m)
  <2>1. t \in Seq(S) /\ Len(t) = n + 1
    BY <1>2
  <2> HIDE DEF t
  <2>2. t \in [1 .. n + 1 -> S] /\ DOMAIN t = 1 .. n + 1
    <3>1. DOMAIN t = 1 .. n + 1
      BY <2>1
    <3>2. \A i \in 1 .. n + 1 : t[i] \in S
      BY <2>1
    <3>3. t = [i \in 1 .. n + 1 |-> t[i]]
      BY <2>1
    <3> QED
      BY <3>1, <3>2, <3>3
  <2> QED
    BY <2>2 DEF t
<1> QED
  BY <1>1, <1>3, <1>4, <1>5

LEMMA MoveStep ==
    ASSUME Pointer!PointerAssumption, PointerIInv, NEW m \in Pointer!Movement,
           Pointer!Move(m)
    PROVE  PointerIInv'
<1> USE DEF PointerIInv
<1>1. PICK n \in 0 .. MaxReads : read \in [1 .. n -> Pointer!Movement]
  BY DEF Pointer!TypeOK
<1>2. n \in Nat /\ MaxReads \in Nat
  BY DEF Pointer!PointerAssumption
<1>3. read \in Seq(Pointer!Movement) /\ Len(read) = n
  BY <1>1, <1>2, OneMoreMovement
<1>4. CASE \E a \in Pointer!Axis : resolution[a] = 0
  <2>1. /\ pc' = "fault" /\ status' = TRUE
        /\ UNCHANGED <<cursor, read, exists, resolution, position, ready>>
    BY <1>4 DEF Pointer!Move
  <2> QED
    BY <2>1 DEF Pointer!TypeOK, Pointer!CursorAddsSquares
<1>5. CASE ~(\E a \in Pointer!Axis : resolution[a] = 0)
  <2>1. /\ cursor' = [a \in Pointer!Axis |->
                         (cursor[a] + (Pointer!Step(m[a], a) * Pointer!Step(m[a], a))) % PointerWord]
        /\ read' = Append(read, m) /\ status' = TRUE /\ n < MaxReads
        /\ UNCHANGED <<pc, exists, resolution, position, ready>>
    BY <1>3, <1>5 DEF Pointer!Move
  <2>2. read' \in [1 .. n + 1 -> Pointer!Movement] /\ n + 1 \in 0 .. MaxReads
    <3>1. Append(read, m) \in [1 .. n + 1 -> Pointer!Movement]
      BY <1>1, <1>2, OneMoreMovement
    <3> QED
      BY <1>2, <2>1, <3>1
  <2>3. ASSUME NEW a \in Pointer!Axis
        PROVE  /\ resolution[a] \in Nat \ {0} /\ resolution'[a] = resolution[a]
               /\ m[a] \in Movements /\ cursor[a] \in Int
    <3>1. m[a] \in Movements
      BY DEF Pointer!Movement
    <3>2. resolution[a] \in Nat
      <4>1. resolution[a] \in Resolutions
        BY DEF Pointer!TypeOK
      <4> QED
        BY <4>1, PointerNumbers
    <3>3. cursor[a] \in Int
      <4>1. cursor[a] \in 0 .. PointerWord - 1
        BY DEF Pointer!TypeOK
      <4> QED
        BY <4>1
    <3> QED
      BY <1>5, <2>1, <3>1, <3>2, <3>3
  <2>4. PointerWord \in Nat \ {0}
    BY DEF Pointer!PointerAssumption
  <2>5. cursor' \in [Pointer!Axis -> 0 .. PointerWord - 1]
    <3>1. ASSUME NEW a \in Pointer!Axis
          PROVE  (cursor[a] + (Pointer!Step(m[a], a) * Pointer!Step(m[a], a))) % PointerWord
                     \in 0 .. PointerWord - 1
      <4> DEFINE s == Pointer!Step(m[a], a)
      <4>1. s \in Int /\ cursor[a] \in Int
        BY <2>3, <2>4, StepIsInt
      <4> HIDE DEF s
      <4>2. s * s \in Int
        BY <4>1
      <4>3. cursor[a] + (s * s) \in Int
        BY <4>1, <4>2
      <4>4. (cursor[a] + (s * s)) % PointerWord \in 0 .. PointerWord - 1
        <5> DEFINE t == cursor[a] + (s * s)
        <5> HIDE DEF t
        <5>1. t % PointerWord \in 0 .. PointerWord - 1
          BY <2>4, <4>3 DEF t
        <5> QED
          BY <5>1 DEF t
      <4> QED
        BY <4>4 DEF s
    <3> QED
      BY <2>1, <3>1
  <2>6. Pointer!TypeOK'
    BY <1>2, <2>1, <2>2, <2>5 DEF Pointer!TypeOK
  <2>7. ASSUME NEW a \in Pointer!Axis,
               \/ ResolutionWord % (resolution[a] * PointerWord) = 0
               \/ \A i \in DOMAIN read' : Pointer!Signed(read'[i][a], PointerWord) >= 0
        PROVE  cursor'[a] = Pointer!PlaceAfter(read', a, resolution[a])
    <3>1. /\ DOMAIN read = 1 .. n /\ DOMAIN read' = 1 .. n + 1
          /\ read'[n + 1] = m /\ \A i \in 1 .. n : read'[i] = read[i]
      BY <1>1, <1>2, <2>1, OneMoreMovement
    <3>2. \/ ResolutionWord % (resolution[a] * PointerWord) = 0
          \/ /\ \A i \in DOMAIN read : Pointer!Signed(read[i][a], PointerWord) >= 0
             /\ Pointer!Signed(m[a], PointerWord) >= 0
      BY <1>2, <2>7, <3>1
    <3>3. cursor[a] = Pointer!PlaceAfter(read, a, resolution[a])
      BY <2>3, <3>2 DEF Pointer!CursorAddsSquares
    <3>4. cursor'[a] = (cursor[a] + (Pointer!Step(m[a], a) * Pointer!Step(m[a], a))) % PointerWord
      BY <2>1
    <3>5. cursor'[a] = (cursor[a] + Squared(m[a], resolution[a])) % PointerWord
      BY <2>3, <3>2, <3>4, MovesByItsSquare
    <3>6. Pointer!PlaceAfter(Append(read, m), a, resolution[a]) =
              (Pointer!PlaceAfter(read, a, resolution[a]) + Squared(m[a], resolution[a])) % PointerWord
      BY <1>3, <2>3, PlaceAfterOneMore
    <3> QED
      BY <2>1, <3>3, <3>5, <3>6
  <2>8. Pointer!CursorAddsSquares'
    BY <2>1, <2>7 DEF Pointer!CursorAddsSquares
  <2> QED
    BY <2>6, <2>8
<1> QED
  BY <1>4, <1>5

LEMMA PointerInductive ==
    ASSUME Pointer!PointerAssumption, PointerIInv, [Pointer!Next]_(Pointer!vars)
    PROVE  PointerIInv'
<1> USE DEF PointerIInv, Pointer!TypeOK, Pointer!CursorAddsSquares
<1>1. CASE Pointer!GetState
  <2>1. ASSUME NEW m \in Pointer!Movement, NEW a \in Pointer!Axis
        PROVE  position[a] + Pointer!Signed(m[a], PointerWord) \in Int
    <3>1. m[a] \in Movements
      BY DEF Pointer!Movement
    <3>2. m[a] \in Int /\ PointerWord \in Int
      BY <3>1, PointerNumbers
    <3>3. Pointer!Signed(m[a], PointerWord) \in Int
      BY <3>2 DEF Pointer!Signed
    <3> QED
      BY <3>3
  <2>2. position' \in [Pointer!Axis -> Int]
    BY <1>1, <2>1 DEF Pointer!GetState
  <2>3. pc' \in {"reset", "fault"}
        /\ UNCHANGED <<exists, resolution, status, ready, cursor, read>>
    BY <1>1 DEF Pointer!GetState
  <2> QED
    BY <2>2, <2>3
<1>2. CASE Pointer!Reset
  BY <1>2 DEF Pointer!Reset
<1>3. CASE Pointer!PressAnyKey
  BY <1>3 DEF Pointer!PressAnyKey
<1>4. CASE Pointer!NotReady
  BY <1>4 DEF Pointer!NotReady
<1>5. CASE Pointer!ReadFails
  BY <1>5 DEF Pointer!ReadFails
<1>6. CASE Pointer!SkipFirst
  BY <1>6 DEF Pointer!SkipFirst
<1>7. ASSUME NEW m \in Pointer!Movement, Pointer!Move(m)
      PROVE  PointerIInv'
  <2> HIDE DEF PointerIInv, Pointer!TypeOK, Pointer!CursorAddsSquares
  <2> QED
    BY <1>7, MoveStep
<1>8. CASE UNCHANGED Pointer!vars
  BY <1>8 DEF Pointer!vars
<1> HIDE DEF PointerIInv, Pointer!TypeOK, Pointer!CursorAddsSquares
<1> QED
  BY <1>1, <1>2, <1>3, <1>4, <1>5, <1>6, <1>7, <1>8 DEF Pointer!Next

PointerIsSound == part = "pointer" => PointerIInv

(* The cursor of "testpointer" goes the square of each movement, whichever *)
(* way the device was moved: over an axis whose resolution divides the     *)
(* words it is counted in, and over any axis while it is moved forwards.   *)
THEOREM CursorGoesOneWay ==
    ServicesSpec => []CursorNeverGoesBack
<1> USE ServicesAssumption
<1>1. ServicesInit => PointerIsSound
  BY OneServiceStarts, PointerInitially DEF PointerIsSound
<1>2. PointerIsSound /\ [ServicesNext]_servicesVars => PointerIsSound'
  BY OneServiceSteps, PointerInductive DEF PointerIsSound
<1>3. PointerIsSound => CursorNeverGoesBack
  BY DEF PointerIsSound, CursorNeverGoesBack, PointerIInv
<1> QED
  BY <1>1, <1>2, <1>3, PTL DEF ServicesSpec

---------------------------------------------------------------------------
(* What the recursive functions of Strings are, step by step. *)
LEMMA NumberGrows ==
    ASSUME NEW s, Len(s) \in Nat, \A n \in 1 .. Len(s) : s[n] \in Int, NEW b \in Int
    PROVE  /\ Strings!Number(s, 0, b) = 0
           /\ \A n \in 1 .. Len(s) :
                  Strings!Number(s, n, b) = (Strings!Number(s, n - 1, b) * b) + s[n]
<1> DEFINE N == Len(s)
           E(f) == [k \in 0 .. N |-> IF k = 0 THEN 0 ELSE (f[k - 1] * b) + s[k]]
           t == [k \in Nat |-> IF k \in 1 .. N THEN s[k] ELSE 0]
           g == [p \in Int \X Nat |-> (p[1] * b) + t[p[2]]]
           c == CHOOSE f : f = E(f)
<1>1. N \in Nat /\ \A n \in 1 .. N : s[n] \in Int
  OBVIOUS
<1>2. \A n \in Nat : t[n] \in Int
  BY <1>1
<1>3. g \in [Int \X Nat -> Int]
  <2>1. ASSUME NEW p \in Int \X Nat
        PROVE  (p[1] * b) + t[p[2]] \in Int
    <3>1. p[1] \in Int /\ t[p[2]] \in Int
      BY <1>2
    <3> HIDE DEF t
    <3>2. p[1] * b \in Int
      BY <3>1
    <3> QED
      BY <3>1, <3>2
  <2> HIDE DEF t
  <2> QED
    BY <2>1
<1>4. \E f : Recursive(f, Int, 0, g, N)
  <2> HIDE DEF g, N
  <2>1. 0 \in Int
    OBVIOUS
  <2> QED
    BY <1>1, <1>3, <2>1, RecursionExists
<1>5. PICK f : f \in [0 .. N -> Int] /\ f[0] = 0
               /\ \A n \in 1 .. N : f[n] = g[<<f[n - 1], n>>]
  <2> HIDE DEF g, N
  <2> QED
    BY <1>4 DEF Recursive
<1>6. ASSUME NEW n \in 1 .. N
      PROVE  f[n] = (f[n - 1] * b) + s[n]
  <2>1. n \in Nat /\ n # 0 /\ n - 1 \in 0 .. N /\ n \in 0 .. N
    BY <1>1
  <2>2. f[n] = g[<<f[n - 1], n>>] /\ f[n - 1] \in Int
    <3> HIDE DEF g, N
    <3> QED
      BY <1>5, <2>1
  <2> QED
    BY <2>1, <2>2
<1>7. f = E(f)
  BY <1>1, <1>5, <1>6
<1>8. c = E(c)
  BY <1>7
<1>9. \A n : Strings!Number(s, n, b) = c[n]
  BY DEF Strings!Number
<1> HIDE DEF c
<1>10. c[0] = 0
  BY <1>1, <1>8
<1>11. ASSUME NEW n \in 1 .. N
       PROVE  c[n] = (c[n - 1] * b) + s[n]
  <2>1. n \in 0 .. N /\ n # 0
    BY <1>1
  <2> QED
    BY <1>8, <2>1
<1> QED
  BY <1>9, <1>10, <1>11

LEMMA PowerGrows ==
    ASSUME NEW b \in Int, NEW N \in Nat
    PROVE  \E f : /\ f[0] = 1 /\ \A n \in 1 .. N : f[n] = f[n - 1] * b
                  /\ Strings!Power(b, N) = f[N]
<1> DEFINE E(f) == [k \in 0 .. N |-> IF k = 0 THEN 1 ELSE f[k - 1] * b]
           g == [p \in Int \X Nat |-> p[1] * b]
           c == CHOOSE f : f = E(f)
<1>1. g \in [Int \X Nat -> Int]
  OBVIOUS
<1>2. \E f : Recursive(f, Int, 1, g, N)
  <2> HIDE DEF g
  <2>1. 1 \in Int
    OBVIOUS
  <2> QED
    BY <1>1, <2>1, RecursionExists
<1>3. PICK f : f \in [0 .. N -> Int] /\ f[0] = 1
               /\ \A n \in 1 .. N : f[n] = g[<<f[n - 1], n>>]
  <2> HIDE DEF g
  <2> QED
    BY <1>2 DEF Recursive
<1>4. ASSUME NEW n \in 1 .. N
      PROVE  f[n] = f[n - 1] * b
  <2>1. n \in Nat /\ n # 0 /\ n - 1 \in 0 .. N /\ n \in 0 .. N
    OBVIOUS
  <2>2. f[n] = g[<<f[n - 1], n>>] /\ f[n - 1] \in Int
    <3> HIDE DEF g
    <3> QED
      BY <1>3, <2>1
  <2> QED
    BY <2>1, <2>2
<1>5. f = E(f)
  BY <1>3, <1>4
<1>6. c = E(c)
  BY <1>5
<1>7. Strings!Power(b, N) = c[N]
  BY DEF Strings!Power
<1> HIDE DEF c
<1>8. c[0] = 1
  BY <1>6
<1>9. ASSUME NEW n \in 1 .. N
      PROVE  c[n] = c[n - 1] * b
  <2>1. n \in 0 .. N /\ n # 0
    OBVIOUS
  <2> QED
    BY <1>6, <2>1
<1> QED
  BY <1>7, <1>8, <1>9

---------------------------------------------------------------------------
(* The words of the numbers. *)
LEMMA StringNumbers ==
    ASSUME Strings!StringsAssumption
    PROVE  /\ IntWord \in Nat /\ NumberWord \in Nat /\ IntWord > 70
           /\ IntWord \div 2 \in Nat /\ IntWord = 2 * (IntWord \div 2)
           /\ NumberWord \div IntWord \in Nat
           /\ NumberWord = IntWord * (NumberWord \div IntWord)
           /\ 64 * IntWord <= NumberWord /\ NumberWord \in Nat \ {0}
           /\ 0 \in 0 .. NumberWord - 1
           /\ Bases \subseteq Nat
           /\ StringUnits \subseteq 0 .. 38 /\ 37 \notin StringUnits
           /\ MaxLength \in Nat /\ MaxShort \in Nat /\ MaxUnits \in Nat
           /\ Room \in Nat /\ Room >= 2
<1>1. /\ IntWord \in Nat /\ IntWord % 2 = 0 /\ IntWord > 70
      /\ NumberWord \in Nat /\ NumberWord % IntWord = 0
      /\ 64 * IntWord <= NumberWord
  BY DEF Strings!StringsAssumption
<1>2. IntWord \div 2 \in Nat /\ IntWord = 2 * (IntWord \div 2)
  BY <1>1
<1>3. NumberWord \div IntWord \in Int /\ NumberWord = IntWord * (NumberWord \div IntWord)
  BY <1>1
<1>4. NumberWord \div IntWord \in Nat
  <2> DEFINE k == NumberWord \div IntWord
  <2> SUFFICES ASSUME k <= -1 PROVE FALSE
    BY <1>3
  <2>1. k \in Int /\ NumberWord = IntWord * k
    BY <1>3
  <2> HIDE DEF k
  <2>2. IntWord * k <= IntWord * (-1)
    BY <1>1, <2>1
  <2> QED
    BY <1>1, <2>1, <2>2
<1>5. /\ Bases \subseteq Nat /\ MaxLength \in Nat /\ MaxShort \in Nat /\ MaxUnits \in Nat
      /\ StringUnits \subseteq 0 .. 35 \cup {36, 38} /\ Room \in 2 .. MaxUnits
  BY DEF Strings!StringsAssumption, Strings!Minus, Strings!Other
<1>6. StringUnits \subseteq 0 .. 38 /\ 37 \notin StringUnits /\ Room \in Nat /\ Room >= 2
  BY <1>5
<1>7. NumberWord \in Nat \ {0} /\ 0 \in 0 .. NumberWord - 1
  BY <1>1
<1> QED
  BY <1>1, <1>2, <1>3, <1>4, <1>5, <1>6, <1>7

LEMMA SignedIs ==
    ASSUME Strings!StringsAssumption, NEW n \in Int
    PROVE  /\ Strings!Signed(n) \in Strings!Int32
           /\ Strings!Signed(n) \in Int
           /\ n \in 0 .. (IntWord \div 2) - 1 => Strings!Signed(n) = n
           /\ \E j \in Int : n = Strings!Signed(n) + (IntWord * j)
<1> DEFINE I == IntWord
           H == IntWord \div 2
           m == n % I
           k == n \div I
           s == IF 2 * m < I THEN m ELSE m - I
<1>1. I \in Nat /\ I > 70 /\ H \in Nat /\ I = 2 * H
  BY StringNumbers
<1>2. m \in 0 .. I - 1 /\ k \in Int /\ n = (I * k) + m
  BY <1>1
<1>3. n \in 0 .. H - 1 => m = n
  BY <1>1
<1>4. Strings!Signed(n) = s /\ Strings!Int32 = -H .. H - 1
  BY DEF Strings!Signed, Strings!Int32
<1> HIDE DEF H, m, k
<1>5. s \in -H .. H - 1 /\ s \in Int
  BY <1>1, <1>2
<1>6. n \in 0 .. H - 1 => s = n
  BY <1>1, <1>2, <1>3
<1>7. \E j \in Int : n = s + (I * j)
  <2>1. CASE 2 * m < I
    <3>1. n = m + (I * k) /\ k \in Int
      BY <1>1, <1>2
    <3> QED
      BY <2>1, <3>1
  <2>2. CASE ~(2 * m < I)
    <3>1. I * (k + 1) = (I * k) + I /\ I * k \in Int /\ k + 1 \in Int
      BY <1>1, <1>2
    <3>2. n = (m - I) + (I * (k + 1))
      BY <1>1, <1>2, <3>1
    <3> QED
      BY <2>2, <3>1, <3>2
  <2> QED
    BY <2>1, <2>2
<1> QED
  BY <1>4, <1>5, <1>6, <1>7 DEF H

LEMMA DigitIsUnit ==
    ASSUME Strings!StringsAssumption, NEW d \in Int
    PROVE  /\ Strings!Digit(d) \in 0 .. 38
           /\ d \in 0 .. 35 => Strings!Digit(d) = d
           /\ (35 + d) % NumberWord > 70 => Strings!Digit(d) = 38
<1> DEFINE n == (35 + d) % NumberWord
<1>1. NumberWord \in Nat /\ NumberWord > 70
  BY StringNumbers
<1>2. n \in Nat
  BY <1>1
<1>3. d \in 0 .. 35 => n = 35 + d
  BY <1>1
<1>4. Strings!Digit(d) = IF n <= 70 THEN IF n < 35 THEN 35 - n ELSE n - 35 ELSE 38
  BY DEF Strings!Digit, Strings!Other
<1> HIDE DEF n
<1>5. /\ Strings!Digit(d) \in 0 .. 38
      /\ d \in 0 .. 35 => Strings!Digit(d) = d
      /\ n > 70 => Strings!Digit(d) = 38
  BY <1>2, <1>3, <1>4
<1> QED
  BY <1>5 DEF n

(* The quotients of natural numbers. *)
LEMMA QuotientIs ==
    ASSUME NEW v \in Nat, NEW b \in Nat \ {0}
    PROVE  /\ v \div b \in 0 .. v /\ v % b \in 0 .. b - 1
           /\ v = (b * (v \div b)) + (v % b)
           /\ (v \div b = 0) => v % b = v
<1> DEFINE q == v \div b
           e == v % b
<1>1. q \in Int /\ e \in 0 .. b - 1 /\ v = (b * q) + e
  OBVIOUS
<1> HIDE DEF q, e
<1>2. q >= 0
  <2> SUFFICES ASSUME q <= -1 PROVE FALSE
    BY <1>1
  <2>1. b * q <= b * (-1)
    BY <1>1
  <2> QED
    BY <1>1, <2>1
<1>3. q <= v
  <2>1. b * q >= q
    BY <1>1, <1>2
  <2> QED
    BY <1>1, <2>1
<1>4. q = 0 => e = v
  BY <1>1
<1> QED
  BY <1>1, <1>2, <1>3, <1>4 DEF q, e

(* One round of the loop of itoa(): a number that is not negative gives    *)
(* its last digit and leaves the others.                                   *)
LEMMA DigitOfNatural ==
    ASSUME Strings!StringsAssumption, NEW v \in 0 .. (IntWord \div 2) - 1, NEW b \in 2 .. 36
    PROVE  /\ Strings!Signed((v % NumberWord) \div b) = v \div b
           /\ Strings!Digit(v - ((v \div b) * b)) = v % b
<1> DEFINE H == IntWord \div 2
           q == v \div b
           e == v % b
<1>1. /\ NumberWord \in Nat /\ IntWord \in Nat /\ H \in Nat /\ IntWord = 2 * H
      /\ 64 * IntWord <= NumberWord /\ NumberWord > 0
  BY StringNumbers
<1>2. v \in Nat /\ v < H
  BY <1>1
<1>3. v % NumberWord = v
  BY <1>1, <1>2
<1>4. q \in 0 .. v /\ e \in 0 .. b - 1 /\ v = (b * q) + e
  BY <1>2, QuotientIs
<1> HIDE DEF q, e, H
<1>5. q \in 0 .. H - 1 /\ q \in Int
  BY <1>1, <1>2, <1>4
<1>6. Strings!Signed(q) = q
  BY <1>5, SignedIs DEF H
<1>7. v - (q * b) = e /\ e \in 0 .. 35 /\ e \in Int
  BY <1>4, <1>5
<1>8. Strings!Digit(e) = e
  BY <1>7, DigitIsUnit
<1>9. Strings!Signed((v % NumberWord) \div b) = q
  BY <1>3, <1>6 DEF q
<1>10. Strings!Digit(v - (q * b)) = e
  BY <1>7, <1>8
<1> QED
  BY <1>9, <1>10 DEF q, e

---------------------------------------------------------------------------
(* What n rounds of the loop leave of a number, one after another: none of *)
(* them but the last one may have left 0.                                  *)
Divided(v, n, g, b) ==
    /\ v[0] = g
    /\ \A k \in 0 .. n : v[k] \in 0 .. g
    /\ \A k \in 1 .. n : v[k] = v[k - 1] \div b
    /\ \A k \in 1 .. n - 1 : v[k] # 0

LEMMA DividedOnce ==
    ASSUME NEW v, NEW n \in Nat, NEW g \in Nat, NEW b \in 2 .. 36,
           Divided(v, n, g, b), n > 0 => v[n] # 0
    PROVE  \E w : /\ Divided(w, n + 1, g, b) /\ w[n + 1] = v[n] \div b
                  /\ \A k \in 0 .. n : w[k] = v[k]
<1> DEFINE w == [k \in 0 .. n + 1 |-> IF k = n + 1 THEN v[n] \div b ELSE v[k]]
<1>1. /\ v[0] = g /\ \A k \in 0 .. n : v[k] \in 0 .. g
      /\ \A k \in 1 .. n : v[k] = v[k - 1] \div b
      /\ \A k \in 1 .. n : v[k] # 0
  BY DEF Divided
<1>2. w[n + 1] = v[n] \div b /\ \A k \in 0 .. n : w[k] = v[k]
  OBVIOUS
<1> HIDE DEF w
<1>3. v[n] \in 0 .. g /\ v[n] \in Nat
  BY <1>1
<1>4. v[n] \div b \in 0 .. g
  <2> DEFINE y == v[n]
  <2>1. y \in Nat /\ y <= g /\ b \in Nat \ {0}
    BY <1>3
  <2> HIDE DEF y
  <2>2. y \div b \in 0 .. y
    BY <2>1, QuotientIs
  <2> QED
    BY <2>1, <2>2 DEF y
<1>5. w[0] = g
  BY <1>1, <1>2
<1>6. \A k \in 0 .. n + 1 : w[k] \in 0 .. g
  <2> SUFFICES ASSUME NEW k \in 0 .. n + 1 PROVE w[k] \in 0 .. g
    OBVIOUS
  <2>1. k = n + 1 \/ k \in 0 .. n
    OBVIOUS
  <2> QED
    BY <1>1, <1>2, <1>4, <2>1
<1>7. \A k \in 1 .. n + 1 : w[k] = w[k - 1] \div b
  <2> SUFFICES ASSUME NEW k \in 1 .. n + 1 PROVE w[k] = w[k - 1] \div b
    OBVIOUS
  <2>1. CASE k = n + 1
    <3>1. k - 1 = n /\ n \in 0 .. n
      BY <2>1
    <3> QED
      BY <1>2, <2>1, <3>1
  <2>2. CASE k \in 1 .. n
    <3>1. k \in 0 .. n /\ k - 1 \in 0 .. n
      BY <2>2
    <3> QED
      BY <1>1, <1>2, <2>2, <3>1
  <2> QED
    BY <2>1, <2>2
<1>8. \A k \in 1 .. (n + 1) - 1 : w[k] # 0
  <2> SUFFICES ASSUME NEW k \in 1 .. (n + 1) - 1 PROVE w[k] # 0
    OBVIOUS
  <2>1. k \in 1 .. n /\ k \in 0 .. n
    OBVIOUS
  <2> QED
    BY <1>1, <1>2, <2>1
<1>9. Divided(w, n + 1, g, b)
  BY <1>5, <1>6, <1>7, <1>8 DEF Divided
<1> QED
  BY <1>2, <1>9

(* The units of a string. *)
Codes == 0 .. 38

LEMMA UnitsAreNumbers ==
    ASSUME NEW s \in Seq(Codes)
    PROVE  Len(s) \in Nat /\ \A i \in 1 .. Len(s) : s[i] \in Codes /\ s[i] \in Int
<1>1. \A u \in Codes : u \in Int
  BY DEF Codes
<1>2. Len(s) \in Nat /\ \A i \in 1 .. Len(s) : s[i] \in Codes
  OBVIOUS
<1>3. \A i \in 1 .. Len(s) : s[i] \in Int
  BY <1>1, <1>2
<1> QED
  BY <1>2, <1>3

IsNumeral(s, n, g, b) ==
    /\ \A i \in 1 .. n : s[i] \in 0 .. b - 1
    /\ Strings!Number(s, n, b) = g
    /\ s[1] = 0 => n = 1

HasDigits(s, v, n, b) == Len(s) = n + 1 /\ \A i \in 1 .. n : s[i] = v[n - i] % b

(* The rests, last one first, are the digits of the number. *)
LEMMA RestsAreTheDigits ==
    ASSUME NEW v, NEW n \in Nat \ {0}, NEW g \in Nat, NEW b \in 2 .. 36,
           Divided(v, n, g, b), v[n] = 0,
           NEW s \in Seq(Codes), HasDigits(s, v, n, b)
    PROVE  IsNumeral(s, n, g, b)
<1> USE DEF HasDigits
<1> DEFINE S == {i \in 0 .. n : Strings!Number(s, i, b) = v[n - i]}
<1>1. \A k \in 0 .. n : v[k] \in Nat
  BY DEF Divided
<1>2. Len(s) \in Nat /\ b \in Int /\ \A i \in 1 .. Len(s) : s[i] \in Int
  BY UnitsAreNumbers
<1>3. /\ Strings!Number(s, 0, b) = 0
      /\ \A i \in 1 .. n + 1 :
             Strings!Number(s, i, b) = (Strings!Number(s, i - 1, b) * b) + s[i]
  <2>1. /\ Strings!Number(s, 0, b) = 0
        /\ \A i \in 1 .. Len(s) :
               Strings!Number(s, i, b) = (Strings!Number(s, i - 1, b) * b) + s[i]
    BY <1>2, NumberGrows
  <2> QED
    BY <2>1
<1>4. ASSUME NEW i \in 1 .. n
      PROVE  /\ s[i] \in 0 .. b - 1
             /\ v[n - i] = (v[(n - i) + 1] * b) + s[i]
             /\ v[(n - i) + 1] = 0 => s[i] = v[n - i]
  <2>1. /\ n - i \in 0 .. n /\ (n - i) + 1 \in 1 .. n /\ ((n - i) + 1) - 1 = n - i
        /\ (n - i) + 1 \in 0 .. n
    OBVIOUS
  <2>2. v[(n - i) + 1] = v[n - i] \div b
    BY <2>1 DEF Divided
  <2>3. v[n - i] \in Nat /\ b \in Nat \ {0}
    BY <1>1, <2>1
  <2> DEFINE y == v[n - i]
  <2> HIDE DEF y
  <2>4. y \div b \in 0 .. y /\ y % b \in 0 .. b - 1 /\ y = (b * (y \div b)) + (y % b)
        /\ (y \div b = 0 => y % b = y)
    BY <2>3, QuotientIs DEF y
  <2>5. s[i] = y % b
    BY DEF y
  <2>6. y \div b \in Int
    BY <2>4
  <2>7. b * (y \div b) = (y \div b) * b
    BY <2>6
  <2> QED
    BY <2>2, <2>4, <2>5, <2>7 DEF y
<1>5. 0 \in S
  BY <1>3
<1>6. ASSUME NEW i \in 0 .. n - 1, i \in S
      PROVE  i + 1 \in S
  <2>1. i + 1 \in 1 .. n /\ i + 1 \in 1 .. n + 1 /\ (i + 1) - 1 = i /\ i + 1 \in 0 .. n
        /\ (n - (i + 1)) + 1 = n - i
    OBVIOUS
  <2>2. Strings!Number(s, i, b) = v[n - i]
    BY <1>6
  <2>3. Strings!Number(s, i + 1, b) = (v[n - i] * b) + s[i + 1]
    BY <1>3, <2>1, <2>2
  <2>4. v[n - (i + 1)] = (v[n - i] * b) + s[i + 1]
    BY <1>4, <2>1
  <2> QED
    BY <2>1, <2>3, <2>4
<1> HIDE DEF S
<1>7. 0 .. n \subseteq S
  BY <1>5, <1>6, RangeInduction
<1>8. Strings!Number(s, n, b) = g
  <2>1. n \in S /\ n - n = 0
    BY <1>7
  <2> QED
    BY <2>1 DEF S, Divided
<1>9. ASSUME s[1] = 0, n # 1
      PROVE  FALSE
  <2>1. 1 \in 1 .. n /\ (n - 1) + 1 = n /\ n - 1 \in 1 .. n - 1
    BY <1>9
  <2>2. s[1] = v[n - 1]
    BY <1>4, <2>1
  <2> QED
    BY <1>9, <2>1, <2>2 DEF Divided
<1> QED
  BY <1>4, <1>8, <1>9 DEF IsNumeral

(* There are as many of them as the power has, that the number is below. *)
LEMMA RestsCountThePower ==
    ASSUME NEW v, NEW n \in Nat \ {0}, NEW g \in Nat, NEW b \in 2 .. 36,
           Divided(v, n, g, b), v[n] = 0, NEW N \in Nat \ {0}
    PROVE  n <= N <=> g < Strings!Power(b, N)
<1> DEFINE w == [k \in 0 .. N |-> IF k <= n THEN v[k] ELSE 0]
<1>1. PICK f : /\ f[0] = 1 /\ \A k \in 1 .. N : f[k] = f[k - 1] * b
               /\ Strings!Power(b, N) = f[N]
  <2>1. b \in Int /\ N \in Nat
    OBVIOUS
  <2> QED
    BY <2>1, PowerGrows
<1>2. /\ v[0] = g /\ \A k \in 0 .. n : v[k] \in Nat
      /\ \A k \in 1 .. n : v[k] = v[k - 1] \div b
      /\ \A k \in 1 .. n - 1 : v[k] # 0
  BY DEF Divided
<1>3. \A k \in 0 .. N : w[k] \in Nat
  BY <1>2
<1>4. w[0] = g
  BY <1>2
<1>5. ASSUME NEW k \in 0 .. N - 1
      PROVE  w[k + 1] = w[k] \div b
  <2>1. k \in 0 .. N /\ k + 1 \in 0 .. N /\ (k + 1) - 1 = k
    OBVIOUS
  <2>2. CASE k + 1 <= n
    <3>1. k + 1 \in 1 .. n /\ k <= n
      BY <2>2
    <3>2. w[k + 1] = v[k + 1] /\ w[k] = v[k]
      BY <2>1, <3>1
    <3> QED
      BY <1>2, <2>1, <3>1, <3>2
  <2>3. CASE k + 1 > n
    <3>1. w[k + 1] = 0
      BY <2>1, <2>3
    <3>2. w[k] = 0
      <4>1. k = n \/ k > n
        BY <2>3
      <4> QED
        BY <2>1, <4>1
    <3>3. 0 \div b = 0
      OBVIOUS
    <3> QED
      BY <3>1, <3>2, <3>3
  <2> QED
    BY <2>2, <2>3
<1>6. w[N] = 0 <=> n <= N
  <2>1. CASE N < n
    <3>1. w[N] = v[N] /\ N \in 1 .. n - 1
      BY <2>1
    <3> QED
      BY <1>2, <2>1, <3>1
  <2>2. CASE N = n
    BY <2>2
  <2>3. CASE N > n
    BY <2>3
  <2> QED
    BY <2>1, <2>2, <2>3
<1> HIDE DEF w
<1> DEFINE S == {k \in 0 .. N : /\ f[k] \in Nat
                                /\ f[k] * w[k] <= g /\ g < f[k] * (w[k] + 1)}
<1>7. 0 \in S
  BY <1>1, <1>4
<1>8. ASSUME NEW k \in 0 .. N - 1, k \in S
      PROVE  k + 1 \in S
  <2> DEFINE x == f[k]
             y == w[k]
             z == y \div b
             e == y % b
  <2>1. x \in Nat /\ y \in Nat /\ x * y <= g /\ g < x * (y + 1)
    BY <1>3, <1>8
  <2>2. f[k + 1] = x * b /\ w[k + 1] = z
    <3>1. k + 1 \in 1 .. N /\ (k + 1) - 1 = k
      OBVIOUS
    <3> QED
      BY <1>1, <1>5, <3>1
  <2> HIDE DEF x, y
  <2>3. z \in Nat /\ e \in 0 .. b - 1 /\ y = (b * z) + e
    <3>1. b \in Nat \ {0}
      OBVIOUS
    <3>2. /\ y \div b \in 0 .. y /\ y % b \in 0 .. b - 1
          /\ y = (b * (y \div b)) + (y % b)
      BY <2>1, <3>1, QuotientIs
    <3> QED
      BY <2>1, <3>2
  <2> HIDE DEF z, e
  <2>4. x * b \in Nat
    BY <2>1
  <2>5. b * z \in Nat /\ b * z <= y /\ y + 1 <= (b * z) + b /\ b * (z + 1) = (b * z) + b
    BY <2>3
  <2>6. x * (b * z) <= x * y /\ x * (y + 1) <= x * ((b * z) + b)
    BY <2>1, <2>5
  <2>7. (x * b) * z = x * (b * z) /\ (x * b) * (z + 1) = x * (b * (z + 1))
    BY <2>1, <2>3
  <2>8. x * y \in Int /\ x * (y + 1) \in Int /\ x * (b * z) \in Int
        /\ x * ((b * z) + b) \in Int
    BY <2>1, <2>5
  <2>9. (x * b) * z <= g /\ g < (x * b) * (z + 1)
    BY <2>1, <2>5, <2>6, <2>7, <2>8
  <2>10. k + 1 \in 0 .. N
    OBVIOUS
  <2> QED
    BY <2>2, <2>4, <2>9, <2>10
<1> HIDE DEF S
<1>9. 0 .. N \subseteq S
  BY <1>7, <1>8, RangeInduction
<1>10. f[N] \in Nat /\ f[N] * w[N] <= g /\ g < f[N] * (w[N] + 1)
  BY <1>9 DEF S
<1>11. w[N] = 0 => g < f[N]
  BY <1>10
<1>12. w[N] # 0 => f[N] <= g
  <2> SUFFICES ASSUME w[N] # 0 PROVE f[N] <= g
    OBVIOUS
  <2>1. w[N] \in Nat
    BY <1>3
  <2> DEFINE x == f[N]
             y == w[N]
  <2> HIDE DEF x, y
  <2>2. x \in Nat /\ y \in Nat /\ y >= 1 /\ x * y <= g
    BY <1>10, <2>1 DEF x, y
  <2>3. x * 1 <= x * y /\ x * y \in Int
    BY <2>2
  <2> QED
    BY <2>2, <2>3 DEF x
<1> QED
  BY <1>1, <1>6, <1>10, <1>11, <1>12

LEMMA OneMoreUnit ==
    ASSUME NEW S, NEW s \in Seq(S), NEW u \in S
    PROVE  /\ Append(s, u) \in Seq(S) /\ Len(Append(s, u)) = Len(s) + 1
           /\ Append(s, u)[Len(s) + 1] = u
           /\ \A i \in 1 .. Len(s) : Append(s, u)[i] = s[i]
OBVIOUS

LEMMA TwoMoreUnits ==
    ASSUME NEW S, NEW s \in Seq(S), NEW u \in S, NEW w \in S
    PROVE  /\ s \o <<u, w>> \in Seq(S) /\ Len(s \o <<u, w>>) = Len(s) + 2
           /\ \A i \in 1 .. Len(s) : (s \o <<u, w>>)[i] = s[i]
<1>1. <<u, w>> \in Seq(S) /\ Len(<<u, w>>) = 2
  OBVIOUS
<1> DEFINE t == <<u, w>>
<1> HIDE DEF t
<1>2. s \o t \in Seq(S) /\ Len(s \o t) = Len(s) + Len(t)
      /\ \A i \in 1 .. Len(s) : (s \o t)[i] = s[i]
  BY <1>1 DEF t
<1> QED
  BY <1>1, <1>2 DEF t

LEMMA UnitsSwapped ==
    ASSUME NEW S, NEW s \in Seq(S), NEW i \in 1 .. Len(s), NEW j \in 1 .. Len(s), i # j,
           NEW t, t = [s EXCEPT ![j] = s[i], ![i] = s[j]]
    PROVE  /\ t \in Seq(S) /\ Len(t) = Len(s) /\ t[i] = s[j] /\ t[j] = s[i]
           /\ \A k \in 1 .. Len(s) : k # i /\ k # j => t[k] = s[k]
OBVIOUS

(* The loops of itoa(): a number that is not negative has left its rests.  *)
StringTypes ==
    /\ pc \in {"call", "digits", "sign", "reverse", "formatted", "fault",
               "parse", "parsed", "compare", "compared"}
    /\ given \in Strings!Int32 /\ base \in Bases \cup {0}
    /\ value \in Strings!Int32 /\ tmp_value \in Strings!Int32
    /\ str \in Seq(Codes) /\ str2 \in Seq(Codes)
    /\ ptr \in 0 .. Len(str) + 1 /\ ptr1 \in 1 .. Len(str) + 1
    /\ val \in 0 .. NumberWord - 1

Idle == pc = "call" => str = <<>> /\ str2 = <<>> /\ ptr = 1 /\ ptr1 = 1 /\ val = 0

WritesDigits ==
    pc = "digits" =>
        /\ base \in 2 .. 36
        /\ given >= 0 =>
               \E v : /\ Divided(v, Len(str), given, base) /\ v[Len(str)] = value
                      /\ Len(str) > 0 => value # 0
                      /\ \A i \in 1 .. Len(str) : str[i] = v[i - 1] % base

WritesSign ==
    pc = "sign" =>
        /\ base \in 2 .. 36
        /\ given >= 0 =>
               \E v : /\ Divided(v, Len(str), given, base) /\ v[Len(str)] = 0
                      /\ Len(str) > 0 /\ tmp_value >= 0
                      /\ \A i \in 1 .. Len(str) : str[i] = v[i - 1] % base

(* The digits on either side of the two pointers have been swapped. *)
Reverses ==
    pc = "reverse" =>
        /\ base \in 2 .. 36 /\ ptr < Len(str)
        /\ given >= 0 =>
               \E v : /\ Divided(v, Len(str) - 1, given, base) /\ v[Len(str) - 1] = 0
                      /\ Len(str) > 1 /\ str[Len(str)] = 37
                      /\ ptr + ptr1 = Len(str) /\ ptr1 <= ptr + 1
                      /\ \A i \in 1 .. Len(str) - 1 :
                             str[i] = IF i \in ptr1 .. ptr THEN v[i - 1] % base
                                      ELSE v[(Len(str) - 1) - i] % base

HasWritten ==
    Strings!Formatted =>
        /\ given >= 0 =>
               \E v : /\ Divided(v, Len(str) - 1, given, base) /\ v[Len(str) - 1] = 0
                      /\ Len(str) > 1 /\ str[Len(str)] = 37
                      /\ \A i \in 1 .. Len(str) - 1 :
                             str[i] = v[(Len(str) - 1) - i] % base

(* A C string, and how far it has been parsed or compared. *)
IsString(s) ==
    /\ s \in Seq(Codes) /\ Len(s) > 0 /\ s[Len(s)] = 37
    /\ \A i \in 1 .. Len(s) - 1 : s[i] # 37

Parses ==
    pc = "parse" =>
        /\ IsString(str) /\ ptr \in 1 .. Len(str)
        /\ \A i \in 1 .. ptr - 1 : str[i] \in 0 .. 9
        /\ Strings!Number(str, ptr - 1, 10) \in Nat
        /\ val = Strings!Number(str, ptr - 1, 10) % NumberWord

Compares ==
    pc = "compare" =>
        /\ IsString(str) /\ IsString(str2)
        /\ ptr \in 1 .. Len(str) /\ ptr <= Len(str2)
        /\ \A i \in 1 .. ptr - 1 : str[i] = str2[i]

StringIInv ==
    /\ StringTypes /\ Idle
    /\ WritesDigits /\ WritesSign /\ Reverses /\ HasWritten
    /\ Parses /\ Strings!ParsesLeadingDigits
    /\ Compares /\ Strings!EqualsAreEqual

LEMMA Int32Is ==
    ASSUME Strings!StringsAssumption
    PROVE  /\ 0 \in Strings!Int32
           /\ \A n \in Strings!Int32 :
                  /\ n \in Int
                  /\ n >= 0 => n \in 0 .. (IntWord \div 2) - 1
                  /\ n < 0 => n \in -(IntWord \div 2) .. -1
<1> DEFINE H == IntWord \div 2
<1>1. H \in Nat /\ H > 0
  BY StringNumbers
<1>2. Strings!Int32 = -H .. H - 1
  BY DEF Strings!Int32
<1> HIDE DEF H
<1>3. /\ 0 \in -H .. H - 1
      /\ \A n \in -H .. H - 1 :
             /\ n \in Int
             /\ n >= 0 => n \in 0 .. H - 1
             /\ n < 0 => n \in -H .. -1
  BY <1>1
<1> QED
  BY <1>2, <1>3 DEF H

LEMMA StringInitially ==
    ASSUME Strings!StringsAssumption, Strings!Init
    PROVE  StringIInv
<1>1. 0 \in Strings!Int32 /\ 0 \in 0 .. NumberWord - 1
  BY Int32Is, StringNumbers
<1>2. <<>> \in Seq(Codes) /\ Len(<<>>) = 0
  OBVIOUS
<1>3. StringTypes
  BY <1>1, <1>2 DEF StringTypes, Strings!Init
<1>4. pc = "call" /\ Idle
  BY DEF Strings!Init, Idle
<1> QED
  BY <1>3, <1>4 DEF StringIInv, WritesDigits, WritesSign, Reverses, HasWritten, Parses, Compares,
     Strings!Formatted, Strings!ParsesLeadingDigits, Strings!EqualsAreEqual

(* itoa() begins. *)
LEMMA ItoaStep ==
    ASSUME Strings!StringsAssumption, StringIInv,
           NEW n \in Strings!Int32, NEW b \in Bases, Strings!itoa(n, b)
    PROVE  StringIInv'
<1>1. n \in Int
  BY Int32Is
<1>2. pc = "call" /\ Idle /\ StringTypes
  BY DEF StringIInv, Strings!itoa
<1>3. /\ given' = n /\ base' = b /\ value' = n /\ ptr' = 1 /\ ptr1' = 1 /\ val' = val
      /\ tmp_value' = tmp_value /\ str2' = str2
      /\ \/ b \in 2 .. 36 /\ pc' = "digits" /\ str' = <<>>
         \/ b \notin 2 .. 36 /\ pc' = "formatted" /\ str' = <<37>>
  BY <1>2 DEF Strings!itoa, Strings!Nul, Idle
<1>4. /\ <<>> \in Seq(Codes) /\ Len(<<>>) = 0
      /\ <<37>> \in Seq(Codes) /\ Len(<<37>>) = 1
  <2>1. 37 \in Codes
    BY DEF Codes
  <2> QED
    BY <2>1
<1>5. StringTypes'
  <2>1. /\ str' \in Seq(Codes) /\ ptr' \in 0 .. Len(str') + 1
        /\ ptr1' \in 1 .. Len(str') + 1
    <3>1. str' = <<>> \/ str' = <<37>>
      BY <1>3
    <3>2. str' \in Seq(Codes) /\ (Len(str') = 0 \/ Len(str') = 1)
      BY <1>4, <3>1, Zenon
    <3>3. ptr' = 1 /\ ptr1' = 1
      BY <1>3
    <3> QED
      BY <3>2, <3>3
  <2>2. /\ pc' \in {"digits", "formatted"} /\ given' \in Strings!Int32
        /\ base' \in Bases \cup {0} /\ value' \in Strings!Int32
        /\ tmp_value' \in Strings!Int32 /\ str2' \in Seq(Codes)
        /\ val' \in 0 .. NumberWord - 1
    BY <1>2, <1>3 DEF StringTypes
  <2> QED
    BY <2>1, <2>2 DEF StringTypes
<1>6. CASE b \in 2 .. 36
  <2>1. pc' = "digits" /\ str' = <<>> /\ base' \in 2 .. 36 /\ Len(str') = 0
    BY <1>3, <1>4, <1>6
  <2>2. ASSUME n >= 0
        PROVE  \E v : /\ Divided(v, 0, n, b) /\ v[0] = n
    <3> DEFINE v == [k \in 0 .. 0 |-> n]
    <3>1. v[0] = n /\ \A k \in 0 .. 0 : v[k] \in 0 .. n
      BY <1>1, <2>2
    <3> HIDE DEF v
    <3>2. Divided(v, 0, n, b)
      BY <3>1 DEF Divided
    <3> QED
      BY <3>1, <3>2
  <2>3. WritesDigits'
    BY <1>3, <2>1, <2>2 DEF WritesDigits
  <2> QED
    BY <1>5, <2>1, <2>3 DEF StringIInv, Idle, WritesSign, Reverses, HasWritten, Parses,
       Compares, Strings!Formatted, Strings!ParsesLeadingDigits, Strings!EqualsAreEqual
<1>7. CASE b \notin 2 .. 36
  <2>1. pc' = "formatted" /\ base' \notin 2 .. 36
    BY <1>3, <1>7
  <2> QED
    BY <1>5, <2>1 DEF StringIInv, Idle, WritesDigits, WritesSign, Reverses, HasWritten, Parses,
       Compares, Strings!Formatted, Strings!ParsesLeadingDigits, Strings!EqualsAreEqual
<1> QED
  BY <1>6, <1>7

(* A round of its loop. *)
LEMMA StoreDigitStep ==
    ASSUME Strings!StringsAssumption, StringIInv, Strings!StoreDigit
    PROVE  StringIInv'
<1> DEFINE q == Strings!Signed((value % NumberWord) \div base)
           n == Len(str)
           d == value - (q * base)
           u == Strings!Digit(d)
<1>1. /\ pc = "digits" /\ StringTypes /\ WritesDigits
      /\ base \in 2 .. 36
  BY DEF StringIInv, Strings!StoreDigit, WritesDigits
<1>2. /\ tmp_value' = value /\ value' = q /\ str' = Append(str, u)
      /\ pc' = IF q = 0 THEN "sign" ELSE "digits"
      /\ UNCHANGED <<given, base, str2, ptr, ptr1, val>>
  BY DEF Strings!StoreDigit, Strings!Quotient
<1>3. /\ value \in Strings!Int32 /\ value \in Int /\ given \in Strings!Int32 /\ given \in Int
      /\ NumberWord \in Nat \ {0}
  BY <1>1, Int32Is, StringNumbers DEF StringTypes
<1>4. q \in Strings!Int32 /\ q \in Int
  <2> DEFINE r == value % NumberWord
  <2>1. r \in Int
    BY <1>3
  <2> HIDE DEF r
  <2>2. r \div base \in Int
    BY <1>1, <2>1
  <2> QED
    BY <2>2, SignedIs DEF r
<1>5. d \in Int
  <2> HIDE DEF q
  <2> QED
    BY <1>1, <1>3, <1>4
<1>6. u \in Codes
  <2> HIDE DEF d
  <2> QED
    BY <1>5, DigitIsUnit DEF Codes
<1>7. str \in Seq(Codes) /\ n \in Nat
  BY <1>1 DEF StringTypes
<1>9. ASSUME NEW v, given >= 0, Divided(v, n, given, base), v[n] = value
      PROVE  value >= 0 /\ q = value \div base /\ u = value % base
  <2>1. value \in 0 .. given
    BY <1>7, <1>9 DEF Divided
  <2>2. value >= 0
    BY <1>3, <2>1
  <2>3. value \in 0 .. (IntWord \div 2) - 1
    BY <1>3, <2>2, Int32Is
  <2>4. q = value \div base
    BY <1>1, <2>3, DigitOfNatural
  <2>5. Strings!Digit(value - ((value \div base) * base)) = value % base
    BY <1>1, <2>3, DigitOfNatural
  <2>6. u = Strings!Digit(value - ((value \div base) * base))
    BY <2>4
  <2> QED
    BY <2>2, <2>4, <2>5, <2>6
<1> HIDE DEF q, u, d
<1>10. /\ str' \in Seq(Codes) /\ Len(str') = n + 1 /\ str'[n + 1] = u
       /\ \A i \in 1 .. n : str'[i] = str[i]
  BY <1>2, <1>6, <1>7, OneMoreUnit
<1>11. StringTypes'
  BY <1>1, <1>2, <1>3, <1>4, <1>10 DEF StringTypes
<1>14. ASSUME given >= 0
       PROVE  /\ value >= 0
              /\ \E w : /\ Divided(w, n + 1, given, base) /\ w[n + 1] = q
                        /\ \A i \in 1 .. n + 1 : str'[i] = w[i - 1] % base
  <2>1. PICK v : /\ Divided(v, n, given, base) /\ v[n] = value
                 /\ n > 0 => value # 0
                 /\ \A i \in 1 .. n : str[i] = v[i - 1] % base
    BY <1>1, <1>14 DEF WritesDigits
  <2>2. value >= 0 /\ q = value \div base /\ u = value % base
    BY <1>9, <1>14, <2>1
  <2>3. given \in Nat
    BY <1>3, <1>14
  <2>4. PICK w : /\ Divided(w, n + 1, given, base) /\ w[n + 1] = v[n] \div base
                 /\ \A k \in 0 .. n : w[k] = v[k]
    BY <1>1, <1>7, <2>1, <2>3, DividedOnce
  <2>5. ASSUME NEW i \in 1 .. n + 1
        PROVE  str'[i] = w[i - 1] % base
    <3>1. CASE i = n + 1
      <4>1. i - 1 = n /\ n \in 0 .. n
        BY <1>7, <3>1
      <4> QED
        BY <1>10, <2>1, <2>2, <2>4, <3>1, <4>1
    <3>2. CASE i \in 1 .. n
      <4>1. i - 1 \in 0 .. n
        BY <1>7, <3>2
      <4> QED
        BY <1>10, <2>1, <2>4, <3>2, <4>1
    <3> QED
      BY <1>7, <3>1, <3>2
  <2> QED
    BY <2>1, <2>2, <2>4, <2>5
<1>15. CASE q = 0
  <2>1. pc' = "sign"
    BY <1>2, <1>15
  <2>3. WritesSign'
    BY <1>1, <1>2, <1>7, <1>10, <1>14, <1>15 DEF WritesSign
  <2> QED
    BY <1>11, <2>1, <2>3 DEF StringIInv, Idle, WritesDigits, Reverses, HasWritten, Parses,
       Compares, Strings!Formatted, Strings!ParsesLeadingDigits, Strings!EqualsAreEqual
<1>16. CASE q # 0
  <2>1. pc' = "digits"
    BY <1>2, <1>16
  <2>3. WritesDigits'
    BY <1>1, <1>2, <1>7, <1>10, <1>14, <1>16 DEF WritesDigits
  <2> QED
    BY <1>11, <2>1, <2>3 DEF StringIInv, Idle, WritesSign, Reverses, HasWritten, Parses,
       Compares, Strings!Formatted, Strings!ParsesLeadingDigits, Strings!EqualsAreEqual
<1> QED
  BY <1>15, <1>16

(* The sign and the terminator. *)
LEMMA StoreSignStep ==
    ASSUME Strings!StringsAssumption, StringIInv, Strings!StoreSign
    PROVE  StringIInv'
<1> DEFINE n == Len(str)
<1>1. pc = "sign" /\ StringTypes /\ WritesSign /\ base \in 2 .. 36 /\ pc' = "reverse"
  BY DEF StringIInv, Strings!StoreSign, WritesSign
<1>2. /\ str' = IF tmp_value < 0 THEN str \o <<36, 37>> ELSE Append(str, 37)
      /\ ptr' = Len(str') - 1 /\ ptr1' = 1
      /\ UNCHANGED <<given, base, value, tmp_value, str2, val>>
  BY DEF Strings!StoreSign, Strings!Minus, Strings!Nul
<1>3. str \in Seq(Codes) /\ n \in Nat /\ tmp_value \in Int /\ 36 \in Codes /\ 37 \in Codes
      /\ given \in Int
  BY <1>1, Int32Is DEF StringTypes, Codes
<1>4. /\ str' \in Seq(Codes) /\ Len(str') \in Nat /\ Len(str') >= n + 1
      /\ \A i \in 1 .. n : str'[i] = str[i]
  <2>1. CASE tmp_value < 0
    <3>1. str' = str \o <<36, 37>>
      BY <1>2, <2>1
    <3>2. /\ str \o <<36, 37>> \in Seq(Codes) /\ Len(str \o <<36, 37>>) = n + 2
          /\ \A i \in 1 .. n : (str \o <<36, 37>>)[i] = str[i]
      BY <1>3, TwoMoreUnits
    <3> QED
      BY <1>3, <3>1, <3>2
  <2>2. CASE ~(tmp_value < 0)
    <3>1. str' = Append(str, 37)
      BY <1>2, <2>2
    <3>2. /\ Append(str, 37) \in Seq(Codes) /\ Len(Append(str, 37)) = n + 1
          /\ \A i \in 1 .. n : Append(str, 37)[i] = str[i]
      BY <1>3, OneMoreUnit
    <3> QED
      BY <1>3, <3>1, <3>2
  <2> QED
    BY <2>1, <2>2
<1>5. StringTypes'
  BY <1>1, <1>2, <1>3, <1>4 DEF StringTypes
<1>7. ASSUME given >= 0
      PROVE  \E v : /\ Divided(v, Len(str') - 1, given, base) /\ v[Len(str') - 1] = 0
                    /\ Len(str') > 1 /\ str'[Len(str')] = 37 /\ ptr' + ptr1' = Len(str')
                    /\ ptr1' <= ptr' + 1
                    /\ \A i \in 1 .. Len(str') - 1 :
                          i \in ptr1' .. ptr' /\ str'[i] = v[i - 1] % base
  <2>1. PICK v : /\ Divided(v, n, given, base) /\ v[n] = 0 /\ n > 0 /\ tmp_value >= 0
                 /\ \A i \in 1 .. n : str[i] = v[i - 1] % base
    BY <1>1, <1>7 DEF WritesSign
  <2>2. str' = Append(str, 37)
    BY <1>2, <1>3, <2>1
  <2>3. Len(str') = n + 1 /\ str'[n + 1] = 37
    BY <1>3, <2>2, OneMoreUnit
  <2>4. Len(str') - 1 = n /\ ptr' = n /\ ptr1' = 1
    BY <1>2, <1>3, <2>3
  <2>5. \A i \in 1 .. n : i \in ptr1' .. ptr' /\ str'[i] = v[i - 1] % base
    BY <1>3, <1>4, <2>1, <2>4
  <2> QED
    BY <1>3, <2>1, <2>3, <2>4, <2>5
<1>8. Reverses'
  <2>1. base' \in 2 .. 36 /\ ptr' < Len(str')
    BY <1>1, <1>2, <1>4
  <2>2. ASSUME given' >= 0
        PROVE  \E v : /\ Divided(v, Len(str') - 1, given', base') /\ v[Len(str') - 1] = 0
                      /\ Len(str') > 1 /\ str'[Len(str')] = 37
                      /\ ptr' + ptr1' = Len(str') /\ ptr1' <= ptr' + 1
                      /\ \A i \in 1 .. Len(str') - 1 :
                             str'[i] = IF i \in ptr1' .. ptr' THEN v[i - 1] % base'
                                       ELSE v[(Len(str') - 1) - i] % base'
    BY <1>2, <1>7, <2>2
  <2> QED
    BY <2>1, <2>2 DEF Reverses
<1> QED
  BY <1>1, <1>5, <1>8 DEF StringIInv, Idle, WritesDigits, WritesSign, HasWritten, Parses,
     Compares, Strings!Formatted, Strings!ParsesLeadingDigits, Strings!EqualsAreEqual

(* A pair of digits is swapped, or all are. *)
LEMMA SwapTypes ==
    ASSUME StringIInv, Strings!Swap
    PROVE  /\ pc = "reverse" /\ StringTypes' /\ Len(str') = Len(str)
           /\ base \in 2 .. 36 /\ ptr \in 0 .. Len(str) - 1 /\ ptr1 \in 1 .. Len(str) + 1
           /\ ptr1 < ptr =>
                  /\ pc' = "reverse" /\ ptr' = ptr - 1 /\ ptr1' = ptr1 + 1
                  /\ str'[ptr] = str[ptr1] /\ str'[ptr1] = str[ptr]
                  /\ \A k \in 1 .. Len(str) : k # ptr /\ k # ptr1 => str'[k] = str[k]
<1>1. /\ pc = "reverse" /\ StringTypes /\ Reverses
      /\ UNCHANGED <<given, base, value, tmp_value, str2, val>>
  BY DEF StringIInv, Strings!Swap
<1>2. /\ base \in 2 .. 36 /\ ptr < Len(str)
      /\ str \in Seq(Codes) /\ Len(str) \in Nat
      /\ ptr \in 0 .. Len(str) + 1 /\ ptr1 \in 1 .. Len(str) + 1
  BY <1>1 DEF Reverses, StringTypes
<1>3. ptr \in 0 .. Len(str) - 1
  BY <1>2
<1>4. CASE ptr1 < ptr
  <2>1. /\ str' = [str EXCEPT ![ptr] = str[ptr1], ![ptr1] = str[ptr]]
        /\ ptr' = ptr - 1 /\ ptr1' = ptr1 + 1 /\ pc' = pc
    BY <1>4 DEF Strings!Swap
  <2>2. ptr \in 1 .. Len(str) /\ ptr1 \in 1 .. Len(str) /\ ptr # ptr1
    BY <1>2, <1>3, <1>4
  <2>3. /\ str' \in Seq(Codes) /\ Len(str') = Len(str)
        /\ str'[ptr] = str[ptr1] /\ str'[ptr1] = str[ptr]
        /\ \A k \in 1 .. Len(str) : k # ptr /\ k # ptr1 => str'[k] = str[k]
    BY <1>2, <2>1, <2>2, UnitsSwapped
  <2>5. ptr' \in 0 .. Len(str') + 1 /\ ptr1' \in 1 .. Len(str') + 1
    BY <1>2, <1>3, <1>4, <2>1, <2>3
  <2>6. StringTypes'
    BY <1>1, <2>1, <2>3, <2>5 DEF StringTypes
  <2> QED
    BY <1>1, <1>2, <1>3, <2>1, <2>3, <2>6
<1>5. CASE ~(ptr1 < ptr)
  <2>1. pc' = "formatted" /\ UNCHANGED <<str, ptr, ptr1>>
    BY <1>5 DEF Strings!Swap
  <2>2. StringTypes'
    BY <1>1, <2>1 DEF StringTypes
  <2> QED
    BY <1>1, <1>2, <1>3, <1>5, <2>1, <2>2
<1> QED
  BY <1>4, <1>5

LEMMA SwapStep ==
    ASSUME Strings!StringsAssumption, StringIInv, Strings!Swap
    PROVE  StringIInv'
<1> DEFINE n == Len(str) - 1
           w(v) == /\ Divided(v, n, given, base) /\ v[n] = 0
                   /\ n > 0 /\ str[n + 1] = 37
<1>1. /\ pc = "reverse" /\ StringTypes' /\ Len(str') = Len(str) /\ Reverses /\ StringTypes
      /\ base \in 2 .. 36 /\ ptr \in 0 .. n /\ ptr1 \in 1 .. Len(str) + 1
      /\ UNCHANGED <<given, base>> /\ Len(str) \in Nat /\ Len(str) = n + 1
      /\ Len(str') = n + 1 /\ n \in Int /\ Len(str') - 1 = n
  <2>1. str \in Seq(Codes)
    BY DEF StringIInv, StringTypes
  <2>2. Len(str) \in Nat
    BY <2>1
  <2> QED
    BY <2>2, SwapTypes DEF StringIInv, Strings!Swap
<1>2. ASSUME given >= 0
      PROVE  \E v : /\ w(v) /\ ptr + ptr1 = n + 1 /\ ptr1 <= ptr + 1
                    /\ \A i \in 1 .. n :
                           str[i] = IF i \in ptr1 .. ptr THEN v[i - 1] % base
                                    ELSE v[n - i] % base
  <2>1. PICK v : /\ Divided(v, n, given, base) /\ v[n] = 0
                 /\ Len(str) > 1 /\ str[Len(str)] = 37
                 /\ ptr + ptr1 = Len(str) /\ ptr1 <= ptr + 1
                 /\ \A i \in 1 .. n :
                        str[i] = IF i \in ptr1 .. ptr THEN v[i - 1] % base
                                 ELSE v[n - i] % base
    BY <1>1, <1>2 DEF Reverses
  <2> QED
    BY <1>1, <2>1
<1>3. CASE ptr1 < ptr
  <2>1. /\ pc' = "reverse" /\ ptr' = ptr - 1 /\ ptr1' = ptr1 + 1
        /\ str'[ptr] = str[ptr1] /\ str'[ptr1] = str[ptr]
        /\ \A k \in 1 .. Len(str) : k # ptr /\ k # ptr1 => str'[k] = str[k]
    BY <1>3, SwapTypes
  <2> HIDE DEF n
  <2>2. ASSUME given >= 0
        PROVE  \E v : /\ Divided(v, n, given, base) /\ v[n] = 0
                      /\ n + 1 > 1 /\ str'[n + 1] = 37
                      /\ ptr' + ptr1' = n + 1 /\ ptr1' <= ptr' + 1
                      /\ \A i \in 1 .. n :
                             str'[i] = IF i \in ptr1' .. ptr' THEN v[i - 1] % base
                                       ELSE v[n - i] % base
    <3>1. PICK v : /\ w(v) /\ ptr + ptr1 = n + 1 /\ ptr1 <= ptr + 1
                   /\ \A i \in 1 .. n :
                          str[i] = IF i \in ptr1 .. ptr THEN v[i - 1] % base
                                   ELSE v[n - i] % base
      BY <1>2, <2>2
    <3>2. str'[n + 1] = 37 /\ ptr' + ptr1' = n + 1 /\ ptr1' <= ptr' + 1
      BY <1>1, <1>3, <2>1, <3>1
    <3>3. ASSUME NEW i \in 1 .. n
          PROVE  str'[i] = IF i \in ptr1' .. ptr' THEN v[i - 1] % base
                           ELSE v[n - i] % base
      <4>1. i \in Int /\ ptr \in Int /\ ptr1 \in Int
        BY <1>1
      <4>2. CASE i = ptr
        <5>1. /\ ptr1 \in 1 .. n /\ ptr1 \in ptr1 .. ptr /\ i \notin ptr1' .. ptr'
              /\ ptr1 - 1 = n - i
          BY <1>1, <1>3, <2>1, <3>1, <4>1, <4>2
        <5>2. str[ptr1] = v[ptr1 - 1] % base
          BY <3>1, <5>1
        <5> QED
          BY <2>1, <4>2, <5>1, <5>2
      <4>3. CASE i = ptr1
        <5>1. /\ ptr \in 1 .. n /\ ptr \in ptr1 .. ptr /\ i \notin ptr1' .. ptr'
              /\ ptr - 1 = n - i
          BY <1>1, <1>3, <2>1, <3>1, <4>1, <4>3
        <5>2. str[ptr] = v[ptr - 1] % base
          BY <3>1, <5>1
        <5> QED
          BY <2>1, <4>3, <5>1, <5>2
      <4>4. CASE i # ptr /\ i # ptr1
        <5>1. str'[i] = str[i] /\ (i \in ptr1 .. ptr <=> i \in ptr1' .. ptr')
          BY <1>1, <2>1, <4>1, <4>4
        <5> QED
          BY <3>1, <5>1
      <4> QED
        BY <4>2, <4>3, <4>4
    <3> QED
      BY <1>1, <3>1, <3>2, <3>3
  <2>3. ptr' < Len(str')
    BY <1>1, <1>3, <2>1
  <2>4. Reverses'
    BY <1>1, <2>2, <2>3 DEF Reverses
  <2> QED
    BY <1>1, <2>1, <2>4 DEF StringIInv, Idle, WritesDigits, WritesSign, HasWritten, Parses,
       Compares, Strings!Formatted, Strings!ParsesLeadingDigits, Strings!EqualsAreEqual
<1>4. CASE ~(ptr1 < ptr)
  <2>1. pc' = "formatted" /\ str' = str
    BY <1>4 DEF Strings!Swap
  <2> HIDE DEF n
  <2>2. ASSUME given >= 0
        PROVE  \E v : /\ Divided(v, n, given, base) /\ v[n] = 0
                      /\ n + 1 > 1 /\ str'[n + 1] = 37
                      /\ \A i \in 1 .. n : str'[i] = v[n - i] % base
    <3>1. PICK v : /\ w(v) /\ ptr + ptr1 = n + 1 /\ ptr1 <= ptr + 1
                   /\ \A i \in 1 .. n :
                          str[i] = IF i \in ptr1 .. ptr THEN v[i - 1] % base
                                   ELSE v[n - i] % base
      BY <1>2, <2>2
    <3>2. ASSUME NEW i \in 1 .. n
          PROVE  str'[i] = v[n - i] % base
      <4>1. i \in ptr1 .. ptr => i - 1 = n - i
        BY <1>1, <1>4, <3>1
      <4> QED
        BY <2>1, <3>1, <4>1
    <3> QED
      BY <1>1, <2>1, <3>1, <3>2
  <2>3. HasWritten'
    BY <1>1, <2>2 DEF HasWritten
  <2> QED
    BY <1>1, <2>1, <2>3 DEF StringIInv, Idle, WritesDigits, WritesSign, Reverses, Parses,
       Compares, Strings!ParsesLeadingDigits, Strings!EqualsAreEqual
<1> QED
  BY <1>3, <1>4

---------------------------------------------------------------------------
(* The strings that are parsed and compared. *)
LEMMA StringIs ==
    ASSUME Strings!StringsAssumption, NEW max \in Nat, NEW s \in Strings!String(max)
    PROVE  IsString(s)
<1>1. PICK n \in 0 .. max : \E t \in [1 .. n -> StringUnits] : s = Append(t, 37)
  BY DEF Strings!String, Strings!Nul
<1> PICK t \in [1 .. n -> StringUnits] : s = Append(t, 37)
  BY <1>1
<1>2. n \in Nat /\ StringUnits \subseteq Codes /\ 37 \notin StringUnits /\ 37 \in Codes
  BY StringNumbers DEF Codes
<1>3. /\ t \in Seq(StringUnits) /\ Len(t) = n
      /\ \A i \in 1 .. n : t[i] \in StringUnits
  BY <1>2, OneMoreMovement
<1>4. t \in Seq(Codes)
  BY <1>2, <1>3
<1>5. /\ s \in Seq(Codes) /\ Len(s) = n + 1 /\ s[n + 1] = 37
      /\ \A i \in 1 .. n : s[i] = t[i]
  BY <1>1, <1>2, <1>3, <1>4, OneMoreUnit
<1>6. \A i \in 1 .. Len(s) - 1 : s[i] # 37
  BY <1>2, <1>3, <1>5
<1> QED
  BY <1>2, <1>5, <1>6 DEF IsString

LEMMA ParseStarts ==
    ASSUME Strings!StringsAssumption, StringIInv,
           NEW s \in Strings!String(MaxLength), Strings!parseInt(s)
    PROVE  StringIInv'
<1>1. /\ pc = "call" /\ StringTypes /\ pc' = "parse" /\ str' = s /\ ptr' = 1 /\ val' = 0
      /\ ptr1 = 1
      /\ UNCHANGED <<given, base, value, tmp_value, str2, ptr1>>
  BY DEF StringIInv, Idle, Strings!parseInt
<1>2. IsString(s)
  BY StringNumbers, StringIs
<1>3. s \in Seq(Codes) /\ Len(s) \in Nat /\ Len(s) > 0
  BY <1>2 DEF IsString
<1>4. 0 \in 0 .. NumberWord - 1 /\ NumberWord \in Nat \ {0}
  BY StringNumbers
<1>5. StringTypes'
  BY <1>1, <1>3, <1>4 DEF StringTypes
<1>6. Strings!Number(s, 0, 10) = 0
  BY <1>3, UnitsAreNumbers, NumberGrows
<1>7. Parses'
  <2>1. ptr' - 1 = 0 /\ ptr' \in 1 .. Len(s) /\ 0 = 0 % NumberWord
    BY <1>1, <1>3, <1>4
  <2>2. \A i \in 1 .. ptr' - 1 : s[i] \in 0 .. 9
    BY <2>1
  <2>3. /\ Strings!Number(s, ptr' - 1, 10) \in Nat
        /\ val' = Strings!Number(s, ptr' - 1, 10) % NumberWord
    BY <1>1, <1>6, <2>1
  <2> QED
    BY <1>1, <1>2, <2>1, <2>2, <2>3 DEF Parses
<1> QED
  BY <1>1, <1>5, <1>7 DEF StringIInv, Idle, WritesDigits, WritesSign, Reverses, HasWritten,
     Compares, Strings!Formatted, Strings!ParsesLeadingDigits, Strings!EqualsAreEqual

LEMMA CutOffOnceMore ==
    ASSUME NEW W \in Nat \ {0}, NEW x \in Nat, NEW u \in Nat
    PROVE  (((x % W) * 10) + u) % W = ((x * 10) + u) % W
<1> DEFINE k == x \div W
           m == x % W
<1>1. k \in Int /\ m \in Int /\ x = (W * k) + m
  OBVIOUS
<1> HIDE DEF k, m
<1>2. W * (k * 10) = (W * k) * 10 /\ k * 10 \in Int /\ (m * 10) + u \in Int /\ W * k \in Int
  BY <1>1
<1>3. (x * 10) + u = (W * (k * 10)) + ((m * 10) + u)
  BY <1>1, <1>2
<1> DEFINE q == k * 10
           y == (m * 10) + u
<1>4. q \in Int /\ y \in Int
  BY <1>2
<1> HIDE DEF q, y
<1>5. ((W * q) + y) % W = y % W
  BY <1>4, WordsDoNotCount
<1> QED
  BY <1>3, <1>5 DEF q, y, m

LEMMA ParseDigitStep ==
    ASSUME Strings!StringsAssumption, StringIInv, Strings!ParseDigit
    PROVE  StringIInv'
<1> DEFINE x == Strings!Number(str, ptr - 1, 10)
           u == str[ptr]
<1>1. /\ pc = "parse" /\ pc' = "parse" /\ u \in 0 .. 9 /\ ptr' = ptr + 1
      /\ val' = ((val * 10) + u) % NumberWord /\ StringTypes
      /\ UNCHANGED <<given, base, value, tmp_value, str, str2, ptr1>>
  BY DEF StringIInv, Strings!ParseDigit
<1>2. /\ IsString(str) /\ ptr \in 1 .. Len(str)
      /\ \A i \in 1 .. ptr - 1 : str[i] \in 0 .. 9
      /\ x \in Nat /\ val = x % NumberWord
  BY <1>1 DEF StringIInv, Parses
<1>3. str \in Seq(Codes) /\ Len(str) \in Nat /\ str[Len(str)] = 37
  BY <1>2 DEF IsString
<1>4. ptr \in Int /\ ptr + 1 \in 1 .. Len(str) /\ (ptr + 1) - 1 = ptr
  BY <1>1, <1>2, <1>3
<1>5. NumberWord \in Nat \ {0}
  BY StringNumbers
<1>6. Strings!Number(str, ptr, 10) = (x * 10) + u
  <2>1. Len(str) \in Nat /\ 10 \in Int /\ \A n \in 1 .. Len(str) : str[n] \in Int
    BY <1>3, UnitsAreNumbers
  <2>2. \A n \in 1 .. Len(str) :
            Strings!Number(str, n, 10) = (Strings!Number(str, n - 1, 10) * 10) + str[n]
    BY <2>1, NumberGrows
  <2> QED
    BY <1>2, <2>2
<1> HIDE DEF x, u
<1>7. u \in Nat /\ (x * 10) + u \in Nat
  BY <1>1, <1>2
<1>8. val' = ((x * 10) + u) % NumberWord
  BY <1>1, <1>2, <1>5, <1>7, CutOffOnceMore
<1>9. val' \in 0 .. NumberWord - 1
  BY <1>5, <1>7, <1>8
<1>10. StringTypes'
  BY <1>1, <1>3, <1>4, <1>9 DEF StringTypes
<1>11. \A i \in 1 .. (ptr + 1) - 1 : str[i] \in 0 .. 9
  BY <1>1, <1>2, <1>4 DEF u
<1>12. Parses'
  <2>1. str' = str /\ ptr' = ptr + 1 /\ ptr' - 1 = ptr
    BY <1>1, <1>4
  <2> QED
    BY <1>2, <1>4, <1>6, <1>7, <1>8, <1>11, <2>1 DEF Parses
<1> QED
  BY <1>1, <1>10, <1>12 DEF StringIInv, Idle, WritesDigits, WritesSign, Reverses, HasWritten,
     Compares, Strings!Formatted, Strings!ParsesLeadingDigits, Strings!EqualsAreEqual

(* There is one place where the leading digits end. *)
LEMMA DigitsAre ==
    ASSUME NEW s, IsString(s), NEW n \in 0 .. Len(s) - 1,
           s[n + 1] \notin 0 .. 9, \A i \in 1 .. n : s[i] \in 0 .. 9
    PROVE  Strings!Digits(s) = n
<1> DEFINE P(m) == s[m + 1] \notin 0 .. 9 /\ \A i \in 1 .. m : s[i] \in 0 .. 9
           c == CHOOSE m \in 0 .. Len(s) - 1 : P(m)
<1>1. Len(s) \in Nat
  BY DEF IsString
<1>2. Strings!Digits(s) = c
  BY DEF Strings!Digits
<1>3. c \in 0 .. Len(s) - 1 /\ P(c)
  OBVIOUS
<1> HIDE DEF c
<1>4. ~(c < n)
  <2> SUFFICES ASSUME c < n PROVE FALSE
    OBVIOUS
  <2>1. c + 1 \in 1 .. n
    BY <1>1, <1>3
  <2> QED
    BY <1>3, <2>1
<1>5. ~(n < c)
  <2> SUFFICES ASSUME n < c PROVE FALSE
    OBVIOUS
  <2>1. n + 1 \in 1 .. c
    BY <1>1, <1>3
  <2> QED
    BY <1>3, <2>1
<1> QED
  BY <1>1, <1>2, <1>3, <1>4, <1>5

LEMMA ParseEndsStep ==
    ASSUME Strings!StringsAssumption, StringIInv, Strings!ParseEnds
    PROVE  StringIInv'
<1>1. /\ pc = "parse" /\ pc' = "parsed" /\ str[ptr] \notin 0 .. 9 /\ StringTypes
      /\ UNCHANGED <<given, base, value, tmp_value, str, str2, ptr, ptr1, val>>
  BY DEF StringIInv, Strings!ParseEnds
<1>2. /\ IsString(str) /\ ptr \in 1 .. Len(str)
      /\ \A i \in 1 .. ptr - 1 : str[i] \in 0 .. 9
      /\ val = Strings!Number(str, ptr - 1, 10) % NumberWord
  BY <1>1 DEF StringIInv, Parses
<1>3. Len(str) \in Nat /\ ptr \in Int /\ ptr - 1 \in 0 .. Len(str) - 1 /\ (ptr - 1) + 1 = ptr
  BY <1>2 DEF IsString
<1>4. Strings!Digits(str) = ptr - 1
  BY <1>1, <1>2, <1>3, DigitsAre
<1>5. StringTypes'
  BY <1>1 DEF StringTypes
<1>6. Strings!ParsesLeadingDigits'
  <2>1. str' = str /\ ptr' = ptr /\ val' = val /\ Strings!Digits(str) + 1 = ptr
    BY <1>1, <1>3, <1>4
  <2> QED
    BY <1>2, <1>4, <2>1 DEF Strings!ParsesLeadingDigits
<1> QED
  BY <1>1, <1>5, <1>6 DEF StringIInv, Idle, WritesDigits, WritesSign, Reverses, HasWritten,
     Parses, Compares, Strings!Formatted, Strings!EqualsAreEqual

LEMMA CompareStarts ==
    ASSUME Strings!StringsAssumption, StringIInv,
           NEW s \in Strings!String(MaxShort), NEW t \in Strings!String(MaxShort),
           Strings!strcmp(s, t)
    PROVE  StringIInv'
<1>1. /\ pc = "call" /\ StringTypes /\ pc' = "compare" /\ str' = s /\ str2' = t /\ ptr' = 1
      /\ ptr1 = 1
      /\ UNCHANGED <<given, base, value, tmp_value, ptr1, val>>
  BY DEF StringIInv, Idle, Strings!strcmp
<1>2. IsString(s) /\ IsString(t)
  BY StringNumbers, StringIs
<1>3. /\ s \in Seq(Codes) /\ Len(s) \in Nat /\ Len(s) > 0
      /\ t \in Seq(Codes) /\ Len(t) \in Nat /\ Len(t) > 0
  BY <1>2 DEF IsString
<1>4. StringTypes'
  BY <1>1, <1>3 DEF StringTypes
<1>5. ptr' \in 1 .. Len(s) /\ ptr' <= Len(t) /\ ptr' <= Len(s)
      /\ \A i \in 1 .. ptr' - 1 : s[i] = t[i]
  BY <1>1, <1>3
<1>6. Compares' /\ Strings!EqualsAreEqual'
  BY <1>1, <1>2, <1>5 DEF Compares, Strings!EqualsAreEqual
<1> QED
  BY <1>1, <1>4, <1>6 DEF StringIInv, Idle, WritesDigits, WritesSign, Reverses, HasWritten,
     Parses, Strings!Formatted, Strings!ParsesLeadingDigits

LEMMA CompareUnitStep ==
    ASSUME Strings!StringsAssumption, StringIInv, Strings!CompareUnit
    PROVE  StringIInv'
<1>1. /\ pc = "compare" /\ pc' = "compare" /\ str[ptr] # 37 /\ str[ptr] = str2[ptr]
      /\ ptr' = ptr + 1 /\ StringTypes
      /\ UNCHANGED <<given, base, value, tmp_value, str, str2, ptr1, val>>
  BY DEF StringIInv, Strings!CompareUnit, Strings!Same, Strings!Nul
<1>2. /\ IsString(str) /\ IsString(str2) /\ ptr \in 1 .. Len(str) /\ ptr <= Len(str2)
      /\ \A i \in 1 .. ptr - 1 : str[i] = str2[i]
  BY <1>1 DEF StringIInv, Compares
<1>3. /\ Len(str) \in Nat /\ str[Len(str)] = 37 /\ Len(str2) \in Nat /\ str2[Len(str2)] = 37
  BY <1>2 DEF IsString
<1>4. ptr + 1 \in 1 .. Len(str) /\ ptr + 1 <= Len(str2) /\ ptr + 1 <= Len(str)
      /\ \A i \in 1 .. (ptr + 1) - 1 : str[i] = str2[i]
  BY <1>1, <1>2, <1>3
<1>5. StringTypes'
  BY <1>1, <1>3, <1>4 DEF StringTypes
<1>6. Compares' /\ Strings!EqualsAreEqual'
  BY <1>1, <1>2, <1>4 DEF Compares, Strings!EqualsAreEqual
<1> QED
  BY <1>1, <1>5, <1>6 DEF StringIInv, Idle, WritesDigits, WritesSign, Reverses, HasWritten,
     Parses, Strings!Formatted, Strings!ParsesLeadingDigits

LEMMA SmallDifference ==
    ASSUME NEW C \in Nat, C > 38, NEW a \in 0 .. 38, NEW b \in 0 .. 38
    PROVE  (a - b) % C \in 0 .. C - 1 /\ ((a - b) % C = 0 <=> a = b)
<1>1. CASE a >= b
  <2>1. (a - b) % C = a - b
    BY <1>1
  <2> QED
    BY <1>1, <2>1
<1>2. CASE a < b
  <2> DEFINE r == (C + a) - b
  <2>1. C \in Nat \ {0} /\ r \in 0 .. C - 1 /\ -1 \in Int /\ r # 0
        /\ (C * (-1)) + r = a - b
    BY <1>2
  <2> HIDE DEF r
  <2>2. ((C * (-1)) + r) % C = r
    BY <2>1, DivisionIsUnique
  <2> QED
    BY <1>2, <2>1, <2>2
<1> QED
  BY <1>1, <1>2

LEMMA SameUnits ==
    ASSUME NEW S, NEW s \in Seq(S), NEW t \in Seq(S), Len(s) = Len(t),
           \A i \in 1 .. Len(s) : s[i] = t[i]
    PROVE  s = t
OBVIOUS

LEMMA CompareEndsStep ==
    ASSUME Strings!StringsAssumption, StringIInv, Strings!CompareEnds
    PROVE  StringIInv'
<1>1. /\ pc = "compare" /\ pc' = "compared" /\ (str[ptr] = 37 \/ str[ptr] # str2[ptr])
      /\ val' = (str[ptr] - str2[ptr]) % Strings!CharWord /\ StringTypes
      /\ UNCHANGED <<given, base, value, tmp_value, str, str2, ptr, ptr1>>
  BY DEF StringIInv, Strings!CompareEnds, Strings!Same, Strings!Nul
<1>2. /\ IsString(str) /\ IsString(str2) /\ ptr \in 1 .. Len(str) /\ ptr <= Len(str2)
      /\ \A i \in 1 .. ptr - 1 : str[i] = str2[i]
  BY <1>1 DEF StringIInv, Compares
<1>3. /\ str \in Seq(Codes) /\ str2 \in Seq(Codes)
      /\ Len(str) \in Nat /\ str[Len(str)] = 37 /\ Len(str2) \in Nat /\ str2[Len(str2)] = 37
      /\ \A i \in 1 .. Len(str) - 1 : str[i] # 37
      /\ \A i \in 1 .. Len(str2) - 1 : str2[i] # 37
  BY <1>2 DEF IsString
<1>4. str[ptr] \in 0 .. 38 /\ str2[ptr] \in 0 .. 38
  <2>1. ptr \in 1 .. Len(str) /\ ptr \in 1 .. Len(str2)
    BY <1>2, <1>3
  <2> QED
    BY <1>3, <2>1, UnitsAreNumbers DEF Codes
<1>5. val' \in 0 .. NumberWord - 1 /\ (val' = 0 <=> str[ptr] = str2[ptr])
  <2>1. Strings!CharWord \in Nat /\ Strings!CharWord > 38
    BY SMT DEF Strings!CharWord
  <2>2. Strings!CharWord <= NumberWord /\ NumberWord \in Nat
    BY DEF Strings!StringsAssumption
  <2> DEFINE C == Strings!CharWord
             a == str[ptr]
             b == str2[ptr]
  <2>3. C \in Nat /\ C > 38 /\ a \in 0 .. 38 /\ b \in 0 .. 38 /\ val' = (a - b) % C
    BY <1>1, <1>4, <2>1
  <2> HIDE DEF C, a, b
  <2>4. (a - b) % C \in 0 .. C - 1 /\ ((a - b) % C = 0 <=> a = b)
    BY <2>3, SmallDifference
  <2>5. val' \in 0 .. C - 1 /\ C <= NumberWord /\ NumberWord \in Nat
    BY <2>2, <2>3, <2>4 DEF C
  <2>6. val' \in 0 .. NumberWord - 1
    BY <2>3, <2>5
  <2>7. val' = 0 <=> a = b
    BY <2>3, <2>4
  <2> QED
    BY <2>6, <2>7 DEF a, b
<1>6. StringTypes'
  BY <1>1, <1>5 DEF StringTypes
<1>7. ASSUME str[ptr] = str2[ptr]
      PROVE  str = str2
  <2>1. str[ptr] = 37 /\ str2[ptr] = 37
    BY <1>1, <1>7
  <2>2. ptr = Len(str) /\ ptr = Len(str2)
    BY <1>2, <1>3, <2>1
  <2>3. \A i \in 1 .. Len(str) : str[i] = str2[i]
    BY <1>2, <1>3, <1>7, <2>2
  <2>4. Len(str) = Len(str2)
    BY <2>2
  <2> QED
    BY <1>3, <2>3, <2>4, SameUnits
<1>8. Strings!EqualsAreEqual'
  <2>1. ptr <= Len(str) /\ ptr <= Len(str2)
    BY <1>2
  <2>2. val' = 0 <=> str = str2
    BY <1>5, <1>7
  <2> QED
    BY <1>1, <2>1, <2>2 DEF Strings!EqualsAreEqual
<1> QED
  BY <1>1, <1>6, <1>8 DEF StringIInv, Idle, WritesDigits, WritesSign, Reverses, HasWritten,
     Parses, Compares, Strings!Formatted, Strings!ParsesLeadingDigits

LEMMA StringInductive ==
    ASSUME Strings!StringsAssumption, StringIInv, [Strings!Next]_(Strings!vars)
    PROVE  StringIInv'
<1>1. CASE Strings!StoreTooFar
  BY <1>1 DEF Strings!StoreTooFar, StringIInv, StringTypes, Idle, WritesDigits, WritesSign,
     Reverses, HasWritten, Parses, Compares, Strings!Formatted, Strings!ParsesLeadingDigits,
     Strings!EqualsAreEqual
<1>2. CASE UNCHANGED Strings!vars
  BY <1>2 DEF Strings!vars, StringIInv, StringTypes, Idle, WritesDigits, WritesSign,
     Reverses, HasWritten, Parses, Compares, Strings!Formatted,
     Strings!ParsesLeadingDigits, Strings!EqualsAreEqual
<1>3. CASE Strings!Call
  BY <1>3, ItoaStep, ParseStarts, CompareStarts DEF Strings!Call
<1>4. CASE Strings!Format
  BY <1>1, <1>4, StoreDigitStep, StoreSignStep, SwapStep DEF Strings!Format
<1> QED
  BY <1>2, <1>3, <1>4, ParseDigitStep, ParseEndsStep, CompareUnitStep, CompareEndsStep
     DEF Strings!Next

(* What the loops have left is what the functions promise. *)
LEMMA LoopsAreRight ==
    ASSUME Strings!StringsAssumption, StringIInv
    PROVE  /\ Strings!TypeOK /\ Strings!WritesTheNumber /\ Strings!FitsBelowPower
           /\ Strings!ParsesLeadingDigits /\ Strings!EqualsAreEqual
<1>1. StringTypes /\ HasWritten
  BY DEF StringIInv
<1>2. /\ str \in Seq(Codes) /\ str2 \in Seq(Codes) /\ Len(str) \in Nat
      /\ given \in Int
  BY <1>1, Int32Is DEF StringTypes
<1>3. Strings!TypeOK
  <2>1. ASSUME NEW s \in Seq(Codes)
        PROVE  Strings!Range(s) \subseteq Codes
    BY DEF Strings!Range
  <2>2. Strings!Range(str) \cup Strings!Range(str2) \subseteq 0 .. 38
    BY <1>2, <2>1 DEF Codes
  <2> QED
    BY <1>1, <2>2 DEF StringTypes, Strings!TypeOK, Strings!Other
<1>5. ASSUME Strings!Formatted, given >= 0
      PROVE  /\ str[Len(str)] = 37
             /\ \A i \in 1 .. Len(str) - 1 : str[i] \in 0 .. base - 1
             /\ Strings!Number(str, Len(str) - 1, base) = given
             /\ str[1] = 0 => Len(str) - 1 = 1
             /\ Len(str) <= Room <=> given < Strings!Power(base, Room - 1)
  <2> DEFINE n == Len(str) - 1
             N == Room - 1
  <2>1. PICK v : /\ Divided(v, n, given, base) /\ v[n] = 0 /\ Len(str) > 1
                 /\ str[Len(str)] = 37
                 /\ \A i \in 1 .. n : str[i] = v[n - i] % base
    BY <1>1, <1>5 DEF HasWritten
  <2>2. /\ n \in Nat \ {0} /\ Len(str) = n + 1 /\ given \in Nat /\ base \in 2 .. 36
        /\ N \in Nat \ {0} /\ Room = N + 1
    <3>1. n \in Nat \ {0} /\ Len(str) = n + 1 /\ given \in Nat
      BY <1>2, <1>5, <2>1
    <3>2. base \in 2 .. 36
      BY <1>5 DEF Strings!Formatted
    <3>3. Room \in Nat /\ Room >= 2
      BY StringNumbers
    <3>4. N \in Nat \ {0} /\ Room = N + 1
      BY <3>3
    <3> QED
      BY <3>1, <3>2, <3>4
  <2>3. HasDigits(str, v, n, base)
    BY <2>1, <2>2 DEF HasDigits
  <2> HIDE DEF n, N
  <2>4. IsNumeral(str, n, given, base)
    BY <1>2, <2>1, <2>2, <2>3, RestsAreTheDigits
  <2>5. n <= N <=> given < Strings!Power(base, N)
    BY <2>1, <2>2, RestsCountThePower
  <2>6. Len(str) <= Room <=> n <= N
    BY <2>2
  <2> QED
    BY <2>1, <2>4, <2>5, <2>6 DEF n, N, IsNumeral
<1>6. Strings!WritesTheNumber
  <2>1. (Len(str) - 1) + 1 = Len(str)
    BY <1>2
  <2> QED
    BY <1>5, <2>1 DEF Strings!WritesTheNumber, Strings!Nul
<1>7. Strings!FitsBelowPower
  BY <1>5 DEF Strings!FitsBelowPower
<1> QED
  BY <1>3, <1>6, <1>7 DEF StringIInv

StringsAreSound == part = "string" => StringIInv

(* itoa() writes every number that is not negative in any base of its      *)
(* digits, in an array that it fits in below that power of the base;       *)
(* parseInt() stops behind the leading digits with their number modulo its *)
(* width; strings compare equal exactly when they are.                     *)
THEOREM NumbersAndStringsAreExact ==
    ServicesSpec => []StringsAreExact
<1> USE ServicesAssumption
<1>1. ServicesInit => StringsAreSound
  BY OneServiceStarts, StringInitially DEF StringsAreSound
<1>2. StringsAreSound /\ [ServicesNext]_servicesVars => StringsAreSound'
  BY OneServiceSteps, StringInductive DEF StringsAreSound
<1>3. StringsAreSound => StringsAreExact
  BY LoopsAreRight DEF StringsAreSound, StringsAreExact
<1> QED
  BY <1>1, <1>2, <1>3, PTL DEF ServicesSpec

---------------------------------------------------------------------------
(* What a sequence of places is: in order, and all of some numbers. *)
Enumerates(places, n, set) ==
    /\ n \in Nat
    /\ places \in [1 .. n -> set]
    /\ \A j, k \in 1 .. n : j < k => places[j] < places[k]
    /\ \A i \in set : \E k \in 1 .. n : places[k] = i

LEMMA OnePlaceMore ==
    ASSUME NEW n, NEW places, NEW set \in SUBSET Int, NEW i \in Int,
           Enumerates(places, n, set), \A k \in set : k < i
    PROVE  \E longer : Enumerates(longer, n + 1, set \cup {i})
<1> DEFINE longer == [k \in 1 .. n + 1 |-> IF k <= n THEN places[k] ELSE i]
<1>1. n \in Nat
  BY DEF Enumerates
<1>2. \A k \in 1 .. n : k \in 1 .. n + 1 /\ longer[k] = places[k] /\ places[k] \in set
  BY <1>1 DEF Enumerates
<1>3. n + 1 \in 1 .. n + 1 /\ longer[n + 1] = i
  BY <1>1
<1>4. \A k \in 1 .. n + 1 : k \in 1 .. n \/ k = n + 1
  BY <1>1
<1>5. longer \in [1 .. n + 1 -> set \cup {i}]
  BY <1>1, <1>2, <1>3, <1>4
<1> HIDE DEF longer
<1>6. \A j, k \in 1 .. n + 1 : j < k => longer[j] < longer[k]
  <2> SUFFICES ASSUME NEW j \in 1 .. n + 1, NEW k \in 1 .. n + 1, j < k
               PROVE  longer[j] < longer[k]
    OBVIOUS
  <2>1. j \in 1 .. n
    BY <1>1
  <2>2. CASE k = n + 1
    BY <1>2, <1>3, <2>1, <2>2
  <2>3. CASE k \in 1 .. n
    BY <1>2, <2>1, <2>3 DEF Enumerates
  <2> QED
    BY <1>4, <2>2, <2>3
<1>7. \A x \in set \cup {i} : \E k \in 1 .. n + 1 : longer[k] = x
  <2> SUFFICES ASSUME NEW x \in set \cup {i} PROVE \E k \in 1 .. n + 1 : longer[k] = x
    OBVIOUS
  <2>1. CASE x \in set
    <3>1. PICK k \in 1 .. n : places[k] = x
      BY <2>1 DEF Enumerates
    <3> QED
      BY <1>2, <3>1
  <2> QED
    BY <1>3, <2>1
<1> QED
  BY <1>1, <1>5, <1>6, <1>7 DEF Enumerates

LEMMA EnumerationExists ==
    ASSUME NEW from \in Int, NEW to \in Int, from <= to + 1, NEW set,
           \A i \in set : i \in from .. to
    PROVE  \E n, places : Enumerates(places, n, set)
<1> DEFINE Part(k) == {i \in set : i < from + k}
           T == {k \in 0 .. to + 1 - from : \E n, places : Enumerates(places, n, Part(k))}
<1>0. \A i \in set : i \in Int /\ from <= i /\ i <= to
  OBVIOUS
<1>1. 0 \in T
  <2>1. Part(0) = {}
    <3>1. \A i \in set : ~(i < from + 0)
      BY <1>0
    <3> QED
      BY <3>1
  <2>2. Enumerates([k \in 1 .. 0 |-> 0], 0, {})
    BY DEF Enumerates
  <2>3. 0 \in 0 .. to + 1 - from
    OBVIOUS
  <2> HIDE DEF Part
  <2> QED
    BY <2>1, <2>2, <2>3
<1>2. \A k \in 0 .. to + 1 - from - 1 : k \in T => k + 1 \in T
  <2> SUFFICES ASSUME NEW k \in 0 .. to + 1 - from - 1, NEW n, NEW places,
                      Enumerates(places, n, Part(k))
               PROVE  k + 1 \in T
    OBVIOUS
  <2>0. k + 1 \in 0 .. to + 1 - from
    OBVIOUS
  <2>1. CASE from + k \in set
    <3>1. Part(k + 1) = Part(k) \cup {from + k}
      <4>1. \A i \in set : i < from + (k + 1) <=> i < from + k \/ i = from + k
        BY <1>0
      <4> QED
        BY <2>1, <4>1
    <3>2. Part(k) \in SUBSET Int /\ \A i \in Part(k) : i < from + k
      BY <1>0
    <3>4. from + k \in Int
      OBVIOUS
    <3> HIDE DEF Part
    <3>3. \E longer : Enumerates(longer, n + 1, Part(k) \cup {from + k})
      BY <3>2, <3>4, OnePlaceMore
    <3> QED
      BY <2>0, <3>1, <3>3
  <2>2. CASE from + k \notin set
    <3>1. Part(k + 1) = Part(k)
      <4>1. \A i \in set : i < from + (k + 1) <=> i < from + k
        BY <1>0, <2>2
      <4> QED
        BY <4>1
    <3> HIDE DEF Part
    <3> QED
      BY <2>0, <3>1
  <2> QED
    BY <2>1, <2>2
<1>3. to + 1 - from \in Nat
  OBVIOUS
<1>4. to + 1 - from \in T
  <2> HIDE DEF T
  <2> DEFINE N == to + 1 - from
  <2>1. N \in Nat /\ \A k \in 0 .. N - 1 : k \in T => k + 1 \in T
    BY <1>2, <1>3
  <2> HIDE DEF N
  <2>2. 0 .. N \subseteq T
    BY <1>1, <2>1, RangeInduction
  <2>3. N \in 0 .. N
    BY <2>1
  <2> QED
    BY <2>2, <2>3 DEF N
<1>5. Part(to + 1 - from) = set
  <2>1. \A i \in set : i < from + (to + 1 - from)
    BY <1>0
  <2> QED
    BY <2>1
<1> HIDE DEF Part
<1> QED
  BY <1>4, <1>5

(* The places of a unit are what they should be. *)
InOrder(places, unit, from, to) ==
    /\ places \in Seq(Int)
    /\ \A k \in 1 .. Len(places) : places[k] \in from .. to /\ text[places[k]] = unit
    /\ \A j, k \in 1 .. Len(places) : j < k => places[j] < places[k]
    /\ \A i \in from .. to : text[i] = unit => \E k \in 1 .. Len(places) : places[k] = i

LEMMA PlacesAreInOrder ==
    ASSUME NEW unit, NEW from \in Int, NEW to \in Int, from <= to + 1
    PROVE  InOrder(PlacesOf(unit, from, to), unit, from, to)
<1> DEFINE set == {i \in from .. to : text[i] = unit}
           all == [1 .. Cardinality(set) -> set]
           places == PlacesOf(unit, from, to)
<1>1. \A i \in set : i \in from .. to /\ i \in Int
  OBVIOUS
<1>2. \A i : i \in set <=> i \in from .. to /\ text[i] = unit
  OBVIOUS
<1>3. places = CHOOSE p \in all : Lists(p, set)
  BY DEF PlacesOf
<1> HIDE DEF set, places
<1>4. PICK n, p : Enumerates(p, n, set)
  BY <1>1, EnumerationExists
<1>5. n \in Nat /\ p \in [1 .. n -> set]
  BY <1>4 DEF Enumerates
<1>6. p \in Bijection(1 .. n, set)
  <2>1. IsInjective(p)
    <3> SUFFICES ASSUME NEW j \in 1 .. n, NEW k \in 1 .. n, p[j] = p[k] PROVE j = k
      BY <1>5 DEF IsInjective
    <3>0. p[j] \in set /\ p[k] \in set
      BY <1>5
    <3>1. p[j] \in Int /\ p[k] \in Int
      BY <1>1, <3>0
    <3>2. ~(j < k) /\ ~(k < j)
      BY <1>4, <3>1 DEF Enumerates
    <3> QED
      BY <3>2, <1>5
  <2>2. \A x \in set : \E k \in 1 .. n : p[k] = x
    BY <1>4 DEF Enumerates
  <2> QED
    BY <1>5, <2>1, <2>2 DEF Bijection, Injection, Surjection
<1>7. Cardinality(set) = n
  BY <1>5, <1>6, FS_CountingElements DEF ExistsBijection
<1>8. p \in all /\ Lists(p, set)
  BY <1>4, <1>5, <1>7 DEF Enumerates, Lists
<1>9. places \in all /\ Lists(places, set)
  BY <1>3, <1>8
<1>10. DOMAIN places = 1 .. n /\ places \in [1 .. n -> Int]
  <2>1. set \subseteq Int
    BY <1>1
  <2> QED
    BY <1>7, <1>9, <2>1
<1>11. places \in Seq(Int) /\ Len(places) = n
  BY <1>5, <1>10
<1> QED
  BY <1>2, <1>7, <1>9, <1>10, <1>11 DEF InOrder, Lists, places

(* The first m places are those up to some number: then the next one is    *)
(* the next in the text, or there is none.                                 *)
LEMMA NextPlace ==
    ASSUME NEW places, NEW unit, NEW from \in Int, NEW to \in Int,
           InOrder(places, unit, from, to),
           NEW m \in 0 .. Len(places), NEW i \in from .. to, text[i] = unit,
           m > 0 => places[m] < i,
           \A j \in from .. i - 1 : text[j] = unit => m > 0 /\ j <= places[m]
    PROVE  m < Len(places) /\ places[m + 1] = i
<1>0. Len(places) \in Nat /\ \A k \in 1 .. Len(places) : places[k] \in Int
  BY DEF InOrder
<1>1. PICK k \in 1 .. Len(places) : places[k] = i
  BY DEF InOrder
<1>2. k > m
  <2> SUFFICES ASSUME k <= m PROVE FALSE
    BY <1>0
  <2>1. m > 0 /\ m \in 1 .. Len(places) /\ places[m] < i
    BY <1>0
  <2>2. k # m
    BY <1>0, <1>1, <2>1
  <2>3. k < m
    BY <1>0, <2>2
  <2>4. places[k] < places[m]
    BY <2>1, <2>3 DEF InOrder
  <2> QED
    BY <1>0, <1>1, <2>1, <2>4
<1>3. m + 1 \in 1 .. Len(places)
  BY <1>0, <1>2
<1>4. k = m + 1
  <2> SUFFICES ASSUME m + 1 < k PROVE FALSE
    BY <1>0, <1>2
  <2>1. places[m + 1] < i
    BY <1>1, <1>3 DEF InOrder
  <2>2. places[m + 1] \in from .. i - 1 /\ text[places[m + 1]] = unit
    BY <1>0, <1>3, <2>1 DEF InOrder
  <2>3. m > 0 /\ places[m + 1] <= places[m]
    BY <2>2
  <2>4. m \in 1 .. Len(places)
    BY <1>0, <2>3
  <2>5. places[m] < places[m + 1]
    BY <1>0, <1>3, <2>4 DEF InOrder
  <2> QED
    BY <1>0, <1>3, <2>3, <2>4, <2>5
<1> QED
  BY <1>0, <1>1, <1>3, <1>4

LEMMA NoMorePlaces ==
    ASSUME NEW places, NEW unit, NEW from \in Int, NEW to \in Int,
           InOrder(places, unit, from, to), NEW m \in 0 .. Len(places),
           \A j \in from .. to : text[j] = unit => m > 0 /\ j <= places[m]
    PROVE  m = Len(places)
<1>0. Len(places) \in Nat /\ \A k \in 1 .. Len(places) : places[k] \in Int
  BY DEF InOrder
<1> SUFFICES ASSUME m < Len(places) PROVE FALSE
  BY <1>0
<1>1. m + 1 \in 1 .. Len(places)
  BY <1>0
<1>2. places[m + 1] \in from .. to /\ text[places[m + 1]] = unit
  BY <1>1 DEF InOrder
<1>3. m > 0 /\ places[m + 1] <= places[m]
  BY <1>2
<1>4. m \in 1 .. Len(places)
  BY <1>0, <1>3
<1>5. places[m] < places[m + 1]
  BY <1>0, <1>1, <1>4 DEF InOrder
<1> QED
  BY <1>0, <1>1, <1>3, <1>4, <1>5

(* The last cell that counts. *)
CountedIs(c) ==
    /\ c \in Int /\ -1 <= c /\ c < MaxSize + Behind
    /\ script => c >= 0
    /\ c + 1 \in Cell => text[c + 1] = "nul" /\ (script => c + 1 > 0)
    /\ \A i \in Cell : i <= c /\ (script => i > 0) => text[i] # "nul"

LEMMA CountedIsThere ==
    ASSUME ScriptAssumption
    PROVE  CountedIs(Counted)
<1> DEFINE nul == {i \in Cell : text[i] = "nul" /\ (script => i > 0)}
<1>0. MaxSize + Behind \in Nat /\ MaxSize + Behind >= 1
  BY DEF ScriptAssumption
<1>1. \A i \in nul : i \in Int /\ i >= 0 /\ i < MaxSize + Behind
  BY <1>0 DEF Cell
<1>2. Counted = IF nul = {} THEN MaxSize + Behind - 1 ELSE Min(nul) - 1
  BY DEF Counted
<1>3. \A i \in Cell : i \in Int
  BY <1>0 DEF Cell
<1>4. CASE nul = {}
  <2>1. Counted = MaxSize + Behind - 1
    BY <1>2, <1>4
  <2>2. \A i \in Cell : (script => i > 0) => text[i] # "nul"
    BY <1>4
  <2>3. Counted \in Int /\ Counted >= 0 /\ Counted < MaxSize + Behind /\ Counted + 1 \notin Cell
    BY <1>0, <2>1 DEF Cell
  <2> HIDE DEF nul
  <2> QED
    BY <1>0, <2>2, <2>3 DEF CountedIs
<1>5. CASE nul # {}
  <2>1. PICK m \in nul : \A i \in nul : m <= i
    <3> HIDE DEF nul
    <3>1. nul \subseteq Nat
      BY <1>1
    <3>2. PICK m \in nul : \A k \in nul : <<k, m>> \notin OpToRel(<, Nat)
      BY <1>5, <3>1, WFMin, NatLessThanWellFounded
    <3>4. \A i \in nul : ~(i < m)
      BY <3>1, <3>2 DEF OpToRel
    <3>3. \A i \in nul : m <= i
      BY <3>1, <3>4
    <3> QED
      BY <3>3
  <2>2. Min(nul) \in nul /\ \A i \in nul : Min(nul) <= i
    <3> HIDE DEF nul
    <3> QED
      BY <2>1 DEF Min
  <2>3. Counted = Min(nul) - 1
    BY <1>2, <1>5
  <2> DEFINE least == Min(nul)
  <2>4. least \in Cell /\ text[least] = "nul" /\ (script => least > 0)
    BY <2>2
  <2>5. \A i \in Cell : i < least /\ (script => i > 0) => text[i] # "nul"
    <3> SUFFICES ASSUME NEW i \in Cell, i < least, script => i > 0, text[i] = "nul"
                 PROVE  FALSE
      OBVIOUS
    <3>1. i \in nul
      OBVIOUS
    <3>2. least <= i
      BY <2>2, <3>1
    <3>3. least \in Int /\ i \in Int
      BY <1>3, <2>4
    <3> HIDE DEF least, nul
    <3> QED
      BY <3>2, <3>3
  <2>6. Counted = least - 1 /\ least \in Int /\ least >= 0 /\ least < MaxSize + Behind
    BY <1>1, <2>2, <2>3
  <2> HIDE DEF least, nul
  <2>7. Counted \in Int /\ Counted + 1 = least
    BY <2>6
  <2>8. \A i \in Cell : i <= Counted => i < least
    BY <1>3, <2>6
  <2>9. -1 <= Counted /\ Counted < MaxSize + Behind /\ (script => Counted >= 0)
    BY <1>0, <2>4, <2>6
  <2> QED
    BY <2>4, <2>5, <2>7, <2>8, <2>9 DEF CountedIs
<1> QED
  BY <1>4, <1>5

(* Where the lines of a script end. *)
LineEnds == PlacesOf("newline", 1, Counted)

(* What is known of a text stays so. *)
LEMMA TextStays ==
    ASSUME UNCHANGED <<script, text>>
    PROVE  Counted' = Counted /\ Lines' = Lines /\ LineEnds' = LineEnds
<1>1. Counted' = Counted
  BY DEF Counted
<1>2. LineEnds' = LineEnds
  BY <1>1 DEF LineEnds, PlacesOf
<1>3. Lines' = Lines
  BY <1>1 DEF Lines, Arguments, PlacesOf
<1> QED
  BY <1>1, <1>2, <1>3

LEMMA LineEndsAre ==
    ASSUME ScriptAssumption, script
    PROVE  InOrder(LineEnds, "newline", 1, Counted)
<1>1. 1 <= Counted + 1 /\ Counted \in Int
  BY CountedIsThere DEF CountedIs
<1> QED
  BY <1>1, PlacesAreInOrder DEF LineEnds

LineStart(k) == IF k = 1 THEN 0 ELSE LineEnds[k - 1] + 1

LineArguments(k) ==
    IF k = 1 /\ text[0] = "nul" THEN Arguments(0, -1)
    ELSE Arguments(LineStart(k), LineEnds[k] - 1)

(* Where the arguments of a line end, and where it begins. *)
Cuts(from, to) == <<from - 1>> \o PlacesOf("space", from, to) \o <<to + 1>>

AreCuts(from, to) ==
    LET places == PlacesOf("space", from, to)
        cuts == Cuts(from, to)
    IN  /\ Len(places) \in Nat /\ Len(cuts) = Len(places) + 2
        /\ \A k \in 1 .. Len(places) + 2 :
              cuts[k] = IF k = 1 THEN from - 1
                        ELSE IF k = Len(places) + 2 THEN to + 1 ELSE places[k - 1]
        /\ Arguments(from, to) =
              [k \in 1 .. Len(places) + 1 |->
                 [n \in 1 .. cuts[k + 1] - cuts[k] - 1 |-> text[cuts[k] + n]]]

AreJoined(s, t, joined) ==
    /\ joined \in Seq(Int) /\ Len(joined) = Len(s) + Len(t)
    /\ \A k \in 1 .. Len(s) + Len(t) :
          joined[k] = IF k <= Len(s) THEN s[k] ELSE t[k - Len(s)]

LEMMA Joined ==
    ASSUME NEW s \in Seq(Int), NEW t \in Seq(Int)
    PROVE  AreJoined(s, t, s \o t)
BY DEF AreJoined

LEMMA CutsAre ==
    ASSUME NEW from \in Int, NEW to \in Int, from <= to + 1
    PROVE  AreCuts(from, to)
<1> DEFINE places == PlacesOf("space", from, to)
<1>1. places \in Seq(Int)
  BY PlacesAreInOrder DEF InOrder
<1> DEFINE first == <<from - 1>>
           second == <<to + 1>>
           front == first \o places
<1>2. first \in Seq(Int) /\ second \in Seq(Int) /\ Len(first) = 1 /\ Len(second) = 1
      /\ first[1] = from - 1 /\ second[1] = to + 1
  OBVIOUS
<1> HIDE DEF places
<1>3. Cuts(from, to) = front \o second
  BY DEF Cuts, places
<1>4. Arguments(from, to) =
        [k \in 1 .. Len(Cuts(from, to)) - 1 |->
            [n \in 1 .. Cuts(from, to)[k + 1] - Cuts(from, to)[k] - 1 |->
                text[Cuts(from, to)[k] + n]]]
  BY DEF Arguments, Cuts, places
<1> HIDE DEF first, second
<1>5. front \in Seq(Int) /\ Len(front) = Len(places) + 1 /\ Len(places) \in Nat
      /\ \A k \in 1 .. Len(places) + 1 :
            front[k] = IF k = 1 THEN from - 1 ELSE places[k - 1]
  <2>1. /\ front \in Seq(Int) /\ Len(front) = 1 + Len(places)
        /\ \A k \in 1 .. 1 + Len(places) :
              front[k] = IF k <= 1 THEN first[k] ELSE places[k - 1]
    <3>1. AreJoined(first, places, front)
      BY <1>1, <1>2, Joined
    <3> HIDE DEF front
    <3> QED
      BY <1>2, <3>1 DEF AreJoined
  <2>2. Len(places) \in Nat
    BY <1>1
  <2> HIDE DEF front
  <2> QED
    BY <1>2, <2>1, <2>2
<1> HIDE DEF front
<1>6. Len(Cuts(from, to)) = Len(places) + 2
      /\ \A k \in 1 .. Len(places) + 2 :
            Cuts(from, to)[k] = IF k <= Len(places) + 1 THEN front[k] ELSE to + 1
  <2>1. /\ Len(Cuts(from, to)) = Len(front) + 1
        /\ \A k \in 1 .. Len(front) + 1 :
              Cuts(from, to)[k] = IF k <= Len(front) THEN front[k] ELSE second[k - Len(front)]
    <3>1. AreJoined(front, second, front \o second)
      BY <1>2, <1>5, Joined
    <3>2. AreJoined(front, second, Cuts(from, to))
      BY <1>3, <3>1
    <3> QED
      BY <1>2, <3>2 DEF AreJoined
  <2> QED
    BY <1>2, <1>5, <2>1
<1>7. \A k \in 1 .. Len(places) + 2 :
         Cuts(from, to)[k] = IF k = 1 THEN from - 1
                             ELSE IF k = Len(places) + 2 THEN to + 1
                             ELSE places[k - 1]
  BY <1>5, <1>6
<1> QED
  BY <1>4, <1>5, <1>6, <1>7 DEF AreCuts, places

(* A line of nothing has one argument of nothing. *)
LEMMA NoArguments == Arguments(0, -1) = <<<<>>>>
<1> DEFINE places == PlacesOf("space", 0, -1)
           cuts == Cuts(0, -1)
<1>1. InOrder(places, "space", 0, -1)
  BY PlacesAreInOrder
<1>2. /\ Len(places) \in Nat
      /\ \A k \in 1 .. Len(places) + 2 :
            cuts[k] = IF k = 1 THEN 0 - 1
                      ELSE IF k = Len(places) + 2 THEN -1 + 1 ELSE places[k - 1]
      /\ Arguments(0, -1) =
            [k \in 1 .. Len(places) + 1 |->
               [n \in 1 .. cuts[k + 1] - cuts[k] - 1 |-> text[cuts[k] + n]]]
  <2>1. AreCuts(0, -1)
    BY CutsAre
  <2> QED
    BY <2>1 DEF AreCuts
<1> HIDE DEF places, cuts
<1>3. Len(places) = 0
  <2>1. places \in Seq(Int) /\ \A k \in 1 .. Len(places) : places[k] \in 0 .. -1
    BY <1>1 DEF InOrder
  <2>2. ~(\E k : k \in 1 .. Len(places))
    BY <2>1
  <2> QED
    BY <2>1, <2>2
<1>4. cuts[1] = -1 /\ cuts[2] = 0
  BY <1>2, <1>3
<1>5. \A k \in 1 .. 1 : cuts[k + 1] - cuts[k] - 1 = 0
  BY <1>4
<1>6. Arguments(0, -1) = [k \in 1 .. 1 |-> [n \in 1 .. 0 |-> text[cuts[k] + n]]]
  BY <1>2, <1>3, <1>5
<1>7. Arguments(0, -1) = [k \in 1 .. 1 |-> <<>>]
  <2>1. \A k \in 1 .. 1 : [n \in 1 .. 0 |-> text[cuts[k] + n]] = <<>>
    OBVIOUS
  <2> QED
    BY <1>6, <2>1
<1> QED
  BY <1>7

(* A function from 1 to n is a sequence. *)
LEMMA SequenceOf ==
    ASSUME NEW n \in Nat, NEW S, NEW f \in [1 .. n -> S]
    PROVE  f \in Seq(S) /\ Len(f) = n
OBVIOUS

LEMMA LinesAre ==
    ASSUME ScriptAssumption, script
    PROVE  /\ Lines \in Seq({LineArguments(k) : k \in 1 .. Len(LineEnds)})
           /\ Len(Lines) = Len(LineEnds) /\ Len(LineEnds) \in Nat
           /\ \A k \in 1 .. Len(Lines) : Lines[k] = LineArguments(k)
<1>1. LineEnds \in Seq(Int)
  BY LineEndsAre DEF InOrder
<1>2. DOMAIN LineEnds = 1 .. Len(LineEnds) /\ Len(LineEnds) \in Nat
  BY <1>1
<1>3. Lines = [k \in DOMAIN LineEnds |->
                 IF k = 1 /\ text[0] = "nul" THEN <<<<>>>>
                 ELSE Arguments(IF k = 1 THEN 0 ELSE LineEnds[k - 1] + 1, LineEnds[k] - 1)]
  BY DEF Lines, LineEnds
<1>4. Lines = [k \in 1 .. Len(LineEnds) |-> LineArguments(k)]
  BY <1>2, <1>3, NoArguments DEF LineArguments, LineStart
<1> DEFINE n == Len(LineEnds)
<1>5. Lines = [k \in 1 .. n |-> LineArguments(k)] /\ n \in Nat
  BY <1>2, <1>4
<1> HIDE DEF n
<1>6. Lines \in [1 .. n -> {LineArguments(k) : k \in 1 .. n}]
  BY <1>5
<1>7. Lines \in Seq({LineArguments(k) : k \in 1 .. n}) /\ Len(Lines) = n
  BY <1>5, <1>6, SequenceOf
<1> QED
  BY <1>5, <1>7 DEF n

(* The last cell of the line that is split; a script whose first unit is a *)
(* terminator has an empty first line.                                     *)
LineTo ==
    IF ~script THEN Counted
    ELSE IF start = 0 /\ text[0] = "nul" THEN -1 ELSE end - 1

(* What was run are the first lines, and only the last of them was exit. *)
RanLines ==
    /\ ran \in Seq({Lines[k] : k \in 1 .. Len(Lines)})
    /\ Len(ran) <= Len(Lines)
    /\ \A k \in 1 .. Len(ran) :
          /\ ran[k] = Lines[k]
          /\ ran[k][1] = Exit => ~running /\ k = Len(ran)
    /\ ~running => ran # <<>> /\ ran[Len(ran)][1] = Exit
    /\ (pc = "done" /\ running) => Len(ran) = Len(Lines)

(* Where the scan of a script is: the line begins behind the last newline, *)
(* and nothing behind the scan was written to.                             *)
ScanIsRight ==
    script =>
        /\ end <= Counted + 1
        /\ start = IF Len(ran) = 0 THEN 0 ELSE LineEnds[Len(ran)] + 1
        /\ pc # "done" => \A i \in Cell : i > end => mem[i] = text[i]
        /\ pc = "scan" =>
              /\ start <= end + 1 /\ end <= Counted
              /\ \A i \in start .. end :
                    mem[i] = text[i] /\ (i > 0 => text[i] # "newline")
        /\ pc \in {"split", "lookup"} =>
              /\ start <= end /\ end <= Counted
              /\ Len(ran) < Len(LineEnds)
              /\ end = LineEnds[Len(ran) + 1]

PromptIsRight ==
    ~script => /\ end = 0
               /\ \A i \in MaxArgs .. Counted : text[i] # "space"
               /\ pc # "scan"
               /\ pc # "done" => start = 0 /\ Len(ran) = 0

(* The arguments begin behind the spaces in front of pos, which are        *)
(* terminators now; the rest of the line is as it was.                     *)
LineIsSplit ==
    LET spaces == PlacesOf("space", start, LineTo)
    IN  /\ running
        /\ start <= LineTo + 1 /\ LineTo + 1 \in Cell /\ mem[LineTo + 1] = "nul"
        /\ \A i \in start .. LineTo : text[i] # "nul"
        /\ pos \in start .. LineTo + 1
        /\ Len(argv) >= 1 /\ Len(argv) <= Len(spaces) + 1
        /\ \A k \in 1 .. Len(argv) :
              argv[k] = IF k = 1 THEN start ELSE spaces[k - 1] + 1
        /\ argv[Len(argv)] <= pos
        /\ \A i \in argv[Len(argv)] .. pos - 1 : text[i] # "space"
        /\ \A i \in start .. LineTo :
              mem[i] = IF i < pos /\ text[i] = "space" THEN "nul" ELSE text[i]
        /\ pos >= start + Len(argv) - 1
        /\ pos = start + Len(argv) - 1 =>
              \A i \in start .. pos - 1 : text[i] = "space"
        /\ pc = "lookup" => pos = LineTo + 1

ScriptIInv ==
    /\ TypeOK /\ argv \in Seq(Cell)
    /\ RanLines /\ ScanIsRight /\ PromptIsRight
    /\ pc \in {"split", "lookup"} => LineIsSplit
    /\ pc # "fault" => Len(argv) <= MaxArgs
    /\ ArgvIsLeftByFullLines

LEMMA CellsAre ==
    ASSUME ScriptAssumption
    PROVE  /\ MaxSize \in Nat /\ Behind \in Nat /\ MaxArgs \in Nat /\ MaxArgs >= 1
           /\ MaxArgs <= MaxSize + Behind
           /\ \A i : i \in Cell <=> i \in Int /\ 0 <= i /\ i < MaxSize + Behind
BY DEF ScriptAssumption, Cell

LEMMA LineToIs ==
    ASSUME ScriptAssumption, TypeOK
    PROVE  LineTo \in Int
BY CountedIsThere, CellsAre DEF LineTo, TypeOK, CountedIs

(* The strings that argv points to when a line is split are its arguments. *)
LEMMA ArgumentsAreRight ==
    ASSUME ScriptAssumption, TypeOK, argv \in Seq(Cell), LineIsSplit, pos = LineTo + 1
    PROVE  [k \in DOMAIN argv |-> StringAt(mem, argv[k])] = Arguments(start, LineTo)
<1> DEFINE spaces == PlacesOf("space", start, LineTo)
           cuts == Cuts(start, LineTo)
<1>1. start \in Int /\ LineTo \in Int /\ start >= 0 /\ start <= LineTo + 1
      /\ LineTo + 1 \in Cell /\ pos \in Int
  BY LineToIs, CellsAre DEF TypeOK, LineIsSplit
<1>2. InOrder(spaces, "space", start, LineTo)
  BY <1>1, PlacesAreInOrder
<1>3. AreCuts(start, LineTo)
  BY <1>1, CutsAre
<1>4. /\ Len(spaces) \in Nat
      /\ \A k \in 1 .. Len(spaces) + 2 :
            cuts[k] = IF k = 1 THEN start - 1
                      ELSE IF k = Len(spaces) + 2 THEN LineTo + 1 ELSE spaces[k - 1]
      /\ Arguments(start, LineTo) =
            [k \in 1 .. Len(spaces) + 1 |->
               [n \in 1 .. cuts[k + 1] - cuts[k] - 1 |-> text[cuts[k] + n]]]
  BY <1>3 DEF AreCuts
<1>5. /\ Len(argv) >= 1 /\ Len(argv) <= Len(spaces) + 1 /\ Len(argv) \in Nat
      /\ \A k \in 1 .. Len(argv) :
            argv[k] = IF k = 1 THEN start ELSE spaces[k - 1] + 1
      /\ \A i \in argv[Len(argv)] .. LineTo : text[i] # "space"
  <2>1. pos - 1 = LineTo
    BY <1>1
  <2> HIDE DEF LineTo, Cell
  <2> QED
    BY <2>1 DEF LineIsSplit
<1>6. /\ \A i \in start .. LineTo : text[i] # "nul"
      /\ \A i \in start .. LineTo : mem[i] = IF text[i] = "space" THEN "nul" ELSE text[i]
      /\ mem[LineTo + 1] = "nul"
  BY <1>1 DEF LineIsSplit
<1> HIDE DEF spaces, cuts
<1>7. \A k \in 1 .. Len(spaces) : spaces[k] \in Int /\ start <= spaces[k] /\ spaces[k] <= LineTo
  BY <1>1, <1>2 DEF InOrder
<1>8. Len(argv) = Len(spaces) + 1
  <2> DEFINE m == Len(argv) - 1
  <2>1. m \in 0 .. Len(spaces)
    BY <1>4, <1>5
  <2>2. argv[Len(argv)] = IF m = 0 THEN start ELSE spaces[m] + 1
    <3>1. Len(argv) \in 1 .. Len(argv) /\ (Len(argv) = 1 <=> m = 0)
      BY <1>5
    <3> QED
      BY <1>5, <3>1
  <2>3. \A j \in start .. LineTo : text[j] = "space" => m > 0 /\ j <= spaces[m]
    <3> SUFFICES ASSUME NEW j \in start .. LineTo, text[j] = "space"
                 PROVE  m > 0 /\ j <= spaces[m]
      OBVIOUS
    <3>1. j \notin argv[Len(argv)] .. LineTo
      BY <1>5
    <3>2. m > 0 => spaces[m] \in Int
      BY <1>7, <2>1
    <3> HIDE DEF m
    <3> QED
      BY <1>1, <2>1, <2>2, <3>1, <3>2
  <2> HIDE DEF m
  <2>4. m = Len(spaces)
    BY <1>1, <1>2, <2>1, <2>3, NoMorePlaces
  <2> QED
    BY <1>5, <2>4 DEF m
<1>9. ASSUME NEW k \in 1 .. Len(spaces) + 1
      PROVE  StringAt(mem, argv[k]) =
                [n \in 1 .. cuts[k + 1] - cuts[k] - 1 |-> text[cuts[k] + n]]
  <2> DEFINE from == argv[k]
             to == cuts[k + 1]
  <2>1. k \in Int /\ k >= 1 /\ k <= Len(spaces) + 1
    BY <1>4
  <2>2. cuts[k] = IF k = 1 THEN start - 1 ELSE spaces[k - 1]
    BY <1>4, <2>1
  <2>3. from = IF k = 1 THEN start ELSE spaces[k - 1] + 1
    BY <1>5, <1>8
  <2>4. to = IF k = Len(spaces) + 1 THEN LineTo + 1 ELSE spaces[k]
    BY <1>4, <2>1
  <2>5. from = cuts[k] + 1 /\ cuts[k] \in Int /\ to \in Int /\ from \in Int
    BY <1>1, <1>7, <2>1, <2>2, <2>3, <2>4
  <2>6. start <= from /\ from <= to /\ to <= LineTo + 1
    <3>1. CASE k = 1
      <4>1. k # Len(spaces) + 1 => k \in 1 .. Len(spaces)
        BY <1>4, <2>1
      <4>2. k # Len(spaces) + 1 => start <= spaces[k] /\ spaces[k] <= LineTo
        BY <1>7, <4>1
      <4> HIDE DEF from, to
      <4> QED
        BY <1>1, <2>3, <2>4, <2>5, <3>1, <4>2
    <3>2. CASE k # 1
      <4>1. k - 1 \in 1 .. Len(spaces)
        BY <1>4, <2>1, <3>2
      <4>2. k # Len(spaces) + 1 => k \in 1 .. Len(spaces) /\ k - 1 < k
        BY <1>4, <2>1
      <4>3. k # Len(spaces) + 1 => spaces[k - 1] < spaces[k] /\ spaces[k] <= LineTo
        BY <1>2, <1>7, <4>1, <4>2 DEF InOrder
      <4>4. start <= spaces[k - 1] /\ spaces[k - 1] <= LineTo /\ spaces[k - 1] \in Int
        BY <1>7, <4>1
      <4>5. k # Len(spaces) + 1 => spaces[k] \in Int
        BY <1>7, <4>2
      <4> HIDE DEF from, to
      <4> QED
        BY <1>1, <2>3, <2>4, <2>5, <3>2, <4>3, <4>4, <4>5
    <3> QED
      BY <3>1, <3>2
  <2>7. mem[to] = "nul"
    <3>1. CASE k = Len(spaces) + 1
      BY <1>6, <2>4, <3>1
    <3>2. CASE k # Len(spaces) + 1
      <4>1. k \in 1 .. Len(spaces)
        BY <1>4, <2>1, <3>2
      <4>2. text[spaces[k]] = "space" /\ spaces[k] \in start .. LineTo
        BY <1>2, <4>1 DEF InOrder
      <4> QED
        BY <1>6, <2>4, <3>2, <4>2
    <3> QED
      BY <3>1, <3>2
  <2>8. \A i \in from .. to - 1 : i \in start .. LineTo
    BY <1>1, <2>5, <2>6
  <2>9. \A i \in from .. to - 1 : text[i] # "space"
    <3> SUFFICES ASSUME NEW i \in from .. to - 1, text[i] = "space" PROVE FALSE
      OBVIOUS
    <3>0. i \in Int /\ from <= i /\ i < to
      BY <2>5
    <3>1. PICK j \in 1 .. Len(spaces) : spaces[j] = i
      BY <1>2, <2>8 DEF InOrder
    <3>2. j >= k
      <4> SUFFICES ASSUME j < k PROVE FALSE
        BY <2>1, <1>4
      <4>1. k - 1 \in 1 .. Len(spaces) /\ k # 1
        BY <1>4, <2>1
      <4>2. spaces[j] <= spaces[k - 1]
        <5>1. j = k - 1 \/ j < k - 1
          BY <2>1, <1>4
        <5>2. j < k - 1 => spaces[j] < spaces[k - 1]
          BY <1>2, <4>1 DEF InOrder
        <5> QED
          BY <1>7, <4>1, <5>1, <5>2
      <4> QED
        BY <1>7, <2>3, <3>0, <3>1, <4>1, <4>2
    <3>3. k \in 1 .. Len(spaces) /\ k # Len(spaces) + 1
      BY <1>4, <2>1, <3>2
    <3>4. spaces[k] <= spaces[j]
      <4>1. k < j => spaces[k] < spaces[j]
        BY <1>2, <3>3 DEF InOrder
      <4> QED
        BY <1>4, <1>7, <3>2, <3>3, <4>1
    <3> QED
      BY <1>7, <2>4, <3>0, <3>1, <3>3, <3>4
  <2>10. \A i \in from .. to - 1 : mem[i] = text[i] /\ mem[i] # "nul"
    BY <1>6, <2>8, <2>9
  <2>11. to \in Cell
    <3>1. LineTo + 1 < MaxSize + Behind /\ MaxSize + Behind \in Int
      BY <1>1, CellsAre
    <3>2. to \in Int /\ 0 <= to /\ to < MaxSize + Behind
      BY <1>1, <2>5, <2>6, <3>1
    <3> QED
      BY <3>2, CellsAre
  <2> HIDE DEF from, to
  <2>12. Min({n \in Cell : n >= from /\ mem[n] = "nul"}) = to
    <3> DEFINE S == {n \in Cell : n >= from /\ mem[n] = "nul"}
    <3>1. to \in S
      BY <2>6, <2>7, <2>11, <2>5
    <3>2. \A n \in S : to <= n
      BY <2>5, <2>10, CellsAre
    <3>3. \A n \in S : n \in Int
      BY CellsAre
    <3> HIDE DEF S
    <3>4. Min(S) \in S /\ \A n \in S : Min(S) <= n
      BY <3>1, <3>2 DEF Min
    <3>5. Min(S) <= to /\ to <= Min(S)
      BY <3>1, <3>2, <3>4
    <3>6. Min(S) = to
      BY <2>5, <3>3, <3>4, <3>5
    <3> QED
      BY <3>6 DEF S
  <2>13. StringAt(mem, from) = [n \in 1 .. to - from |-> mem[from + n - 1]]
    BY <2>12 DEF StringAt
  <2>14. to - from = to - cuts[k] - 1
    BY <2>5
  <2>15. \A n \in 1 .. to - from : mem[from + n - 1] = text[cuts[k] + n]
    <3> SUFFICES ASSUME NEW n \in 1 .. to - from PROVE mem[from + n - 1] = text[cuts[k] + n]
      OBVIOUS
    <3>1. from + n - 1 \in from .. to - 1 /\ from + n - 1 = cuts[k] + n
      BY <2>5
    <3> QED
      BY <2>10, <3>1
  <2>16. StringAt(mem, from) = [n \in 1 .. to - cuts[k] - 1 |-> text[cuts[k] + n]]
    BY <2>13, <2>14, <2>15
  <2> QED
    BY <2>16 DEF from, to
<1>10. DOMAIN argv = 1 .. Len(spaces) + 1
  BY <1>8
<1> QED
  BY <1>4, <1>9, <1>10

LEMMA LinesAreThere ==
    ASSUME ScriptAssumption
    PROVE  /\ Len(Lines) \in Nat
           /\ script => Len(Lines) = Len(LineEnds) /\ LineEnds \in Seq(Int)
                        /\ \A k \in 1 .. Len(Lines) : Lines[k] = LineArguments(k)
           /\ ~script => Len(Lines) = 1 /\ Lines[1] = Arguments(0, Counted)
<1>1. CASE script
  BY <1>1, LinesAre, LineEndsAre DEF InOrder
<1>2. CASE ~script
  <2>1. Lines = <<Arguments(0, Counted)>>
    BY <1>2 DEF Lines
  <2> QED
    BY <1>2, <2>1
<1> QED
  BY <1>1, <1>2

LEMMA ScriptInitially ==
    ASSUME ScriptAssumption, Init
    PROVE  ScriptIInv
<1> USE CellsAre, CountedIsThere
<1>0. /\ MaxSize \in Nat /\ Behind \in Nat /\ MaxArgs \in Nat /\ MaxArgs >= 1
      /\ MaxArgs <= MaxSize + Behind
      /\ \A i : i \in Cell <=> i \in Int /\ 0 <= i /\ i < MaxSize + Behind
      /\ 0 \in Cell
  BY CellsAre
<1>1. /\ text \in [Cell -> Units] /\ mem = text /\ start = 0 /\ end = 0 /\ running = TRUE
      /\ pos = 0 /\ ran = <<>> /\ Len(ran) = 0
  BY DEF Init
<1>2. TypeOK /\ argv \in Seq(Cell) /\ pc \in {"scan", "split"} /\ Len(argv) <= MaxArgs
  <2>1. CASE script
    <3>1. script = TRUE /\ size \in 0 .. MaxSize /\ pc = "scan" /\ argv = <<>>
      BY <2>1 DEF Init
    <3> QED
      BY <1>0, <1>1, <3>1 DEF TypeOK
  <2>2. CASE ~script
    <3>1. script = FALSE /\ size = MaxArgs /\ pc = "split" /\ argv = <<0>>
      BY <2>2 DEF Init
    <3> QED
      BY <1>0, <1>1, <3>1 DEF TypeOK
  <2> QED
    BY <2>1, <2>2
<1>3. RanLines
  BY <1>1, <1>2, LinesAreThere DEF RanLines
<1>4. ScanIsRight
  <2>1. script => pc = "scan"
    BY DEF Init
  <2> QED
    BY <1>0, <1>1, <2>1 DEF ScanIsRight, CountedIs
<1>5. ~script => /\ pc = "split" /\ argv = <<0>>
                 /\ Counted + 1 \in Cell /\ text[Counted + 1] = "nul"
                 /\ \A i \in MaxArgs .. Counted : text[i] # "space"
  <2> SUFFICES ASSUME ~script
               PROVE  /\ pc = "split" /\ argv = <<0>>
                      /\ Counted + 1 \in Cell /\ text[Counted + 1] = "nul"
                      /\ \A i \in MaxArgs .. Counted : text[i] # "space"
    OBVIOUS
  <2>1. /\ pc = "split" /\ argv = <<0>>
        /\ \E i \in Cell : /\ text[i] = "nul"
                         /\ \A n \in MaxArgs .. i - 1 : text[n] \notin {"space", "newline"}
    BY DEF Init
  <2>2. PICK i \in Cell : /\ text[i] = "nul"
                         /\ \A n \in MaxArgs .. i - 1 : text[n] \notin {"space", "newline"}
    BY <2>1
  <2>3. i \in Int /\ 0 <= i /\ i < MaxSize + Behind /\ ~(i <= Counted)
    BY <1>0, <2>2 DEF CountedIs
  <2>4. Counted \in Int
    BY DEF CountedIs
  <2>5. \A n \in MaxArgs .. Counted : n \in MaxArgs .. i - 1
    BY <2>3, <2>4, <1>0
  <2>6. Counted + 1 \in Cell /\ text[Counted + 1] = "nul"
    BY <1>0, <2>3 DEF CountedIs
  <2> QED
    BY <2>1, <2>2, <2>5, <2>6
<1>6. PromptIsRight
  BY <1>1, <1>5 DEF PromptIsRight
<1>7. pc \in {"split", "lookup"} => LineIsSplit
  <2> SUFFICES ASSUME pc = "split" PROVE LineIsSplit
    BY <1>2
  <2>1. ~script
    BY DEF Init
  <2>2. LineTo = Counted
    BY <2>1 DEF LineTo
  <2>3. InOrder(PlacesOf("space", 0, Counted), "space", 0, Counted)
    BY PlacesAreInOrder DEF CountedIs
  <2> DEFINE places == PlacesOf("space", 0, Counted)
  <2>4. Len(places) \in Nat
    BY <2>3 DEF InOrder
  <2>5. Counted + 1 \in Cell /\ text[Counted + 1] = "nul"
    BY <1>5, <2>1
  <2>6. \A i \in 0 .. Counted : text[i] # "nul"
    BY <1>0, <2>1 DEF CountedIs
  <2>7. Counted \in Int /\ 0 <= Counted + 1
    BY DEF CountedIs
  <2> HIDE DEF places
  <2>8. argv = <<0>> /\ Len(argv) = 1 /\ argv[1] = 0 /\ 1 <= Len(places) + 1
    BY <1>5, <2>1, <2>4
  <2>9. (\A k \in 1 .. 1 : k = 1) /\ ~(\E i : i \in 0 .. 0 - 1)
    OBVIOUS
  <2> QED
    BY <1>1, <2>2, <2>5, <2>6, <2>7, <2>8, <2>9 DEF LineIsSplit, places
<1>8. ArgvIsLeftByFullLines
  BY <1>2 DEF ArgvIsLeftByFullLines
<1> QED
  BY <1>2, <1>3, <1>4, <1>6, <1>7, <1>8 DEF ScriptIInv

(* What a step leaves of the lines that were run. *)
LEMMA RanStays ==
    ASSUME RanLines, UNCHANGED <<script, text, ran, running>>,
           (pc' = "done" /\ running) => Len(ran) = Len(Lines)
    PROVE  RanLines'
BY TextStays DEF RanLines

LEMMA ScanNumbers ==
    ASSUME ScriptAssumption, ScriptIInv, pc = "scan"
    PROVE  /\ script /\ CountedIs(Counted) /\ end <= Counted
           /\ end \in Int /\ 0 <= end /\ start \in Int /\ 0 <= start /\ start <= end + 1
           /\ Len(ran) \in Nat /\ Len(ran) <= Len(LineEnds) /\ Len(LineEnds) \in Nat
           /\ Len(ran) > 0 => LineEnds[Len(ran)] \in Int
           /\ start = IF Len(ran) = 0 THEN 0 ELSE LineEnds[Len(ran)] + 1
           /\ \A i \in start .. end : mem[i] = text[i] /\ (i > 0 => text[i] # "newline")
           /\ \A i \in Cell : i > end => mem[i] = text[i]
           /\ text \in [Cell -> Units] /\ mem \in [Cell -> Units \cup {"nul"}]
           /\ Len(argv) <= MaxArgs
<1>1. script
  BY DEF ScriptIInv, PromptIsRight
<1>2. CountedIs(Counted)
  BY CountedIsThere
<1>3. Len(Lines) = Len(LineEnds) /\ LineEnds \in Seq(Int) /\ Len(LineEnds) \in Nat
  BY <1>1, LinesAreThere
<1>4. Len(ran) \in Nat /\ Len(ran) <= Len(LineEnds)
  BY <1>3 DEF ScriptIInv, RanLines
<1>5. Len(ran) > 0 => LineEnds[Len(ran)] \in Int
  BY <1>3, <1>4
<1>6. end \in Int /\ 0 <= end /\ start \in Int /\ 0 <= start
      /\ text \in [Cell -> Units] /\ mem \in [Cell -> Units \cup {"nul"}]
      /\ Len(argv) <= MaxArgs
  BY CellsAre DEF ScriptIInv, TypeOK
<1> QED
  BY <1>1, <1>2, <1>3, <1>4, <1>5, <1>6 DEF ScriptIInv, ScanIsRight

(* In front of the scan no newline is missing. *)
LEMMA NewlinesInFront ==
    ASSUME ScriptAssumption, ScriptIInv, pc = "scan",
           NEW j \in 1 .. end, text[j] = "newline"
    PROVE  Len(ran) > 0 /\ j <= LineEnds[Len(ran)]
<1>1. j \notin start .. end
  BY ScanNumbers
<1> QED
  BY <1>1, ScanNumbers

LEMMA ScanEndsStep ==
    ASSUME ScriptAssumption, ScriptIInv, ScanEnds
    PROVE  ScriptIInv'
<1>1. /\ pc = "scan" /\ end + 1 \in Cell
      /\ mem[end + 1] = "nul" \/ ~running
      /\ end' = end + 1 /\ pc' = "done"
      /\ UNCHANGED <<script, text, size, mem, start, running, argv, pos, ran>>
  BY DEF ScanEnds, ScanNext
<1>2. Counted' = Counted /\ Lines' = Lines /\ LineEnds' = LineEnds
  BY <1>1, TextStays
<1>3. running => Len(ran) = Len(Lines)
  <2> SUFFICES ASSUME running PROVE Len(ran) = Len(Lines)
    OBVIOUS
  <2>1. text[end + 1] = "nul"
    BY <1>1, ScanNumbers
  <2>2. Counted = end
    BY <1>1, <2>1, ScanNumbers DEF CountedIs
  <2>3. InOrder(LineEnds, "newline", 1, Counted)
    BY <1>1, ScanNumbers, LineEndsAre
  <2> DEFINE m == Len(ran)
  <2>4. m \in 0 .. Len(LineEnds)
    BY <1>1, ScanNumbers
  <2>5. \A j \in 1 .. Counted : text[j] = "newline" => m > 0 /\ j <= LineEnds[m]
    BY <1>1, <2>2, NewlinesInFront
  <2>6. Counted \in Int
    BY <1>1, <2>2, ScanNumbers
  <2> HIDE DEF m
  <2>7. m = Len(LineEnds)
    BY <2>3, <2>4, <2>5, <2>6, NoMorePlaces
  <2> QED
    BY <1>1, <2>7, ScanNumbers, LinesAreThere DEF m
<1>4. RanLines'
  BY <1>1, <1>3, RanStays DEF ScriptIInv
<1>5. TypeOK' /\ (argv \in Seq(Cell))' /\ (Len(argv) <= MaxArgs)'
  BY <1>1, ScanNumbers DEF ScriptIInv, TypeOK
<1>6. ScanIsRight'
  <2>1. end + 1 <= Counted + 1
    BY <1>1, ScanNumbers DEF CountedIs
  <2>2. start = IF Len(ran) = 0 THEN 0 ELSE LineEnds[Len(ran)] + 1
    BY <1>1, ScanNumbers
  <2> QED
    BY <1>1, <1>2, <2>1, <2>2 DEF ScanIsRight
<1>7. PromptIsRight' /\ ArgvIsLeftByFullLines'
  BY <1>1, ScanNumbers DEF PromptIsRight, ArgvIsLeftByFullLines
<1> QED
  BY <1>1, <1>4, <1>5, <1>6, <1>7 DEF ScriptIInv

LEMMA ScanUnitStep ==
    ASSUME ScriptAssumption, ScriptIInv, ScanUnit
    PROVE  ScriptIInv'
<1>1. /\ pc = "scan" /\ end + 1 \in Cell /\ mem[end + 1] \notin {"nul", "newline"}
      /\ end' = end + 1 /\ pc' = "scan"
      /\ UNCHANGED <<script, text, size, mem, start, running, argv, pos, ran>>
  BY DEF ScanUnit, ScanNext
<1>2. Counted' = Counted /\ Lines' = Lines /\ LineEnds' = LineEnds
  BY <1>1, TextStays
<1>3. text[end + 1] \notin {"nul", "newline"} /\ mem[end + 1] = text[end + 1]
  BY <1>1, ScanNumbers
<1>4. end + 1 <= Counted
  BY <1>1, <1>3, ScanNumbers DEF CountedIs
<1>5. RanLines'
  BY <1>1, RanStays DEF ScriptIInv
<1>6. TypeOK' /\ (argv \in Seq(Cell))' /\ (Len(argv) <= MaxArgs)'
  BY <1>1, ScanNumbers DEF ScriptIInv, TypeOK
<1>7. ScanIsRight'
  <2>1. \A i \in start .. end + 1 : mem[i] = text[i] /\ (i > 0 => text[i] # "newline")
    <3> SUFFICES ASSUME NEW i \in start .. end + 1
                 PROVE  mem[i] = text[i] /\ (i > 0 => text[i] # "newline")
      OBVIOUS
    <3>1. i \in start .. end \/ i = end + 1
      BY <1>1, ScanNumbers
    <3> QED
      BY <1>1, <1>3, <3>1, ScanNumbers
  <2>2. \A i \in Cell : i > end + 1 => mem[i] = text[i]
    BY <1>1, ScanNumbers, CellsAre
  <2>3. start <= end + 1 + 1 /\ end + 1 <= Counted + 1
    <3>1. start \in Int /\ end \in Int /\ start <= end + 1
      BY <1>1, ScanNumbers
    <3>2. Counted \in Int
      BY CountedIsThere DEF CountedIs
    <3> QED
      BY <1>4, <3>1, <3>2
  <2>4. start = IF Len(ran) = 0 THEN 0 ELSE LineEnds[Len(ran)] + 1
    BY <1>1, ScanNumbers
  <2> QED
    BY <1>1, <1>2, <1>4, <2>1, <2>2, <2>3, <2>4 DEF ScanIsRight
<1>8. PromptIsRight' /\ ArgvIsLeftByFullLines'
  BY <1>1, ScanNumbers DEF PromptIsRight, ArgvIsLeftByFullLines
<1> QED
  BY <1>1, <1>5, <1>6, <1>7, <1>8 DEF ScriptIInv

LEMMA ScanTooFarStep ==
    ASSUME ScriptAssumption, ScriptIInv, ScanTooFar
    PROVE  ScriptIInv'
<1>1. /\ pc = "scan" /\ pc' = "fault"
      /\ UNCHANGED <<script, text, size, mem, start, end, running, argv, pos, ran>>
  BY DEF ScanTooFar
<1>2. Counted' = Counted /\ Lines' = Lines /\ LineEnds' = LineEnds
  BY <1>1, TextStays
<1>3. RanLines'
  BY <1>1, RanStays DEF ScriptIInv
<1>4. TypeOK' /\ (argv \in Seq(Cell))' /\ (Len(argv) <= MaxArgs)'
  BY <1>1, ScanNumbers DEF ScriptIInv, TypeOK
<1>5. ScanIsRight'
  BY <1>1, <1>2 DEF ScanIsRight, ScriptIInv
<1>6. PromptIsRight' /\ ArgvIsLeftByFullLines'
  <2>1. script /\ Len(argv) \in Nat /\ ~(Len(argv) > MaxArgs)
    BY <1>1, ScanNumbers, CellsAre DEF ScriptIInv
  <2> QED
    BY <1>1, <2>1 DEF PromptIsRight, ArgvIsLeftByFullLines
<1> QED
  BY <1>1, <1>3, <1>4, <1>5, <1>6 DEF ScriptIInv

LEMMA ScanLineStep ==
    ASSUME ScriptAssumption, ScriptIInv, ScanLine
    PROVE  ScriptIInv'
<1> DEFINE e == end + 1
           m == Len(ran)
           to == IF start = 0 /\ text[0] = "nul" THEN -1 ELSE e - 1
           places == PlacesOf("space", start, to)
<1>1. /\ pc = "scan" /\ e \in Cell /\ mem[e] = "newline" /\ running
      /\ end' = e /\ mem' = [mem EXCEPT ![e] = "nul"]
      /\ argv' = <<start>> /\ pos' = start /\ pc' = "split"
      /\ UNCHANGED <<script, text, size, start, running, ran>>
  BY DEF ScanLine, ScanNext
<1>2. Counted' = Counted /\ Lines' = Lines /\ LineEnds' = LineEnds
  BY <1>1, TextStays
<1>3. text[e] = "newline"
  BY <1>1, ScanNumbers
<1>4. /\ script /\ Counted \in Int /\ end \in Int /\ 0 <= end /\ start \in Int /\ 0 <= start
      /\ start <= end + 1 /\ m \in Nat /\ e <= Counted
      /\ m <= Len(LineEnds) /\ Len(LineEnds) \in Nat
      /\ start = IF m = 0 THEN 0 ELSE LineEnds[m] + 1
      /\ m > 0 => LineEnds[m] \in Int
  <2>1. /\ script /\ CountedIs(Counted) /\ end <= Counted
        /\ end \in Int /\ 0 <= end
    BY <1>1, ScanNumbers
  <2>2. e <= Counted
    BY <1>1, <1>3, <2>1 DEF CountedIs
  <2>3. Counted \in Int
    BY <2>1 DEF CountedIs
  <2> QED
    BY <1>1, <2>2, <2>3, ScanNumbers
<1>5. m < Len(LineEnds) /\ LineEnds[m + 1] = e
  <2>1. InOrder(LineEnds, "newline", 1, Counted)
    BY <1>4, LineEndsAre
  <2>2. e \in 1 .. Counted /\ m \in 0 .. Len(LineEnds)
    BY <1>4
  <2>3. m > 0 => LineEnds[m] < e
    BY <1>4
  <2>4. \A j \in 1 .. e - 1 : text[j] = "newline" => m > 0 /\ j <= LineEnds[m]
    BY <1>1, <1>4, NewlinesInFront
  <2> HIDE DEF e, m
  <2> QED
    BY <1>3, <1>4, <2>1, <2>2, <2>3, <2>4, NextPlace
<1>6. /\ text \in [Cell -> Units] /\ mem \in [Cell -> Units \cup {"nul"}]
      /\ \A i \in start .. end : mem[i] = text[i]
      /\ \A i \in Cell : i > end => mem[i] = text[i]
      /\ \A i \in Cell : i <= end /\ i > 0 => text[i] # "nul"
      /\ start \in Cell
  <2>1. \A i \in Cell : i <= end /\ i > 0 => text[i] # "nul"
    BY <1>1, <1>4, ScanNumbers, CellsAre DEF CountedIs
  <2>2. start \in Cell
    BY <1>1, <1>4, CellsAre
  <2> QED
    BY <1>1, <2>1, <2>2, ScanNumbers
<1>7. /\ \A i \in Cell : i # e => mem'[i] = mem[i]
      /\ mem'[e] = "nul" /\ mem' \in [Cell -> Units \cup {"nul"}]
  BY <1>1, <1>6
<1>8. RanLines'
  BY <1>1, RanStays DEF ScriptIInv
<1>9. TypeOK' /\ (argv \in Seq(Cell))' /\ (Len(argv) <= MaxArgs)'
  <2>1. Len(argv') = 1 /\ argv' \in Seq(Cell) /\ \A k \in DOMAIN argv' : argv'[k] \in Cell
    BY <1>1, <1>6
  <2>2. 1 <= MaxArgs /\ MaxArgs \in Nat
    BY CellsAre
  <2> QED
    BY <1>1, <1>6, <1>7, <2>1, <2>2 DEF ScriptIInv, TypeOK
<1>10. ScanIsRight'
  <2>1. \A i \in Cell : i > e => mem'[i] = text[i]
    BY <1>4, <1>6, <1>7, CellsAre
  <2>2. e <= Counted + 1 /\ start <= e
    BY <1>4
  <2> QED
    BY <1>1, <1>2, <1>4, <1>5, <2>1, <2>2 DEF ScanIsRight
<1>11. PromptIsRight' /\ ArgvIsLeftByFullLines'
  BY <1>1, <1>4 DEF PromptIsRight, ArgvIsLeftByFullLines
<1>12. LineIsSplit'
  <2>1. LineTo' = to
    BY <1>1, <1>4 DEF LineTo
  <2>2. PlacesOf("space", start, LineTo)' = places
    BY <1>1, <2>1 DEF PlacesOf
  <2>3. to \in Int /\ start <= to + 1 /\ to + 1 \in Cell /\ to <= end
    <3>1. 0 \in Cell
      BY CellsAre
    <3> QED
      BY <1>1, <1>4, <3>1
  <2>4. mem'[to + 1] = "nul"
    <3>1. CASE start = 0 /\ text[0] = "nul"
      <4>1. 0 \in Cell /\ 0 \in start .. end /\ 0 # e
        BY <1>4, <3>1, CellsAre
      <4>2. to + 1 = 0
        BY <3>1
      <4>3. mem'[0] = "nul"
        BY <1>6, <1>7, <3>1, <4>1
      <4> QED
        BY <4>2, <4>3
    <3>2. CASE ~(start = 0 /\ text[0] = "nul")
      <4>1. to + 1 = e
        BY <1>4, <3>2
      <4> QED
        BY <1>7, <4>1
    <3> QED
      BY <3>1, <3>2
  <2>5. \A i \in start .. to : i \in Cell /\ i <= end /\ i # e /\ i \in start .. end
    <3>1. \A i \in start .. to : i \in Int /\ start <= i /\ i <= end
      BY <1>4, <2>3
    <3>2. e < MaxSize + Behind /\ MaxSize + Behind \in Int
      BY <1>1, CellsAre
    <3>3. \A i \in start .. to : i \in Cell
      BY <1>4, <3>1, <3>2, CellsAre
    <3> QED
      BY <1>4, <3>1, <3>3
  <2>6. \A i \in start .. to : text[i] # "nul"
    <3> SUFFICES ASSUME NEW i \in start .. to, text[i] = "nul" PROVE FALSE
      OBVIOUS
    <3>1. i \in Int /\ start <= i /\ i <= to
      BY <1>4, <2>3
    <3>2. ~(i > 0)
      BY <1>6, <2>5
    <3>3. i = 0 /\ start = 0
      BY <1>4, <3>1, <3>2
    <3>4. to = -1
      BY <3>3
    <3> QED
      BY <3>1, <3>3, <3>4
  <2>7. \A i \in start .. to : mem'[i] = text[i]
    BY <1>6, <1>7, <2>5
  <2>8. InOrder(places, "space", start, to)
    BY <1>4, <2>3, PlacesAreInOrder
  <2>9. Len(places) \in Nat
    BY <2>8 DEF InOrder
  <2> HIDE DEF places, to, e
  <2>10. /\ Len(argv') = 1 /\ 1 <= Len(places) + 1 /\ argv'[1] = start
         /\ \A k \in 1 .. 1 : k = 1
    BY <1>1, <2>9
  <2>11. \A i \in start .. to : ~(i < start)
    BY <1>4, <2>3
  <2>12. start \in start .. to + 1 /\ start >= start + 1 - 1 /\ ~(\E i : i \in start .. start - 1)
    BY <1>4, <2>3
  <2>13. (pos' \in start' .. LineTo' + 1) /\ (pos' >= start' + Len(argv') - 1)
         /\ \A i \in argv'[Len(argv')] .. pos' - 1 : text'[i] # "space"
    BY <1>1, <2>1, <2>10, <2>12
  <2>14. \A k \in 1 .. Len(argv') :
            argv'[k] = IF k = 1 THEN start' ELSE places[k - 1] + 1
    BY <1>1, <2>10
  <2>15. argv'[Len(argv')] <= pos'
    BY <1>1, <1>4, <2>10
  <2> QED
    BY <1>1, <2>1, <2>2, <2>3, <2>4, <2>6, <2>7, <2>10, <2>11, <2>13, <2>14, <2>15
       DEF LineIsSplit
<1> QED
  BY <1>1, <1>8, <1>9, <1>10, <1>11, <1>12 DEF ScriptIInv

(* The line that is split stays where it is. *)
LEMMA SplitStays ==
    ASSUME UNCHANGED <<script, text, start, end>>
    PROVE  /\ Counted' = Counted /\ LineEnds' = LineEnds /\ LineTo' = LineTo
           /\ PlacesOf("space", start, LineTo)' = PlacesOf("space", start, LineTo)
<1>1. Counted' = Counted /\ LineEnds' = LineEnds
  BY TextStays
<1>2. LineTo' = LineTo
  BY <1>1 DEF LineTo
<1> QED
  BY <1>1, <1>2 DEF PlacesOf

(* The numbers of a line that is split. *)
LEMMA SplitNumbers ==
    ASSUME ScriptAssumption, ScriptIInv, pc \in {"split", "lookup"}
    PROVE  /\ LineIsSplit /\ LineTo \in Int /\ start \in Int /\ 0 <= start
           /\ start <= LineTo + 1 /\ LineTo + 1 < MaxSize + Behind
           /\ pos \in Int /\ start <= pos /\ pos <= LineTo + 1 /\ pos \in Cell
           /\ Len(argv) \in Nat /\ Len(argv) >= 1 /\ Len(argv) <= MaxArgs
           /\ argv \in Seq(Cell) /\ DOMAIN argv = 1 .. Len(argv)
           /\ InOrder(PlacesOf("space", start, LineTo), "space", start, LineTo)
           /\ Len(PlacesOf("space", start, LineTo)) \in Nat
           /\ text \in [Cell -> Units] /\ mem \in [Cell -> Units \cup {"nul"}]
           /\ script => LineTo < end
           /\ end \in Int
<1>1. LineIsSplit
  BY DEF ScriptIInv
<1>2. LineTo \in Int
  BY LineToIs DEF ScriptIInv
<1>3. start \in Int /\ 0 <= start /\ pos \in Cell /\ pos \in Int /\ argv \in Seq(Cell)
      /\ text \in [Cell -> Units] /\ mem \in [Cell -> Units \cup {"nul"}]
      /\ end \in Int /\ 0 <= end
  BY CellsAre DEF ScriptIInv, TypeOK
<1>4. Len(argv) \in Nat /\ DOMAIN argv = 1 .. Len(argv)
  BY <1>3
<1>5. Len(argv) <= MaxArgs
  BY DEF ScriptIInv
<1>6. /\ start <= LineTo + 1 /\ LineTo + 1 \in Cell /\ Len(argv) >= 1
      /\ start <= pos /\ pos <= LineTo + 1
  BY <1>1, <1>2, <1>3 DEF LineIsSplit
<1>7. LineTo + 1 < MaxSize + Behind
  BY <1>6, CellsAre
<1>8. InOrder(PlacesOf("space", start, LineTo), "space", start, LineTo)
  BY <1>2, <1>3, <1>6, PlacesAreInOrder
<1>9. Len(PlacesOf("space", start, LineTo)) \in Nat
  BY <1>8 DEF InOrder
<1>10. script => LineTo < end
  BY <1>3 DEF LineTo
<1> QED
  BY <1>1, <1>2, <1>3, <1>4, <1>5, <1>6, <1>7, <1>8, <1>9, <1>10

LEMMA UnitIsInLine ==
    ASSUME ScriptAssumption, ScriptIInv, pc = "split", mem[pos] # "nul"
    PROVE  pos <= LineTo /\ mem[pos] = text[pos]
<1>1. pos <= LineTo
  <2>1. mem[LineTo + 1] = "nul"
    BY SplitNumbers DEF LineIsSplit
  <2>2. pos # LineTo + 1
    BY <2>1
  <2> QED
    BY <2>2, SplitNumbers
<1>2. pos \in start .. LineTo
  BY <1>1, SplitNumbers
<1> QED
  BY <1>1, <1>2, SplitNumbers DEF LineIsSplit

LEMMA SplitUnitStep ==
    ASSUME ScriptAssumption, ScriptIInv, SplitUnit
    PROVE  ScriptIInv'
<1> DEFINE places == PlacesOf("space", start, LineTo)
<1>1. /\ pc = "split" /\ mem[pos] \notin {"space", "nul"} /\ pos' = pos + 1
      /\ pc' = "split"
      /\ UNCHANGED <<script, text, size, mem, start, end, running, argv, ran>>
  BY DEF SplitUnit
<1>2. Counted' = Counted /\ LineEnds' = LineEnds /\ LineTo' = LineTo
      /\ PlacesOf("space", start, LineTo)' = places
  BY <1>1, SplitStays
<1>3. pos <= LineTo /\ text[pos] # "space"
  BY <1>1, UnitIsInLine
<1>4. RanLines'
  BY <1>1, RanStays DEF ScriptIInv
<1>5. pos + 1 \in Cell
  <2>1. /\ pos \in Int /\ 0 <= pos /\ LineTo \in Int
        /\ LineTo + 1 < MaxSize + Behind /\ MaxSize + Behind \in Int
    BY <1>1, SplitNumbers, CellsAre
  <2>2. pos + 1 \in Int /\ 0 <= pos + 1 /\ pos + 1 < MaxSize + Behind
    BY <1>3, <2>1
  <2> QED
    BY <2>2, CellsAre
<1>6. TypeOK' /\ (argv \in Seq(Cell))' /\ (Len(argv) <= MaxArgs)'
  BY <1>1, <1>5, SplitNumbers DEF ScriptIInv, TypeOK
<1>7. ScanIsRight'
  BY <1>1, <1>2 DEF ScanIsRight, ScriptIInv
<1>8. PromptIsRight' /\ ArgvIsLeftByFullLines'
  BY <1>1, <1>2 DEF PromptIsRight, ArgvIsLeftByFullLines, ScriptIInv
<1>9. LineIsSplit'
  <2>1. LineIsSplit /\ LineTo \in Int /\ pos \in Int /\ start \in Int /\ start <= pos
        /\ Len(argv) \in Nat /\ Len(argv) >= 1
    BY <1>1, SplitNumbers
  <2>2. pos + 1 \in start .. LineTo + 1
    BY <1>3, <2>1
  <2>3. argv[Len(argv)] \in Int /\ argv[Len(argv)] <= pos + 1
    <3>1. argv \in Seq(Int) /\ Len(argv) \in 1 .. Len(argv)
      BY <1>1, <2>1, SplitNumbers, CellsAre
    <3>2. argv[Len(argv)] \in Int /\ argv[Len(argv)] <= pos
      BY <2>1, <3>1 DEF LineIsSplit
    <3> QED
      BY <2>1, <3>2
  <2>4. \A i \in argv[Len(argv)] .. pos + 1 - 1 : text[i] # "space"
    <3> SUFFICES ASSUME NEW i \in argv[Len(argv)] .. pos + 1 - 1 PROVE text[i] # "space"
      OBVIOUS
    <3>1. i = pos \/ i \in argv[Len(argv)] .. pos - 1
      BY <2>1, <2>3
    <3> QED
      BY <1>3, <2>1, <3>1 DEF LineIsSplit
  <2>5. \A i \in start .. LineTo :
           mem[i] = IF i < pos + 1 /\ text[i] = "space" THEN "nul" ELSE text[i]
    <3> SUFFICES ASSUME NEW i \in start .. LineTo
                 PROVE  mem[i] = IF i < pos + 1 /\ text[i] = "space" THEN "nul" ELSE text[i]
      OBVIOUS
    <3>1. i < pos + 1 <=> i < pos \/ i = pos
      BY <2>1
    <3> QED
      BY <1>3, <2>1, <3>1 DEF LineIsSplit
  <2>6. pos + 1 > start + Len(argv) - 1
    BY <2>1 DEF LineIsSplit
  <2>7. pos + 1 >= start + Len(argv) - 1 /\ pos + 1 # start + Len(argv) - 1
    BY <2>1, <2>6
  <2> HIDE DEF places
  <2> QED
    BY <1>1, <1>2, <2>1, <2>2, <2>3, <2>4, <2>5, <2>7 DEF LineIsSplit, places
<1> QED
  BY <1>1, <1>4, <1>6, <1>7, <1>8, <1>9 DEF ScriptIInv

LEMMA SplitEndsStep ==
    ASSUME ScriptAssumption, ScriptIInv, SplitEnds
    PROVE  ScriptIInv'
<1>1. /\ pc = "split" /\ mem[pos] = "nul" /\ pc' = "lookup"
      /\ UNCHANGED <<script, text, size, mem, start, end, running, argv, pos, ran>>
  BY DEF SplitEnds
<1>2. /\ Counted' = Counted /\ LineEnds' = LineEnds /\ LineTo' = LineTo
      /\ PlacesOf("space", start, LineTo)' = PlacesOf("space", start, LineTo)
  BY <1>1, SplitStays
<1>3. pos = LineTo + 1
  <2> SUFFICES ASSUME pos <= LineTo PROVE FALSE
    BY <1>1, SplitNumbers
  <2>1. pos \in start .. LineTo
    BY <1>1, SplitNumbers
  <2>2. mem[pos] = text[pos] /\ text[pos] # "nul"
    BY <1>1, <2>1, SplitNumbers DEF LineIsSplit
  <2> QED
    BY <1>1, <2>2
<1>4. RanLines'
  BY <1>1, RanStays DEF ScriptIInv
<1>5. TypeOK' /\ (argv \in Seq(Cell))' /\ (Len(argv) <= MaxArgs)'
  BY <1>1 DEF ScriptIInv, TypeOK
<1>6. ScanIsRight'
  BY <1>1, <1>2 DEF ScanIsRight, ScriptIInv
<1>7. PromptIsRight' /\ ArgvIsLeftByFullLines'
  BY <1>1, <1>2 DEF PromptIsRight, ArgvIsLeftByFullLines, ScriptIInv
<1>8. LineIsSplit'
  BY <1>1, <1>2, <1>3, SplitNumbers DEF LineIsSplit
<1> QED
  BY <1>1, <1>4, <1>5, <1>6, <1>7, <1>8 DEF ScriptIInv

LEMMA SplitSpaceStep ==
    ASSUME ScriptAssumption, ScriptIInv, SplitSpace
    PROVE  ScriptIInv'
<1> DEFINE places == PlacesOf("space", start, LineTo)
           n == Len(argv)
<1>1. /\ pc = "split" /\ mem[pos] = "space"
      /\ mem' = [mem EXCEPT ![pos] = "nul"] /\ pos' = pos + 1
      /\ argv' = Append(argv, pos + 1)
      /\ pc' = IF n < MaxArgs THEN "split" ELSE "fault"
      /\ UNCHANGED <<script, text, size, start, end, running, ran>>
  BY DEF SplitSpace
<1>2. Counted' = Counted /\ LineEnds' = LineEnds /\ LineTo' = LineTo
      /\ PlacesOf("space", start, LineTo)' = places
  BY <1>1, SplitStays
<1>3. pos <= LineTo /\ text[pos] = "space"
  BY <1>1, UnitIsInLine
<1>4. /\ LineIsSplit /\ LineTo \in Int /\ start \in Int /\ 0 <= start
      /\ LineTo + 1 < MaxSize + Behind
      /\ pos \in Int /\ start <= pos /\ pos \in Cell
      /\ n \in Nat /\ n >= 1 /\ n <= MaxArgs
      /\ argv \in Seq(Cell)
      /\ InOrder(places, "space", start, LineTo) /\ Len(places) \in Nat
      /\ text \in [Cell -> Units] /\ mem \in [Cell -> Units \cup {"nul"}]
      /\ script => LineTo < end
      /\ end \in Int
  BY <1>1, SplitNumbers
<1>5. pos + 1 \in Cell /\ MaxArgs \in Nat
  BY <1>3, <1>4, CellsAre
<1>6. RanLines'
  BY <1>1, RanStays DEF ScriptIInv
<1>7. /\ \A i \in Cell : i # pos => mem'[i] = mem[i]
      /\ mem'[pos] = "nul" /\ mem' \in [Cell -> Units \cup {"nul"}]
  BY <1>1, <1>4
<1>8. /\ argv' \in Seq(Cell) /\ Len(argv') = n + 1 /\ argv'[n + 1] = pos + 1
      /\ \A k \in 1 .. n : argv'[k] = argv[k]
      /\ \A k \in DOMAIN argv' : argv'[k] \in Cell
  <2> HIDE DEF Cell
  <2> QED
    BY <1>1, <1>4, <1>5
<1>9. TypeOK' /\ (argv \in Seq(Cell))' /\ (pc # "fault" => Len(argv) <= MaxArgs)'
  <2>1. n + 1 <= MaxArgs + 1 /\ (n < MaxArgs => n + 1 <= MaxArgs)
    BY <1>4, <1>5
  <2>2. pc' \in {"split", "fault"} /\ (pc' # "fault" => Len(argv') <= MaxArgs)
    BY <1>1, <1>8, <2>1
  <2> HIDE DEF n
  <2> QED
    BY <1>1, <1>5, <1>7, <1>8, <2>1, <2>2 DEF ScriptIInv, TypeOK
<1>10. ScanIsRight'
  <2> SUFFICES ASSUME script PROVE ScanIsRight'
    BY <1>1 DEF ScanIsRight
  <2>1. ScanIsRight
    BY DEF ScriptIInv
  <2>2. \A i \in Cell : i > end => mem'[i] = text[i]
    <3> SUFFICES ASSUME NEW i \in Cell, i > end PROVE mem'[i] = text[i]
      OBVIOUS
    <3>1. i # pos
      BY <1>3, <1>4, CellsAre
    <3> QED
      BY <1>1, <1>7, <2>1, <3>1 DEF ScanIsRight
  <2>3. pc' \in {"split", "fault"}
    BY <1>1
  <2> QED
    BY <1>1, <1>2, <2>1, <2>2, <2>3 DEF ScanIsRight
(* Where the spaces were counted to. *)
<1>11. n < Len(places) + 1 /\ places[n] = pos
  <2> DEFINE m == n - 1
  <2>1. m \in 0 .. Len(places) /\ (m = 0 <=> n = 1) /\ m + 1 = n
    BY <1>4 DEF LineIsSplit
  <2>2. n \in 1 .. n
    BY <1>4
  <2>3. argv[n] = IF m = 0 THEN start ELSE places[m] + 1
    BY <1>4, <2>1, <2>2 DEF LineIsSplit
  <2>4. argv[n] <= pos /\ \A i \in argv[n] .. pos - 1 : text[i] # "space"
    BY <1>4 DEF LineIsSplit
  <2>5. m > 0 => m \in 1 .. Len(places) /\ places[m] \in Int
    BY <1>4, <2>1 DEF InOrder
  <2> HIDE DEF m, n, places
  <2>6. m > 0 => places[m] < pos
    BY <1>4, <2>1, <2>3, <2>4, <2>5
  <2>7. \A j \in start .. pos - 1 : text[j] = "space" => m > 0 /\ j <= places[m]
    <3> SUFFICES ASSUME NEW j \in start .. pos - 1, text[j] = "space"
                 PROVE  m > 0 /\ j <= places[m]
      OBVIOUS
    <3>1. j \notin argv[n] .. pos - 1
      BY <2>4
    <3> QED
      BY <1>4, <2>1, <2>3, <2>5, <3>1
  <2>8. pos \in start .. LineTo
    BY <1>3, <1>4
  <2>9. m < Len(places) /\ places[m + 1] = pos
    BY <1>3, <1>4, <2>1, <2>6, <2>7, <2>8, NextPlace
  <2> QED
    BY <1>4, <2>1, <2>9
<1>12. pos >= start + n - 1
  BY <1>4 DEF LineIsSplit
<1>13. PromptIsRight' /\ ArgvIsLeftByFullLines'
  <2>1. CASE script
    <3>1. end - start >= MaxArgs \/ n < MaxArgs
      BY <1>3, <1>4, <1>5, <1>12, <2>1
    <3>2. n < MaxArgs => pc' = "split"
      BY <1>1
    <3>3. script' /\ end' = end /\ start' = start
      BY <1>1, <2>1
    <3> HIDE DEF n
    <3> QED
      BY <3>1, <3>2, <3>3 DEF PromptIsRight, ArgvIsLeftByFullLines
  <2>2. CASE ~script
    <3>1. PromptIsRight
      BY DEF ScriptIInv
    <3>2. start = 0 /\ LineTo = Counted /\ \A i \in MaxArgs .. Counted : text[i] # "space"
      BY <1>1, <2>2, <3>1 DEF PromptIsRight, LineTo
    <3>3. pos < MaxArgs
      BY <1>3, <1>4, <1>5, <3>2
    <3>4. ~(n < MaxArgs) => \A i \in 0 .. MaxArgs - 1 : text[i] = "space"
      <4> SUFFICES ASSUME ~(n < MaxArgs) PROVE \A i \in 0 .. MaxArgs - 1 : text[i] = "space"
        OBVIOUS
      <4>1. pos = start + n - 1 /\ pos = MaxArgs - 1
        BY <1>4, <1>5, <1>12, <3>2, <3>3
      <4>2. \A i \in start .. pos - 1 : text[i] = "space"
        BY <1>4, <4>1 DEF LineIsSplit
      <4>3. \A i \in 0 .. MaxArgs - 1 : i \in start .. pos - 1 \/ i = pos
        BY <1>5, <3>2, <4>1
      <4> QED
        BY <1>3, <4>2, <4>3
    <3>5. pc' = "fault" => ~(n < MaxArgs)
      BY <1>1
    <3>6. ~script' /\ text' = text /\ end' = end /\ start' = start /\ ran' = ran
          /\ pc' # "scan"
      BY <1>1, <2>2
    <3> HIDE DEF n
    <3> QED
      BY <1>1, <1>2, <3>1, <3>4, <3>5, <3>6, <2>2 DEF PromptIsRight, ArgvIsLeftByFullLines
  <2> QED
    BY <2>1, <2>2
<1>14. LineIsSplit'
  <2>1. pos + 1 \in start .. LineTo + 1 /\ pos + 1 >= start + (n + 1) - 1
    BY <1>3, <1>4, <1>12
  <2>2. mem'[LineTo + 1] = "nul"
    <3>1. LineTo + 1 \in Cell /\ mem[LineTo + 1] = "nul" /\ LineTo + 1 # pos
      BY <1>3, <1>4 DEF LineIsSplit
    <3> QED
      BY <1>7, <3>1
  <2>3. \A k \in 1 .. n + 1 : argv'[k] = IF k = 1 THEN start ELSE places[k - 1] + 1
    <3> SUFFICES ASSUME NEW k \in 1 .. n + 1
                 PROVE  argv'[k] = IF k = 1 THEN start ELSE places[k - 1] + 1
      OBVIOUS
    <3>1. CASE k \in 1 .. n
      BY <1>4, <1>8, <3>1 DEF LineIsSplit
    <3>2. CASE k = n + 1
      <4>1. k # 1 /\ k - 1 = n
        BY <1>4, <3>2
      <4> QED
        BY <1>8, <1>11, <3>2, <4>1
    <3> QED
      BY <1>4, <3>1, <3>2
  <2>4. \A i \in start .. LineTo :
           mem'[i] = IF i < pos + 1 /\ text[i] = "space" THEN "nul" ELSE text[i]
    <3> SUFFICES ASSUME NEW i \in start .. LineTo
                 PROVE  mem'[i] = IF i < pos + 1 /\ text[i] = "space" THEN "nul" ELSE text[i]
      OBVIOUS
    <3>1. i < pos + 1 <=> i < pos \/ i = pos
      BY <1>4
    <3>2. i \in Cell
      BY <1>4, CellsAre
    <3>3. mem[i] = IF i < pos /\ text[i] = "space" THEN "nul" ELSE text[i]
      BY <1>4 DEF LineIsSplit
    <3>4. CASE i = pos
      BY <1>3, <1>7, <3>1, <3>4
    <3>5. CASE i # pos
      BY <1>7, <3>1, <3>2, <3>3, <3>5
    <3> QED
      BY <3>4, <3>5
  <2>5. /\ argv'[n + 1] <= pos + 1 /\ ~(\E i : i \in argv'[n + 1] .. (pos + 1) - 1)
        /\ n + 1 >= 1 /\ n + 1 <= Len(places) + 1
    BY <1>4, <1>8, <1>11
  <2>6. /\ running /\ start <= LineTo + 1 /\ LineTo + 1 \in Cell
        /\ \A i \in start .. LineTo : text[i] # "nul"
    BY <1>4 DEF LineIsSplit
  <2>7. pc' # "lookup"
    BY <1>1
  <2>9. pos + 1 = start + (n + 1) - 1 =>
           \A i \in start .. (pos + 1) - 1 : text[i] = "space"
    <3> SUFFICES ASSUME pos + 1 = start + (n + 1) - 1, NEW i \in start .. (pos + 1) - 1
                 PROVE  text[i] = "space"
      OBVIOUS
    <3>1. pos = start + n - 1 /\ (i \in start .. pos - 1 \/ i = pos)
      BY <1>4
    <3> QED
      BY <1>3, <1>4, <3>1 DEF LineIsSplit
  <2> HIDE DEF places, n
  <2>8. /\ start' = start /\ text' = text /\ running' = running /\ LineTo' = LineTo
        /\ pos' = pos + 1 /\ Len(argv') = n + 1
    BY <1>1, <1>2, <1>8
  <2> QED
    BY <1>2, <2>1, <2>2, <2>3, <2>4, <2>5, <2>6, <2>7, <2>8, <2>9 DEF LineIsSplit
<1> QED
  BY <1>6, <1>9, <1>10, <1>13, <1>14 DEF ScriptIInv

LEMMA LookupStep ==
    ASSUME ScriptAssumption, ScriptIInv, Lookup
    PROVE  ScriptIInv'
<1> DEFINE args == [k \in DOMAIN argv |-> StringAt(mem, argv[k])]
           m == Len(ran)
<1>1. /\ pc = "lookup" /\ ran' = Append(ran, args)
      /\ running' = (running /\ args[1] # Exit)
      /\ start' = end + 1
      /\ pc' = IF script THEN "scan" ELSE "done"
      /\ UNCHANGED <<script, text, size, mem, end, argv, pos>>
  BY DEF Lookup
<1> HIDE DEF args
<1>2. Counted' = Counted /\ Lines' = Lines /\ LineEnds' = LineEnds
  BY <1>1, TextStays
<1>3. /\ RanLines /\ ScanIsRight /\ PromptIsRight /\ TypeOK /\ argv \in Seq(Cell)
      /\ LineIsSplit /\ running /\ pos = LineTo + 1 /\ Len(argv) <= MaxArgs
  BY <1>1 DEF ScriptIInv, LineIsSplit
<1>4. args = Arguments(start, LineTo)
  BY <1>3, ArgumentsAreRight DEF args
<1>5. Len(Lines) \in Nat /\ ran \in Seq({Lines[k] : k \in 1 .. Len(Lines)}) /\ m \in Nat
  BY <1>3, LinesAreThere DEF RanLines
<1>6. m < Len(Lines) /\ args = Lines[m + 1] /\ (~script => Len(Lines) = m + 1)
  <2>1. CASE script
    <3>1. /\ Len(Lines) = Len(LineEnds) /\ m < Len(LineEnds) /\ end = LineEnds[m + 1]
          /\ start = IF m = 0 THEN 0 ELSE LineEnds[m] + 1
      BY <1>1, <1>3, <2>1, LinesAreThere DEF ScanIsRight
    <3>2. m + 1 \in 1 .. Len(Lines) /\ (m = 0 <=> m + 1 = 1) /\ m + 1 - 1 = m
      BY <1>5, <3>1
    <3>3. Lines[m + 1] = LineArguments(m + 1)
      BY <2>1, <3>2, LinesAreThere
    <3>4. m > 0 => m \in 1 .. Len(LineEnds) /\ start > 0
      <4> SUFFICES ASSUME m > 0 PROVE m \in 1 .. Len(LineEnds) /\ start > 0
        OBVIOUS
      <4>1. m \in 1 .. Len(LineEnds)
        BY <1>5, <3>1
      <4>2. LineEnds[m] \in 1 .. Counted /\ Counted \in Int
        BY <2>1, <4>1, LineEndsAre, CountedIsThere DEF InOrder, CountedIs
      <4> QED
        BY <3>1, <4>1, <4>2
    <3>5. start = LineStart(m + 1)
      BY <3>1, <3>2 DEF LineStart
    <3>6. start = 0 <=> m + 1 = 1
      BY <1>5, <3>1, <3>2, <3>4
    <3>7. LineTo = IF m + 1 = 1 /\ text[0] = "nul" THEN -1 ELSE LineEnds[m + 1] - 1
      BY <2>1, <3>1, <3>6 DEF LineTo
    <3> HIDE DEF m
    <3>8. Arguments(start, LineTo) = LineArguments(m + 1)
      <4>1. CASE m + 1 = 1 /\ text[0] = "nul"
        <5>1. start = 0 /\ LineTo = -1
          BY <3>6, <3>7, <4>1
        <5>2. LineArguments(m + 1) = Arguments(0, -1)
          BY <4>1 DEF LineArguments
        <5> QED
          BY <5>1, <5>2
      <4>2. CASE ~(m + 1 = 1 /\ text[0] = "nul")
        <5>1. LineTo = LineEnds[m + 1] - 1
          BY <3>7, <4>2
        <5>2. LineArguments(m + 1) = Arguments(LineStart(m + 1), LineEnds[m + 1] - 1)
          BY <4>2 DEF LineArguments
        <5> QED
          BY <3>5, <5>1, <5>2
      <4> QED
        BY <4>1, <4>2
    <3> QED
      BY <1>4, <2>1, <3>1, <3>3, <3>8
  <2>2. CASE ~script
    <3>1. start = 0 /\ m = 0 /\ LineTo = Counted
      BY <1>1, <1>3, <2>2 DEF PromptIsRight, LineTo
    <3>2. Len(Lines) = 1 /\ Lines[1] = Arguments(0, Counted)
      BY <2>2, LinesAreThere
    <3> QED
      BY <1>4, <3>1, <3>2
  <2> QED
    BY <2>1, <2>2
<1>7. /\ ran' \in Seq({Lines[k] : k \in 1 .. Len(Lines)}) /\ Len(ran') = m + 1
      /\ ran'[m + 1] = args /\ \A k \in 1 .. m : ran'[k] = ran[k]
  <2> DEFINE S == {Lines[k] : k \in 1 .. Len(Lines)}
  <2>1. args \in S /\ ran \in Seq(S) /\ m \in Nat
    BY <1>5, <1>6
  <2> HIDE DEF S
  <2>2. /\ ran' \in Seq(S) /\ Len(ran') = m + 1
        /\ ran'[m + 1] = args /\ \A k \in 1 .. m : ran'[k] = ran[k]
    BY <1>1, <2>1
  <2> QED
    BY <2>2 DEF S
<1>8. RanLines'
  <2>1. \A k \in 1 .. m : ran[k] = Lines[k] /\ ran[k][1] # Exit
    BY <1>3 DEF RanLines
  <2>2. \A k \in 1 .. m + 1 : k \in 1 .. m \/ k = m + 1
    BY <1>5
  <2>3. \A k \in 1 .. m + 1 : ran'[k] = Lines[k]
    BY <1>6, <1>7, <2>1, <2>2
  <2>4. \A k \in 1 .. m + 1 : ran'[k][1] = Exit => ~running' /\ k = m + 1
    <3> SUFFICES ASSUME NEW k \in 1 .. m + 1, ran'[k][1] = Exit
                 PROVE  ~running' /\ k = m + 1
      OBVIOUS
    <3>1. k \notin 1 .. m
      BY <1>7, <2>1
    <3>2. k = m + 1 /\ args[1] = Exit
      BY <1>7, <2>2, <3>1
    <3> QED
      BY <1>1, <3>2
  <2>5. ~running' => ran' # <<>> /\ ran'[m + 1][1] = Exit
    <3>1. ~running' => args[1] = Exit
      BY <1>1, <1>3
    <3>2. ran' # <<>>
      BY <1>5, <1>7
    <3> QED
      BY <1>7, <3>1, <3>2
  <2>6. pc' = "done" => m + 1 = Len(Lines)
    BY <1>1, <1>6
  <2>7. m + 1 <= Len(Lines)
    BY <1>5, <1>6
  <2> HIDE DEF m
  <2> QED
    BY <1>2, <1>7, <2>3, <2>4, <2>5, <2>6, <2>7 DEF RanLines
<1>9. TypeOK' /\ (argv \in Seq(Cell))' /\ (Len(argv) <= MaxArgs)'
  <2>1. end + 1 \in 0 .. MaxSize + Behind
    <3>1. end \in Int /\ 0 <= end /\ end < MaxSize + Behind /\ MaxSize + Behind \in Int
      BY <1>3, CellsAre DEF TypeOK
    <3> QED
      BY <3>1
  <2>2. running' \in BOOLEAN /\ pc' \in {"scan", "done"}
    BY <1>1, <1>3
  <2> QED
    BY <1>1, <1>3, <2>1, <2>2 DEF TypeOK
<1>10. ScanIsRight'
  <2> SUFFICES ASSUME script PROVE ScanIsRight'
    BY <1>1 DEF ScanIsRight
  <2>1. /\ end <= Counted + 1 /\ end <= Counted /\ end = LineEnds[m + 1]
        /\ \A i \in Cell : i > end => mem[i] = text[i]
    BY <1>1, <1>3 DEF ScanIsRight
  <2>2. m + 1 # 0 /\ end + 1 <= end + 1 /\ ~(\E i : i \in end + 1 .. end)
    <3>1. end \in Int
      BY <1>3, CellsAre DEF TypeOK
    <3> QED
      BY <1>5, <3>1
  <2> HIDE DEF m
  <2> QED
    BY <1>1, <1>2, <1>7, <2>1, <2>2 DEF ScanIsRight
<1>11. PromptIsRight' /\ ArgvIsLeftByFullLines'
  <2>1. pc' # "fault" /\ (~script => pc' = "done")
    BY <1>1
  <2> QED
    BY <1>1, <1>2, <1>3, <2>1 DEF PromptIsRight, ArgvIsLeftByFullLines
<1>12. pc' \notin {"split", "lookup"}
  BY <1>1
<1> QED
  BY <1>8, <1>9, <1>10, <1>11, <1>12 DEF ScriptIInv

LEMMA ScriptInductive ==
    ASSUME ScriptAssumption, ScriptIInv, [Next]_vars
    PROVE  ScriptIInv'
<1>1. CASE UNCHANGED vars
  <2>1. /\ Counted' = Counted /\ Lines' = Lines /\ LineEnds' = LineEnds /\ LineTo' = LineTo
        /\ PlacesOf("space", start, LineTo)' = PlacesOf("space", start, LineTo)
    BY <1>1, TextStays, SplitStays DEF vars
  <2>2. RanLines' /\ TypeOK' /\ ScanIsRight' /\ PromptIsRight' /\ ArgvIsLeftByFullLines'
    BY <1>1, <2>1 DEF vars, ScriptIInv, TypeOK, RanLines, ScanIsRight, PromptIsRight,
       ArgvIsLeftByFullLines
  <2>3. LineIsSplit => LineIsSplit'
    BY <1>1, <2>1 DEF vars, LineIsSplit
  <2> QED
    BY <1>1, <2>2, <2>3 DEF vars, ScriptIInv
<1>2. CASE Next
  BY <1>2, ScanEndsStep, ScanUnitStep, ScanLineStep, ScanTooFarStep, SplitSpaceStep,
     SplitUnitStep, SplitEndsStep, LookupStep DEF Next
<1> QED
  BY <1>1, <1>2

LEMMA ScriptIsRight ==
    ASSUME ScriptAssumption, ScriptIInv
    PROVE  TypeOK /\ RunsTheLines /\ ScanStaysInBlock /\ ArgvIsLeftByFullLines
<1>1. Len(Lines) \in Nat /\ ran \in Seq({Lines[k] : k \in 1 .. Len(Lines)})
      /\ Len(ran) \in Nat /\ Len(ran) <= Len(Lines) /\ RanLines
  BY LinesAreThere DEF ScriptIInv, RanLines
<1>2. IsPrefix(ran, Lines)
  <2>1. SubSeq(ran, 1, Len(ran)) = [k \in 1 .. Len(ran) |-> ran[k]]
    BY <1>1
  <2>2. SubSeq(Lines, 1, Len(ran)) = [k \in 1 .. Len(ran) |-> Lines[k]]
    BY <1>1
  <2>3. \A k \in 1 .. Len(ran) : ran[k] = Lines[k]
    BY <1>1 DEF RanLines
  <2> QED
    BY <1>1, <2>1, <2>2, <2>3 DEF IsPrefix
<1>3. \A k \in 1 .. Len(ran) - 1 : ran[k][1] # Exit
  <2>1. \A k \in 1 .. Len(ran) - 1 : k \in 1 .. Len(ran) /\ k # Len(ran)
    BY <1>1
  <2> QED
    BY <1>1, <2>1 DEF RanLines
<1>4. pc = "done" => \/ Len(ran) = Len(Lines)
                     \/ ran # <<>> /\ Last(ran)[1] = Exit
  BY <1>1 DEF RanLines, Last
<1>5. ScanStaysInBlock
  <2> SUFFICES ASSUME script, end >= size, NEW i \in 1 .. size - 1 PROVE text[i] # "nul"
    BY DEF ScanStaysInBlock
  <2>1. end <= Counted + 1
    BY DEF ScriptIInv, ScanIsRight
  <2>2. end \in Int /\ end < MaxSize + Behind /\ size \in Int /\ MaxSize + Behind \in Int
    BY CellsAre DEF ScriptIInv, TypeOK
  <2>3. CountedIs(Counted)
    BY CountedIsThere
  <2>4. i \in Int /\ i > 0 /\ i <= Counted /\ i < MaxSize + Behind
    BY <2>1, <2>2, <2>3 DEF CountedIs
  <2>5. i \in Cell
    BY <2>4, CellsAre
  <2> QED
    BY <2>3, <2>4, <2>5 DEF CountedIs
<1> QED
  BY <1>2, <1>3, <1>4, <1>5 DEF RunsTheLines, ScriptIInv

ScriptIsSound == part = "script" => ScriptIInv

(* Whatever a text is made of, a script's or the line of the prompt, its   *)
(* lines are run with the arguments between their spaces, although both    *)
(* cut them out of the text they are still reading; the block is left only *)
(* without a terminator, and argv only by a line of a script with a unit   *)
(* for each of its places or by a prompt filled with spaces.               *)
THEOREM LinesAreRun ==
    ServicesSpec => []ScriptsRunTheirLines
<1> USE ScriptAssumption
<1>1. ServicesInit => ScriptIsSound
  BY OneServiceStarts, ScriptInitially DEF ScriptIsSound
<1>2. ScriptIsSound /\ [ServicesNext]_servicesVars => ScriptIsSound'
  BY OneServiceSteps, ScriptInductive DEF ScriptIsSound
<1>3. ScriptIsSound => ScriptsRunTheirLines
  BY ScriptIsRight DEF ScriptIsSound, ScriptsRunTheirLines
<1> QED
  BY <1>1, <1>2, <1>3, PTL DEF ServicesSpec

=============================================================================
