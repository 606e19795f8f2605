--------------------------- MODULE GraphicsProofs ---------------------------
(***************************************************************************)
(* What holds of the graphical commands, in the specification of all of    *)
(* them: of the loading, sorting and searching of a font, for every number *)
(* of characters, every code point and wherever the file ends; of the      *)
(* tiles of a character, of the sizes, pixels and files of an image, and   *)
(* of the characters of a console.                                         *)
(***************************************************************************)
EXTENDS Graphics, FiniteSetTheorems, TLAPS

AllRead == {"sort", "shift", "ready", "search", "done"}

(* The entries from n on are as they were read. *)
Untouched(n) == \A i \in 0 .. entries - 1 : i >= n => chars[i] = i

(* The first n entries are the first n characters in order. *)
SortedUpTo(n) ==
    /\ \A i, j \in 0 .. entries - 1 : i < j /\ j < n => Before(chars[i], chars[j])
    /\ \A i \in 0 .. entries - 1 : i < n => chars[i] < n

(* While a character is inserted, its place is somewhere up to check + 1,  *)
(* and what check + 1 still holds is no longer of interest: the rest of    *)
(* the entries up to step is in order, and the key belongs in front of     *)
(* those that have been moved.                                             *)
Inserting ==
    /\ key = step
    /\ step < entries
    /\ check < step
    /\ \A i, j \in 0 .. entries - 1 :
           i < j /\ j <= step /\ i # check + 1 /\ j # check + 1 =>
               Before(chars[i], chars[j])
    /\ \A i \in 0 .. entries - 1 : i <= step /\ i # check + 1 => chars[i] < step
    /\ \A i \in 0 .. entries - 1 : check + 1 < i /\ i <= step =>
           code[key] < code[chars[i]]
    /\ Untouched(step + 1)

(* Every character of the file is in the table. *)
AllKept == \A c \in 0 .. total - 1 : \E i \in 0 .. entries - 1 : chars[i] = c

(* Every character but the key is, and not in the place that is open. *)
OthersKept ==
    \A c \in 0 .. total - 1 : c # key =>
        \E i \in 0 .. entries - 1 : i # check + 1 /\ chars[i] = c

(* The range that the search has left. *)
Searching ==
    /\ low <= high + 1
    /\ low <= entries
    /\ high < entries

IInv ==
    /\ TypeOK
    /\ pc = "info" => heap = {} /\ entries = 0
    /\ pc = "load" => heap \subseteq {FontBlock} \cup 0 .. entries - 1
    /\ pc \in {"info", "load"} => Untouched(0)
    /\ pc \in AllRead => entries = total
    /\ pc = "sort" => SortedUpTo(step) /\ Untouched(step)
    /\ pc = "shift" => Inserting /\ OthersKept
    /\ pc \in AllRead \ {"shift"} => AllKept
    /\ TableIsSorted
    /\ pc = "search" => Searching
    /\ SearchExcludes
    /\ FailedLoadLosesOne

(* The probe of a range lies in it, in its middle. *)
LEMMA MidIsBetween ==
    ASSUME low \in Int, high \in Int, low <= high
    PROVE  /\ Mid \in Int
           /\ low <= Mid /\ Mid <= high
           /\ 2 * (Mid - low) <= high - low + 1
           /\ 2 * (high - Mid) <= high - low + 1
BY DEF Mid

LEMMA Initially == Init => IInv
<1> SUFFICES ASSUME Init PROVE IInv
  OBVIOUS
<1>1. 0 .. entries - 1 = {} /\ entries = 0
  BY DEF Init
<1>2. chars \in [0 .. entries - 1 -> 0 .. total - 1]
  BY <1>1 DEF Init
<1>3. TypeOK
  BY <1>2, FontAssumption DEF Init, TypeOK, RenderBlock
<1>4. Untouched(0)
  BY <1>1 DEF Untouched
<1> QED
  BY <1>1, <1>3, <1>4 DEF Init, IInv, AllRead, TableIsSorted, Loaded,
     SearchExcludes, FailedLoadLosesOne

(* The types of what the proofs of the steps talk about. *)
LEMMA Types ==
    ASSUME TypeOK
    PROVE  /\ total \in Nat /\ entries \in Nat /\ entries <= total
           /\ step \in Nat /\ step >= 1 /\ check \in Int /\ check >= -1
           /\ key \in Nat /\ low \in Nat /\ high \in Int /\ high >= -1
           /\ MaxEntries \in Nat /\ total <= MaxEntries
           /\ chars \in [0 .. entries - 1 -> 0 .. total - 1]
           /\ code \in [0 .. total - 1 -> Nat]
           /\ asked \in Nat
<1>1. code \in [0 .. total - 1 -> Nat]
  BY FontAssumption DEF TypeOK
<1>2. total \in Nat /\ entries \in Nat /\ entries <= total /\ total <= MaxEntries
  BY FontAssumption DEF TypeOK
<1>3. asked \in Nat
  BY FontAssumption DEF TypeOK
<1> QED
  BY <1>1, <1>2, <1>3, FontAssumption DEF TypeOK

(* What loading leaves alone keeps its type. *)
LEMMA TypesKept ==
    ASSUME TypeOK, heap' \subseteq 0 .. RenderBlock,
           pc' \in {"info", "load", "sort", "shift", "ready", "search",
                   "null", "hung", "fault", "done"},
           UNCHANGED <<fileVars, entries, chars, sortVars, searchVars>>
    PROVE  TypeOK'
<1>1. /\ total' = total /\ delivers' = delivers /\ code' = code
      /\ entries' = entries /\ chars' = chars
      /\ step' = step /\ check' = check /\ key' = key
      /\ low' = low /\ high' = high /\ asked' = asked /\ found' = found
  BY DEF fileVars, sortVars, searchVars
<1>2. RenderBlock' = RenderBlock
  BY DEF RenderBlock
<1> QED
  BY <1>1, <1>2 DEF TypeOK

(* Loading: every character that arrives is put behind the others. *)
LEMMA LoadStep ==
    ASSUME IInv, ReadDimensions \/ Load \/ StartSort
    PROVE  IInv'
<1> USE FontAssumption
<1>1. CASE ReadDimensions
  <2>5. FontBlock \in 0 .. RenderBlock
    BY DEF FontBlock, RenderBlock
  <2>6. heap \subseteq 0 .. RenderBlock
    BY DEF IInv, TypeOK
  <2>0. heap' \subseteq 0 .. RenderBlock
    BY <1>1, <2>5, <2>6 DEF ReadDimensions
  <2>3. /\ pc' \in {"null", "fault", "load"}
        /\ UNCHANGED <<fileVars, entries, chars, sortVars, searchVars>>
    BY <1>1 DEF ReadDimensions
  <2>4. TypeOK
    BY DEF IInv
  <2>1. TypeOK'
    BY <2>0, <2>3, <2>4, TypesKept
  <2>2. Untouched(0)'
    BY <1>1 DEF IInv, Untouched, ReadDimensions
  <2> QED
    BY <1>1, <2>1, <2>2 DEF IInv, ReadDimensions, AllRead, TableIsSorted, Loaded,
       SearchExcludes, FailedLoadLosesOne
<1>2. CASE LoadCharacter
  <2>0. entries \in Nat /\ entries < total /\ total \in Nat /\ total <= MaxEntries
    BY <1>2 DEF IInv, TypeOK, LoadCharacter
  <2>1. /\ pc' = "load" /\ entries' = entries + 1
        /\ UNCHANGED <<fileVars, sortVars, searchVars>>
        /\ chars' = [i \in 0 .. entries |-> IF i = entries THEN entries ELSE chars[i]]
        /\ 0 .. entries' - 1 = 0 .. entries
    BY <1>2, <2>0 DEF LoadCharacter
  <2>2. chars' \in [0 .. entries' - 1 -> 0 .. total' - 1]
    BY <2>0, <2>1 DEF IInv, TypeOK, fileVars
  <2>3. heap' \subseteq 0 .. RenderBlock
    BY <1>2, <2>0 DEF IInv, TypeOK, LoadCharacter, RenderBlock
  <2>4. TypeOK'
    BY <2>0, <2>1, <2>2, <2>3 DEF IInv, TypeOK, fileVars, sortVars, searchVars,
       RenderBlock
  <2>5. Untouched(0)'
    BY <1>2, <2>0, <2>1 DEF IInv, Untouched, LoadCharacter
  <2>6. heap' \subseteq {FontBlock} \cup 0 .. entries' - 1
    BY <1>2, <2>0, <2>1 DEF IInv, LoadCharacter
  <2> QED
    BY <2>1, <2>4, <2>5, <2>6 DEF IInv, FontBlock, AllRead, TableIsSorted, Loaded,
       SearchExcludes, FailedLoadLosesOne
<1>3. CASE NoCharacter
  <2>1. TypeOK'
    BY <1>3 DEF IInv, TypeOK, NoCharacter, fileVars, tableVars, sortVars,
       searchVars, RenderBlock
  <2> QED
    BY <1>3, <2>1 DEF IInv, NoCharacter, AllRead, TableIsSorted, Loaded,
       SearchExcludes, FailedLoadLosesOne
<1>4. CASE ShortRead
  <2>0. entries \in Nat /\ entries < total /\ total \in Nat /\ total <= MaxEntries
    BY <1>4 DEF IInv, TypeOK, ShortRead
  <2>6. entries \in 0 .. RenderBlock
    BY <2>0 DEF RenderBlock
  <2>7. heap \subseteq 0 .. RenderBlock
    BY DEF IInv, TypeOK
  <2>3. heap' \subseteq 0 .. RenderBlock
    BY <1>4, <2>6, <2>7 DEF ShortRead
  <2>4. /\ pc' \in {"null", "hung", "fault"}
        /\ UNCHANGED <<fileVars, entries, chars, sortVars, searchVars>>
    BY <1>4 DEF ShortRead
  <2>5. TypeOK
    BY DEF IInv
  <2>1. TypeOK'
    BY <2>3, <2>4, <2>5, TypesKept
  <2>2. pc' = "null" => heap' \subseteq {0}
    BY <1>4, <2>0 DEF IInv, ShortRead, FontBlock
  <2> QED
    BY <1>4, <2>1, <2>2 DEF IInv, ShortRead, AllRead, TableIsSorted, Loaded,
       SearchExcludes, FailedLoadLosesOne
<1>5. CASE StartSort
  <2>0. entries = total /\ entries \in Nat
    BY <1>5 DEF IInv, TypeOK, StartSort
  <2>1. TypeOK'
    BY <1>5 DEF IInv, TypeOK, StartSort, fileVars, tableVars, searchVars, RenderBlock
  <2>2. SortedUpTo(1)' /\ Untouched(1)'
    BY <1>5, <2>0 DEF IInv, StartSort, SortedUpTo, Untouched, Before, tableVars, fileVars
  <2>3. AllKept'
    BY <1>5, <2>0 DEF IInv, StartSort, Untouched, AllKept, tableVars, fileVars
  <2> QED
    BY <1>5, <2>0, <2>1, <2>2, <2>3 DEF IInv, StartSort, AllRead, TableIsSorted, Loaded,
       SearchExcludes, FailedLoadLosesOne, fileVars, tableVars
<1> QED
  BY <1>1, <1>2, <1>3, <1>4, <1>5 DEF Load

(* The next character is taken out: its place is the one that is open. *)
LEMMA TakeKeyStep ==
    ASSUME IInv, TakeKey
    PROVE  IInv'
<1> USE FontAssumption
<1>1. TypeOK
  BY DEF IInv
<1>2. /\ total \in Nat /\ entries \in Nat /\ step \in Nat
      /\ step >= 1 /\ step < entries /\ entries <= total /\ total <= MaxEntries
  BY <1>1, Types DEF TakeKey
<1>3. chars[step] = step
  BY <1>2 DEF IInv, TakeKey, Untouched
<1>4. /\ pc = "sort" /\ pc' = "shift" /\ key' = step /\ check' = step - 1
      /\ step' = step
  BY <1>3 DEF TakeKey
<1>5. /\ total' = total /\ delivers' = delivers /\ code' = code
      /\ heap' = heap /\ entries' = entries /\ chars' = chars
      /\ low' = low /\ high' = high /\ asked' = asked /\ found' = found
  BY DEF TakeKey, fileVars, tableVars, searchVars
<1>6. check' \in -1 .. MaxEntries - 1 /\ key' \in 0 .. MaxEntries
  BY <1>2, <1>4
<1>7. TypeOK'
  BY <1>1, <1>4, <1>5, <1>6 DEF TypeOK, RenderBlock
<1>8. SortedUpTo(step) /\ Untouched(step)
  BY <1>4 DEF IInv
<1>9. Inserting'
  BY <1>2, <1>4, <1>5, <1>8 DEF Inserting, SortedUpTo, Untouched, Before
<1>10. OthersKept'
  BY <1>2, <1>3, <1>4, <1>5 DEF IInv, AllRead, AllKept, OthersKept
<1> QED
  BY <1>4, <1>5, <1>7, <1>9, <1>10 DEF IInv, AllRead, TableIsSorted, Loaded,
     SearchExcludes, FailedLoadLosesOne

(* An entry behind the key moves up and its place becomes the open one. *)
LEMMA ShiftStep ==
    ASSUME IInv, Shift
    PROVE  IInv'
<1> USE FontAssumption
<1>1. TypeOK
  BY DEF IInv
<1>2. /\ pc = "shift" /\ pc' = "shift" /\ check' = check - 1
      /\ chars' = [chars EXCEPT ![check + 1] = chars[check]]
      /\ check >= 0 /\ code[key] < code[chars[check]]
  BY DEF Shift, KeyIsBefore
<1>3. /\ total' = total /\ delivers' = delivers /\ code' = code
      /\ heap' = heap /\ entries' = entries /\ step' = step /\ key' = key
      /\ low' = low /\ high' = high /\ asked' = asked /\ found' = found
  BY DEF Shift, fileVars, searchVars
<1>4. Inserting
  BY <1>2 DEF IInv
<1>5. /\ total \in Nat /\ entries \in Nat /\ step \in Nat /\ check \in Int
      /\ check < step /\ step < entries /\ key = step
      /\ chars \in [0 .. entries - 1 -> 0 .. total - 1]
      /\ entries <= total /\ total <= MaxEntries
  BY <1>1, <1>4, Types DEF Inserting
<1>6. /\ check \in 0 .. entries - 1 /\ check + 1 \in 0 .. entries - 1
      /\ check < step
  BY <1>2, <1>5
<1>7. \A i \in 0 .. entries - 1 :
         chars'[i] = IF i = check + 1 THEN chars[check] ELSE chars[i]
  BY <1>2, <1>5, <1>6
<1>8. TypeOK'
  <2>1. chars' \in [0 .. entries' - 1 -> 0 .. total' - 1]
    BY <1>2, <1>3, <1>5, <1>6
  <2>2. check' \in -1 .. MaxEntries - 1
    BY <1>2, <1>5
  <2> QED
    BY <1>1, <1>2, <1>3, <2>1, <2>2 DEF TypeOK, RenderBlock
<1>9. Inserting'
  <2>1. /\ key' = step' /\ step' < entries' /\ check' < step'
    BY <1>2, <1>3, <1>5
  <2>2. ASSUME NEW i \in 0 .. entries' - 1, NEW j \in 0 .. entries' - 1,
               i < j, j <= step', i # check' + 1, j # check' + 1
        PROVE  Before(chars[i], chars[j])'
    <3>0. /\ i \in 0 .. entries - 1 /\ j \in 0 .. entries - 1
          /\ i < j /\ j <= step /\ i # check /\ j # check
      BY <1>2, <1>3, <1>5, <2>2
    <3>1. CASE i = check + 1
      <4>1. Before(chars[check], chars[j])
        BY <1>4, <1>5, <1>6, <3>0, <3>1 DEF Inserting
      <4>2. chars'[i] = chars[check] /\ chars'[j] = chars[j]
        BY <1>7, <3>0, <3>1
      <4> QED
        BY <1>3, <4>1, <4>2 DEF Before
    <3>2. CASE j = check + 1
      <4>1. Before(chars[i], chars[check])
        BY <1>4, <1>5, <1>6, <3>0, <3>2 DEF Inserting
      <4>2. chars'[i] = chars[i] /\ chars'[j] = chars[check]
        BY <1>7, <3>0, <3>2
      <4> QED
        BY <1>3, <4>1, <4>2 DEF Before
    <3>3. CASE i # check + 1 /\ j # check + 1
      <4>1. Before(chars[i], chars[j])
        BY <1>4, <3>0, <3>3 DEF Inserting
      <4>2. chars'[i] = chars[i] /\ chars'[j] = chars[j]
        BY <1>7, <3>0, <3>3
      <4> QED
        BY <1>3, <4>1, <4>2 DEF Before
    <3> QED
      BY <3>1, <3>2, <3>3
  <2>3. \A i \in 0 .. entries' - 1 : i <= step' /\ i # check' + 1 => chars'[i] < step'
    BY <1>2, <1>3, <1>4, <1>5, <1>6, <1>7 DEF Inserting
  <2>4. \A i \in 0 .. entries' - 1 : check' + 1 < i /\ i <= step' =>
            code'[key'] < code'[chars'[i]]
    BY <1>2, <1>3, <1>4, <1>5, <1>6, <1>7 DEF Inserting
  <2>5. Untouched(step + 1)'
    BY <1>3, <1>4, <1>5, <1>6, <1>7 DEF Inserting, Untouched
  <2> QED
    BY <2>1, <2>2, <2>3, <2>4, <2>5, <1>3 DEF Inserting
<1>10. OthersKept'
  <2> SUFFICES ASSUME NEW c \in 0 .. total - 1, c # key
               PROVE  \E i \in 0 .. entries - 1 : i # check /\ chars'[i] = c
    BY <1>2, <1>3, <1>5 DEF OthersKept
  <2>1. PICK i \in 0 .. entries - 1 : i # check + 1 /\ chars[i] = c
    BY <1>2 DEF IInv, OthersKept
  <2>2. CASE i = check
    BY <1>5, <1>6, <1>7, <2>1, <2>2
  <2>3. CASE i # check
    BY <1>7, <2>1, <2>3
  <2> QED
    BY <2>2, <2>3
<1> QED
  BY <1>2, <1>3, <1>8, <1>9, <1>10 DEF IInv, AllRead, TableIsSorted, Loaded,
     SearchExcludes, FailedLoadLosesOne

(* The key is put where it belongs: one entry more is in order. *)
LEMMA PlaceKeyStep ==
    ASSUME IInv, PlaceKey
    PROVE  IInv'
<1> USE FontAssumption
<1>1. TypeOK
  BY DEF IInv
<1>2. /\ pc = "shift" /\ pc' = "sort" /\ step' = step + 1
      /\ chars' = [chars EXCEPT ![check + 1] = key]
      /\ ~(check >= 0 /\ code[key] < code[chars[check]])
  BY DEF PlaceKey, KeyIsBefore
<1>3. /\ total' = total /\ delivers' = delivers /\ code' = code
      /\ heap' = heap /\ entries' = entries /\ check' = check /\ key' = key
      /\ low' = low /\ high' = high /\ asked' = asked /\ found' = found
  BY DEF PlaceKey, fileVars, searchVars
<1>4. Inserting
  BY <1>2 DEF IInv
<1>5. /\ total \in Nat /\ entries \in Nat /\ step \in Nat /\ check \in Int
      /\ check < step /\ step < entries /\ key = step /\ check >= -1
      /\ chars \in [0 .. entries - 1 -> 0 .. total - 1]
      /\ code \in [0 .. total - 1 -> Nat] /\ step >= 1
      /\ entries <= total /\ total <= MaxEntries
  BY <1>1, <1>4, Types DEF Inserting
<1>6. check + 1 \in 0 .. entries - 1 /\ key \in 0 .. total - 1
  BY <1>5
<1>7. \A i \in 0 .. entries - 1 :
         chars'[i] = IF i = check + 1 THEN key ELSE chars[i]
  BY <1>2, <1>5, <1>6
<1>8. TypeOK'
  <2>1. chars' \in [0 .. entries' - 1 -> 0 .. total' - 1]
    BY <1>2, <1>3, <1>5, <1>6
  <2>2. step' \in Nat \ {0}
    BY <1>2, <1>5
  <2> QED
    BY <1>1, <1>2, <1>3, <2>1, <2>2 DEF TypeOK, RenderBlock
<1>9. ASSUME NEW i \in 0 .. entries - 1, i <= check
      PROVE  Before(chars[i], key)
  <2>1. /\ check \in 0 .. entries - 1 /\ check # check + 1 /\ i # check + 1
        /\ check <= step /\ i <= step
    BY <1>5, <1>9
  <2>2. chars[i] < key
    BY <1>4, <1>5, <2>1 DEF Inserting
  <2>3. code[chars[check]] <= code[key]
    <3>1. chars[check] \in 0 .. total - 1
      BY <1>5, <2>1
    <3>2. code[chars[check]] \in Nat /\ code[key] \in Nat
      BY <1>5, <1>6, <3>1
    <3> QED
      BY <1>2, <2>1, <3>2
  <2>4. code[chars[i]] <= code[chars[check]]
    <3>1. i = check \/ Before(chars[i], chars[check])
      BY <1>4, <1>5, <1>9, <2>1 DEF Inserting
    <3>2. chars[check] \in 0 .. total - 1 /\ chars[i] \in 0 .. total - 1
      BY <1>5, <2>1
    <3>3. code[chars[check]] \in Nat /\ code[chars[i]] \in Nat
      BY <1>5, <3>2
    <3> QED
      BY <3>1, <3>3 DEF Before
  <2>5. chars[i] \in 0 .. total - 1 /\ chars[check] \in 0 .. total - 1
    BY <1>5, <2>1
  <2>6. code[chars[i]] \in Nat /\ code[chars[check]] \in Nat /\ code[key] \in Nat
    BY <1>5, <1>6, <2>5
  <2> QED
    BY <2>2, <2>3, <2>4, <2>6 DEF Before
<1>10. SortedUpTo(step)'
  <2>1. ASSUME NEW i \in 0 .. entries' - 1, NEW j \in 0 .. entries' - 1,
               i < j, j < step + 1
        PROVE  Before(chars[i], chars[j])'
    <3>0. /\ i \in 0 .. entries - 1 /\ j \in 0 .. entries - 1 /\ j <= step
      BY <1>3, <1>5, <2>1
    <3>1. CASE j = check + 1
      <4>1. Before(chars[i], key)
        BY <1>5, <1>9, <2>1, <3>0, <3>1
      <4>2. chars'[i] = chars[i] /\ chars'[j] = key
        BY <1>7, <2>1, <3>0, <3>1
      <4> QED
        BY <1>3, <4>1, <4>2 DEF Before
    <3>2. CASE i = check + 1
      <4>1. code[key] < code[chars[j]]
        BY <1>4, <2>1, <3>0, <3>2 DEF Inserting
      <4>2. chars'[i] = key /\ chars'[j] = chars[j]
        BY <1>7, <2>1, <3>0, <3>2
      <4> QED
        BY <1>3, <4>1, <4>2 DEF Before
    <3>3. CASE i # check + 1 /\ j # check + 1
      <4>1. Before(chars[i], chars[j])
        BY <1>4, <2>1, <3>0, <3>3 DEF Inserting
      <4>2. chars'[i] = chars[i] /\ chars'[j] = chars[j]
        BY <1>7, <3>0, <3>3
      <4> QED
        BY <1>3, <4>1, <4>2 DEF Before
    <3> QED
      BY <3>1, <3>2, <3>3
  <2>2. \A i \in 0 .. entries' - 1 : i < step + 1 => chars'[i] < step + 1
    <3> SUFFICES ASSUME NEW i \in 0 .. entries - 1, i < step + 1
                 PROVE  chars'[i] < step + 1
      BY <1>3
    <3>1. CASE i = check + 1
      BY <1>5, <1>7, <3>1
    <3>2. CASE i # check + 1
      <4>1. chars[i] < step /\ chars[i] \in Nat
        BY <1>4, <1>5, <3>2 DEF Inserting
      <4> QED
        BY <1>5, <1>7, <3>2, <4>1
    <3> QED
      BY <3>1, <3>2
  <2> QED
    BY <1>2, <2>1, <2>2 DEF SortedUpTo
<1>11. Untouched(step)'
  BY <1>2, <1>3, <1>4, <1>5, <1>6, <1>7 DEF Inserting, Untouched
<1>12. entries' = total'
  BY <1>2, <1>3 DEF IInv, AllRead
<1>13. AllKept'
  <2> SUFFICES ASSUME NEW c \in 0 .. total - 1
               PROVE  \E i \in 0 .. entries - 1 : chars'[i] = c
    BY <1>3 DEF AllKept
  <2>1. CASE c = key
    BY <1>6, <1>7, <2>1
  <2>2. CASE c # key
    <3>1. PICK i \in 0 .. entries - 1 : i # check + 1 /\ chars[i] = c
      BY <1>2, <2>2 DEF IInv, OthersKept
    <3> QED
      BY <1>7, <3>1
  <2> QED
    BY <2>1, <2>2
<1> QED
  BY <1>2, <1>3, <1>5, <1>8, <1>10, <1>11, <1>12, <1>13 DEF IInv, AllRead, TableIsSorted,
     Loaded, SearchExcludes, FailedLoadLosesOne

(* The sort is over and the font is handed to the command. *)
LEMMA RenderStep ==
    ASSUME IInv, Render \/ CommandEnds
    PROVE  IInv'
<1> USE FontAssumption
<1>1. TypeOK
  BY DEF IInv
<1>2. /\ total \in Nat /\ entries \in Nat /\ entries <= total
      /\ total <= MaxEntries
  BY <1>1, Types
<1>3. heap' \subseteq 0 .. RenderBlock
  <2>1. heap \subseteq 0 .. RenderBlock /\ RenderBlock \in 0 .. RenderBlock
    BY <1>1 DEF TypeOK, RenderBlock
  <2> QED
    BY <2>1 DEF Render, CommandEnds, tableVars
<1>4. UNCHANGED <<fileVars, entries, chars, sortVars, searchVars>>
  BY DEF Render, CommandEnds, tableVars
<1>5. pc' \in {"fault", "ready", "done"}
  BY DEF Render, CommandEnds
<1>6. TypeOK'
  BY <1>1, <1>3, <1>4, <1>5, TypesKept
<1>7. pc' \in {"ready", "done"} => TableIsSorted'
  <2>1. CASE Render
    <3>1. SortedUpTo(step) /\ step >= entries /\ entries = total
      BY <2>1 DEF IInv, Render, AllRead
    <3>2. step \in Nat
      BY <1>1, Types
    <3>3. \A i, j \in 0 .. entries - 1 : i < j => Before(chars[i], chars[j])
      BY <1>2, <3>1, <3>2 DEF SortedUpTo
    <3> QED
      BY <1>4, <3>1, <3>3 DEF TableIsSorted, Before, fileVars
  <2>2. CASE CommandEnds
    BY <1>4, <2>2 DEF IInv, CommandEnds, TableIsSorted, Loaded, Before, fileVars
  <2> QED
    BY <2>1, <2>2
<1>8. TableIsSorted'
  BY <1>5, <1>7 DEF TableIsSorted, Loaded
<1>9. entries' = total' \/ pc' = "fault"
  BY <1>4, <1>5 DEF IInv, AllRead, Render, CommandEnds, fileVars
<1>10. AllKept'
  BY <1>4 DEF IInv, Render, CommandEnds, AllRead, AllKept, fileVars
<1> QED
  BY <1>5, <1>6, <1>8, <1>9, <1>10 DEF IInv, AllRead, SearchExcludes, FailedLoadLosesOne

(* The search starts with the whole table. *)
LEMMA AskStep ==
    ASSUME IInv, NEW c \in Code, Ask(c)
    PROVE  IInv'
<1> USE FontAssumption
<1>1. TypeOK
  BY DEF IInv
<1>2. /\ total \in Nat /\ entries \in Nat /\ entries <= total
      /\ total <= MaxEntries
  BY <1>1, Types
<1>3. /\ pc = "ready" /\ pc' = "search" /\ asked' = c /\ low' = 0
      /\ high' = entries - 1
  BY DEF Ask
<1>4. /\ total' = total /\ delivers' = delivers /\ code' = code
      /\ heap' = heap /\ entries' = entries /\ chars' = chars
      /\ step' = step /\ check' = check /\ key' = key /\ found' = found
  BY DEF Ask, fileVars, tableVars, sortVars
<1>5. low' \in 0 .. MaxEntries /\ high' \in -1 .. MaxEntries - 1
  BY <1>2, <1>3
<1>6. TypeOK'
  BY <1>1, <1>3, <1>4, <1>5 DEF TypeOK, RenderBlock
<1>7. Searching' /\ SearchExcludes'
  BY <1>2, <1>3, <1>4 DEF Searching, SearchExcludes
<1>8. TableIsSorted' /\ entries' = total'
  BY <1>3, <1>4 DEF IInv, TableIsSorted, Loaded, Before
<1>9. AllKept'
  BY <1>3, <1>4 DEF IInv, AllRead, AllKept
<1> QED
  BY <1>3, <1>6, <1>7, <1>8, <1>9 DEF IInv, AllRead, FailedLoadLosesOne

(* A probe excludes the half that is on the wrong side of it. *)
LEMMA ProbeStep ==
    ASSUME IInv, Probe
    PROVE  /\ IInv'
           /\ pc' = "ready" => found' \in 0 .. entries - 1 /\ code[chars[found']] = asked
<1> USE FontAssumption
<1>1. TypeOK
  BY DEF IInv
<1>2. /\ total \in Nat /\ entries \in Nat /\ entries <= total
      /\ total <= MaxEntries /\ asked \in Nat /\ low \in Nat /\ high \in Int
      /\ chars \in [0 .. entries - 1 -> 0 .. total - 1]
      /\ code \in [0 .. total - 1 -> Nat]
  BY <1>1, Types
<1>3. pc = "search" /\ low <= high
  BY DEF Probe
<1>4. Searching /\ SearchExcludes /\ TableIsSorted /\ entries = total
  BY <1>3 DEF IInv, AllRead
<1>5. /\ Mid \in 0 .. entries - 1 /\ low <= Mid /\ Mid <= high
  <2>1. Mid \in Int /\ low <= Mid /\ Mid <= high
    BY <1>2, <1>3, MidIsBetween
  <2>2. high < entries
    BY <1>4 DEF Searching
  <2> QED
    BY <1>2, <2>1, <2>2
<1>6. \A i \in 0 .. entries - 1 : code[chars[i]] \in Nat
  BY <1>2
<1>7. \A i, j \in 0 .. entries - 1 : i <= j => code[chars[i]] <= code[chars[j]]
  <2> SUFFICES ASSUME NEW i \in 0 .. entries - 1, NEW j \in 0 .. entries - 1, i <= j
               PROVE  code[chars[i]] <= code[chars[j]]
    OBVIOUS
  <2>1. i = j \/ Before(chars[i], chars[j])
    BY <1>2, <1>3, <1>4 DEF TableIsSorted, Loaded
  <2>2. code[chars[i]] \in Nat /\ code[chars[j]] \in Nat
    BY <1>6
  <2> QED
    BY <2>1, <2>2 DEF Before
<1>8. /\ total' = total /\ delivers' = delivers /\ code' = code
      /\ heap' = heap /\ entries' = entries /\ chars' = chars
      /\ step' = step /\ check' = check /\ key' = key /\ asked' = asked
  BY DEF Probe, fileVars, tableVars, sortVars
<1>9. AllKept'
  BY <1>3, <1>8 DEF IInv, AllRead, AllKept
<1>10. CASE code[chars[Mid]] = asked
  <2>1. found' = Mid /\ pc' = "ready" /\ low' = low /\ high' = high
    <3>1. ~(code[chars[Mid]] < asked)
      BY <1>2, <1>10
    <3> QED
      BY <1>10, <3>1 DEF Probe
  <2>2. found' \in 0 .. MaxEntries - 1
    BY <1>2, <1>5, <2>1
  <2>3. TypeOK'
    BY <1>1, <1>8, <2>1, <2>2 DEF TypeOK, RenderBlock
  <2>4. TableIsSorted' /\ entries' = total'
    BY <1>3, <1>4, <1>8 DEF TableIsSorted, Loaded, Before
  <2> QED
    BY <1>5, <1>10, <1>9, <2>1, <2>3, <2>4 DEF IInv, AllRead, SearchExcludes, FailedLoadLosesOne
<1>11. CASE code[chars[Mid]] < asked
  <2>1. low' = Mid + 1 /\ pc' = pc /\ high' = high /\ found' = found
    <3>1. code[chars[Mid]] # asked
      BY <1>2, <1>5, <1>6, <1>11
    <3> QED
      BY <1>11, <3>1 DEF Probe
  <2>2. low' \in 0 .. MaxEntries
    BY <1>2, <1>5, <2>1
  <2>3. TypeOK'
    BY <1>1, <1>8, <2>1, <2>2 DEF TypeOK, RenderBlock
  <2>4. TableIsSorted' /\ entries' = total'
    BY <1>3, <1>4, <1>8 DEF TableIsSorted, Loaded, Before
  <2>5. \A i \in 0 .. low' - 1 : code[chars[i]] < asked
    BY <1>2, <1>5, <1>6, <1>7, <1>11, <2>1
  <2>6. SearchExcludes'
    BY <1>3, <1>4, <1>8, <2>1, <2>5 DEF SearchExcludes
  <2>7. Searching'
    BY <1>2, <1>4, <1>5, <1>8, <2>1 DEF Searching
  <2> QED
    BY <1>3, <1>9, <2>1, <2>3, <2>4, <2>6, <2>7 DEF IInv, AllRead, FailedLoadLosesOne
<1>12. CASE code[chars[Mid]] > asked
  <2>1. high' = Mid - 1 /\ pc' = pc /\ low' = low /\ found' = found
    <3>1. code[chars[Mid]] # asked /\ ~(code[chars[Mid]] < asked)
      BY <1>2, <1>5, <1>6, <1>12
    <3> QED
      BY <3>1 DEF Probe
  <2>2. high' \in -1 .. MaxEntries - 1
    BY <1>2, <1>5, <2>1
  <2>3. TypeOK'
    BY <1>1, <1>8, <2>1, <2>2 DEF TypeOK, RenderBlock
  <2>4. TableIsSorted' /\ entries' = total'
    BY <1>3, <1>4, <1>8 DEF TableIsSorted, Loaded, Before
  <2>5. \A i \in high' + 1 .. entries - 1 : code[chars[i]] > asked
    BY <1>2, <1>5, <1>6, <1>7, <1>12, <2>1
  <2>6. SearchExcludes'
    BY <1>3, <1>4, <1>8, <2>1, <2>5 DEF SearchExcludes
  <2>7. Searching'
    BY <1>2, <1>4, <1>5, <1>8, <2>1 DEF Searching
  <2> QED
    BY <1>3, <1>9, <2>1, <2>3, <2>4, <2>6, <2>7 DEF IInv, AllRead, FailedLoadLosesOne
<1> QED
  BY <1>2, <1>5, <1>6, <1>10, <1>11, <1>12

(* Nothing is left of the range, so nothing in the table was asked for. *)
LEMMA MissingStep ==
    ASSUME IInv, Missing
    PROVE  /\ IInv'
           /\ \A c \in 0 .. total - 1 : code[c] # asked
<1> USE FontAssumption
<1>1. TypeOK
  BY DEF IInv
<1>2. /\ entries \in Nat /\ low \in Nat /\ high \in Int /\ asked \in Nat
      /\ chars \in [0 .. entries - 1 -> 0 .. total - 1]
      /\ code \in [0 .. total - 1 -> Nat]
  BY <1>1, Types
<1>3. pc = "search" /\ pc' = "ready" /\ low > high /\ found' = None
  BY DEF Missing
<1>4. SearchExcludes /\ Searching /\ TableIsSorted /\ entries = total
  BY <1>3 DEF IInv, AllRead
<1>5. /\ total' = total /\ delivers' = delivers /\ code' = code
      /\ heap' = heap /\ entries' = entries /\ chars' = chars
      /\ step' = step /\ check' = check /\ key' = key
      /\ low' = low /\ high' = high /\ asked' = asked
  BY DEF Missing, fileVars, tableVars, sortVars
<1>6. TypeOK'
  BY <1>1, <1>3, <1>5 DEF TypeOK, RenderBlock
<1>7. TableIsSorted' /\ entries' = total'
  BY <1>3, <1>4, <1>5 DEF TableIsSorted, Loaded, Before
<1>8. AllKept /\ AllKept'
  BY <1>3, <1>5 DEF IInv, AllRead, AllKept
<1>9. IInv'
  BY <1>3, <1>6, <1>7, <1>8 DEF IInv, AllRead, SearchExcludes, FailedLoadLosesOne
<1>10. ASSUME NEW i \in 0 .. entries - 1
      PROVE  code[chars[i]] # asked
  <2>1. code[chars[i]] \in Nat
    BY <1>2
  <2>2. i \in 0 .. low - 1 \/ i \in high + 1 .. entries - 1
    BY <1>2, <1>3
  <2>3. code[chars[i]] < asked \/ code[chars[i]] > asked
    BY <1>3, <1>4, <2>2 DEF SearchExcludes
  <2> QED
    BY <1>2, <2>1, <2>3
<1> QED
  BY <1>8, <1>9, <1>10 DEF AllKept

LEMMA Stutter ==
    ASSUME IInv, UNCHANGED vars
    PROVE  IInv'
<1>1. /\ pc' = pc /\ total' = total /\ delivers' = delivers /\ code' = code
      /\ heap' = heap /\ entries' = entries /\ chars' = chars
      /\ step' = step /\ check' = check /\ key' = key
      /\ low' = low /\ high' = high /\ asked' = asked /\ found' = found
  BY DEF vars, fileVars, tableVars, sortVars, searchVars
<1>2. TypeOK'
  BY <1>1 DEF IInv, TypeOK, RenderBlock
<1>3. (TableIsSorted /\ SearchExcludes /\ FailedLoadLosesOne)'
  BY <1>1 DEF IInv, TableIsSorted, Loaded, SearchExcludes, FailedLoadLosesOne, Before
<1>4. AllKept => AllKept'
  BY <1>1 DEF AllKept
<1>5. Searching => Searching'
  BY <1>1 DEF Searching
<1>6. OthersKept => OthersKept'
  BY <1>1 DEF OthersKept
<1>7. Untouched(0) => Untouched(0)'
  BY <1>1 DEF Untouched
<1>8. Untouched(step) => Untouched(step)'
  BY <1>1 DEF Untouched
<1>9. SortedUpTo(step) => SortedUpTo(step)'
  BY <1>1 DEF SortedUpTo, Before
<1>10. Inserting => Inserting'
  BY <1>1 DEF Inserting, Untouched, Before
<1> QED
  BY <1>1, <1>2, <1>3, <1>4, <1>5, <1>6, <1>7, <1>8, <1>9, <1>10
     DEF IInv, FontBlock, AllRead

LEMMA Inductive ==
    ASSUME IInv, [Next]_vars
    PROVE  IInv'
<1>1. CASE ReadDimensions \/ Load \/ StartSort
  BY <1>1, LoadStep
<1>2. CASE TakeKey
  BY <1>2, TakeKeyStep
<1>3. CASE Shift
  BY <1>3, ShiftStep
<1>4. CASE PlaceKey
  BY <1>4, PlaceKeyStep
<1>5. CASE Render \/ CommandEnds
  BY <1>5, RenderStep
<1>6. ASSUME NEW c \in Code, Ask(c)
      PROVE  IInv'
  BY <1>6, AskStep
<1>7. CASE Probe
  BY <1>7, ProbeStep
<1>8. CASE Missing
  BY <1>8, MissingStep
<1>9. CASE UNCHANGED vars
  BY <1>9, Stutter
<1> QED
  BY <1>1, <1>2, <1>3, <1>4, <1>5, <1>6, <1>7, <1>8, <1>9 DEF Next, Sort, Search

---------------------------------------------------------------------------
(* One part is called, and only its steps are taken. *)
LEMMA OnePartSteps ==
    ASSUME [GraphicsNext]_graphicsVars
    PROVE  /\ part' = part
           /\ part = "font" => [Next]_vars
           /\ part = "glyph" => [Glyph!Next]_(Glyph!vars)
           /\ part = "image" => [Image!Next]_(Image!vars)
           /\ part = "file" => [ImageFile!Next]_(ImageFile!vars)
           /\ part = "console" => [Console!Next]_(Console!vars)
<1>1. CASE UNCHANGED graphicsVars
  BY <1>1 DEF graphicsVars, vars, glyphVars, imageVars, imageFileVars, consoleVars,
     sharedVars, tableVars, Glyph!vars, Image!vars, ImageFile!vars, Console!vars
<1>2. CASE FontStep
  BY <1>2 DEF FontStep
<1>3. CASE GlyphStep
  BY <1>3 DEF GlyphStep
<1>4. CASE ImageStep(Image!Next)
  BY <1>4 DEF ImageStep
<1>5. CASE FileStep
  BY <1>5 DEF FileStep
<1>6. CASE ConsoleStep
  BY <1>6 DEF ConsoleStep
<1> QED
  BY <1>1, <1>2, <1>3, <1>4, <1>5, <1>6 DEF GraphicsNext

(* And it starts as it does by itself. *)
LEMMA OnePartStarts ==
    ASSUME GraphicsInit
    PROVE  /\ part = "font" => Init
           /\ part = "glyph" => Glyph!Init
           /\ part = "image" => Image!Init
           /\ part = "file" => ImageFile!Init
           /\ part = "console" => Console!Init
BY DEF GraphicsInit

FontIsSound == part = "font" => IInv

LEMMA FontInductive ==
    /\ GraphicsInit => FontIsSound
    /\ FontIsSound /\ [GraphicsNext]_graphicsVars => FontIsSound'
BY OnePartStarts, OnePartSteps, Initially, Inductive DEF FontIsSound

(* The table that loadfont() returns is the file in order, with equal      *)
(* characters as they were; what getcharacter() has excluded was not asked *)
(* for; and a load that fails frees all but one character.                 *)
THEOREM FontIsSorted == GraphicsSpec => []FontIsInOrder
<1>1. FontIsSound => FontIsInOrder
  BY DEF FontIsSound, FontIsInOrder, IInv
<1> QED
  BY <1>1, FontInductive, PTL DEF GraphicsSpec

(* A search that ends is a step of the font. *)
LEMMA SearchEndsInFont ==
    ASSUME FontIsSound, [GraphicsNext]_graphicsVars,
           pc = "search", pc' = "ready"
    PROVE  IInv /\ (Probe \/ Missing)
<1>1. ~UNCHANGED graphicsVars /\ ~GlyphStep
  BY DEF graphicsVars, GlyphStep, vars
<1>2. ~ImageStep(Image!Next)
  BY DEF ImageStep, Image!Next, Image!Call, Image!Insert, Image!Fill, Image!Resize,
     Image!Scroll, Image!ScrollStep, Image!ScrollPixel, Image!ScrollLine,
     Image!ScrollEnds
<1>3. ~FileStep
  BY DEF FileStep, ImageFile!Next, ImageFile!AllocateImage, ImageFile!ReadHeader,
     ImageFile!CheckSize, ImageFile!AllocatePixels, ImageFile!ReadPixels,
     ImageFile!FreeNull, ImageFile!NoResize, ImageFile!ResizeFails,
     ImageFile!Resize, ImageFile!Display
<1>4. ~ConsoleStep
  BY DEF ConsoleStep, Console!Next, Console!CreateConsole, Console!DrawFails,
     Console!WriteConsole, Console!DisplayImage
<1>5. FontStep
  BY <1>1, <1>2, <1>3, <1>4 DEF GraphicsNext
<1> QED
  BY <1>5 DEF FontStep, FontIsSound, Next, Load, Sort, Search, ReadDimensions, LoadCharacter,
     NoCharacter, ShortRead, StartSort, TakeKey, Shift, PlaceKey, Render, Ask, CommandEnds

(* What getcharacter() returns has the code point it was asked for, and it *)
(* returns null only when no character of the file has it.                 *)
THEOREM SearchIsRight == GraphicsSpec => AnswersRight
<1>1. ASSUME FontIsSound, [GraphicsNext]_graphicsVars
      PROVE  [(pc = "search" /\ pc' = "ready") =>
                 IF found' = None
                 THEN \A c \in 0 .. total - 1 : code[c] # asked
                 ELSE code[chars[found']] = asked]_vars
  <2> SUFFICES ASSUME pc = "search", pc' = "ready"
               PROVE  IF found' = None
                      THEN \A c \in 0 .. total - 1 : code[c] # asked
                      ELSE code[chars[found']] = asked
    OBVIOUS
  <2>1. IInv /\ (Probe \/ Missing)
    BY <1>1, SearchEndsInFont
  <2>2. CASE Probe
    <3>1. found' \in 0 .. entries - 1 /\ code[chars[found']] = asked
      BY <2>1, <2>2, ProbeStep
    <3>2. entries \in Nat
      BY <2>1, Types DEF IInv
    <3>3. found' # None
      BY <3>1, <3>2, FontAssumption
    <3> QED
      BY <3>1, <3>3
  <2>3. CASE Missing
    <3>1. \A c \in 0 .. total - 1 : code[c] # asked
      BY <2>1, <2>3, MissingStep
    <3> QED
      BY <2>3, <3>1 DEF Missing
  <2> QED
    BY <2>1, <2>2, <2>3
<1> QED
  BY <1>1, FontInductive, PTL DEF GraphicsSpec, AnswersRight

---------------------------------------------------------------------------
(* How far ri has come: the blocks it has, and what is known of the image. *)
SizeIsRight ==
    file.size = ImageFile!HeaderSize + ImageFile!PixelSize * ImageFile!Pixels

FileAtPiece ==
    /\ pc = "image" => heap = {}
    /\ pc \in {"header", "check", "pixels"} => heap = {"image"}
    /\ pc \in {"pixels", "read", "loaded"} => SizeIsRight
    /\ pc \in {"read", "loaded"} => room = ImageFile!Pixels /\ heap = {"image", "pixels"}
    /\ pc \in {"image", "header", "check", "pixels", "read", "loaded"} => resized = FALSE
    /\ pc = "display" => IF resized
                         THEN room = 1 /\ heap = {"resized", "resized pixels"}
                         ELSE room = ImageFile!Pixels /\ heap = {"image", "pixels"}
    /\ pc = "done" => heap = {}

FileIInv == ImageFile!TypeOK /\ FileAtPiece

LEMMA FileInitially ==
    ASSUME ImageFile!ImageFileAssumption, ImageFile!Init
    PROVE  FileIInv
<1>1. 0 \in 0 .. FileWord - 1
  BY DEF ImageFile!ImageFileAssumption
<1>2. ImageFile!TypeOK
  BY <1>1 DEF ImageFile!Init, ImageFile!TypeOK
<1> QED
  BY <1>2 DEF ImageFile!Init, FileIInv, FileAtPiece

LEMMA RemainderIsSmall ==
    ASSUME NEW n \in Nat, NEW w \in Nat \ {0}
    PROVE  n % w \in 0 .. w - 1
OBVIOUS

LEMMA FileTypes ==
    ASSUME ImageFile!ImageFileAssumption, ImageFile!TypeOK
    PROVE  /\ FileWord \in Nat \ {0} /\ 1 \in 0 .. FileWord - 1
           /\ width * height \in Nat
           /\ ImageFile!Pixels \in 0 .. FileWord - 1
           /\ file.width \in 0 .. FileWord - 1 /\ file.height \in 0 .. FileWord - 1
           /\ file.size \in 0 .. LongWord - 1
<1>1. /\ FileWord \in Nat \ {0} /\ 1 \in 0 .. FileWord - 1
      /\ Dimensions \subseteq 0 .. FileWord - 1 /\ FileSizes \subseteq 0 .. LongWord - 1
  BY DEF ImageFile!ImageFileAssumption
<1>2. width \in 0 .. FileWord - 1 /\ height \in 0 .. FileWord - 1
  BY DEF ImageFile!TypeOK
<1>3. width * height \in Nat
  <2>1. width \in Nat /\ height \in Nat
    BY <1>1, <1>2
  <2> QED
    BY <2>1
<1>4. ImageFile!Pixels \in 0 .. FileWord - 1
  BY <1>1, <1>3, RemainderIsSmall DEF ImageFile!Pixels
<1>5. file.width \in Dimensions /\ file.height \in Dimensions /\ file.size \in FileSizes
  BY DEF ImageFile!TypeOK, ImageFile!File
<1> QED
  BY <1>1, <1>3, <1>4, <1>5

(* A size that passes the check in 64 bits is the right one.               *)
LEMMA CheckedSizeIsRight ==
    ASSUME ImageFile!ImageFileAssumption, ImageFile!TypeOK, ImageFile!SizeFits
    PROVE  SizeIsRight
<1> DEFINE size == file.size
           pixels == ImageFile!Pixels
<1>1. /\ size \in 0 .. LongWord - 1 /\ LongWord \in Nat /\ FileWord \in Nat
      /\ 4 * FileWord + 8 <= LongWord /\ pixels \in 0 .. FileWord - 1
  BY FileTypes DEF ImageFile!ImageFileAssumption, ImageFile!PixelSize, ImageFile!HeaderSize
<1>2. (size - 8) % LongWord = pixels * 4
  BY DEF ImageFile!SizeFits, ImageFile!HeaderSize, ImageFile!PixelSize
<1> HIDE DEF size, pixels
<1>3. (size - 8) % LongWord = IF size >= 8 THEN size - 8 ELSE size - 8 + LongWord
  BY <1>1
<1>4. size = 8 + 4 * pixels
  BY <1>1, <1>2, <1>3
<1> QED
  BY <1>4 DEF SizeIsRight, ImageFile!HeaderSize, ImageFile!PixelSize, size, pixels

(* load_image(), step by step. *)
LEMMA LoadImageStep ==
    ASSUME ImageFile!ImageFileAssumption, FileIInv,
           \/ ImageFile!AllocateImage
           \/ ImageFile!ReadHeader
           \/ ImageFile!CheckSize
           \/ ImageFile!AllocatePixels
           \/ ImageFile!ReadPixels
           \/ ImageFile!FreeNull
    PROVE  FileIInv'
<1>1. ImageFile!TypeOK /\ FileAtPiece
  BY DEF FileIInv
<1>2. CASE ImageFile!LoadFails
  BY <1>1, <1>2 DEF FileIInv, ImageFile!TypeOK, FileAtPiece, ImageFile!LoadFails
<1>3. CASE ImageFile!AllocateImage /\ ~ImageFile!LoadFails
  BY <1>1, <1>3 DEF FileIInv, ImageFile!TypeOK, FileAtPiece, ImageFile!AllocateImage
<1>4. CASE ImageFile!ReadHeader /\ ~ImageFile!LoadFails
  <2>1. width' \in 0 .. FileWord - 1 /\ height' \in 0 .. FileWord - 1
    BY <1>1, <1>4, FileTypes DEF ImageFile!ReadHeader
  <2> QED
    BY <1>1, <1>4, <2>1 DEF FileIInv, ImageFile!TypeOK, FileAtPiece, ImageFile!ReadHeader
<1>5. CASE ImageFile!CheckSize /\ ~ImageFile!LoadFails
  <2>1. SizeIsRight'
    BY <1>1, <1>5, CheckedSizeIsRight DEF ImageFile!CheckSize, SizeIsRight,
       ImageFile!Pixels
  <2> QED
    BY <1>1, <1>5, <2>1 DEF FileIInv, ImageFile!TypeOK, FileAtPiece, ImageFile!CheckSize
<1>6. CASE ImageFile!AllocatePixels /\ ~ImageFile!LoadFails
  <2>1. SizeIsRight' /\ room' = ImageFile!Pixels'
    BY <1>1, <1>6 DEF FileAtPiece, SizeIsRight, ImageFile!Pixels, ImageFile!AllocatePixels
  <2>2. room' \in 0 .. FileWord - 1
    BY <1>1, <1>6, FileTypes DEF ImageFile!AllocatePixels
  <2> QED
    BY <1>1, <1>6, <2>1, <2>2 DEF FileIInv, ImageFile!TypeOK, FileAtPiece,
       ImageFile!AllocatePixels
<1>7. CASE ImageFile!ReadPixels /\ ~ImageFile!LoadFails
  <2>1. SizeIsRight' /\ room' = ImageFile!Pixels'
    BY <1>1, <1>7 DEF FileAtPiece, SizeIsRight, ImageFile!Pixels, ImageFile!ReadPixels
  <2> QED
    BY <1>1, <1>7, <2>1 DEF FileIInv, ImageFile!TypeOK, FileAtPiece, ImageFile!ReadPixels
<1>8. CASE ImageFile!FreeNull
  BY <1>1, <1>8 DEF FileIInv, ImageFile!TypeOK, FileAtPiece, ImageFile!FreeNull
<1> QED
  BY <1>2, <1>3, <1>4, <1>5, <1>6, <1>7, <1>8

(* What ri does with the image. *)
LEMMA ShowImageStep ==
    ASSUME ImageFile!ImageFileAssumption, FileIInv,
           \/ ImageFile!NoResize
           \/ ImageFile!ResizeFails
           \/ \E w, h \in Dimensions : ImageFile!Resize(w, h)
           \/ ImageFile!Display
    PROVE  FileIInv'
<1>1. ImageFile!TypeOK /\ FileAtPiece
  BY DEF FileIInv
<1>2. CASE ImageFile!NoResize
  <2>1. room' = ImageFile!Pixels'
    BY <1>1, <1>2 DEF FileAtPiece, ImageFile!Pixels, ImageFile!NoResize
  <2> QED
    BY <1>1, <1>2, <2>1 DEF FileIInv, ImageFile!TypeOK, FileAtPiece, ImageFile!NoResize
<1>3. CASE ImageFile!ResizeFails
  BY <1>1, <1>3 DEF FileIInv, ImageFile!TypeOK, FileAtPiece, ImageFile!ResizeFails
<1>4. ASSUME NEW w \in Dimensions, NEW h \in Dimensions, ImageFile!Resize(w, h)
      PROVE  FileIInv'
  <2>1. /\ width' \in 0 .. FileWord - 1 /\ height' \in 0 .. FileWord - 1
        /\ room' \in 0 .. FileWord - 1
    BY <1>1, <1>4, FileTypes DEF ImageFile!Resize, ImageFile!ImageFileAssumption
  <2>2. /\ pc' \in {"fault", "display"}
        /\ heap' \subseteq {"image", "pixels", "resized", "resized pixels"}
        /\ pc' = "display" => heap' = {"resized", "resized pixels"}
    BY <1>1, <1>4 DEF ImageFile!Resize, ImageFile!TypeOK
  <2>3. file' = file /\ resized' = TRUE /\ room' = 1
    BY <1>4 DEF ImageFile!Resize
  <2> QED
    BY <1>1, <2>1, <2>2, <2>3 DEF FileIInv, ImageFile!TypeOK, FileAtPiece
<1>5. CASE ImageFile!Display
  BY <1>1, <1>5 DEF FileIInv, ImageFile!TypeOK, FileAtPiece, ImageFile!Display
<1> QED
  BY <1>2, <1>3, <1>4, <1>5

LEMMA FileInductive ==
    ASSUME ImageFile!ImageFileAssumption, FileIInv, [ImageFile!Next]_(ImageFile!vars)
    PROVE  FileIInv'
<1>1. CASE UNCHANGED ImageFile!vars
  BY <1>1 DEF FileIInv, ImageFile!TypeOK, FileAtPiece, SizeIsRight, ImageFile!Pixels,
     ImageFile!vars
<1> QED
  BY <1>1, LoadImageStep, ShowImageStep DEF ImageFile!Next

(* Of a product that wraps, less is left. *)
LEMMA WrappedIsLess ==
    ASSUME NEW n \in Nat, NEW w \in Nat \ {0}
    PROVE  n > n % w <=> n >= w
OBVIOUS

LEMMA FileIInvShows ==
    ASSUME ImageFile!ImageFileAssumption, FileIInv
    PROVE  /\ ImageFile!AcceptedFilesAreWhole
           /\ ImageFile!ReturnsClean
           /\ ImageFile!ShowsItsBlock
<1>1. width * height \in Nat /\ FileWord \in Nat \ {0}
  BY FileTypes DEF FileIInv
<1>2. width * height > ImageFile!Pixels <=> width * height >= FileWord
  BY <1>1, WrappedIsLess DEF ImageFile!Pixels
<1> QED
  BY <1>2 DEF FileIInv, FileAtPiece, SizeIsRight, ImageFile!AcceptedFilesAreWhole,
     ImageFile!ReturnsClean, ImageFile!ShowsItsBlock

FileIsSound == part = "file" => FileIInv

(* What load_image() accepts is whole, for every width of the numbers; ri  *)
(* frees what it allocated, whichever call fails; and what is shown lies   *)
(* in its block except where the product of the sizes wraps or the image   *)
(* was resized.                                                            *)
THEOREM ImageFilesAreSound == GraphicsSpec => []ImageFilesAreShown
<1> USE GraphicsAssumption
<1>1. GraphicsInit => FileIsSound
  BY OnePartStarts, FileInitially DEF FileIsSound
<1>2. FileIsSound /\ [GraphicsNext]_graphicsVars => FileIsSound'
  BY OnePartSteps, FileInductive DEF FileIsSound
<1>3. FileIsSound => ImageFilesAreShown
  BY FileIInvShows DEF FileIsSound, ImageFilesAreShown, FileIInv
<1> QED
  BY <1>1, <1>2, <1>3, PTL DEF GraphicsSpec

---------------------------------------------------------------------------
(* Division, as the console uses it. *)
LEMMA Division ==
    ASSUME NEW n \in Nat, NEW d \in Nat \ {0}
    PROVE  n \div d \in Nat /\ n % d \in 0 .. d - 1 /\ n = (d * (n \div d)) + (n % d)
OBVIOUS

LEMMA ProductGrows ==
    ASSUME NEW a \in Int, NEW b \in Int, a <= b, NEW d \in Nat
    PROVE  a * d <= b * d /\ a * d \in Int /\ b * d \in Int
OBVIOUS

LEMMA DivisionIsUnique ==
    ASSUME NEW d \in Nat \ {0}, NEW q \in Int, NEW r \in 0 .. d - 1
    PROVE  ((d * q) + r) % d = r /\ ((d * q) + r) \div d = q
<1> DEFINE n == (d * q) + r
           k == n \div d
           m == n % d
<1>1. n \in Int /\ k \in Int /\ m \in 0 .. d - 1 /\ n = (d * k) + m
  OBVIOUS
<1> HIDE DEF k, m
<1>2. d * (k - q) = r - m
  BY <1>1
<1>3. ~(k - q >= 1)
  <2> SUFFICES ASSUME k - q >= 1 PROVE FALSE
    OBVIOUS
  <2>1. d * (k - q) >= d * 1
    BY <1>1
  <2> QED
    BY <1>1, <1>2, <2>1
<1>4. ~(q - k >= 1)
  <2> SUFFICES ASSUME q - k >= 1 PROVE FALSE
    OBVIOUS
  <2>1. d * (q - k) >= d * 1
    BY <1>1
  <2> QED
    BY <1>1, <1>2, <2>1
<1>5. k = q
  BY <1>1, <1>3, <1>4
<1>6. m = r
  BY <1>1, <1>2, <1>5
<1> QED
  BY <1>5, <1>6 DEF k, m

(* How many of a size fit, and which one of them a place belongs to. *)
LEMMA HowManyFit ==
    ASSUME NEW n \in Nat, NEW d \in Nat \ {0}, NEW k \in Nat
    PROVE  k * d <= n <=> k <= n \div d
<1> DEFINE q == n \div d
<1>1. q \in Nat /\ n % d \in 0 .. d - 1 /\ n = (d * q) + (n % d)
  BY Division
<1> HIDE DEF q
<1>2. CASE k <= q
  BY <1>1, <1>2, ProductGrows DEF q
<1>3. CASE k > q
  <2>1. (q + 1) * d <= k * d /\ (q + 1) * d = (d * q) + d
    BY <1>1, <1>3, ProductGrows
  <2> QED
    BY <1>1, <1>3, <2>1 DEF q
<1> QED
  BY <1>1, <1>2, <1>3

LEMMA WhichItIs ==
    ASSUME NEW n \in Nat, NEW d \in Nat \ {0}, NEW k \in Nat
    PROVE  n \div d = k <=> n - (k * d) \in 0 .. d - 1
<1>1. n \div d \in Nat /\ n % d \in 0 .. d - 1 /\ n = (d * (n \div d)) + (n % d)
  BY Division
<1>2. ASSUME n \div d = k
      PROVE  n - (k * d) \in 0 .. d - 1
  BY <1>1, <1>2
<1>3. ASSUME n - (k * d) \in 0 .. d - 1
      PROVE  n \div d = k
  <2>1. n = (d * k) + (n - (k * d))
    OBVIOUS
  <2> QED
    BY <1>3, <2>1, DivisionIsUnique
<1> QED
  BY <1>2, <1>3

(* The number of the character whose place a pixel of the display is in.   *)
CharAt(p) ==
    (Console!PerLine * (p[2] \div render.height)) + (p[1] \div render.width) + 1

ShownInPlace ==
    \A p \in Console!Pixels(display) :
        shows[p] = IF CharAt(p) <= written THEN CharAt(p) ELSE 0

ConsoleIInv ==
    /\ Console!TypeOK
    /\ Console!CursorFollowsWrites
    /\ Console!Moves => ShownInPlace

LEMMA ConsoleTypes ==
    ASSUME Console!ConsoleAssumption, Console!TypeOK
    PROVE  /\ display.width \in Nat /\ display.height \in Nat
           /\ render.width \in Nat /\ render.height \in Nat
           /\ written \in Nat /\ x \in Nat /\ y \in Nat
           /\ x <= display.width /\ y <= display.height
           /\ Console!Moves => /\ render.width \in Nat \ {0}
                               /\ render.height \in Nat \ {0}
                               /\ Console!PerLine \in Nat \ {0}
                               /\ Console!Lines \in Nat \ {0}
                               /\ display.width \div render.width = Console!PerLine - 1
                               /\ display.height \div render.height = Console!Lines - 1
<1>1. /\ display.width \in Nat /\ display.height \in Nat
      /\ render.width \in Nat /\ render.height \in Nat
  BY DEF Console!ConsoleAssumption, Console!TypeOK, Console!Size
<1>2. written \in Nat /\ x \in 0 .. display.width /\ y \in 0 .. display.height
  BY DEF Console!ConsoleAssumption, Console!TypeOK
<1>3. ASSUME Console!Moves
      PROVE  /\ render.width \in Nat \ {0} /\ render.height \in Nat \ {0}
             /\ display.width \div render.width \in Nat
             /\ display.height \div render.height \in Nat
  <2>1. render.width \in Nat \ {0} /\ render.height \in Nat \ {0}
    BY <1>1, <1>3 DEF Console!Moves
  <2> QED
    BY <1>1, <2>1, Division
<1> QED
  BY <1>1, <1>2, <1>3 DEF Console!PerLine, Console!Lines

LEMMA ConsoleInitially ==
    ASSUME Console!ConsoleAssumption, Console!Init
    PROVE  ConsoleIInv
<1>1. Console!TypeOK
  <2>1. 0 \in 0 .. MaxWrites
    BY DEF Console!ConsoleAssumption
  <2>2. display.width \in Nat /\ display.height \in Nat
    BY DEF Console!ConsoleAssumption, Console!Init, Console!Size
  <2> QED
    BY <2>1, <2>2 DEF Console!Init, Console!TypeOK
<1>2. Console!CursorFollowsWrites
  <2> SUFFICES ASSUME Console!Moves
               PROVE  Console!CursorFollowsWrites
    BY DEF Console!CursorFollowsWrites
  <2> DEFINE c == Console!PerLine
             l == Console!Lines
  <2>1. c \in Nat \ {0} /\ l \in Nat \ {0}
    BY <1>1, ConsoleTypes
  <2> HIDE DEF c, l
  <2>2. 0 % c = 0 /\ 0 \div c = 0 /\ 0 < c * l
    BY <2>1
  <2>3. render.width \in Nat /\ render.height \in Nat
    BY <1>1, ConsoleTypes
  <2> QED
    BY <2>2, <2>3 DEF Console!CursorFollowsWrites, Console!Init, c, l
<1>3. ASSUME Console!Moves
      PROVE  ShownInPlace
  <2> SUFFICES ASSUME NEW p \in Console!Pixels(display)
               PROVE  shows[p] = 0 /\ ~(CharAt(p) <= 0)
    BY DEF ShownInPlace, Console!Init
  <2>1. p[1] \in Nat /\ p[2] \in Nat
    BY <1>1, ConsoleTypes DEF Console!Pixels
  <2>2. p[1] \div render.width \in Nat /\ p[2] \div render.height \in Nat
    BY <1>1, <1>3, <2>1, ConsoleTypes, Division
  <2>3. Console!PerLine * (p[2] \div render.height) \in Nat
    BY <1>1, <1>3, <2>2, ConsoleTypes
  <2> QED
    BY <2>2, <2>3 DEF CharAt, Console!Init
<1> QED
  BY <1>1, <1>2, <1>3 DEF ConsoleIInv

LEMMA NextPlace ==
    ASSUME NEW n \in Nat, NEW d \in Nat \ {0}
    PROVE  IF n % d = d - 1
           THEN (n + 1) % d = 0 /\ (n + 1) \div d = (n \div d) + 1
           ELSE (n + 1) % d = (n % d) + 1 /\ (n + 1) \div d = n \div d
<1> DEFINE q == n \div d
           r == n % d
<1>1. q \in Nat /\ r \in 0 .. d - 1 /\ n = (d * q) + r
  BY Division
<1> HIDE DEF q, r
<1>2. CASE r = d - 1
  <2>1. n + 1 = (d * (q + 1)) + 0 /\ 0 \in 0 .. d - 1
    BY <1>1, <1>2
  <2>2. (n + 1) % d = 0 /\ (n + 1) \div d = q + 1
    BY <1>1, <2>1, DivisionIsUnique
  <2> QED
    BY <1>2, <2>2 DEF q, r
<1>3. CASE r # d - 1
  <2>1. n + 1 = (d * q) + (r + 1) /\ r + 1 \in 0 .. d - 1
    BY <1>1, <1>3
  <2>2. (n + 1) % d = r + 1 /\ (n + 1) \div d = q
    BY <1>1, <2>1, DivisionIsUnique
  <2> QED
    BY <1>3, <2>2 DEF q, r
<1> QED
  BY <1>2, <1>3

LEMMA PlaceOfPixel ==
    ASSUME Console!ConsoleAssumption, Console!TypeOK, Console!Moves,
           NEW p \in Console!Pixels(display)
    PROVE  /\ p[1] \in Nat /\ p[2] \in Nat
           /\ p[1] \div render.width \in 0 .. Console!PerLine - 1
           /\ p[2] \div render.height \in 0 .. Console!Lines - 1
<1> DEFINE w == render.width
           h == render.height
           c == p[1] \div w
           r == p[2] \div h
<1>1. /\ p[1] \in Nat /\ p[1] < display.width
      /\ p[2] \in Nat /\ p[2] < display.height
  BY ConsoleTypes DEF Console!Pixels
<1>2. w \in Nat \ {0} /\ h \in Nat \ {0} /\ c \in Nat /\ r \in Nat
  BY <1>1, ConsoleTypes, Division
<1>3. display.width \in Nat /\ display.height \in Nat
  BY ConsoleTypes
<1>4. c * w <= p[1] /\ r * h <= p[2] /\ c * w \in Nat /\ r * h \in Nat
  BY <1>1, <1>2, HowManyFit
<1> HIDE DEF w, h, c, r
<1>5. c * w <= display.width /\ r * h <= display.height
  BY <1>1, <1>3, <1>4
<1>6. c <= display.width \div w /\ r <= display.height \div h
  BY <1>2, <1>3, <1>5, HowManyFit
<1>7. c <= Console!PerLine - 1 /\ r <= Console!Lines - 1
  BY <1>6, ConsoleTypes DEF w, h
<1>8. Console!PerLine \in Nat /\ Console!Lines \in Nat
  BY ConsoleTypes
<1>9. c \in 0 .. Console!PerLine - 1 /\ r \in 0 .. Console!Lines - 1
  BY <1>2, <1>7, <1>8
<1> QED
  BY <1>1, <1>9 DEF w, h, c, r

(* A pixel belongs to the character whose column and line it is in.        *)
LEMMA CharAtIs ==
    ASSUME Console!ConsoleAssumption, Console!TypeOK, Console!Moves,
           NEW p \in Console!Pixels(display), NEW n \in Nat
    PROVE  /\ CharAt(p) \in Nat \ {0}
           /\ CharAt(p) = n + 1 <=> /\ p[1] \div render.width = n % Console!PerLine
                                    /\ p[2] \div render.height = n \div Console!PerLine
<1> DEFINE d == Console!PerLine
           c == p[1] \div render.width
           r == p[2] \div render.height
<1>1. d \in Nat \ {0} /\ c \in 0 .. d - 1 /\ r \in Nat
  BY ConsoleTypes, PlaceOfPixel
<1>2. CharAt(p) = (d * r) + c + 1
  BY DEF CharAt
<1> HIDE DEF d, c, r
<1>3. d * r \in Nat
  BY <1>1
<1>4. ASSUME CharAt(p) = n + 1
      PROVE  c = n % d /\ r = n \div d
  <2>1. n = (d * r) + c
    BY <1>1, <1>2, <1>3, <1>4
  <2> QED
    BY <1>1, <2>1, DivisionIsUnique
<1>5. ASSUME c = n % d, r = n \div d
      PROVE  CharAt(p) = n + 1
  <2>1. n = (d * r) + c
    BY <1>1, <1>5, Division
  <2> QED
    BY <1>1, <1>2, <1>3, <2>1
<1>6. CharAt(p) \in Nat \ {0}
  <2>1. c \in Nat /\ (d * r) + c + 1 \in Nat /\ (d * r) + c + 1 > 0
    BY <1>1, <1>3
  <2> QED
    BY <1>2, <2>1
<1>7. CharAt(p) = n + 1 <=> c = n % d /\ r = n \div d
  BY <1>4, <1>5
<1> QED
  BY <1>6, <1>7 DEF d, c, r

(* What is drawn next is the place of the next character. *)
LEMMA DrawnIsItsPlace ==
    ASSUME Console!ConsoleAssumption, ConsoleIInv, Console!Moves, pc # "hung",
           NEW p \in Console!Pixels(display)
    PROVE  p \in Console!Drawn <=> CharAt(p) = written + 1
<1>1. Console!TypeOK
  BY DEF ConsoleIInv
<1> DEFINE c == written % Console!PerLine
           r == written \div Console!PerLine
<1>2. /\ render.width \in Nat \ {0} /\ render.height \in Nat \ {0}
      /\ p[1] \in Nat /\ p[2] \in Nat /\ written \in Nat
      /\ c \in Nat /\ r \in Nat
  <2>1. Console!PerLine \in Nat \ {0} /\ written \in Nat
    BY <1>1, ConsoleTypes
  <2>2. c \in Nat /\ r \in Nat
    BY <2>1, Division
  <2> QED
    BY <1>1, <2>2, ConsoleTypes, PlaceOfPixel
<1>3. x = c * render.width /\ y = r * render.height
  BY DEF ConsoleIInv, Console!CursorFollowsWrites
<1>4. /\ p[1] - x \in 0 .. render.width - 1 <=> p[1] \div render.width = c
      /\ p[2] - y \in 0 .. render.height - 1 <=> p[2] \div render.height = r
  <2> HIDE DEF c, r
  <2> QED
    BY <1>2, <1>3, WhichItIs
<1> QED
  BY <1>1, <1>2, <1>4, CharAtIs DEF Console!Drawn

(* Where the cursor goes, and when the screen is full. *)
LEMMA CursorMoves ==
    ASSUME Console!ConsoleAssumption, ConsoleIInv, Console!Moves, pc # "hung",
           Console!WriteConsole
    PROVE  Console!CursorFollowsWrites'
<1> DEFINE d == Console!PerLine
           l == Console!Lines
           w == render.width
           h == render.height
           c == written % d
           r == written \div d
           right == x + w
           bottom == IF Console!LineIsFull(right) THEN y + h ELSE y
<1>1. Console!TypeOK
  BY DEF ConsoleIInv
<1>2. /\ d \in Nat \ {0} /\ l \in Nat \ {0} /\ w \in Nat \ {0} /\ h \in Nat \ {0}
      /\ display.width \in Nat /\ display.height \in Nat /\ written \in Nat
      /\ display.width \div w = d - 1 /\ display.height \div h = l - 1
      /\ x \in Nat /\ y \in Nat /\ x <= display.width /\ y <= display.height
  BY <1>1, ConsoleTypes
<1>3. c \in 0 .. d - 1 /\ r \in Nat /\ written = (d * r) + c
  BY <1>2, Division
<1>4. x = c * w /\ y = r * h /\ written < d * l
  BY DEF ConsoleIInv, Console!CursorFollowsWrites
<1>5. IF c = d - 1 THEN (written + 1) % d = 0 /\ (written + 1) \div d = r + 1
                   ELSE (written + 1) % d = c + 1 /\ (written + 1) \div d = r
  BY <1>2, NextPlace
<1>6. /\ written' = written + 1 /\ display' = display /\ render' = render
      /\ x' = IF Console!LineIsFull(right) THEN 0 ELSE right
      /\ IF Console!ScreenIsFull(bottom)
         THEN y' = bottom - h /\ pc' = "hung"
         ELSE y' = bottom /\ pc' = "ready"
  BY DEF Console!WriteConsole
<1>7. d' = d /\ l' = l /\ w' = w /\ h' = h
  BY <1>6 DEF Console!PerLine, Console!Lines
<1> HIDE DEF d, l, w, h, c, r
<1>8. right = (c + 1) * w /\ c + 1 \in Nat /\ y + h = (r + 1) * h /\ r + 1 \in Nat
  BY <1>2, <1>3, <1>4
<1>9. Console!LineIsFull(right) <=> c = d - 1
  <2>1. right <= display.width <=> c + 1 <= d - 1
    BY <1>2, <1>8, HowManyFit
  <2>2. right \in Nat
    BY <1>2
  <2> QED
    BY <1>2, <1>3, <2>1, <2>2 DEF Console!LineIsFull
<1>10. CASE c # d - 1
  <2>1. bottom = y /\ ~Console!ScreenIsFull(bottom)
    BY <1>2, <1>9, <1>10 DEF Console!ScreenIsFull
  <2>2. x' = (c + 1) * w /\ y' = r * h /\ pc' = "ready"
    BY <1>4, <1>6, <1>8, <1>9, <1>10, <2>1
  <2>3. written + 1 < d * l
    <3>1. r < l
      <4> SUFFICES ASSUME l <= r PROVE FALSE
        BY <1>2, <1>3
      <4>1. l * d <= r * d
        BY <1>2, <1>3, ProductGrows
      <4> QED
        BY <1>2, <1>3, <1>4, <4>1
    <3>2. (r + 1) * d <= l * d
      BY <1>2, <1>3, <3>1, ProductGrows
    <3>3. (r + 1) * d = (d * r) + d
      BY <1>2, <1>3
    <3> QED
      BY <1>2, <1>3, <1>10, <3>2, <3>3
  <2>4. (written' % d) = c + 1 /\ (written' \div d) = r
    BY <1>5, <1>6, <1>10
  <2> QED
    BY <1>6, <1>7, <2>2, <2>3, <2>4 DEF Console!CursorFollowsWrites, d, l, w, h
<1>11. CASE c = d - 1
  <2>1. bottom = (r + 1) * h /\ bottom \in Nat
    BY <1>2, <1>8, <1>9, <1>11
  <2>2. Console!ScreenIsFull(bottom) <=> r + 1 > l - 1
    <3>1. bottom <= display.height <=> r + 1 <= l - 1
      BY <1>2, <1>8, <2>1, HowManyFit
    <3> QED
      BY <1>2, <1>3, <2>1, <3>1 DEF Console!ScreenIsFull
  <2>3. (written' % d) = 0 /\ (written' \div d) = r + 1
    BY <1>5, <1>6, <1>11
  <2>4. written + 1 = (r + 1) * d
    BY <1>2, <1>3, <1>11
  <2>5. r + 1 <= l
    <3> SUFFICES ASSUME l <= r PROVE FALSE
      BY <1>2, <1>3
    <3>1. l * d <= r * d
      BY <1>2, <1>3, ProductGrows
    <3> QED
      BY <1>2, <1>3, <1>4, <3>1
  <2>6. CASE r + 1 = l
    <3>1. pc' = "hung"
      BY <1>2, <1>6, <2>2, <2>6
    <3>2. written' = d * l
      BY <1>2, <1>6, <2>4, <2>6
    <3> QED
      BY <1>7, <3>1, <3>2 DEF Console!CursorFollowsWrites, d, l
  <2>7. CASE r + 1 < l
    <3>1. pc' = "ready" /\ y' = (r + 1) * h /\ x' = 0
      BY <1>2, <1>3, <1>6, <1>9, <1>11, <2>1, <2>2, <2>7
    <3>2. written' < d * l
      <4>1. (r + 2) * d <= l * d
        BY <1>2, <1>3, <2>7, ProductGrows
      <4>2. (r + 2) * d = ((r + 1) * d) + d
        BY <1>2, <1>3
      <4> QED
        BY <1>2, <1>3, <1>6, <2>4, <4>1, <4>2
    <3>3. 0 = 0 * w
      BY <1>2
    <3> QED
      BY <1>6, <1>7, <2>3, <3>1, <3>2, <3>3 DEF Console!CursorFollowsWrites, d, l, w, h
  <2> QED
    BY <1>2, <1>3, <2>5, <2>6, <2>7
<1> QED
  BY <1>10, <1>11

LEMMA WriteConsoleStep ==
    ASSUME Console!ConsoleAssumption, ConsoleIInv, Console!WriteConsole
    PROVE  ConsoleIInv'
<1> DEFINE right == x + render.width
           bottom == IF Console!LineIsFull(right) THEN y + render.height ELSE y
<1>1. Console!TypeOK
  BY DEF ConsoleIInv
<1>2. /\ written' = written + 1 /\ display' = display /\ render' = render
      /\ x' = IF Console!LineIsFull(right) THEN 0 ELSE right
      /\ IF Console!ScreenIsFull(bottom)
         THEN y' = bottom - render.height /\ pc' = "hung"
         ELSE y' = bottom /\ pc' = "ready"
      /\ pc = "ready" /\ written < MaxWrites
      /\ shows' = [p \in Console!Pixels(display) |->
                      IF p \in Console!Drawn THEN written' ELSE shows[p]]
  BY DEF Console!WriteConsole
<1>3. /\ display.width \in Nat /\ display.height \in Nat
      /\ render.width \in Nat /\ render.height \in Nat
      /\ written \in Nat /\ x \in Nat /\ y \in Nat
      /\ x <= display.width /\ y <= display.height
  BY <1>1, ConsoleTypes
<1>4. Console!TypeOK'
  <2>1. written' \in 0 .. MaxWrites
    BY <1>2, <1>3 DEF Console!ConsoleAssumption
  <2>2. x' \in 0 .. display.width
    BY <1>2, <1>3 DEF Console!LineIsFull
  <2>3. y' \in 0 .. display.height
    BY <1>2, <1>3 DEF Console!ScreenIsFull
  <2>4. shows' \in [Console!Pixels(display) -> 0 .. MaxWrites]
    BY <1>1, <1>2, <2>1 DEF Console!TypeOK
  <2> QED
    BY <1>1, <1>2, <2>1, <2>2, <2>3, <2>4 DEF Console!TypeOK
<1>5. Console!CursorFollowsWrites'
  <2>1. CASE Console!Moves
    BY <1>2, <2>1, CursorMoves
  <2>2. CASE ~Console!Moves
    BY <1>2, <2>2 DEF Console!CursorFollowsWrites, Console!Moves
  <2> QED
    BY <2>1, <2>2
<1>6. ASSUME Console!Moves'
      PROVE  ShownInPlace'
  <2>1. Console!Moves
    BY <1>2, <1>6 DEF Console!Moves
  <2> SUFFICES ASSUME NEW p \in Console!Pixels(display)
               PROVE  shows'[p] = IF CharAt(p)' <= written' THEN CharAt(p)' ELSE 0
    BY <1>2 DEF ShownInPlace
  <2>2. CharAt(p)' = CharAt(p)
    BY <1>2 DEF CharAt, Console!PerLine
  <2>3. CharAt(p) \in Nat \ {0}
    BY <1>1, <1>3, <2>1, CharAtIs
  <2>4. p \in Console!Drawn <=> CharAt(p) = written + 1
    BY <1>2, <2>1, DrawnIsItsPlace
  <2>5. shows[p] = IF CharAt(p) <= written THEN CharAt(p) ELSE 0
    BY <2>1 DEF ConsoleIInv, ShownInPlace
  <2> QED
    BY <1>2, <1>3, <2>2, <2>3, <2>4, <2>5
<1> QED
  BY <1>4, <1>5, <1>6 DEF ConsoleIInv

LEMMA ConsoleInductive ==
    ASSUME Console!ConsoleAssumption, ConsoleIInv, [Console!Next]_(Console!vars)
    PROVE  ConsoleIInv'
<1>1. CASE Console!WriteConsole
  BY <1>1, WriteConsoleStep
<1>2. CASE Console!CreateConsole \/ Console!DrawFails \/ Console!DisplayImage
           \/ UNCHANGED Console!vars
  <2>1. UNCHANGED <<display, render, x, y, written, shows>>
    BY <1>2 DEF Console!CreateConsole, Console!DrawFails, Console!DisplayImage,
       Console!vars
  <2>2. pc' \in {"console", "ready", "done", "null", "hung", "fault"}
        /\ (pc' = "hung" <=> pc = "hung")
    BY <1>2 DEF ConsoleIInv, Console!TypeOK, Console!CreateConsole,
       Console!DrawFails, Console!DisplayImage, Console!vars
  <2>3. Console!TypeOK'
    BY <2>1, <2>2 DEF ConsoleIInv, Console!TypeOK
  <2>4. Console!CursorFollowsWrites'
    BY <2>1, <2>2 DEF ConsoleIInv, Console!CursorFollowsWrites, Console!Moves,
       Console!PerLine, Console!Lines
  <2>5. Console!Moves' => ShownInPlace'
    BY <2>1 DEF ConsoleIInv, ShownInPlace, CharAt, Console!Moves, Console!PerLine
  <2> QED
    BY <2>3, <2>4, <2>5 DEF ConsoleIInv
<1> QED
  BY <1>1, <1>2 DEF Console!Next

(* The places that are left of a size from a multiple of another on.       *)
Part(k, d, n) == {i \in 0 .. n - 1 : i \div d = k}

LEMMA PartSize ==
    ASSUME NEW n \in Nat, NEW d \in Nat \ {0}, NEW k \in 0 .. n \div d
    PROVE  /\ IsFiniteSet(Part(k, d, n))
           /\ Cardinality(Part(k, d, n)) = IF k = n \div d THEN n % d ELSE d
<1>1. /\ n \div d \in Nat /\ n % d \in 0 .. d - 1
      /\ n = (d * (n \div d)) + (n % d) /\ k \in Nat
  BY Division
<1> DEFINE first == k * d
           size  == IF k = n \div d THEN n % d ELSE d
<1>2. first \in Nat /\ first <= n
  BY <1>1, HowManyFit
<1>3. first + size <= n /\ size \in Nat
  <2>1. CASE k = n \div d
    BY <1>1, <2>1
  <2>2. CASE k # n \div d
    <3>1. k + 1 \in Nat /\ k + 1 <= n \div d
      BY <1>1, <2>2
    <3>2. (k + 1) * d <= n
      BY <3>1, HowManyFit
    <3> QED
      BY <1>1, <2>2, <3>2
  <2> QED
    BY <2>1, <2>2
<1>4. size <= d /\ (size < d => first + size = n)
  BY <1>1
<1> HIDE DEF first, size
<1>5. Part(k, d, n) = first .. first + size - 1
  <2>1. ASSUME NEW i \in 0 .. n - 1
        PROVE  i \div d = k <=> i - first \in 0 .. d - 1
    BY <1>1, <2>1, WhichItIs DEF first
  <2> QED
    BY <1>2, <1>3, <1>4, <2>1 DEF Part
<1>6. /\ IsFiniteSet(first .. first + size - 1)
      /\ Cardinality(first .. first + size - 1) = size
  BY <1>2, <1>3, FS_Interval
<1> QED
  BY <1>5, <1>6 DEF size

LEMMA CharacterShows ==
    ASSUME Console!ConsoleAssumption, ConsoleIInv, Console!Moves,
           NEW k \in 1 .. written
    PROVE  Cardinality({p \in Console!Pixels(display) : shows[p] = k})
             = Console!Columns(k) * Console!Rows(k)
<1> DEFINE d == Console!PerLine
           l == Console!Lines
           w == render.width
           h == render.height
           n == k - 1
           c == n % d
           r == n \div d
           columns == Part(c, w, display.width)
           rows == Part(r, h, display.height)
<1>1. Console!TypeOK
  BY DEF ConsoleIInv
<1>2. /\ d \in Nat \ {0} /\ l \in Nat \ {0} /\ w \in Nat \ {0} /\ h \in Nat \ {0}
      /\ display.width \in Nat /\ display.height \in Nat /\ written \in Nat
      /\ display.width \div w = d - 1 /\ display.height \div h = l - 1
  BY <1>1, ConsoleTypes
<1>3. n \in Nat /\ k \in Nat /\ k = n + 1 /\ k <= written
  BY <1>2
<1>4. c \in 0 .. d - 1 /\ r \in Nat /\ n = (d * r) + c
  BY <1>2, <1>3, Division
<1>5. written <= d * l
  BY <1>2 DEF ConsoleIInv, Console!CursorFollowsWrites
<1>6. {p \in Console!Pixels(display) : shows[p] = k} = columns \X rows
  <2>1. ASSUME NEW p \in Console!Pixels(display)
        PROVE  shows[p] = k <=> p[1] \div w = c /\ p[2] \div h = r
    <3>1. shows[p] = IF CharAt(p) <= written THEN CharAt(p) ELSE 0
      BY DEF ConsoleIInv, ShownInPlace
    <3>2. CharAt(p) \in Nat \ {0} /\ (CharAt(p) = k <=> p[1] \div w = c /\ p[2] \div h = r)
      BY <1>1, <1>3, CharAtIs
    <3> HIDE DEF n, c, r, w, h
    <3> QED
      BY <1>2, <1>3, <3>1, <3>2
  <2> HIDE DEF c, r, w, h
  <2> QED
    BY <2>1 DEF Console!Pixels, Part
<1> HIDE DEF d, l, w, h, n, c, r
<1>7. r <= l - 1 /\ (k > d * (l - 1) <=> r = l - 1)
  <2>1. r <= l - 1
    <3> SUFFICES ASSUME l <= r PROVE FALSE
      BY <1>2, <1>4
    <3>1. l * d <= r * d
      BY <1>2, <1>4, ProductGrows
    <3> QED
      BY <1>2, <1>3, <1>4, <1>5, <3>1
  <2>2. CASE r = l - 1
    BY <1>2, <1>3, <1>4, <2>2
  <2>3. CASE r < l - 1
    <3>1. (r + 1) * d <= (l - 1) * d /\ (r + 1) * d = (d * r) + d
      BY <1>2, <1>4, <2>3, ProductGrows
    <3> QED
      BY <1>2, <1>3, <1>4, <2>3, <3>1
  <2> QED
    BY <1>2, <1>4, <2>1, <2>2, <2>3
<1>8. k % d = 0 <=> c = d - 1
  <2>1. IF c = d - 1 THEN (n + 1) % d = 0 ELSE (n + 1) % d = c + 1
    BY <1>2, <1>3, NextPlace DEF c
  <2> QED
    BY <1>2, <1>3, <1>4, <2>1
<1>9. IsFiniteSet(columns) /\ Cardinality(columns) = Console!Columns(k)
  <2>1. c \in 0 .. display.width \div w
    BY <1>2, <1>4
  <2>2. /\ IsFiniteSet(columns)
        /\ Cardinality(columns) = IF c = d - 1 THEN display.width % w ELSE w
    BY <1>2, <2>1, PartSize
  <2> QED
    BY <1>8, <2>2 DEF Console!Columns, d, w
<1>10. IsFiniteSet(rows) /\ Cardinality(rows) = Console!Rows(k)
  <2>1. r \in 0 .. display.height \div h
    BY <1>2, <1>4, <1>7
  <2>2. /\ IsFiniteSet(rows)
        /\ Cardinality(rows) = IF r = l - 1 THEN display.height % h ELSE h
    BY <1>2, <2>1, PartSize
  <2> QED
    BY <1>7, <2>2 DEF Console!Rows, d, l, h
<1> HIDE DEF columns, rows
<1> QED
  BY <1>6, <1>9, <1>10, FS_Product

(* Console counts as the theorems on finite sets do. *)
LEMMA ConsoleCounts ==
    ASSUME NEW S
    PROVE  Console!Cardinality(S) = Cardinality(S)
BY DEF Console!Cardinality, Cardinality

ConsoleIsSound == part = "console" => ConsoleIInv

(* For every size of the display and of the characters: the cursor is      *)
(* where the characters written so far take it, the screen is full when    *)
(* the last line is, and every character still shows all of what fits.     *)
THEOREM ConsoleKeepsEveryCharacter == GraphicsSpec => []ConsoleKeepsItsText
<1> USE GraphicsAssumption
<1>1. GraphicsInit => ConsoleIsSound
  BY OnePartStarts, ConsoleInitially DEF ConsoleIsSound
<1>2. ConsoleIsSound /\ [GraphicsNext]_graphicsVars => ConsoleIsSound'
  BY OnePartSteps, ConsoleInductive DEF ConsoleIsSound
<1>3. ConsoleIInv => Console!EveryCharacterKeepsItsPlace
  BY CharacterShows, ConsoleCounts DEF Console!EveryCharacterKeepsItsPlace
<1>4. ConsoleIsSound => ConsoleKeepsItsText
  BY <1>3 DEF ConsoleIsSound, ConsoleKeepsItsText, ConsoleIInv
<1> QED
  BY <1>1, <1>2, <1>4, PTL DEF GraphicsSpec

---------------------------------------------------------------------------
(* The position of a cell of an image, as Draw() finds it. *)
At(n) == <<n % image.width, n \div image.width>>

Word32 == 0 .. ImageWord - 1

(* What an image shows after each of the operations. *)
(* Some of the positions lie behind the block. *)
Overrun(positions) ==
    \E p \in positions : (image.width * p[2]) + p[1] \notin 0 .. block - 1

Inserted ==
    /\ args.x \in Word32 /\ args.y \in Word32
    /\ args.copyx \in Word32 /\ args.copyy \in Word32
    /\ args.width \in Word32 /\ args.height \in Word32
    /\ data = [n \in Image!Cells(image) |->
                  IF At(n) \in Image!Positions(args.x, args.y, args.width, args.height)
                  THEN Image!SourceOf(args, At(n)[1], At(n)[2]) ELSE Image!Own(n)]
    /\ overrun = Overrun(Image!Positions(args.x, args.y, args.width, args.height))

Filled ==
    /\ args.x \in Word32 /\ args.y \in Word32
    /\ args.width \in Word32 /\ args.height \in Word32
    /\ data = [n \in Image!Cells(image) |->
                  IF At(n) \in Image!Positions(args.x, args.y, args.width, args.height)
                  THEN <<"color", 0, 0>> ELSE Image!Own(n)]
    /\ overrun = Overrun(Image!Positions(args.x, args.y, args.width, args.height))

Resized ==
    /\ overrun = Overrun(Image!Grid)
    /\ image.width # 0 /\ image.height # 0 =>
           data = [n \in Image!Cells(image) |->
                      Image!SourcePixel(Image!Sample(At(n)[1], source.width, image.width),
                                        Image!Sample(At(n)[2], source.height, image.height))]

(* Scrolling right starts no line of its own. *)
Scrolling ==
    /\ args.x \in Word32 /\ args.down \in BOOLEAN /\ args.right \in BOOLEAN
    /\ args.right = TRUE => scrolly = args.y \/ args.down = FALSE

ImageIInv ==
    /\ Image!TypeOK
    /\ pc = "call" => /\ data = [n \in Image!Cells(image) |-> Image!Own(n)]
                      /\ overrun = FALSE
    /\ pc = "inserted" => Inserted
    /\ pc = "filled" => Filled
    /\ pc = "resized" => Resized
    /\ pc \in {"scroll", "scrolled"} => Scrolling
    /\ pc = "scrolled" => args.down = TRUE

LEMMA ImageTypes ==
    ASSUME Image!ImageAssumption, Image!TypeOK
    PROVE  /\ ImageWord \in Nat \ {0} /\ FixedPoint \in Nat \ {0}
           /\ image.width \in Word32 /\ image.height \in Word32
           /\ source.width \in Word32 /\ source.height \in Word32
           /\ image.width * image.height \in Nat
           /\ image.width * image.height < ImageWord
           /\ source.width * source.height \in Nat
           /\ source.width * source.height < ImageWord
<1>1. /\ ImageWord \in Nat \ {0} /\ FixedPoint \in Nat \ {0}
      /\ Sizes \subseteq Word32
  BY DEF Image!ImageAssumption, Word32
<1>2. /\ image.width \in Sizes /\ image.height \in Sizes
      /\ source.width \in Sizes /\ source.height \in Sizes
      /\ image.width * image.height < ImageWord
      /\ source.width * source.height < ImageWord
  BY DEF Image!TypeOK, Image!Image
<1>3. /\ image.width \in Nat /\ image.height \in Nat
      /\ source.width \in Nat /\ source.height \in Nat
  <2>1. Word32 \subseteq Nat
    BY <1>1 DEF Word32
  <2> QED
    BY <1>1, <1>2, <2>1
<1>4. image.width * image.height \in Nat /\ source.width * source.height \in Nat
  BY <1>3
<1> QED
  BY <1>1, <1>2, <1>4

LEMMA ImageInitially ==
    ASSUME Image!ImageAssumption, Image!Init
    PROVE  ImageIInv
<1>1. 0 \in 0 .. ImageWord - 1
  BY DEF Image!ImageAssumption
<1>2. /\ pc = "call" /\ image \in Image!Image /\ source \in Image!Image
      /\ block \in Image!Room(image) /\ overrun = FALSE
      /\ data = [n \in Image!Cells(image) |-> Image!Own(n)]
      /\ scrollx = 0 /\ scrolly = 0
  BY DEF Image!Init
<1>3. Image!TypeOK
  BY <1>1, <1>2 DEF Image!TypeOK
<1> QED
  BY <1>2, <1>3 DEF ImageIInv

LEMMA IntRemainder ==
    ASSUME NEW n \in Int, NEW w \in Nat \ {0}
    PROVE  n % w \in 0 .. w - 1
OBVIOUS

(* A cell of an image is at a position of it, and comes back from there.   *)
LEMMA CellIsAt ==
    ASSUME Image!ImageAssumption, Image!TypeOK, NEW n \in Image!Cells(image)
    PROVE  /\ image.width \in Nat \ {0} /\ image.height \in Nat \ {0}
           /\ n % image.width \in 0 .. image.width - 1
           /\ n \div image.width \in 0 .. image.height - 1
           /\ n = (image.width * (n \div image.width)) + (n % image.width)
<1> DEFINE w == image.width
           h == image.height
<1>1. w \in Nat /\ h \in Nat /\ w * h \in Nat /\ n \in Nat /\ n < w * h
  <2>1. w \in 0 .. ImageWord - 1 /\ h \in 0 .. ImageWord - 1 /\ ImageWord \in Nat
        /\ w * h \in Nat
    BY ImageTypes DEF Word32
  <2>2. n \in 0 .. w * h - 1
    BY DEF Image!Cells
  <2> HIDE DEF w, h
  <2> QED
    BY <2>1, <2>2
<1> HIDE DEF w, h
<1>2. w # 0 /\ h # 0
  BY <1>1
<1>3. n \div w \in Nat /\ n % w \in 0 .. w - 1 /\ n = (w * (n \div w)) + (n % w)
  BY <1>1, <1>2, Division
<1>4. n \div w < h
  <2> SUFFICES ASSUME h <= n \div w PROVE FALSE
    BY <1>1, <1>3
  <2>1. h * w <= n
    BY <1>1, <1>2, HowManyFit
  <2> QED
    BY <1>1, <2>1
<1> QED
  BY <1>1, <1>2, <1>3, <1>4 DEF w, h

(* Every position of a grid has a number of its own below that of all. *)
LEMMA GridPlace ==
    ASSUME NEW w \in Nat, NEW h \in Nat,
           NEW px \in 0 .. w - 1, NEW py \in 0 .. h - 1
    PROVE  /\ w * py \in Nat /\ w * py <= (w * h) - w /\ w * h \in Nat
           /\ (w * py) + px \in 0 .. (w * h) - 1
           /\ ((w * py) + px) % w = px
           /\ ((w * py) + px) \div w = py
<1>1. py \in Nat /\ px \in Nat /\ w # 0 /\ py <= h - 1
  OBVIOUS
<1>2. w * py \in Nat /\ w * h \in Nat
  BY <1>1
<1>3. w * py <= w * (h - 1) /\ w * (h - 1) = (w * h) - w
  BY <1>1, ProductGrows
<1>4. ((w * py) + px) % w = px /\ ((w * py) + px) \div w = py
  BY <1>1, DivisionIsUnique
<1> QED
  BY <1>1, <1>2, <1>3, <1>4

LEMMA SmallRemainder ==
    ASSUME NEW n \in Nat, NEW w \in Nat \ {0}, n < w
    PROVE  n % w = n
OBVIOUS

LEMMA IndexIsAt ==
    ASSUME Image!ImageAssumption, Image!TypeOK,
           NEW px \in 0 .. image.width - 1, NEW py \in 0 .. image.height - 1
    PROVE  /\ Image!Index(image, px, py) \in Image!Cells(image)
           /\ At(Image!Index(image, px, py)) = <<px, py>>
           /\ Image!Index(image, px, py) = (image.width * py) + px
<1> DEFINE w == image.width
           h == image.height
<1>1. w \in Nat /\ h \in Nat /\ w * h < ImageWord /\ ImageWord \in Nat \ {0}
  <2>1. w \in 0 .. ImageWord - 1 /\ h \in 0 .. ImageWord - 1 /\ ImageWord \in Nat \ {0}
        /\ w * h < ImageWord
    BY ImageTypes DEF Word32
  <2> QED
    BY <2>1
<1>2. px \in 0 .. w - 1 /\ py \in 0 .. h - 1
  OBVIOUS
<1> HIDE DEF w, h
<1>3. /\ w * py \in Nat /\ w * py <= (w * h) - w /\ w * h \in Nat
      /\ (w * py) + px \in 0 .. (w * h) - 1
      /\ ((w * py) + px) % w = px /\ ((w * py) + px) \div w = py
  BY <1>1, <1>2, GridPlace
<1>4. (w * py) % ImageWord = w * py
  <2>1. w * py < ImageWord
    BY <1>1, <1>3
  <2> QED
    BY <1>1, <1>3, <2>1, SmallRemainder
<1>5. px + ((w * py) % ImageWord) = (w * py) + px
  BY <1>2, <1>3, <1>4
<1>6. Image!Index(image, px, py) = (w * py) + px
  BY <1>5 DEF Image!Index, w
<1> QED
  BY <1>3, <1>6 DEF Image!Cells, At, w, h

(* What is computed for a position of the image is its place. *)
LEMMA DestPlaceIs ==
    ASSUME Image!ImageAssumption, Image!TypeOK, NEW p \in Image!Grid
    PROVE  Image!DestPlace(p) = (image.width * p[2]) + p[1]
<1> DEFINE w == image.width
           h == image.height
           px == p[1]
           py == p[2]
<1>1. px \in 0 .. w - 1 /\ py \in 0 .. h - 1
  BY DEF Image!Grid
<1>2. w \in Nat /\ h \in Nat /\ w * h < ImageWord /\ ImageWord \in Nat \ {0}
  <2>1. w \in 0 .. ImageWord - 1 /\ h \in 0 .. ImageWord - 1 /\ ImageWord \in Nat \ {0}
        /\ w * h < ImageWord
    BY ImageTypes DEF Word32
  <2> QED
    BY <2>1
<1>3. Image!DestPlace(p) = (py * w + px) % ImageWord
  BY DEF Image!DestPlace
<1> HIDE DEF w, h, px, py
<1>4. (w * py) + px \in 0 .. (w * h) - 1 /\ w * h \in Nat
  BY <1>1, <1>2, GridPlace
<1>5. py * w + px = (w * py) + px
  BY <1>1, <1>2
<1>6. (w * py) + px \in Nat /\ (w * py) + px < ImageWord
  BY <1>2, <1>4
<1>7. ((w * py) + px) % ImageWord = (w * py) + px
  BY <1>2, <1>6, SmallRemainder
<1> QED
  BY <1>3, <1>5, <1>7 DEF w, px, py

(* What is drawn at positions of the image gets into their cells. *)
LEMMA DrawIs ==
    ASSUME Image!ImageAssumption, Image!TypeOK,
           NEW pixel, NEW place, DOMAIN pixel = DOMAIN place,
           DOMAIN place \subseteq Image!Grid,
           \A p \in DOMAIN place : place[p] = (image.width * p[2]) + p[1],
           Image!Draw(pixel, place)
    PROVE  /\ data' = [n \in Image!Cells(image) |->
                          IF At(n) \in DOMAIN place THEN pixel[At(n)] ELSE data[n]]
           /\ overrun' = Overrun(DOMAIN place)
<1> DEFINE at(n) == {p \in DOMAIN place : place[p] = n}
           cell(n) == IF at(n) = {} THEN data[n] ELSE pixel[CHOOSE p \in at(n) : TRUE]
<1>1. /\ data' = [n \in Image!Cells(image) |-> cell(n)]
      /\ overrun' = \E p \in DOMAIN place : place[p] \notin 0 .. block - 1
  BY DEF Image!Draw
<1>2. ASSUME NEW p \in DOMAIN place
      PROVE  At(place[p]) = p
  <2>1. p[1] \in 0 .. image.width - 1 /\ p[2] \in 0 .. image.height - 1 /\ p = <<p[1], p[2]>>
    BY DEF Image!Grid
  <2>2. /\ At(Image!Index(image, p[1], p[2])) = <<p[1], p[2]>>
        /\ Image!Index(image, p[1], p[2]) = (image.width * p[2]) + p[1]
    BY <2>1, IndexIsAt
  <2> QED
    BY <2>1, <2>2
<1>3. ASSUME NEW n \in Image!Cells(image), At(n) \in DOMAIN place
      PROVE  place[At(n)] = n
  BY <1>3, CellIsAt DEF At
<1>4. ASSUME NEW n \in Image!Cells(image)
      PROVE  at(n) = IF At(n) \in DOMAIN place THEN {At(n)} ELSE {}
  <2>1. \A p \in DOMAIN place : place[p] = n => p = At(n)
    BY <1>2
  <2>2. At(n) \in DOMAIN place => place[At(n)] = n
    BY <1>3
  <2> QED
    BY <2>1, <2>2
<1>5. ASSUME NEW n \in Image!Cells(image)
      PROVE  cell(n) = IF At(n) \in DOMAIN place THEN pixel[At(n)] ELSE data[n]
  <2> HIDE DEF at
  <2>1. (CHOOSE p \in {At(n)} : TRUE) = At(n)
    OBVIOUS
  <2>2. CASE At(n) \in DOMAIN place
    <3>1. at(n) = {At(n)}
      BY <1>4, <2>2
    <3> QED
      BY <2>1, <2>2, <3>1
  <2>3. CASE At(n) \notin DOMAIN place
    <3>1. at(n) = {}
      BY <1>4, <2>3
    <3> QED
      BY <2>3, <3>1
  <2> QED
    BY <2>2, <2>3
<1> HIDE DEF cell
<1> QED
  BY <1>1, <1>5 DEF Overrun

(* The clipped positions are some of the image. *)
LEMMA PositionsInGrid ==
    ASSUME Image!ImageAssumption, Image!TypeOK,
           NEW left \in Word32, NEW top \in Word32, NEW across \in Word32, NEW down \in Word32
    PROVE  Image!Positions(left, top, across, down) \subseteq Image!Grid
<1>1. /\ ImageWord \in Nat \ {0}
      /\ image.width \in 0 .. ImageWord - 1 /\ image.height \in 0 .. ImageWord - 1
      /\ left \in 0 .. ImageWord - 1 /\ top \in 0 .. ImageWord - 1
      /\ across \in 0 .. ImageWord - 1 /\ down \in 0 .. ImageWord - 1
  BY ImageTypes DEF Word32
<1>2. ASSUME NEW from \in 0 .. ImageWord - 1, NEW count \in 0 .. ImageWord - 1,
             NEW limit \in 0 .. ImageWord - 1
      PROVE  Image!Span(from, count, limit) \subseteq 0 .. limit - 1
  <2> DEFINE to == (from + count) % ImageWord
  <2>1. to \in 0 .. ImageWord - 1
    BY <1>1
  <2> HIDE DEF to
  <2>2. {i \in from .. to - 1 : i < limit} \subseteq 0 .. limit - 1
    BY <1>1, <2>1
  <2> QED
    BY <2>2 DEF Image!Span, to
<1> QED
  BY <1>1, <1>2 DEF Image!Positions, Image!Grid

LEMMA InsertStep ==
    ASSUME Image!ImageAssumption, ImageIInv,
           NEW left \in Coordinates, NEW top \in Coordinates,
           NEW copyx \in Coordinates, NEW copyy \in Coordinates,
           NEW copywidth \in Coordinates, NEW copyheight \in Coordinates,
           Image!Insert(left, top, copyx, copyy, copywidth, copyheight)
    PROVE  ImageIInv'
<1> DEFINE a == [x |-> left, y |-> top, copyx |-> copyx, copyy |-> copyy,
                 width  |-> IF copywidth = 0 THEN source.width ELSE copywidth,
                 height |-> IF copyheight = 0 THEN source.height ELSE copyheight]
           pixel == [p \in Image!Positions(left, top, a.width, a.height) |->
                        Image!SourceOf(a, p[1], p[2])]
           place == [p \in Image!Positions(left, top, a.width, a.height) |->
                        Image!DestPlace(p)]
<1>1. /\ pc = "call" /\ pc' = "inserted" /\ args' = a /\ Image!Draw(pixel, place)
      /\ image' = image /\ source' = source /\ block' = block
      /\ scrollx' = scrollx /\ scrolly' = scrolly
  BY DEF Image!Insert
<1>2. Coordinates \subseteq Word32
  BY DEF Image!ImageAssumption, Word32
<1>3. source.width \in Word32 /\ source.height \in Word32
  BY ImageTypes DEF ImageIInv
<1>4. /\ data' = [n \in Image!Cells(image) |->
                  IF At(n) \in Image!Positions(a.x, a.y, a.width, a.height)
                  THEN Image!SourceOf(a, At(n)[1], At(n)[2]) ELSE Image!Own(n)]
      /\ overrun' = Overrun(Image!Positions(a.x, a.y, a.width, a.height))
  <2>1. data = [n \in Image!Cells(image) |-> Image!Own(n)] /\ Image!TypeOK
    BY <1>1 DEF ImageIInv
  <2>2. /\ DOMAIN pixel = DOMAIN place
        /\ DOMAIN place = Image!Positions(a.x, a.y, a.width, a.height)
        /\ \A p \in DOMAIN place : place[p] = Image!DestPlace(p)
    OBVIOUS
  <2>3. DOMAIN place \subseteq Image!Grid
    BY <1>2, <1>3, <2>1, PositionsInGrid
  <2>4. \A p \in DOMAIN place : place[p] = (image.width * p[2]) + p[1]
    BY <2>1, <2>2, <2>3, DestPlaceIs
  <2>5. \A p \in DOMAIN place : pixel[p] = Image!SourceOf(a, p[1], p[2])
    OBVIOUS
  <2> HIDE DEF pixel, place, a
  <2>6. /\ data' = [n \in Image!Cells(image) |->
                       IF At(n) \in DOMAIN place THEN pixel[At(n)] ELSE data[n]]
        /\ overrun' = Overrun(DOMAIN place)
    BY <1>1, <2>1, <2>2, <2>3, <2>4, DrawIs
  <2> QED
    BY <2>1, <2>2, <2>5, <2>6
<1>5. Inserted'
  BY <1>1, <1>2, <1>3, <1>4 DEF Inserted, Word32, At, Overrun, Image!Positions, Image!Span,
     Image!SourceOf, Image!SourcePixel, Image!Own
<1>6. Image!TypeOK'
  <2>1. overrun' \in BOOLEAN
    BY <1>4 DEF Overrun
  <2> QED
    BY <1>1, <1>4, <2>1 DEF ImageIInv, Image!TypeOK
<1> QED
  BY <1>1, <1>5, <1>6 DEF ImageIInv

LEMMA FillStep ==
    ASSUME Image!ImageAssumption, ImageIInv,
           NEW left \in Coordinates, NEW top \in Coordinates,
           NEW fwidth \in Coordinates, NEW fheight \in Coordinates,
           Image!Fill(left, top, fwidth, fheight)
    PROVE  ImageIInv'
<1> DEFINE a == [x |-> left, y |-> top, width |-> fwidth, height |-> fheight]
           pixel == [p \in Image!Positions(left, top, fwidth, fheight) |-> <<"color", 0, 0>>]
           place == [p \in Image!Positions(left, top, fwidth, fheight) |->
                        Image!Index(image, p[1], p[2])]
<1>1. /\ pc = "call" /\ pc' = "filled" /\ args' = a /\ Image!Draw(pixel, place)
      /\ image' = image /\ source' = source /\ block' = block
      /\ scrollx' = scrollx /\ scrolly' = scrolly
  BY DEF Image!Fill
<1>2. Coordinates \subseteq Word32
  BY DEF Image!ImageAssumption, Word32
<1>3. /\ data' = [n \in Image!Cells(image) |->
                  IF At(n) \in Image!Positions(a.x, a.y, a.width, a.height)
                  THEN <<"color", 0, 0>> ELSE Image!Own(n)]
      /\ overrun' = Overrun(Image!Positions(a.x, a.y, a.width, a.height))
  <2>1. data = [n \in Image!Cells(image) |-> Image!Own(n)] /\ Image!TypeOK
    BY <1>1 DEF ImageIInv
  <2>2. /\ DOMAIN pixel = DOMAIN place
        /\ DOMAIN place = Image!Positions(a.x, a.y, a.width, a.height)
        /\ \A p \in DOMAIN place : place[p] = Image!Index(image, p[1], p[2])
        /\ \A p \in DOMAIN place : pixel[p] = <<"color", 0, 0>>
    OBVIOUS
  <2>3. DOMAIN place \subseteq Image!Grid
    BY <1>2, <2>1, PositionsInGrid
  <2>4. \A p \in DOMAIN place : place[p] = (image.width * p[2]) + p[1]
    BY <2>1, <2>2, <2>3, IndexIsAt DEF Image!Grid
  <2> HIDE DEF pixel, place, a
  <2>5. /\ data' = [n \in Image!Cells(image) |->
                       IF At(n) \in DOMAIN place THEN pixel[At(n)] ELSE data[n]]
        /\ overrun' = Overrun(DOMAIN place)
    BY <1>1, <2>1, <2>2, <2>3, <2>4, DrawIs
  <2> QED
    BY <2>1, <2>2, <2>5
<1>4. Filled'
  BY <1>1, <1>2, <1>3 DEF Filled, Word32, At, Overrun, Image!Positions, Image!Span, Image!Own
<1>5. Image!TypeOK'
  <2>1. overrun' \in BOOLEAN
    BY <1>3 DEF Overrun
  <2> QED
    BY <1>1, <1>3, <2>1 DEF ImageIInv, Image!TypeOK
<1> QED
  BY <1>1, <1>4, <1>5 DEF ImageIInv

LEMMA ResizeStep ==
    ASSUME Image!ImageAssumption, ImageIInv, Image!Resize
    PROVE  ImageIInv'
<1> DEFINE Pixel(p) == Image!SourcePixel(Image!Sample(p[1], source.width, image.width),
                                         Image!Sample(p[2], source.height, image.height))
           pixel == [p \in Image!Grid |-> Pixel(p)]
           place == [p \in Image!Grid |-> Image!DestPlace(p)]
<1>1. /\ pc = "call" /\ pc' \in {"fault", "resized"}
      /\ image' = image /\ source' = source /\ block' = block
      /\ scrollx' = scrollx /\ scrolly' = scrolly
      /\ IF image.width = 0 \/ image.height = 0
         THEN data' = data /\ overrun' = overrun ELSE Image!Draw(pixel, place)
  BY DEF Image!Resize
<1>5. Image!TypeOK /\ overrun = FALSE
  BY <1>1 DEF ImageIInv
<1>6. /\ Image!Draw(pixel, place) =>
            /\ data' = [n \in Image!Cells(image) |->
                           IF At(n) \in DOMAIN pixel THEN pixel[At(n)] ELSE data[n]]
            /\ overrun' = Overrun(Image!Grid)
      /\ image.width = 0 \/ image.height = 0 => Image!Grid = {}
  <2>1. DOMAIN pixel = DOMAIN place /\ DOMAIN place = Image!Grid
    OBVIOUS
  <2>2. \A p \in DOMAIN place : place[p] = (image.width * p[2]) + p[1]
    BY <1>5, DestPlaceIs
  <2>3. image.width = 0 \/ image.height = 0 => Image!Grid = {}
    BY DEF Image!Grid
  <2> HIDE DEF pixel, place
  <2> QED
    BY <1>5, <2>1, <2>2, <2>3, DrawIs
<1>7. overrun' = Overrun(Image!Grid)
  <2>1. Image!Grid = {} => Overrun(Image!Grid) = FALSE
    BY DEF Overrun
  <2> QED
    BY <1>1, <1>5, <1>6, <2>1
<1>2. DOMAIN data' = Image!Cells(image)
  <2>1. CASE image.width = 0 \/ image.height = 0
    BY <1>1, <2>1 DEF ImageIInv, Image!TypeOK
  <2>2. CASE ~(image.width = 0 \/ image.height = 0)
    BY <1>1, <1>6, <2>2
  <2> QED
    BY <2>1, <2>2
<1>3. Resized'
  <2> SUFFICES ASSUME image.width # 0, image.height # 0
               PROVE  data' = [n \in Image!Cells(image) |-> Pixel(At(n))]
    BY <1>1, <1>7 DEF Resized, At, Overrun, Image!Grid, Image!SourcePixel
  <2>1. data' = [n \in Image!Cells(image) |->
                    IF At(n) \in DOMAIN pixel THEN pixel[At(n)] ELSE data[n]]
    BY <1>1, <1>6
  <2>2. ASSUME NEW n \in Image!Cells(image)
        PROVE  At(n) \in DOMAIN pixel
    BY <1>5, CellIsAt DEF At, Image!Grid
  <2>3. ASSUME NEW n \in Image!Cells(image)
        PROVE  pixel[At(n)] = Pixel(At(n))
    BY <2>2
  <2> HIDE DEF pixel, Pixel
  <2> QED
    BY <2>1, <2>2, <2>3
<1>4. Image!TypeOK'
  <2>1. overrun' \in BOOLEAN
    BY <1>7 DEF Overrun
  <2> QED
    BY <1>1, <1>2, <2>1 DEF ImageIInv, Image!TypeOK
<1> QED
  BY <1>1, <1>3, <1>4 DEF ImageIInv

LEMMA ScrollStarts ==
    ASSUME Image!ImageAssumption, ImageIInv,
           NEW toy \in Coordinates, NEW down \in BOOLEAN,
           NEW tox \in Coordinates, NEW right \in BOOLEAN,
           Image!Scroll(toy, down, tox, right)
    PROVE  ImageIInv'
<1>1. /\ pc' = "scroll" /\ image' = image /\ source' = source /\ data' = data
      /\ block' = block /\ overrun' = overrun
      /\ args' = [x |-> tox, y |-> toy, down |-> down, right |-> right]
      /\ scrolly' = IF down THEN toy ELSE (image.height - toy) % ImageWord
      /\ scrollx' = IF right THEN (image.width - tox) % ImageWord ELSE tox
  BY DEF Image!Scroll
<1>2. Coordinates \subseteq Word32 /\ ImageWord \in Nat \ {0}
  BY DEF Image!ImageAssumption, Word32
<1>3. image.width - tox \in Int /\ image.height - toy \in Int
  <2>1. Word32 \subseteq Int
    BY <1>2 DEF Word32
  <2>2. image.width \in Word32 /\ image.height \in Word32
    BY ImageTypes DEF ImageIInv
  <2>3. image.width \in Int /\ image.height \in Int /\ tox \in Int /\ toy \in Int
    BY <1>2, <2>1, <2>2
  <2> QED
    BY <2>3
<1>4. (image.width - tox) % ImageWord \in Word32 /\ (image.height - toy) % ImageWord \in Word32
  BY <1>2, <1>3, IntRemainder DEF Word32
<1>5. scrollx' \in Word32 /\ scrolly' \in Word32
  BY <1>1, <1>2, <1>4
<1>6. Image!TypeOK'
  BY <1>1, <1>5 DEF ImageIInv, Image!TypeOK, Word32
<1>7. Scrolling'
  <2>1. args'.x = tox /\ args'.y = toy /\ args'.down = down /\ args'.right = right
    BY <1>1
  <2>2. down = TRUE => scrolly' = toy
    BY <1>1
  <2> QED
    BY <1>2, <2>1, <2>2 DEF Scrolling, Word32
<1> QED
  BY <1>1, <1>6, <1>7 DEF ImageIInv

LEMMA ScrollGoesOn ==
    ASSUME Image!ImageAssumption, ImageIInv, Image!ScrollStep
    PROVE  ImageIInv'
<1>1. /\ ImageWord \in Nat \ {0} /\ scrollx \in Int /\ scrolly \in Int
      /\ scrollx \in Word32 /\ scrolly \in Word32 /\ DOMAIN data = Image!Cells(image)
  <2>1. /\ ImageWord \in Nat \ {0}
        /\ scrollx \in 0 .. ImageWord - 1 /\ scrolly \in 0 .. ImageWord - 1
        /\ DOMAIN data = Image!Cells(image)
    BY DEF ImageIInv, Image!TypeOK, Image!ImageAssumption
  <2> QED
    BY <2>1 DEF Word32
<1>2. pc = "scroll" /\ args' = args /\ image' = image /\ source' = source /\ block' = block
  BY DEF Image!ScrollStep, Image!ScrollPixel, Image!ScrollLine, Image!ScrollEnds
<1>3. Scrolling
  BY <1>2 DEF ImageIInv
<1>4. CASE Image!ScrollPixel
  <2>1. scrolly' = scrolly /\ pc' \in {"scroll", "fault"}
        /\ scrollx' = (IF args.right THEN scrollx - 1 ELSE scrollx + 1) % ImageWord
    BY <1>4 DEF Image!ScrollPixel
  <2>2. scrollx' \in Word32
    BY <1>1, <2>1, IntRemainder DEF Word32
  <2>3. DOMAIN data' = Image!Cells(image) /\ overrun' \in BOOLEAN
    BY <1>1, <1>4 DEF Image!ScrollPixel, ImageIInv, Image!TypeOK
  <2>4. Image!TypeOK'
    BY <1>2, <2>1, <2>2, <2>3 DEF ImageIInv, Image!TypeOK, Word32
  <2> QED
    BY <1>2, <1>3, <2>1, <2>4 DEF ImageIInv, Scrolling
<1>5. CASE Image!ScrollLine
  <2>1. /\ pc' = "scroll" /\ data' = data /\ scrollx' = args.x /\ overrun' = overrun
        /\ scrolly' = (IF args.down THEN scrolly + 1 ELSE scrolly - 1) % ImageWord
        /\ args.right = FALSE
    BY <1>3, <1>5 DEF Image!ScrollLine, Image!InLine, Scrolling
  <2>2. scrolly' \in Word32
    BY <1>1, <2>1, IntRemainder DEF Word32
  <2>3. Image!TypeOK' /\ Scrolling'
    BY <1>1, <1>2, <2>1, <2>2 DEF ImageIInv, Image!TypeOK, Word32, Scrolling
  <2> QED
    BY <2>1, <2>3 DEF ImageIInv
<1>6. CASE Image!ScrollEnds
  <2>1. pc' = "scrolled" /\ UNCHANGED <<image, source, block, overrun, data, args,
                                        scrollx, scrolly>>
    BY <1>6 DEF Image!ScrollEnds
  <2>2. args.down = TRUE
    BY <1>3, <1>6 DEF Image!ScrollEnds, Image!InLines, Scrolling
  <2>3. Image!TypeOK' /\ Scrolling' /\ args'.down = TRUE
    BY <1>3, <2>1, <2>2 DEF ImageIInv, Image!TypeOK, Scrolling, Word32
  <2> QED
    BY <2>1, <2>3 DEF ImageIInv
<1> QED
  BY <1>4, <1>5, <1>6 DEF Image!ScrollStep

LEMMA ImageInductive ==
    ASSUME Image!ImageAssumption, ImageIInv, [Image!Next]_(Image!vars)
    PROVE  ImageIInv'
<1>1. CASE UNCHANGED Image!vars
  <2>1. /\ pc' = pc /\ image' = image /\ source' = source /\ block' = block
        /\ overrun' = overrun /\ data' = data /\ args' = args
        /\ scrollx' = scrollx /\ scrolly' = scrolly
    BY <1>1 DEF Image!vars
  <2>2. Image!TypeOK' /\ Scrolling' = Scrolling
    BY <2>1 DEF ImageIInv, Image!TypeOK, Scrolling
  <2>3. pc = "call" => data' = [n \in Image!Cells(image) |-> Image!Own(n)]'
    BY <2>1 DEF ImageIInv, Image!Own
  <2>4. Inserted' = Inserted
    BY <2>1 DEF Inserted, Overrun, At, Image!Positions, Image!Span, Image!SourceOf,
       Image!SourcePixel, Image!Own
  <2>5. Filled' = Filled
    BY <2>1 DEF Filled, Overrun, At, Image!Positions, Image!Span, Image!Own
  <2>6. Resized' = Resized
    BY <2>1 DEF Resized, Overrun, At, Image!Grid, Image!SourcePixel
  <2> QED
    BY <2>1, <2>2, <2>3, <2>4, <2>5, <2>6 DEF ImageIInv
<1>2. CASE Image!Call
  BY <1>2, InsertStep, FillStep, ResizeStep, ScrollStarts DEF Image!Call
<1> QED
  BY <1>1, <1>2, ScrollGoesOn DEF Image!Next

(* What is read of source at a position of it is the pixel there. *)
LEMMA SourceIsAt ==
    ASSUME Image!ImageAssumption, Image!TypeOK,
           NEW px \in 0 .. source.width - 1, NEW py \in 0 .. source.height - 1
    PROVE  Image!SourcePixel(px, py) = <<"source", px, py>>
<1> DEFINE w == source.width
           h == source.height
           n == (py * w + px) % ImageWord
<1>1. w \in Nat /\ h \in Nat /\ w * h < ImageWord /\ ImageWord \in Nat \ {0}
  <2>1. w \in 0 .. ImageWord - 1 /\ h \in 0 .. ImageWord - 1 /\ ImageWord \in Nat \ {0}
        /\ w * h < ImageWord
    BY ImageTypes DEF Word32
  <2> QED
    BY <2>1
<1>2. px \in 0 .. w - 1 /\ py \in 0 .. h - 1
  OBVIOUS
<1>3. Image!SourcePixel(px, py) = IF n \in 0 .. w * h - 1
                                  THEN <<"source", n % w, n \div w>> ELSE Image!Garbage
  BY DEF Image!SourcePixel, Image!Cells
<1> HIDE DEF w, h, n
<1>4. /\ (w * py) + px \in 0 .. (w * h) - 1 /\ w * h \in Nat
      /\ ((w * py) + px) % w = px /\ ((w * py) + px) \div w = py
  BY <1>1, <1>2, GridPlace
<1>5. n = (w * py) + px
  <2>1. py * w + px = (w * py) + px
    BY <1>1, <1>2
  <2>2. (w * py) + px \in Nat /\ (w * py) + px < ImageWord
    BY <1>1, <1>4
  <2> QED
    BY <1>1, <2>1, <2>2, SmallRemainder DEF n
<1> QED
  BY <1>3, <1>4, <1>5

LEMMA Cancel ==
    ASSUME NEW a \in Int, NEW b \in Int, NEW c \in Nat \ {0}, a * c <= b * c
    PROVE  a <= b
<1> SUFFICES ASSUME b + 1 <= a PROVE FALSE
  OBVIOUS
<1>1. (b + 1) * c <= a * c /\ (b + 1) * c = b * c + c
  BY ProductGrows
<1>2. b * c \in Int /\ a * c \in Int
  OBVIOUS
<1> QED
  BY <1>1, <1>2

(* The sample of a place is the pixel at that place of source, rounded     *)
(* down, or up to the reach of the fixed point the one before it.          *)
LEMMA SampleIsNear ==
    ASSUME FixedPoint \in Nat \ {0},
           NEW n \in Nat, NEW from \in Nat \ {0}, NEW to \in Nat \ {0}, n < to
    PROVE  /\ Image!Sample(n, from, to) \in 0 .. from - 1
           /\ n <= FixedPoint =>
                  ((n * from) \div to) - Image!Sample(n, from, to) \in {0, 1}
           /\ from = to => Image!Sample(n, from, to) = n
<1> DEFINE f == FixedPoint
           q == (from * f) \div to
           s == (n * q) \div f
           e == (n * from) \div to
<1>1. f \in Nat \ {0}
  OBVIOUS
<1>2. Image!Sample(n, from, to) = s
  BY DEF Image!Sample
<1>3. from * f \in Nat /\ n * from \in Nat
  BY <1>1
<1>4. /\ q \in Nat /\ to * q <= from * f /\ from * f <= (to * q) + to - 1
      /\ from = to => q = f
  <2>1. /\ q \in Nat /\ (from * f) % to \in 0 .. to - 1
        /\ from * f = (to * q) + ((from * f) % to)
    BY <1>3, Division
  <2>2. to * q \in Nat
    BY <2>1
  <2>3. ASSUME from = to PROVE q = f
    <3>1. (to * f) + 0 = from * f /\ 0 \in 0 .. to - 1
      BY <1>1, <2>3
    <3> QED
      BY <1>1, <3>1, DivisionIsUnique
  <2> HIDE DEF q, f
  <2> QED
    BY <1>3, <2>1, <2>2, <2>3
<1> HIDE DEF q
<1>5. n * q \in Nat
  BY <1>4
<1>6. s \in Nat /\ s * f <= n * q /\ n * q <= (s * f) + f - 1
  <2>1. /\ s \in Nat /\ (n * q) % f \in 0 .. f - 1
        /\ n * q = (f * s) + ((n * q) % f)
    BY <1>1, <1>5, Division
  <2>2. f * s \in Nat /\ f * s = s * f
    BY <1>1, <2>1
  <2> HIDE DEF s, f
  <2> QED
    BY <1>1, <1>5, <2>1, <2>2
<1>7. from = to => s = n
  <2> SUFFICES ASSUME from = to PROVE s = n
    OBVIOUS
  <2>1. (f * n) + 0 = n * q /\ 0 \in 0 .. f - 1
    BY <1>1, <1>4
  <2> QED
    BY <1>1, <2>1, DivisionIsUnique
<1> HIDE DEF s
<1>8. e \in Nat
  BY <1>3, Division
<1>9. e < from
  <2> SUFFICES ASSUME from <= e PROVE FALSE
    BY <1>8
  <2>1. from * to <= n * from
    BY <1>3, HowManyFit
  <2>2. (n + 1) * from <= to * from /\ (n + 1) * from = (n * from) + from
    BY ProductGrows
  <2>3. to * from = from * to /\ from * to \in Nat
    OBVIOUS
  <2> QED
    BY <1>3, <2>1, <2>2, <2>3
<1>10. s <= e
  <2>1. (s * f) * to <= (n * q) * to
    BY <1>1, <1>5, <1>6, ProductGrows
  <2>2. (to * q) * n <= (from * f) * n
    BY <1>3, <1>4, ProductGrows
  <2>3. (n * q) * to = (to * q) * n
    BY <1>4
  <2>4. (from * f) * n = (n * from) * f /\ (s * f) * to = (s * to) * f
    BY <1>1, <1>6
  <2>5. /\ (s * f) * to \in Int /\ (n * q) * to \in Int /\ (from * f) * n \in Int
        /\ s * to \in Int
    BY <1>1, <1>3, <1>4, <1>6
  <2>6. (s * to) * f <= (n * from) * f
    BY <2>1, <2>2, <2>3, <2>4, <2>5
  <2>7. s * to <= n * from
    BY <1>1, <1>3, <2>5, <2>6, Cancel
  <2> QED
    BY <1>3, <1>6, <2>7, HowManyFit
<1>11. ASSUME n <= f
       PROVE  e <= s + 1
  <2> SUFFICES ASSUME s + 2 <= e PROVE FALSE
    BY <1>6, <1>8
  <2>1. (s + 2) * to <= n * from
    <3>1. s + 2 \in Nat /\ n * from \in Nat
      BY <1>3, <1>6
    <3> QED
      BY <3>1, HowManyFit
  <2>2. ((s + 2) * to) * f <= (n * from) * f
    BY <1>1, <1>3, <1>6, <2>1, ProductGrows
  <2>3. (from * f) * n <= ((to * q) + to - 1) * n
    BY <1>3, <1>4, ProductGrows
  <2>4. (n * q) * to <= ((s * f) + f - 1) * to
    BY <1>1, <1>5, <1>6, ProductGrows
  <2>5. n * (to - 1) <= f * (to - 1)
    BY <1>1, <1>11, ProductGrows
  <2>6. /\ (n * from) * f = (from * f) * n
        /\ ((to * q) + to - 1) * n = ((n * q) * to) + (n * (to - 1))
        /\ ((s * f) + f - 1) * to = (((s + 1) * to) * f) - to
        /\ ((s + 2) * to) * f = (((s + 1) * to) * f) + (f * to)
        /\ f * (to - 1) = (f * to) - f
    BY <1>1, <1>4, <1>6
  <2>7. /\ ((s + 1) * to) * f \in Int /\ f * to \in Int /\ (n * q) * to \in Int
        /\ n * (to - 1) \in Int /\ (from * f) * n \in Int
    BY <1>1, <1>3, <1>5, <1>6
  <2> QED
    BY <1>1, <2>2, <2>3, <2>4, <2>5, <2>6, <2>7
<1>12. s \in 0 .. from - 1
  BY <1>6, <1>8, <1>9, <1>10
<1>13. n <= f => e - s \in {0, 1}
  BY <1>6, <1>8, <1>10, <1>11
<1> QED
  BY <1>2, <1>7, <1>12, <1>13

(* The counters of a loop whose sum wraps are none. *)
LEMMA SpanIs ==
    ASSUME ImageWord \in Nat \ {0}, NEW from \in Word32, NEW count \in Word32,
           NEW limit \in Nat
    PROVE  Image!Span(from, count, limit) =
               IF from + count < ImageWord
               THEN {i \in 0 .. limit - 1 : i \in from .. from + count - 1} ELSE {}
<1>1. from \in 0 .. ImageWord - 1 /\ count \in 0 .. ImageWord - 1
  BY DEF Word32
<1>2. CASE from + count < ImageWord
  <2>1. (from + count) % ImageWord = from + count
    BY <1>1, <1>2, SmallRemainder
  <2> QED
    BY <1>1, <1>2, <2>1 DEF Image!Span
<1>3. CASE from + count >= ImageWord
  <2>1. (ImageWord * 1) + (from + count - ImageWord) = from + count
    BY <1>1
  <2>2. from + count - ImageWord \in 0 .. ImageWord - 1
    BY <1>1, <1>3
  <2>3. (from + count) % ImageWord = from + count - ImageWord
    <3> DEFINE r == from + count - ImageWord
    <3>1. r \in 0 .. ImageWord - 1 /\ 1 \in Int
      BY <2>2
    <3> HIDE DEF r
    <3>2. ((ImageWord * 1) + r) % ImageWord = r
      BY <3>1, DivisionIsUnique
    <3> QED
      BY <2>1, <3>2 DEF r
  <2>4. from .. (from + count - ImageWord) - 1 = {}
    BY <1>1
  <2>5. ~(from + count < ImageWord)
    BY <1>1, <1>3
  <2> QED
    BY <2>3, <2>4, <2>5 DEF Image!Span
<1>4. from + count \in Nat
  BY <1>1
<1> QED
  BY <1>2, <1>3, <1>4

RectangleTypes ==
    /\ args.x \in Word32 /\ args.y \in Word32
    /\ args.width \in Word32 /\ args.height \in Word32

LEMMA PositionsAreRectangle ==
    ASSUME Image!ImageAssumption, Image!TypeOK, RectangleTypes
    PROVE  Image!Positions(args.x, args.y, args.width, args.height) = Image!Rectangle
<1>1. ImageWord \in Nat \ {0} /\ image.width \in Nat /\ image.height \in Nat
  <2>1. /\ image.width \in 0 .. ImageWord - 1 /\ image.height \in 0 .. ImageWord - 1
        /\ ImageWord \in Nat \ {0}
    BY ImageTypes DEF Word32
  <2> QED
    BY <2>1
<1>2. /\ Image!Span(args.x, args.width, image.width) =
             IF args.x + args.width < ImageWord
             THEN {i \in 0 .. image.width - 1 : i \in args.x .. args.x + args.width - 1}
             ELSE {}
      /\ Image!Span(args.y, args.height, image.height) =
             IF args.y + args.height < ImageWord
             THEN {i \in 0 .. image.height - 1 : i \in args.y .. args.y + args.height - 1}
             ELSE {}
  BY <1>1, SpanIs DEF RectangleTypes
<1> QED
  BY <1>2 DEF Image!Positions, Image!Rectangle, Image!Grid

LEMMA OutsideIs ==
    ASSUME Image!ImageAssumption, Image!TypeOK, NEW n \in Image!Cells(image)
    PROVE  /\ n \in Image!Outside <=> At(n) \notin Image!Rectangle
           /\ Image!Rectangle \subseteq (0 .. image.width - 1) \X (0 .. image.height - 1)
<1>1. Image!Rectangle \subseteq (0 .. image.width - 1) \X (0 .. image.height - 1)
  BY DEF Image!Rectangle, Image!Grid
<1>2. ASSUME At(n) \in Image!Rectangle
      PROVE  n \notin Image!Outside
  <2>1. /\ n % image.width \in 0 .. image.width - 1
        /\ n \div image.width \in 0 .. image.height - 1
        /\ n = (image.width * (n \div image.width)) + (n % image.width)
    BY CellIsAt
  <2>2. Image!Index(image, n % image.width, n \div image.width) = n
    BY <2>1, IndexIsAt
  <2>3. Image!Index(image, At(n)[1], At(n)[2]) = n
    BY <2>2 DEF At
  <2> QED
    BY <1>2, <2>3 DEF Image!Outside
<1>3. ASSUME n \notin Image!Outside
      PROVE  At(n) \in Image!Rectangle
  <2>1. PICK p \in Image!Rectangle : Image!Index(image, p[1], p[2]) = n
    BY <1>3 DEF Image!Outside
  <2>2. p[1] \in 0 .. image.width - 1 /\ p[2] \in 0 .. image.height - 1
        /\ p = <<p[1], p[2]>>
    BY <1>1
  <2>3. At(n) = <<p[1], p[2]>>
    BY <2>1, <2>2, IndexIsAt
  <2> QED
    BY <2>2, <2>3
<1> QED
  BY <1>1, <1>2, <1>3

LEMMA RectangleIsDrawn ==
    ASSUME Image!ImageAssumption, ImageIInv
    PROVE  Image!DrawsOnlyItsRectangle
<1> SUFFICES ASSUME pc \in {"inserted", "filled"}, NEW n \in Image!Cells(image)
             PROVE  data[n] = Image!Own(n) <=> n \in Image!Outside
  BY DEF Image!DrawsOnlyItsRectangle
<1>1. RectangleTypes /\ Image!TypeOK
  BY DEF ImageIInv, Inserted, Filled, RectangleTypes
<1>2. n \in Image!Outside <=> At(n) \notin Image!Rectangle
  BY <1>1, OutsideIs
<1>3. Image!Own(n) = <<"image", n % image.width, n \div image.width>>
  BY DEF Image!Own
<1>4. CASE pc = "inserted"
  <2>1. data[n] = IF At(n) \in Image!Rectangle
                  THEN Image!SourceOf(args, At(n)[1], At(n)[2]) ELSE Image!Own(n)
    BY <1>1, <1>4, PositionsAreRectangle DEF ImageIInv, Inserted
  <2>2. Image!SourceOf(args, At(n)[1], At(n)[2]) # Image!Own(n)
    <3>1. ASSUME NEW k, NEW m PROVE Image!SourcePixel(k, m) # Image!Own(n)
      BY <1>3 DEF Image!SourcePixel, Image!Garbage
    <3> QED
      BY <3>1 DEF Image!SourceOf
  <2> QED
    BY <1>2, <2>1, <2>2
<1>5. CASE pc = "filled"
  <2>1. data[n] = IF At(n) \in Image!Rectangle THEN <<"color", 0, 0>> ELSE Image!Own(n)
    BY <1>1, <1>5, PositionsAreRectangle DEF ImageIInv, Filled
  <2> QED
    BY <1>2, <1>3, <2>1
<1> QED
  BY <1>4, <1>5

(* And the block is left by what does not fit into it. *)
LEMMA OverrunsOnlyAllocated ==
    ASSUME Image!ImageAssumption, ImageIInv
    PROVE  Image!LeavesOnlyAllocated
<1> DEFINE changed == IF pc = "resized" THEN Image!Grid ELSE Image!Rectangle
           w == image.width
           h == image.height
<1> SUFFICES ASSUME pc \in {"inserted", "filled", "resized"}
             PROVE  overrun <=> block < w * h /\ changed \ {<<0, 0>>} # {}
  BY DEF Image!LeavesOnlyAllocated
<1>1. Image!TypeOK
  BY DEF ImageIInv
<1>2. overrun = Overrun(changed)
  <2>1. CASE pc = "resized"
    BY <2>1 DEF ImageIInv, Resized
  <2>2. CASE pc # "resized"
    <3>1. RectangleTypes /\ overrun = Overrun(Image!Positions(args.x, args.y, args.width,
                                                             args.height))
      BY <2>2 DEF ImageIInv, Inserted, Filled, RectangleTypes
    <3> QED
      BY <1>1, <2>2, <3>1, PositionsAreRectangle
  <2> QED
    BY <2>1, <2>2
<1>3. changed \subseteq (0 .. w - 1) \X (0 .. h - 1)
  BY DEF Image!Rectangle, Image!Grid
<1>4. w \in Nat /\ h \in Nat /\ block \in {1, w * h} /\ w * h \in Nat
  <2>1. w \in 0 .. ImageWord - 1 /\ h \in 0 .. ImageWord - 1 /\ ImageWord \in Nat \ {0}
    BY <1>1, ImageTypes DEF Word32
  <2>2. block \in {1, w * h}
    BY <1>1 DEF Image!TypeOK, Image!Room
  <2> HIDE DEF w, h
  <2> QED
    BY <2>1, <2>2
<1>5. overrun = \E p \in changed : (w * p[2]) + p[1] \notin 0 .. block - 1
  BY <1>2 DEF Overrun
<1> HIDE DEF changed, w, h
<1>6. ASSUME NEW p \in changed
      PROVE  /\ p = <<p[1], p[2]>> /\ (w * p[2]) + p[1] \in 0 .. (w * h) - 1
             /\ (w * p[2]) + p[1] = 0 <=> p = <<0, 0>>
  <2>1. p[1] \in 0 .. w - 1 /\ p[2] \in 0 .. h - 1 /\ p = <<p[1], p[2]>>
    BY <1>3
  <2>2. /\ (w * p[2]) + p[1] \in 0 .. (w * h) - 1
        /\ ((w * p[2]) + p[1]) % w = p[1] /\ ((w * p[2]) + p[1]) \div w = p[2]
    BY <1>4, <2>1, GridPlace
  <2>3. w \in Nat \ {0} /\ 0 % w = 0 /\ 0 \div w = 0 /\ (w * 0) + 0 = 0
    <3>1. w \in Nat \ {0}
      BY <1>4, <2>1
    <3> QED
      BY <3>1
  <2>4. (w * p[2]) + p[1] = 0 => p = <<0, 0>>
    BY <2>1, <2>2, <2>3
  <2>5. p = <<0, 0>> => (w * p[2]) + p[1] = 0
    <3> SUFFICES ASSUME p = <<0, 0>> PROVE (w * p[2]) + p[1] = 0
      OBVIOUS
    <3>1. p[1] = 0 /\ p[2] = 0
      OBVIOUS
    <3> QED
      BY <2>3, <3>1
  <2> QED
    BY <2>1, <2>2, <2>4, <2>5
<1>7. CASE block = w * h
  BY <1>4, <1>5, <1>6, <1>7
<1>8. CASE block = 1 /\ block # w * h
  <2>1. \A p \in changed : (w * p[2]) + p[1] \notin 0 .. block - 1 <=> p # <<0, 0>>
    BY <1>4, <1>6, <1>8
  <2>2. overrun <=> changed \ {<<0, 0>>} # {}
    BY <1>5, <2>1
  <2>3. changed # {} => block < w * h
    BY <1>4, <1>6, <1>8
  <2> QED
    BY <2>2, <2>3
<1> QED
  BY <1>4, <1>7, <1>8

LEMMA SelectionIsInserted ==
    ASSUME Image!ImageAssumption, ImageIInv
    PROVE  Image!InsertsSelection
<1> DEFINE sx(p) == args.copyx + p[1] - args.x
           sy(p) == args.copyy + p[2] - args.y
<1> SUFFICES ASSUME pc = "inserted", NEW p \in Image!Rectangle,
                    Image!Inside(source, sx(p), sy(p))
             PROVE  data[Image!Index(image, p[1], p[2])] = <<"source", sx(p), sy(p)>>
  BY DEF Image!InsertsSelection
<1> DEFINE n == Image!Index(image, p[1], p[2])
<1>1. RectangleTypes /\ Image!TypeOK /\ args.copyx \in Word32 /\ args.copyy \in Word32
  BY DEF ImageIInv, Inserted, RectangleTypes
<1>2. ImageWord \in Nat \ {0}
  BY DEF Image!ImageAssumption
<1>3. /\ p[1] \in 0 .. image.width - 1 /\ p[2] \in 0 .. image.height - 1
      /\ p = <<p[1], p[2]>> /\ p[1] >= args.x /\ p[2] >= args.y
  BY <1>1, <1>2 DEF Image!Rectangle, Image!Grid, RectangleTypes, Word32
<1>4. n \in Image!Cells(image) /\ At(n) = p
  BY <1>1, <1>3, IndexIsAt
<1>5. data[n] = Image!SourceOf(args, p[1], p[2])
  <2>1. data = [m \in Image!Cells(image) |->
                   IF At(m) \in Image!Rectangle
                   THEN Image!SourceOf(args, At(m)[1], At(m)[2]) ELSE Image!Own(m)]
    BY <1>1, PositionsAreRectangle DEF ImageIInv, Inserted
  <2> HIDE DEF n
  <2> QED
    BY <1>4, <2>1
<1>6. sx(p) \in 0 .. source.width - 1 /\ sy(p) \in 0 .. source.height - 1
  <2>1. source.width \in Word32 /\ source.height \in Word32
    BY <1>1, ImageTypes
  <2>2. sx(p) < source.width /\ sy(p) < source.height
    BY DEF Image!Inside
  <2> QED
    BY <1>1, <1>2, <1>3, <2>1, <2>2 DEF RectangleTypes, Word32
<1>7. p[1] - args.x + args.copyx = sx(p) /\ p[2] - args.y + args.copyy = sy(p)
  BY <1>1, <1>2, <1>3 DEF RectangleTypes, Word32
<1> HIDE DEF sx, sy, n
<1>8. Image!SourceOf(args, p[1], p[2]) = Image!SourcePixel(sx(p), sy(p))
  BY <1>7 DEF Image!SourceOf
<1> QED
  BY <1>1, <1>5, <1>6, <1>8, SourceIsAt DEF n

LEMMA ResizingIsNear ==
    ASSUME Image!ImageAssumption, ImageIInv
    PROVE  Image!ResizeIsNear
<1> DEFINE w == image.width
           h == image.height
           sw == source.width
           sh == source.height
           ex(p) == (p[1] * source.width) \div image.width
           ey(p) == (p[2] * source.height) \div image.height
           shown(p) == data[Image!Index(image, p[1], p[2])]
<1> SUFFICES ASSUME pc = "resized", Image!Cells(source) # {},
                    NEW p \in (0 .. image.width - 1) \X (0 .. image.height - 1)
             PROVE  /\ shown(p) # Image!Garbage
                    /\ p[1] <= FixedPoint => ex(p) - shown(p)[2] \in {0, 1}
                    /\ p[2] <= FixedPoint => ey(p) - shown(p)[3] \in {0, 1}
                    /\ source = image => shown(p) = <<"source", p[1], p[2]>>
  BY DEF Image!ResizeIsNear, Image!Grid
<1>1. Image!TypeOK /\ Resized /\ FixedPoint \in Nat \ {0}
  BY ImageTypes DEF ImageIInv
<1>2. w \in Nat /\ h \in Nat /\ sw \in Nat /\ sh \in Nat
  <2>1. /\ w \in 0 .. ImageWord - 1 /\ h \in 0 .. ImageWord - 1
        /\ sw \in 0 .. ImageWord - 1 /\ sh \in 0 .. ImageWord - 1 /\ ImageWord \in Nat
    BY <1>1, ImageTypes DEF Word32
  <2> QED
    BY <2>1
<1>3. p[1] \in 0 .. w - 1 /\ p[2] \in 0 .. h - 1
  OBVIOUS
<1>4. sw # 0 /\ sh # 0
  <2>1. 0 .. (sw * sh) - 1 # {}
    BY DEF Image!Cells
  <2> HIDE DEF sw, sh
  <2> QED
    BY <1>2, <2>1
<1> DEFINE px == p[1]
           py == p[2]
           s == Image!Sample(px, sw, w)
           t == Image!Sample(py, sh, h)
<1>5. shown(p) = Image!SourcePixel(s, t)
  <2> DEFINE n == Image!Index(image, p[1], p[2])
  <2>1. n \in Image!Cells(image) /\ At(n) = <<p[1], p[2]>>
    BY <1>1, IndexIsAt
  <2>2. image.width # 0 /\ image.height # 0
    BY <1>3
  <2>3. data = [m \in Image!Cells(image) |->
                   Image!SourcePixel(Image!Sample(At(m)[1], source.width, image.width),
                                     Image!Sample(At(m)[2], source.height, image.height))]
    BY <1>1, <2>2 DEF Resized
  <2> HIDE DEF n
  <2>4. data[n] = Image!SourcePixel(Image!Sample(At(n)[1], source.width, image.width),
                                    Image!Sample(At(n)[2], source.height, image.height))
    BY <2>1, <2>3
  <2>5. At(n)[1] = p[1] /\ At(n)[2] = p[2]
    BY <2>1
  <2> QED
    BY <2>4, <2>5 DEF n
<1> HIDE DEF px, py
<1>6. px \in 0 .. w - 1 /\ py \in 0 .. h - 1
  BY <1>3 DEF px, py
<1> HIDE DEF w, h, sw, sh
<1>7. /\ s \in 0 .. sw - 1
      /\ px <= FixedPoint => ((px * sw) \div w) - s \in {0, 1}
      /\ sw = w => s = px
  <2>1. px \in Nat /\ px < w /\ w \in Nat \ {0} /\ sw \in Nat \ {0}
    BY <1>2, <1>4, <1>6
  <2> QED
    BY <1>1, <2>1, SampleIsNear
<1>8. /\ t \in 0 .. sh - 1
      /\ py <= FixedPoint => ((py * sh) \div h) - t \in {0, 1}
      /\ sh = h => t = py
  <2>1. py \in Nat /\ py < h /\ h \in Nat \ {0} /\ sh \in Nat \ {0}
    BY <1>2, <1>4, <1>6
  <2> QED
    BY <1>1, <2>1, SampleIsNear
<1> HIDE DEF s, t
<1>9. shown(p) = <<"source", s, t>>
  <2>1. s \in 0 .. source.width - 1 /\ t \in 0 .. source.height - 1
    BY <1>7, <1>8 DEF sw, sh
  <2> QED
    BY <1>1, <1>5, <2>1, SourceIsAt
<1>10. shown(p) # Image!Garbage /\ shown(p)[2] = s /\ shown(p)[3] = t
  BY <1>9 DEF Image!Garbage
<1>11. ex(p) = (px * sw) \div w /\ ey(p) = (py * sh) \div h
  BY DEF px, py, sw, sh, w, h
<1>12. ASSUME source = image
       PROVE  shown(p) = <<"source", p[1], p[2]>>
  <2>1. sw = w /\ sh = h
    BY <1>12 DEF sw, sh, w, h
  <2> QED
    BY <1>7, <1>8, <1>9, <2>1 DEF px, py
<1> HIDE DEF shown, ex, ey
<1>13. p[1] = px /\ p[2] = py
  BY DEF px, py
<1> QED
  BY <1>7, <1>8, <1>10, <1>11, <1>12, <1>13

ImageIsDrawn == part = "image" => ImageIInv

(* insert_image and fill_image draw what was selected into their           *)
(* rectangle and nowhere else, by the places they compute; a resized image *)
(* shows what is near, and nothing from outside of the other one; the      *)
(* block is left only when it is the one pixel of allocate_image(), then   *)
(* by everything but that pixel; and scroll_image() returns only from      *)
(* scrolling down, to the left or over nothing at all.  For images of      *)
(* every size whose pixels a word counts.                                  *)
THEOREM ImagesShowWhatIsDrawn == GraphicsSpec => []ImagesAreDrawn
<1> USE GraphicsAssumption
<1>1. GraphicsInit => ImageIsDrawn
  BY OnePartStarts, ImageInitially DEF ImageIsDrawn
<1>2. ImageIsDrawn /\ [GraphicsNext]_graphicsVars => ImageIsDrawn'
  BY OnePartSteps, ImageInductive DEF ImageIsDrawn
<1>3. ImageIInv => Image!UpNeverReturns
  BY DEF ImageIInv, Scrolling, Image!UpNeverReturns
<1>4. ImageIsDrawn => ImagesAreDrawn
  BY <1>3, RectangleIsDrawn, OverrunsOnlyAllocated, SelectionIsInserted, ResizingIsNear
     DEF ImageIsDrawn, ImagesAreDrawn, ImageIInv
<1> QED
  BY <1>1, <1>2, <1>4, PTL DEF GraphicsSpec

---------------------------------------------------------------------------
(* The coordinates of a pixel of a character, from its index in the block. *)
Across(n) == n % Glyph!RenderWidth
Down(n)   == n \div Glyph!RenderWidth

(* The pixels of the tiles that have been drawn: all lines of tiles above  *)
(* y, and of line y the tiles in front of x.                               *)
DrawnSoFar ==
    {n \in 0 .. Glyph!RenderWidth * Glyph!RenderHeight - 1 :
        \/ Down(n) < y * tile_size
        \/ Down(n) < (y + 1) * tile_size /\ Across(n) < x * tile_size}

GlyphIInv ==
    /\ Glyph!TypeOK
    /\ width # 0 => x < width
    /\ Glyph!Done => x = 0
    /\ drawn = DrawnSoFar
    /\ Cardinality(drawn) = (x + y * width) * tile_size * tile_size

(* The pixels of the tile that is drawn next. *)
Tile == {Glyph!Index(p) : p \in Glyph!Pixels(tile_size)}

LEMMA GlyphTypes ==
    ASSUME Glyph!GlyphAssumption, Glyph!TypeOK
    PROVE  /\ width \in Nat /\ height \in Nat /\ tile_size \in Nat
           /\ x \in 0 .. width /\ y \in 0 .. height
           /\ BlockWord \in Nat \ {0}
           /\ Glyph!DataSize(width, height) \in Nat
           /\ data \in [0 .. Glyph!DataSize(width, height) - 1 -> 0 .. 255]
<1>1. width \in Nat /\ height \in Nat /\ tile_size \in Nat
  BY DEF Glyph!GlyphAssumption, Glyph!TypeOK
<1>2. width * height \in Nat
  BY <1>1
<1>3. Glyph!DataSize(width, height) \in Nat
  BY <1>2 DEF Glyph!DataSize
<1>4. data \in [0 .. Glyph!DataSize(width, height) - 1 -> Bytes] /\ Bytes \subseteq 0 .. 255
  BY DEF Glyph!GlyphAssumption, Glyph!TypeOK
<1>5. data \in [0 .. Glyph!DataSize(width, height) - 1 -> 0 .. 255]
  BY <1>4
<1> QED
  BY <1>1, <1>3, <1>5 DEF Glyph!GlyphAssumption, Glyph!TypeOK

(* A bit is 0 or 1. *)
LEMMA PowerIsPositive ==
    ASSUME NEW k \in 0 .. 7
    PROVE  2 ^ k \in Nat \ {0}
<1>1. /\ 2 ^ 0 = 1 /\ 2 ^ 1 = 2 /\ 2 ^ 2 = 4 /\ 2 ^ 3 = 8
      /\ 2 ^ 4 = 16 /\ 2 ^ 5 = 32 /\ 2 ^ 6 = 64 /\ 2 ^ 7 = 128
  OBVIOUS
<1>2. CASE k = 0
  BY <1>1, <1>2
<1>3. CASE k = 1
  BY <1>1, <1>3
<1>4. CASE k = 2
  BY <1>1, <1>4
<1>5. CASE k = 3
  BY <1>1, <1>5
<1>6. CASE k = 4
  BY <1>1, <1>6
<1>7. CASE k = 5
  BY <1>1, <1>7
<1>8. CASE k = 6
  BY <1>1, <1>8
<1>9. CASE k = 7
  BY <1>1, <1>9
<1> QED
  BY <1>2, <1>3, <1>4, <1>5, <1>6, <1>7, <1>8, <1>9

LEMMA WeightsAre == 2 ^ 0 = 1 /\ 2 ^ 1 = 2 /\ 2 ^ 2 = 4
OBVIOUS

LEMMA BitIsABit ==
    ASSUME Glyph!GlyphAssumption, Glyph!TypeOK,
           NEW n \in Nat, n \div 8 \in 0 .. Glyph!DataSize(width, height) - 1
    PROVE  Glyph!Bit(n) \in 0 .. 1
<1>1. data[n \div 8] \in Nat
  <2>1. data \in [0 .. Glyph!DataSize(width, height) - 1 -> 0 .. 255]
    BY GlyphTypes
  <2>2. data[n \div 8] \in 0 .. 255
    BY <2>1
  <2> QED
    BY <2>2
<1>2. 7 - (n % 8) \in 0 .. 7
  OBVIOUS
<1>3. 2 ^ (7 - (n % 8)) \in Nat \ {0}
  BY <1>2, PowerIsPositive
<1>4. data[n \div 8] \div (2 ^ (7 - (n % 8))) \in Nat
  BY <1>1, <1>3, Division
<1> QED
  BY <1>4 DEF Glyph!Bit

(* Where read3() is in front of a bit, and what it has read.               *)
Reading(n, v) == [base |-> n \div 8, offset |-> n % 8, value |-> v]

(* A round of read3() takes a bit and goes to the next one. *)
LEMMA NextBitIs ==
    ASSUME NEW n \in Nat, NEW v \in Nat, NEW i \in 0 .. 2, Glyph!Bit(n) \in 0 .. 1
    PROVE  Glyph!NextBit(Reading(n, v), i) =
               Reading(n + 1, v + Glyph!Bit(n) * (2 ^ i))
<1>1. /\ (n + 1) \div 8 = IF n % 8 = 7 THEN (n \div 8) + 1 ELSE n \div 8
      /\ (n + 1) % 8 = IF n % 8 = 7 THEN 0 ELSE (n % 8) + 1
  OBVIOUS
<1>2. Glyph!readbit(data[n \div 8], n % 8) = Glyph!Bit(n)
  BY DEF Glyph!readbit, Glyph!Bit
<1> QED
  BY <1>1, <1>2 DEF Glyph!NextBit, Reading

(* read3() is its three bits, wherever they lie. *)
LEMMA Read3Is ==
    ASSUME NEW index \in Nat,
           \A k \in 0 .. 2 : Glyph!Bit((3 * index) + k) \in 0 .. 1
    PROVE  /\ Glyph!read3(index) = Glyph!Bit(3 * index) + (2 * Glyph!Bit((3 * index) + 1))
                                      + (4 * Glyph!Bit((3 * index) + 2))
           /\ Glyph!read3(index) \in 0 .. 7
<1> DEFINE n == 3 * index
           b0 == Glyph!Bit(n)
           b1 == Glyph!Bit(n + 1)
           b2 == Glyph!Bit(n + 2)
<1>1. n \in Nat /\ n + 1 \in Nat /\ n + 2 \in Nat /\ index * 3 = n
  OBVIOUS
<1>2. b0 \in 0 .. 1 /\ b1 \in 0 .. 1 /\ b2 \in 0 .. 1
  <2>1. Glyph!Bit(n + 0) \in 0 .. 1 /\ Glyph!Bit(n + 1) \in 0 .. 1 /\ Glyph!Bit(n + 2) \in 0 .. 1
    OBVIOUS
  <2>2. n + 0 = n
    BY <1>1
  <2> QED
    BY <2>1, <2>2
<1>3. Glyph!read3(index) = Glyph!NextBit(Glyph!NextBit(Glyph!NextBit(Reading(n, 0), 0), 1), 2).value
  BY <1>1 DEF Glyph!read3, Reading
<1> HIDE DEF n
<1>4. Glyph!NextBit(Reading(n, 0), 0) = Reading(n + 1, b0)
  <2>1. Glyph!NextBit(Reading(n, 0), 0) = Reading(n + 1, 0 + b0 * (2 ^ 0))
    BY <1>1, <1>2, NextBitIs
  <2>2. 0 + b0 * (2 ^ 0) = b0
    BY <1>2, WeightsAre
  <2> QED
    BY <2>1, <2>2
<1>5. Glyph!NextBit(Reading(n + 1, b0), 1) = Reading(n + 2, b0 + (2 * b1))
  <2>1. Glyph!NextBit(Reading(n + 1, b0), 1) = Reading((n + 1) + 1, b0 + b1 * (2 ^ 1))
    BY <1>1, <1>2, NextBitIs
  <2>2. b0 + b1 * (2 ^ 1) = b0 + (2 * b1)
    BY <1>2, WeightsAre
  <2>3. (n + 1) + 1 = n + 2
    BY <1>1
  <2> QED
    BY <2>1, <2>2, <2>3
<1>6. Glyph!NextBit(Reading(n + 2, b0 + (2 * b1)), 2).value = b0 + (2 * b1) + (4 * b2)
  <2>1. Glyph!NextBit(Reading(n + 2, b0 + (2 * b1)), 2) = Reading((n + 2) + 1, (b0 + (2 * b1)) + b2 * (2 ^ 2))
    BY <1>1, <1>2, NextBitIs
  <2>2. (b0 + (2 * b1)) + b2 * (2 ^ 2) = b0 + (2 * b1) + (4 * b2)
    BY <1>2, WeightsAre
  <2> QED
    BY <2>1, <2>2 DEF Reading
<1>7. Glyph!read3(index) = b0 + (2 * b1) + (4 * b2)
  BY <1>3, <1>4, <1>5, <1>6
<1>8. b0 + (2 * b1) + (4 * b2) \in 0 .. 7
  BY <1>2
<1> QED
  BY <1>7, <1>8 DEF n

(* The bits of every tile are in the data. *)
LEMMA ReadsBits ==
    ASSUME Glyph!GlyphAssumption, Glyph!TypeOK, x < width, y < height
    PROVE  /\ Glyph!read3(x + y * width) =
                  LET n == 3 * (x + y * width)
                  IN  Glyph!Bit(n) + 2 * Glyph!Bit(n + 1) + 4 * Glyph!Bit(n + 2)
           /\ Glyph!read3(x + y * width) \in 0 .. 7
<1>1. width \in Nat /\ height \in Nat /\ x \in 0 .. width - 1 /\ y \in 0 .. height - 1
  BY GlyphTypes
<1> DEFINE index == (width * y) + x
<1>2. index \in Nat /\ index <= (width * height) - 1 /\ width * height \in Nat
  BY <1>1, GridPlace
<1>3. x + y * width = index
  BY <1>1
<1> HIDE DEF index
<1>4. ASSUME NEW k \in 0 .. 2
      PROVE  Glyph!Bit((3 * index) + k) \in 0 .. 1
  <2>1. (3 * index) + k \in Nat /\ (3 * index) + k <= (3 * (width * height)) - 1
    BY <1>2
  <2>2. Glyph!DataSize(width, height) = ((3 * (width * height)) + 7) \div 8
    BY <1>1, <1>2 DEF Glyph!DataSize
  <2>3. ((3 * index) + k) \div 8 \in 0 .. Glyph!DataSize(width, height) - 1
    BY <1>2, <2>1, <2>2
  <2> QED
    BY <2>1, <2>3, BitIsABit
<1> QED
  BY <1>2, <1>3, <1>4, Read3Is

(* Where a tile of size t is among those of a line or a column. *)
LEMMA InTile ==
    ASSUME NEW n \in Nat, NEW c \in 0 .. n - 1, NEW t \in Nat, NEW p \in 0 .. t - 1
    PROVE  p + (c * t) \in 0 .. (n * t) - 1
<1>1. (c + 1) * t <= n * t /\ n * t \in Int
  BY ProductGrows
<1>2. (c + 1) * t = (c * t) + t /\ c * t \in Nat
  OBVIOUS
<1> QED
  BY <1>1, <1>2

LEMMA BlockSizes ==
    ASSUME Glyph!GlyphAssumption, Glyph!TypeOK
    PROVE  /\ width \in Nat /\ height \in Nat /\ tile_size \in Nat
           /\ x \in Nat /\ y \in Nat /\ x <= width /\ y <= height
           /\ Glyph!RenderWidth \in Nat /\ Glyph!RenderHeight \in Nat
           /\ Glyph!RenderWidth = width * tile_size
           /\ Glyph!RenderHeight = height * tile_size
           /\ Glyph!RenderWidth * Glyph!RenderHeight \in Nat
           /\ x * tile_size \in Nat /\ y * tile_size \in Nat
<1>1. width \in Nat /\ height \in Nat /\ tile_size \in Nat /\ x \in 0 .. width /\ y \in 0 .. height
  BY GlyphTypes
<1>2. /\ width * tile_size \in Nat /\ height * tile_size \in Nat
      /\ x * tile_size \in Nat /\ y * tile_size \in Nat
  BY <1>1
<1>3. Glyph!RenderWidth \in Nat /\ Glyph!RenderHeight \in Nat
  BY <1>2 DEF Glyph!RenderWidth, Glyph!RenderHeight
<1>4. Glyph!RenderWidth * Glyph!RenderHeight \in Nat
  BY <1>3
<1> QED
  BY <1>1, <1>2, <1>3, <1>4 DEF Glyph!RenderWidth, Glyph!RenderHeight

(* A pixel of the tile lies in the block, at its own place. *)
LEMMA TilePixel ==
    ASSUME Glyph!GlyphAssumption, Glyph!TypeOK, x < width, y < height,
           NEW p \in Glyph!Pixels(tile_size)
    PROVE  /\ Glyph!Index(p) \in 0 .. Glyph!RenderWidth * Glyph!RenderHeight - 1
           /\ Across(Glyph!Index(p)) = p[1] + x * tile_size
           /\ Down(Glyph!Index(p)) = p[2] + y * tile_size
<1> DEFINE w == Glyph!RenderWidth
           h == Glyph!RenderHeight
           px == p[1] + x * tile_size
           py == p[2] + y * tile_size
<1>1. p[1] \in 0 .. tile_size - 1 /\ p[2] \in 0 .. tile_size - 1
  BY DEF Glyph!Pixels
<1>2. w \in Nat /\ h \in Nat
  BY BlockSizes
<1>3. px \in 0 .. w - 1
  <2>1. x \in 0 .. width - 1 /\ width \in Nat /\ tile_size \in Nat /\ w = width * tile_size
    BY BlockSizes
  <2> HIDE DEF w
  <2> QED
    BY <1>1, <2>1, InTile
<1>4. py \in 0 .. h - 1
  <2>1. y \in 0 .. height - 1 /\ height \in Nat /\ tile_size \in Nat /\ h = height * tile_size
    BY BlockSizes
  <2> HIDE DEF h
  <2> QED
    BY <1>1, <2>1, InTile
<1> HIDE DEF w, h, px, py
<1>5. /\ (w * py) + px \in 0 .. (w * h) - 1
      /\ ((w * py) + px) % w = px
      /\ ((w * py) + px) \div w = py
  BY <1>2, <1>3, <1>4, GridPlace
<1>6. px + (py * w) = (w * py) + px
  BY <1>2, <1>3, <1>4
<1>7. Glyph!Index(p) = (w * py) + px
  BY <1>6 DEF Glyph!Index, w, px, py
<1> QED
  BY <1>5, <1>7 DEF Across, Down, w, h, px, py

(* And what lies there is one of them. *)
LEMMA TileIs ==
    ASSUME Glyph!GlyphAssumption, Glyph!TypeOK, x < width, y < height
    PROVE  Tile = {n \in 0 .. Glyph!RenderWidth * Glyph!RenderHeight - 1 :
                      /\ Across(n) - (x * tile_size) \in 0 .. tile_size - 1
                      /\ Down(n) - (y * tile_size) \in 0 .. tile_size - 1}
<1> DEFINE w == Glyph!RenderWidth
           h == Glyph!RenderHeight
           dx == x * tile_size
           dy == y * tile_size
<1>1. w \in Nat /\ h \in Nat /\ w * h \in Nat /\ tile_size \in Nat /\ dx \in Nat /\ dy \in Nat
  BY BlockSizes
<1>2. ASSUME NEW p \in Glyph!Pixels(tile_size)
      PROVE  /\ Glyph!Index(p) \in 0 .. w * h - 1
             /\ Across(Glyph!Index(p)) - dx \in 0 .. tile_size - 1
             /\ Down(Glyph!Index(p)) - dy \in 0 .. tile_size - 1
  <2>1. /\ Glyph!Index(p) \in 0 .. w * h - 1
        /\ Across(Glyph!Index(p)) = p[1] + dx
        /\ Down(Glyph!Index(p)) = p[2] + dy
    BY TilePixel
  <2>2. p[1] \in 0 .. tile_size - 1 /\ p[2] \in 0 .. tile_size - 1
    BY DEF Glyph!Pixels
  <2> HIDE DEF dx, dy
  <2> QED
    BY <1>1, <2>1, <2>2
<1>3. ASSUME NEW n \in 0 .. w * h - 1,
             Across(n) - dx \in 0 .. tile_size - 1,
             Down(n) - dy \in 0 .. tile_size - 1
      PROVE  n \in Tile
  <2> DEFINE p == <<Across(n) - dx, Down(n) - dy>>
  <2>1. p \in Glyph!Pixels(tile_size)
    BY <1>3 DEF Glyph!Pixels
  <2>2. n \in Nat /\ w # 0
    BY <1>1
  <2>3. /\ n \div w \in Nat /\ n % w \in 0 .. w - 1 /\ n = (w * (n \div w)) + (n % w)
    <3> HIDE DEF w
    <3> QED
      BY <1>1, <2>2, Division
  <2>4. Glyph!Index(p) = ((Across(n) - dx) + dx) + (((Down(n) - dy) + dy) * w)
    BY DEF Glyph!Index
  <2>5. Glyph!Index(p) = n
    <3>1. Across(n) = n % w /\ Down(n) = n \div w
      BY DEF Across, Down
    <3> HIDE DEF p, w, dx, dy
    <3>2. (Across(n) - dx) + dx = n % w /\ (Down(n) - dy) + dy = n \div w
      BY <1>1, <2>3, <3>1
    <3>3. (n % w) + ((n \div w) * w) = n
      BY <1>1, <2>3
    <3> QED
      BY <2>4, <3>2, <3>3
  <2> QED
    BY <2>1, <2>5 DEF Tile
<1>4. ASSUME NEW n \in Tile
      PROVE  \E p \in Glyph!Pixels(tile_size) : n = Glyph!Index(p)
  BY DEF Tile
<1> HIDE DEF w, h, dx, dy
<1>5. Tile = {n \in 0 .. w * h - 1 : /\ Across(n) - dx \in 0 .. tile_size - 1
                                     /\ Down(n) - dy \in 0 .. tile_size - 1}
  BY <1>2, <1>3, <1>4
<1> QED
  BY <1>5 DEF w, h, dx, dy

(* No two pixels of a tile are one of the block. *)
LEMMA TileSize ==
    ASSUME Glyph!GlyphAssumption, Glyph!TypeOK, x < width, y < height
    PROVE  IsFiniteSet(Tile) /\ Cardinality(Tile) = tile_size * tile_size
<1> DEFINE P == Glyph!Pixels(tile_size)
           f == [p \in P |-> Glyph!Index(p)]
<1>1. tile_size \in Nat /\ x * tile_size \in Nat /\ y * tile_size \in Nat
  BY BlockSizes
<1>2. IsFiniteSet(P) /\ Cardinality(P) = tile_size * tile_size
  <2>1. /\ IsFiniteSet(0 .. tile_size - 1)
        /\ Cardinality(0 .. tile_size - 1) = tile_size
    <3>1. 0 \in Int /\ tile_size - 1 \in Int /\ (0 > tile_size - 1 => tile_size = 0)
      BY <1>1
    <3>2. /\ IsFiniteSet(0 .. tile_size - 1)
          /\ Cardinality(0 .. tile_size - 1) =
                 IF 0 > tile_size - 1 THEN 0 ELSE (tile_size - 1) - 0 + 1
      BY <3>1, FS_Interval
    <3> QED
      BY <1>1, <3>1, <3>2
  <2> QED
    BY <2>1, FS_Product DEF Glyph!Pixels
<1>3. ASSUME NEW p \in P, NEW q \in P, Glyph!Index(p) = Glyph!Index(q)
      PROVE  p = q
  <2>1. p[1] + x * tile_size = q[1] + x * tile_size /\ p[2] + y * tile_size = q[2] + y * tile_size
    BY <1>3, TilePixel
  <2>2. /\ p[1] \in Nat /\ p[2] \in Nat /\ q[1] \in Nat /\ q[2] \in Nat
        /\ p = <<p[1], p[2]>> /\ q = <<q[1], q[2]>>
    BY DEF Glyph!Pixels
  <2>3. p[1] = q[1] /\ p[2] = q[2]
    BY <1>1, <2>1, <2>2
  <2> QED
    BY <2>2, <2>3
<1>4. f \in [P -> Tile] /\ \A n \in Tile : \E p \in P : f[p] = n
  BY DEF Tile
<1>5. \A p, q \in P : f[p] = f[q] => p = q
  BY <1>3
<1>6. f \in Bijection(P, Tile)
  BY <1>4, <1>5 DEF Bijection, Injection, Surjection, IsInjective
<1>7. ExistsBijection(P, Tile)
  BY <1>6 DEF ExistsBijection
<1> HIDE DEF P
<1> QED
  BY <1>2, <1>7, FS_Bijection

LEMMA GlyphInitially ==
    ASSUME Glyph!GlyphAssumption, Glyph!Init
    PROVE  GlyphIInv
<1>1. /\ width \in Widths /\ height \in Heights /\ tile_size \in TileSizes
      /\ x = 0 /\ y = 0 /\ tile = 0 /\ drawn = {} /\ ink = {}
      /\ data \in [0 .. Glyph!DataSize(width, height) - 1 -> Bytes]
  BY DEF Glyph!Init
<1>2. width \in Nat /\ height \in Nat /\ tile_size \in Nat
  BY <1>1 DEF Glyph!GlyphAssumption
<1>3. Glyph!TypeOK
  BY <1>1, <1>2 DEF Glyph!TypeOK
<1>4. DrawnSoFar = {}
  <2> SUFFICES ASSUME NEW n \in DrawnSoFar PROVE FALSE
    OBVIOUS
  <2> DEFINE w == Glyph!RenderWidth
             h == Glyph!RenderHeight
  <2>1. w \in Nat /\ h \in Nat /\ w * h \in Nat
    BY <1>3, BlockSizes
  <2>2. n \in 0 .. w * h - 1 /\ (Down(n) < 0 \/ Across(n) < 0)
    <3>1. 0 * tile_size = 0
      BY <1>2
    <3> QED
      BY <1>1, <3>1 DEF DrawnSoFar
  <2>3. Down(n) = n \div w /\ Across(n) = n % w
    BY DEF Down, Across
  <2> HIDE DEF w, h
  <2>4. n \in Nat /\ w # 0
    BY <2>1, <2>2
  <2>5. n \div w \in Nat /\ n % w \in 0 .. w - 1
    BY <2>1, <2>4, Division
  <2> QED
    BY <2>1, <2>2, <2>3, <2>5
<1>5. (x + y * width) * tile_size * tile_size = 0
  BY <1>1, <1>2
<1> QED
  BY <1>1, <1>2, <1>3, <1>4, <1>5, FS_EmptySet DEF GlyphIInv

(* A tile is drawn behind those that have been, and on none of them. *)
LEMMA TileIsNext ==
    ASSUME Glyph!GlyphAssumption, Glyph!TypeOK, x < width, y < height,
           Glyph!DrawTile
    PROVE  DrawnSoFar' = DrawnSoFar \cup Tile /\ DrawnSoFar \cap Tile = {}
<1> DEFINE w == Glyph!RenderWidth
           h == Glyph!RenderHeight
           t == tile_size
           B == 0 .. w * h - 1
<1>1. /\ w \in Nat /\ h \in Nat /\ w * h \in Nat /\ t \in Nat
      /\ x \in Nat /\ y \in Nat /\ width \in Nat /\ height \in Nat
      /\ w = width * t /\ h = height * t /\ x * t \in Nat /\ y * t \in Nat
  BY BlockSizes
<1>2. /\ (x + 1) * t = (x * t) + t /\ (y + 1) * t = (y * t) + t
      /\ ((y + 1) + 1) * t = (y * t) + t + t /\ 0 * t = 0
  BY <1>1
<1>3. /\ w' = w /\ h' = h /\ t' = t /\ x' = (x + 1) % width
      /\ y' = IF x' = 0 THEN y + 1 ELSE y
  BY DEF Glyph!DrawTile, Glyph!RenderWidth, Glyph!RenderHeight
<1>4. ASSUME NEW n \in B
      PROVE  Across(n) \in Nat /\ Down(n) \in Nat /\ Across(n) < w
  <2>1. Across(n) = n % w /\ Down(n) = n \div w
    BY DEF Across, Down
  <2> HIDE DEF w, h
  <2>2. n \in Nat /\ w # 0
    BY <1>1
  <2> QED
    BY <1>1, <2>1, <2>2, Division
<1>5. IF x + 1 = width THEN x' = 0 /\ y' = y + 1 ELSE x' = x + 1 /\ y' = y
  BY <1>1, <1>3
<1>6. DrawnSoFar' = {n \in B : \/ Down(n) < y' * t
                               \/ Down(n) < (y' + 1) * t /\ Across(n) < x' * t}
  BY <1>3 DEF DrawnSoFar, Down, Across
<1>7. DrawnSoFar = {n \in B : \/ Down(n) < y * t
                              \/ Down(n) < (y + 1) * t /\ Across(n) < x * t}
  BY DEF DrawnSoFar
<1>8. Tile = {n \in B : /\ Across(n) - (x * t) \in 0 .. t - 1
                        /\ Down(n) - (y * t) \in 0 .. t - 1}
  BY TileIs
<1>9. x + 1 = width => (x * t) + t = w
  BY <1>1, <1>2
<1> HIDE DEF w, h, t, B
<1>10. ASSUME NEW n \in B
       PROVE  /\ n \in DrawnSoFar' <=> n \in DrawnSoFar \/ n \in Tile
              /\ ~(n \in DrawnSoFar /\ n \in Tile)
  <2> DEFINE a == Across(n)
             d == Down(n)
             dx == x * t
             dy == y * t
  <2>1. a \in Nat /\ d \in Nat /\ a < w
    BY <1>4
  <2>2. n \in DrawnSoFar <=> d < dy \/ (d < dy + t /\ a < dx)
    BY <1>2, <1>7
  <2>3. n \in Tile <=> a - dx \in 0 .. t - 1 /\ d - dy \in 0 .. t - 1
    BY <1>8
  <2>4. n \in DrawnSoFar' <=>
           \/ x + 1 = width /\ (d < dy + t \/ (d < dy + t + t /\ a < 0))
           \/ x + 1 # width /\ (d < dy \/ (d < dy + t /\ a < dx + t))
    BY <1>2, <1>5, <1>6
  <2>5. dx \in Nat /\ dy \in Nat /\ (x + 1 = width => dx + t = w)
    BY <1>1, <1>9
  <2> HIDE DEF a, d, dx, dy
  <2> QED
    BY <1>1, <2>1, <2>2, <2>3, <2>4, <2>5
<1>11. DrawnSoFar \subseteq B /\ Tile \subseteq B /\ DrawnSoFar' \subseteq B
  BY <1>6, <1>7, <1>8
<1> QED
  BY <1>10, <1>11

LEMMA DrawTileStep ==
    ASSUME Glyph!GlyphAssumption, GlyphIInv, Glyph!DrawTile
    PROVE  GlyphIInv'
<1> DEFINE t == tile_size
<1>1. Glyph!TypeOK /\ x < width /\ y < height
  BY DEF GlyphIInv, Glyph!DrawTile
<1>2. /\ t \in Nat /\ x \in Nat /\ y \in Nat /\ width \in Nat /\ height \in Nat
  BY <1>1, BlockSizes
<1>3. /\ width' = width /\ height' = height /\ t' = t /\ data' = data
      /\ x' = (x + 1) % width
      /\ y' = IF x' = 0 THEN y + 1 ELSE y
      /\ drawn' = drawn \cup Tile
      /\ tile' = Glyph!read3(x + y * width)
  BY DEF Glyph!DrawTile, Tile
<1>4. IF x + 1 = width THEN x' = 0 /\ y' = y + 1 ELSE x' = x + 1 /\ y' = y
  BY <1>1, <1>2, <1>3
<1>5. tile' \in 0 .. 7
  BY <1>1, <1>3, ReadsBits
<1>6. drawn' = DrawnSoFar' /\ drawn \cap Tile = {}
  BY <1>1, <1>3, TileIsNext DEF GlyphIInv
<1>7. ink' \subseteq drawn' /\ drawn' \subseteq Nat
  <2>1. Tile \subseteq Nat
    BY <1>1, TileIs, BlockSizes
  <2>2. ink' \subseteq ink \cup Tile
    BY DEF Glyph!DrawTile, Tile
  <2>3. ink \subseteq drawn /\ drawn \subseteq Nat
    BY <1>1 DEF Glyph!TypeOK
  <2> QED
    BY <1>3, <2>1, <2>2, <2>3
<1>8. Glyph!TypeOK'
  <2>1. x' \in 0 .. width /\ y' \in 0 .. height
    BY <1>1, <1>2, <1>4
  <2>2. Glyph!DataSize(width, height)' = Glyph!DataSize(width, height)
    BY <1>3 DEF Glyph!DataSize
  <2> QED
    BY <1>1, <1>3, <1>5, <1>7, <2>1, <2>2 DEF Glyph!TypeOK
<1>9. Cardinality(drawn') = Cardinality(drawn) + (t * t)
  <2>1. IsFiniteSet(Tile) /\ Cardinality(Tile) = t * t
    BY <1>1, TileSize
  <2>2. IsFiniteSet(drawn)
    <3>1. drawn \subseteq 0 .. Glyph!RenderWidth * Glyph!RenderHeight - 1
      BY DEF GlyphIInv, DrawnSoFar
    <3>2. IsFiniteSet(0 .. Glyph!RenderWidth * Glyph!RenderHeight - 1)
      BY <1>1, BlockSizes, FS_Interval
    <3> QED
      BY <3>1, <3>2, FS_Subset
  <2>3. Cardinality(drawn \cup Tile) =
            Cardinality(drawn) + Cardinality(Tile) - Cardinality({})
    BY <1>6, <2>1, <2>2, FS_Union
  <2>4. Cardinality({}) = 0 /\ Cardinality(drawn) \in Nat
    BY <2>2, FS_EmptySet, FS_CardinalityType
  <2> QED
    BY <1>2, <1>3, <2>1, <2>3, <2>4
<1>10. Cardinality(drawn') = (x' + y' * width) * t * t
  <2>1. Cardinality(drawn) = (x + y * width) * t * t
    BY DEF GlyphIInv
  <2>2. x' + y' * width = (x + y * width) + 1
    BY <1>2, <1>4
  <2> DEFINE k == x + y * width
             s == t * t
  <2>3. k \in Nat /\ s \in Nat
    BY <1>2
  <2>4. k * t * t = k * s /\ (k + 1) * t * t = (k + 1) * s
    BY <1>2
  <2>5. (k + 1) * s = (k * s) + s
    <3> HIDE DEF k, s
    <3> QED
      BY <2>3
  <2> QED
    BY <1>9, <2>1, <2>2, <2>4, <2>5
<1> QED
  BY <1>1, <1>2, <1>3, <1>4, <1>6, <1>8, <1>10 DEF GlyphIInv, Glyph!Done

LEMMA GlyphInductive ==
    ASSUME Glyph!GlyphAssumption, GlyphIInv, [Glyph!Next]_(Glyph!vars)
    PROVE  GlyphIInv'
<1>1. CASE UNCHANGED Glyph!vars
  <2>1. UNCHANGED <<width, height, tile_size, data, x, y, tile, drawn, ink>>
    BY <1>1 DEF Glyph!vars
  <2> QED
    BY <2>1 DEF GlyphIInv, Glyph!TypeOK, Glyph!Done, Glyph!DataSize, DrawnSoFar,
       Across, Down, Glyph!RenderWidth, Glyph!RenderHeight
<1>2. CASE Glyph!DrawTile
  BY <1>2, DrawTileStep
<1> QED
  BY <1>1, <1>2 DEF Glyph!Next

(* When the last tile is drawn, nothing of the block is left.              *)
LEMMA NothingIsLeft ==
    ASSUME Glyph!GlyphAssumption, GlyphIInv, Glyph!Done
    PROVE  drawn = 0 .. Glyph!RenderWidth * Glyph!RenderHeight - 1
<1> DEFINE w == Glyph!RenderWidth
           h == Glyph!RenderHeight
           B == 0 .. w * h - 1
<1>1. Glyph!TypeOK
  BY DEF GlyphIInv
<1>2. /\ w \in Nat /\ h \in Nat /\ w * h \in Nat
      /\ width \in Nat /\ tile_size \in Nat
      /\ w = width * tile_size /\ h = height * tile_size
  BY <1>1, BlockSizes
<1>3. drawn = {n \in B : \/ Down(n) < y * tile_size
                         \/ Down(n) < (y + 1) * tile_size /\ Across(n) < x * tile_size}
  BY DEF GlyphIInv, DrawnSoFar
<1>4. ASSUME NEW n \in B
      PROVE  Down(n) < y * tile_size
  <2>1. Down(n) = n \div w
    BY DEF Down
  <2>2. y = height
    <3>1. w = 0 => w * h = 0
      BY <1>2
    <3>2. width = 0 => w = 0
      BY <1>2
    <3> HIDE DEF w, h
    <3> QED
      BY <1>2, <3>1, <3>2 DEF Glyph!Done
  <2> HIDE DEF w, h
  <2>3. n \in Nat /\ w # 0 /\ n < h * w
    BY <1>2
  <2>4. n \div w \in Nat /\ n = (w * (n \div w)) + (n % w) /\ n % w \in 0 .. w - 1
    BY <1>2, <2>3, Division
  <2>5. ~(h <= n \div w)
    <3> SUFFICES ASSUME h <= n \div w PROVE FALSE
      OBVIOUS
    <3>1. h * w <= (n \div w) * w
      BY <1>2, <2>4, ProductGrows
    <3> QED
      BY <1>2, <2>3, <2>4, <3>1
  <2> QED
    BY <1>2, <2>1, <2>2, <2>4, <2>5
<1> HIDE DEF B
<1>5. drawn = B
  BY <1>3, <1>4
<1> QED
  BY <1>5 DEF B

LEMMA BlockIsOverrun ==
    ASSUME Glyph!GlyphAssumption, GlyphIInv
    PROVE  Glyph!OverrunsWhenItWraps
<1> SUFFICES ASSUME Glyph!Done
             PROVE  drawn \subseteq 0 .. Glyph!Room - 1
                        <=> Glyph!RenderWidth * Glyph!RenderHeight < BlockWord
  BY DEF Glyph!OverrunsWhenItWraps
<1> DEFINE n == Glyph!RenderWidth * Glyph!RenderHeight
<1>1. n \in Nat /\ BlockWord \in Nat \ {0}
  BY BlockSizes, GlyphTypes DEF GlyphIInv
<1>2. drawn = 0 .. n - 1 /\ Glyph!Room = n % BlockWord
  BY NothingIsLeft DEF Glyph!Room
<1> HIDE DEF n
<1>3. CASE n < BlockWord
  BY <1>1, <1>2, <1>3, SmallRemainder DEF n
<1>4. CASE BlockWord <= n
  <2>1. n % BlockWord \in 0 .. BlockWord - 1
    BY <1>1
  <2>2. n - 1 \in drawn /\ ~(n - 1 \in 0 .. (n % BlockWord) - 1)
    BY <1>1, <1>2, <1>4, <2>1
  <2> QED
    BY <1>1, <1>2, <1>4, <2>2 DEF n
<1> QED
  BY <1>1, <1>2, <1>3, <1>4 DEF n

(* What a tile's shapes have to do with each other, for every size. *)
LEMMA ShapesOfEverySize ==
    ASSUME tile_size \in Nat
    PROVE  Glyph!ShapesFit
<1> SUFFICES ASSUME NEW p \in Glyph!Pixels(tile_size)
             PROVE
        LET t     == tile_size
            In(k, q) == Glyph!InShape(k, t, q[1], q[2])
            left  == <<t - 1 - p[1], p[2]>>
            below == <<p[1], t - 1 - p[2]>>
        IN  /\ In(6, p) <=> In(6, left)
            /\ In(6, p) <=> In(6, below)
            /\ In(7, p) <=> ~In(6, p)
            /\ In(2, p) \/ In(5, p)
            /\ In(2, p) /\ In(5, p) <=> p[1] + p[2] = t - 1
            /\ In(3, p) \/ In(4, p)
            /\ In(3, p) /\ In(4, p) <=> p[1] = p[2]
  BY DEF Glyph!ShapesFit
<1> DEFINE t == tile_size
           a == p[1]
           b == p[2]
<1>1. t \in Nat /\ a \in 0 .. t - 1 /\ b \in 0 .. t - 1
  BY DEF Glyph!Pixels
<1> HIDE DEF t, a, b
<1>2. /\ Glyph!Inside(t, a, b) <=> Glyph!Inside(t, t - 1 - a, b)
      /\ Glyph!Inside(t, a, b) <=> Glyph!Inside(t, a, t - 1 - b)
  BY <1>1 DEF Glyph!Inside
<1>3. /\ Glyph!InShape(6, t, a, b) <=> Glyph!Inside(t, a, b)
      /\ Glyph!InShape(6, t, t - 1 - a, b) <=> Glyph!Inside(t, t - 1 - a, b)
      /\ Glyph!InShape(6, t, a, t - 1 - b) <=> Glyph!Inside(t, a, t - 1 - b)
      /\ Glyph!InShape(7, t, a, b) <=> ~Glyph!Inside(t, a, b)
  BY DEF Glyph!InShape
<1>4. /\ Glyph!InShape(2, t, a, b) <=> b >= t - a - 1
      /\ Glyph!InShape(3, t, a, b) <=> b >= a
      /\ Glyph!InShape(4, t, a, b) <=> b <= a
      /\ Glyph!InShape(5, t, a, b) <=> b <= t - a - 1
  BY DEF Glyph!InShape
<1>5. /\ b >= t - a - 1 \/ b <= t - a - 1
      /\ (b >= t - a - 1 /\ b <= t - a - 1) <=> a + b = t - 1
      /\ b >= a \/ b <= a
      /\ (b >= a /\ b <= a) <=> a = b
  BY <1>1
<1> QED
  BY <1>2, <1>3, <1>4, <1>5 DEF t, a, b

(* Glyph counts as the theorems on finite sets do. *)
LEMMA GlyphCounts ==
    ASSUME NEW S
    PROVE  Glyph!Cardinality(S) = Cardinality(S)
BY DEF Glyph!Cardinality, Cardinality

GlyphIsSound == part = "glyph" => GlyphIInv

(* For every size of a character and of its tiles: each tile is made of    *)
(* its own three bits, every pixel of the character is set once, the block *)
(* is too small for exactly those whose size wraps, and the shapes fit.    *)
THEOREM EveryCharacterIsDrawn == GraphicsSpec => CharacterIsDrawn
<1> USE GraphicsAssumption
<1> DEFINE Drawn == part = "glyph" =>
               /\ Glyph!TypeOK
               /\ Glyph!EveryPixelOnce
               /\ Glyph!OverrunsWhenItWraps
               /\ Glyph!ShapesFit
<1>1. GraphicsInit => GlyphIsSound
  BY OnePartStarts, GlyphInitially DEF GlyphIsSound
<1>2. GlyphIsSound /\ [GraphicsNext]_graphicsVars => GlyphIsSound'
  BY OnePartSteps, GlyphInductive DEF GlyphIsSound
<1>3. GlyphIsSound => Drawn
  <2> SUFFICES ASSUME GlyphIInv
               PROVE  /\ Glyph!TypeOK
                      /\ Glyph!EveryPixelOnce
                      /\ Glyph!OverrunsWhenItWraps
                      /\ Glyph!ShapesFit
    BY DEF GlyphIsSound
  <2>1. Glyph!TypeOK
    BY DEF GlyphIInv
  <2>2. Glyph!EveryPixelOnce
    BY GlyphCounts, NothingIsLeft DEF GlyphIInv, Glyph!EveryPixelOnce
  <2>3. tile_size \in Nat
    BY <2>1, BlockSizes
  <2> QED
    BY <2>1, <2>2, <2>3, BlockIsOverrun, ShapesOfEverySize
<1>4. GlyphIsSound /\ [GraphicsNext]_graphicsVars =>
          [part = "glyph" => Glyph!ReadsItsBits]_graphicsVars
  <2> SUFFICES ASSUME GlyphIInv, part = "glyph", GlyphStep
               PROVE  Glyph!ReadsItsBits
    BY DEF GlyphIsSound, GraphicsNext, FontStep, ImageStep, FileStep, ConsoleStep
  <2>1. Glyph!DrawTile
    BY DEF GlyphStep, Glyph!Next
  <2>2. Glyph!TypeOK /\ x < width /\ y < height /\ tile' = Glyph!read3(x + y * width)
    BY <2>1 DEF GlyphIInv, Glyph!DrawTile
  <2> QED
    BY <2>2, ReadsBits DEF Glyph!ReadsItsBits
<1>5. GraphicsSpec => []GlyphIsSound
  BY <1>1, <1>2, PTL DEF GraphicsSpec
<1> QED
  BY <1>2, <1>3, <1>4, <1>5, PTL DEF GraphicsSpec, CharacterIsDrawn

=============================================================================
