-------------------------------- MODULE Font --------------------------------
(***************************************************************************)
(* src/font.c as the commands "font" and "con" use it: loadfont() reads    *)
(* the characters of a file and sorts them by code point, renderfont()     *)
(* makes a picture of each, and getcharacter() finds one by binary search. *)
(*                                                                         *)
(* A character is the number of the place it has in the file, and code     *)
(* gives its code point.  How many characters the file has room for is     *)
(* computed from its size; how many it delivers is up to the firmware.     *)
(***************************************************************************)
EXTENDS Integers

CONSTANTS Code,       \* code points, in the file and asked for
          MaxEntries, \* bound on the characters of a file
          None        \* the null pointer that getcharacter() may return

ASSUME FontAssumption ==
    /\ Code \subseteq Nat
    /\ MaxEntries \in Nat
    /\ None \notin Nat

VARIABLES pc,       \* the loop that runs; "null" when loadfont() failed,
                    \* "hung" in a loop without end, "fault" after a pointer
                    \* that leads nowhere was used, "done" after the command
          total,    \* the variable entries: room in the file
          delivers, \* characters the file really delivers
          code,     \* code points of the characters of the file
          heap,     \* live blocks of the pool
          entries,  \* font->entries
          chars,    \* font->characters
          step, check, key,       \* of the insertion sort
          low, high, asked, found \* of the binary search; found is the
                                  \* place in the table, or None

fileVars == <<total, delivers, code>>
tableVars == <<heap, entries, chars>>
sortVars == <<step, check, key>>
searchVars == <<low, high, asked, found>>
vars == <<pc, fileVars, tableVars, sortVars, searchVars>>

(* Blocks are numbered like the characters, the two others behind them. *)
FontBlock   == MaxEntries
RenderBlock == MaxEntries + 1

Init ==
    /\ pc = "info"
    /\ total \in 0 .. MaxEntries
    /\ delivers \in 0 .. total
    /\ code \in [0 .. total - 1 -> Code]
    /\ heap = {}
    /\ entries = 0
    /\ chars = [i \in {} |-> 0]
    /\ step = 1 /\ check = -1 /\ key = 0
    /\ low = 0 /\ high = -1 /\ asked \in Code /\ found = None

(* getInfo(), the size and the dimensions of the file: any may be wrong.   *)
(* The font is allocated next, and used without a look at the pointer.     *)
ReadDimensions ==
    /\ pc = "info"
    /\ \/ pc' \in {"null", "fault"} /\ UNCHANGED heap
       \/ pc' = "load" /\ heap' = {FontBlock}
    /\ UNCHANGED <<fileVars, entries, chars, sortVars, searchVars>>

(* A character arrives whole: it becomes the last entry of the table. *)
LoadCharacter ==
    /\ pc = "load"
    /\ entries < delivers
    /\ heap' = heap \cup {entries}
    /\ chars' = [i \in 0 .. entries |-> IF i = entries THEN entries ELSE chars[i]]
    /\ entries' = entries + 1
    /\ UNCHANGED <<pc, fileVars, sortVars, searchVars>>

(* malloc() of a character fails, and the null pointer is read into. *)
NoCharacter ==
    /\ pc = "load"
    /\ entries < total
    /\ pc' = "fault"
    /\ UNCHANGED <<fileVars, tableVars, sortVars, searchVars>>

(* Fewer bytes than a character has.  The loop that should free the        *)
(* characters does not count down: with one or more it never ends.  It     *)
(* frees what the entry behind the last one holds, which nobody wrote, so  *)
(* that the firmware may fault first.                                      *)
(* The character that was being read is lost.                              *)
ShortRead ==
    /\ pc = "load"
    /\ entries = delivers
    /\ entries < total
    /\ IF entries > 0
       THEN pc' \in {"hung", "fault"} /\ heap' = heap \cup {entries}
       ELSE pc' = "null" /\ heap' = (heap \cup {entries}) \ {FontBlock}
    /\ UNCHANGED <<fileVars, entries, chars, sortVars, searchVars>>

(* All are read, and the sort starts with the second. *)
StartSort ==
    /\ pc = "load"
    /\ entries = total
    /\ pc' = "sort"
    /\ step' = 1
    /\ UNCHANGED <<fileVars, tableVars, check, key, searchVars>>

TakeKey ==
    /\ pc = "sort"
    /\ step < entries
    /\ key' = chars[step]
    /\ check' = step - 1
    /\ pc' = "shift"
    /\ UNCHANGED <<fileVars, tableVars, step, searchVars>>

(* Mutant of KeyIsBefore: equal ones change places. *)
KeyIsNotBehind == check >= 0 /\ code[key] <= code[chars[check]]

KeyIsBefore == check >= 0 /\ code[key] < code[chars[check]]

Shift ==
    /\ pc = "shift"
    /\ KeyIsBefore
    /\ chars' = [chars EXCEPT ![check + 1] = chars[check]]
    /\ check' = check - 1
    /\ UNCHANGED <<pc, fileVars, heap, entries, step, key, searchVars>>

PlaceKey ==
    /\ pc = "shift"
    /\ ~KeyIsBefore
    /\ chars' = [chars EXCEPT ![check + 1] = key]
    /\ step' = step + 1
    /\ pc' = "sort"
    /\ UNCHANGED <<fileVars, heap, entries, check, key, searchVars>>

(* loadfont() returns and renderfont() allocates the pictures, which are   *)
(* one block here: a null pointer among them is drawn into.                *)
Render ==
    /\ pc = "sort"
    /\ step >= entries
    /\ \/ pc' = "fault" /\ UNCHANGED heap
       \/ pc' = "ready" /\ heap' = heap \cup {RenderBlock}
    /\ UNCHANGED <<fileVars, entries, chars, sortVars, searchVars>>

(* getcharacter() for the next unit of the text. *)
Ask(c) ==
    /\ pc = "ready"
    /\ asked' = c
    /\ low' = 0
    /\ high' = entries - 1
    /\ pc' = "search"
    /\ UNCHANGED <<fileVars, tableVars, sortVars, found>>

Mid == low + (high - low) \div 2

Probe ==
    /\ pc = "search"
    /\ low <= high
    /\ CASE code[chars[Mid]] = asked ->
              found' = Mid /\ pc' = "ready" /\ UNCHANGED <<low, high>>
         [] code[chars[Mid]] < asked ->
              low' = Mid + 1 /\ UNCHANGED <<pc, high, found>>
         [] OTHER ->
              high' = Mid - 1 /\ UNCHANGED <<pc, low, found>>
    /\ UNCHANGED <<fileVars, tableVars, sortVars, asked>>

(* Mutant of Missing: the search ends on the last entry that is left. *)
MissingTooEarly ==
    /\ pc = "search"
    /\ low >= high
    /\ found' = None
    /\ pc' = "ready"
    /\ UNCHANGED <<fileVars, tableVars, sortVars, low, high, asked>>

Missing ==
    /\ pc = "search"
    /\ low > high
    /\ found' = None
    /\ pc' = "ready"
    /\ UNCHANGED <<fileVars, tableVars, sortVars, low, high, asked>>

(* The text is over.  Nothing is released. *)
CommandEnds ==
    /\ pc = "ready"
    /\ pc' = "done"
    /\ UNCHANGED <<fileVars, tableVars, sortVars, searchVars>>

Load == LoadCharacter \/ NoCharacter \/ ShortRead

Sort == StartSort \/ TakeKey \/ Shift \/ PlaceKey

Search == (\E c \in Code : Ask(c)) \/ Probe \/ Missing

Next == ReadDimensions \/ Load \/ Sort \/ Render \/ Search \/ CommandEnds

(* Neither loadfont() nor getcharacter() waits for anyone; how long the    *)
(* text is, the user decides.                                              *)
Spec == Init /\ [][Next]_vars /\ WF_vars(Next /\ pc # "ready")

---------------------------------------------------------------------------
Loaded == pc \in {"ready", "search", "done"}

TypeOK ==
    /\ pc \in {"info", "load", "sort", "shift", "ready", "search",
               "null", "hung", "fault", "done"}
    /\ total \in 0 .. MaxEntries
    /\ delivers \in 0 .. total
    /\ code \in [0 .. total - 1 -> Code]
    /\ heap \subseteq 0 .. RenderBlock
    /\ entries \in 0 .. total
    /\ chars \in [0 .. entries - 1 -> 0 .. total - 1]
    /\ step \in Nat \ {0}
    /\ check \in -1 .. MaxEntries - 1
    /\ key \in 0 .. MaxEntries
    /\ low \in 0 .. MaxEntries
    /\ high \in -1 .. MaxEntries - 1
    /\ asked \in Code
    /\ found \in (0 .. MaxEntries - 1) \cup {None}

(* The order of two characters: by code point, and as in the file where    *)
(* the code points are the same.                                           *)
Before(c, d) == code[c] < code[d] \/ (code[c] = code[d] /\ c < d)

(* What loadfont() returns is the file in order: the table is sorted, has  *)
(* every character once, and the insertion keeps equal ones as they were.  *)
TableIsSorted ==
    Loaded =>
        /\ entries = total
        /\ \A i, j \in 0 .. entries - 1 : i < j => Before(chars[i], chars[j])

(* What the search has excluded so far has not been asked for: everything  *)
(* below low is before it and everything above high is behind it.          *)
SearchExcludes ==
    pc = "search" =>
        /\ \A i \in 0 .. low - 1 : code[chars[i]] < asked
        /\ \A i \in high + 1 .. entries - 1 : code[chars[i]] > asked

(* The answer of getcharacter() is a character with the code point, and    *)
(* null only when the file has none; the empty font, whose last index is   *)
(* an unsigned 0 - 1, included.                                            *)
AnswersRight ==
    [][(pc = "search" /\ pc' = "ready") =>
           IF found' = None
           THEN \A c \in 0 .. total - 1 : code[c] # asked
           ELSE code[chars[found']] = asked]_vars

(* A load that fails at its first character frees the font and loses that  *)
(* character; one that fails before it has nothing to free.                *)
FailedLoadLosesOne == pc = "null" => heap \subseteq {0}

(* loadfont() and what follows come to an end, except for a file that is   *)
(* cut off behind its first character.                                     *)
LoadEnds ==
    (delivers = 0 \/ delivers = total) =>
        <>(pc \in {"null", "fault", "ready"})
===========================================================================
