---------------------------- MODULE AnsiOutput ----------------------------
(***************************************************************************)
(* output() of src/output.c: a string with ANSI escape sequences becomes   *)
(* calls of the firmware's text output.  A call may fail, and output()     *)
(* returns at once.                                                        *)
(*                                                                         *)
(* A string is a sequence of characters, but a number in it is one         *)
(* character, one with a value in Numbers: parseInt reads it as a whole.    *)
(***************************************************************************)
EXTENDS Integers, Sequences

CONSTANTS Strings,        \* the strings that are output
          Numbers,        \* the value of each number in them
          Columns, Rows,  \* of the text mode
          Cursors,        \* where the cursor may be when output() is called,
          Attributes,     \* and what the attribute may be
          TabSize         \* tab_size, 8 in the code

ASSUME AnsiAssumption ==
    /\ Columns \in Nat \ {0}
    /\ Rows \in Nat \ {0}
    /\ TabSize \in Nat \ {0}
    /\ \A s \in Strings : s \in Seq(STRING)
    /\ Numbers \in [DOMAIN Numbers -> Nat]
    /\ Cursors \subseteq (0 .. Columns - 1) \X (0 .. Rows - 1)
    /\ Attributes \subseteq 0 .. 255

VARIABLES given,     \* the string
          at,        \* index of *string
          escaped,   \* as in the code
          buffer,    \* index of *buffer
          status,    \* "unset" before the first call of the firmware, "ok",
                     \* or "returned" when output() has returned
          attribute, \* mode->attribute of the firmware
          cursor,    \* its cursorColumn and cursorRow
          printed    \* the characters printed, a tab as one

outputVars == <<given, at, escaped, buffer, status, attribute, cursor, printed>>

IsNumber(i) == i <= Len(given) /\ given[i] \in DOMAIN Numbers
Is(i, character) == i <= Len(given) /\ given[i] = character

(* parseInt: 0 if there is no number. *)
ParseInt(i) == IF IsNumber(i) THEN Numbers[given[i]] ELSE 0
Behind(i)   == IF IsNumber(i) THEN i + 1 ELSE i

(* EFI colours of the codes that are known. *)
Low  == <<0, 4, 2, 14, 1, 5, 3, 15>>   \* 30 to 37; 39 is 37
High == <<6, 12, 10, 14, 9, 13, 11, 7>> \* 90 to 97
Back == <<0, 4, 2, 6, 1, 5, 3, 7>>     \* 40 to 47 and 100 to 107; 49 is 40

Foreground ==
    [code \in 30 .. 37 \cup {39} \cup 90 .. 97 |->
        IF code = 39 THEN 15 ELSE IF code < 90 THEN Low[code - 29] ELSE High[code - 89]]
Background ==
    [code \in 40 .. 47 \cup {49} \cup 100 .. 107 |->
        IF code = 49 THEN 0 ELSE IF code < 100 THEN Back[code - 39] ELSE Back[code - 99]]

Known == DOMAIN Foreground \cup DOMAIN Background

(* Mutation: a background colour clears the foreground. *)
ColouredAfresh(value, code) ==
    IF code \in DOMAIN Foreground THEN (value \div 16) * 16 + Foreground[code]
    ELSE IF code \in DOMAIN Background THEN Background[code] * 16
    ELSE value

(* The attribute after one code. *)
Coloured(value, code) ==
    IF code \in DOMAIN Foreground THEN (value \div 16) * 16 + Foreground[code]
    ELSE IF code \in DOMAIN Background THEN (value % 16) + Background[code] * 16
    ELSE value

(* The codes of an attribute sequence: from behind the bracket on, as long *)
(* as a semicolon follows.                                                 *)
Codes(first) ==
    LET start[k \in 0 .. Len(given)] ==
            IF k = 0 THEN first ELSE Behind(start[k - 1]) + 1
        last == CHOOSE k \in 0 .. Len(given) :
                    /\ ~Is(Behind(start[k]), ";")
                    /\ \A j \in 0 .. k - 1 : Is(Behind(start[j]), ";")
    IN  [k \in 1 .. last + 1 |-> ParseInt(start[k - 1])]

(* The attribute after the first n of some codes. *)
AfterCodes(codes, n) ==
    LET value[k \in 0 .. n] ==
            IF k = 0 THEN attribute ELSE Coloured(value[k - 1], codes[k])
    IN  value[n]

OutputInit ==
    /\ given \in Strings
    /\ at = 1
    /\ escaped = FALSE
    /\ buffer = 1
    /\ status = "unset"
    /\ attribute \in Attributes
    /\ cursor \in Cursors
    /\ printed = <<>>

Looping == status # "returned" /\ at <= Len(given)
Sequence == Looping /\ escaped /\ given[buffer] = "["

Fail == status' = "returned" /\ UNCHANGED at
GoOn   == status' = "ok" /\ at' = at + 1

(* m: code by code, until a call fails.  When no call was made before, a   *)
(* code that is not known leaves a status nobody has assigned, which may   *)
(* look like a failure too.                                                *)
SetAttributes ==
    /\ Sequence
    /\ given[at] = "m"
    /\ LET codes == Codes(buffer + 1)
       IN  \E n \in 0 .. Len(codes) :
              /\ attribute' = AfterCodes(codes, n)
              /\ IF n = Len(codes)
                 THEN GoOn /\ escaped' = FALSE
                 ELSE /\ codes[n + 1] \in Known \/ (n = 0 /\ status = "unset")
                      /\ Fail
                      /\ UNCHANGED escaped
    /\ UNCHANGED <<given, buffer, cursor, printed>>

(* The firmware takes the column first; the code gives it the row.         *)
Place(row, column) ==
    \/ row \in 0 .. Columns - 1 /\ column \in 0 .. Rows - 1
       /\ cursor' = <<row, column>> /\ GoOn
    \/ UNCHANGED cursor /\ Fail

SetPosition ==
    /\ Sequence
    /\ given[at] \in {"f", "H"}
    /\ LET row    == ParseInt(buffer + 1)
           next   == Behind(buffer + 1)
           column == IF Is(next, ";") THEN ParseInt(next + 1) ELSE 0
       IN  Place(row, column)
    /\ escaped' = (escaped /\ status' = "returned")
    /\ UNCHANGED <<given, buffer, attribute, printed>>

(* Mutation: the sequence ends as the others do. *)
MovePositionEnds ==
    /\ Sequence
    /\ given[at] \in {"A", "B", "C", "D"}
    /\ LET offset == IF buffer + 1 # at THEN ParseInt(buffer + 1) ELSE 1
           column == cursor[1]
           row    == cursor[2]
       IN  CASE given[at] = "A" -> Place(row - offset, column)
             [] given[at] = "B" -> Place(row + offset, column)
             [] given[at] = "C" -> Place(row, column + offset)
             [] given[at] = "D" -> Place(row, column - offset)
    /\ escaped' = FALSE
    /\ UNCHANGED <<given, buffer, attribute, printed>>

(* The sequence does not end here.  A position below 0 is a large unsigned *)
(* one, which no firmware has.                                             *)
MovePosition ==
    /\ Sequence
    /\ given[at] \in {"A", "B", "C", "D"}
    /\ LET offset == IF buffer + 1 # at THEN ParseInt(buffer + 1) ELSE 1
           column == cursor[1]
           row    == cursor[2]
       IN  CASE given[at] = "A" -> Place(row - offset, column)
             [] given[at] = "B" -> Place(row + offset, column)
             [] given[at] = "C" -> Place(row, column + offset)
             [] given[at] = "D" -> Place(row, column - offset)
    /\ UNCHANGED <<given, escaped, buffer, attribute, printed>>

(* Anything else within the sequence. *)
Parameter ==
    /\ Sequence
    /\ given[at] \notin {"m", "f", "H", "A", "B", "C", "D"}
    /\ at' = at + 1
    /\ UNCHANGED <<given, escaped, buffer, status, attribute, cursor, printed>>

(* The character behind the escape is no bracket: c clears the screen, and *)
(* the sequence is over.                                                   *)
ShortEscape ==
    /\ Looping
    /\ escaped
    /\ given[buffer] # "["
    /\ IF given[buffer] = "c"
       THEN \/ GoOn /\ cursor' = <<0, 0>> /\ escaped' = FALSE
            \/ Fail /\ UNCHANGED <<cursor, escaped>>
       ELSE at' = at + 1 /\ escaped' = FALSE /\ UNCHANGED <<status, cursor>>
    /\ UNCHANGED <<given, buffer, attribute, printed>>

Escape ==
    /\ Looping
    /\ ~escaped
    /\ given[at] = "esc"
    /\ escaped' = TRUE
    /\ buffer' = at + 1
    /\ at' = at + 1
    /\ UNCHANGED <<given, status, attribute, cursor, printed>>

(* Where the cursor is n characters on; the last row scrolls. *)
Forward(n) ==
    LET place == cursor[1] + n
        row   == cursor[2] + (place \div Columns)
    IN  <<place % Columns, IF row < Rows THEN row ELSE Rows - 1>>

(* Spaces up to the column before the next stop, and none at that one.     *)
Tab ==
    /\ Looping
    /\ ~escaped
    /\ given[at] = "tab"
    /\ LET spaces == TabSize - 1 - (cursor[1] % TabSize)
       IN  \/ /\ cursor' = Forward(spaces)
              /\ printed' = Append(printed, "tab")
              /\ status' = (IF spaces = 0 THEN status ELSE "ok")
              /\ at' = at + 1
           \/ /\ \E n \in 0 .. spaces - 1 : cursor' = Forward(n)
              /\ Fail
              /\ UNCHANGED printed
    /\ UNCHANGED <<given, escaped, buffer, attribute>>

(* Mutation: the pointer is moved by the other branches only. *)
CharacterStays ==
    /\ Looping
    /\ ~escaped
    /\ given[at] \notin {"esc", "tab"}
    /\ cursor' = Forward(1)
    /\ status' = "ok"
    /\ UNCHANGED <<given, at, escaped, buffer, attribute, printed>>

Character ==
    /\ Looping
    /\ ~escaped
    /\ given[at] \notin {"esc", "tab"}
    /\ \/ cursor' = Forward(1) /\ printed' = Append(printed, given[at]) /\ GoOn
       \/ Fail /\ UNCHANGED <<cursor, printed>>
    /\ UNCHANGED <<given, escaped, buffer, attribute>>

OutputNext ==
    \/ SetAttributes \/ SetPosition \/ MovePosition \/ Parameter
    \/ ShortEscape \/ Escape \/ Tab \/ Character

(* output() waits for nobody. *)
OutputSpec == OutputInit /\ [][OutputNext]_outputVars /\ WF_outputVars(OutputNext)

---------------------------------------------------------------------------
OutputTypeOK ==
    /\ given \in Seq(STRING)
    /\ at \in 1 .. Len(given) + 1
    /\ escaped \in BOOLEAN
    /\ buffer \in 1 .. Len(given) + 1
    /\ status \in {"unset", "ok", "returned"}
    /\ attribute \in 0 .. 255
    /\ cursor \in (0 .. Columns - 1) \X (0 .. Rows - 1)

(* The text of a string: what is not part of a sequence.  A sequence with  *)
(* a bracket is as long as it takes to an m, an f or an H, whatever moves  *)
(* the cursor on the way.                                                  *)
SequenceEnds(i) == {j \in i .. Len(given) : given[j] \in {"m", "f", "H"}}

After(i) == IF SequenceEnds(i) = {} THEN Len(given) + 1
            ELSE 1 + CHOOSE j \in SequenceEnds(i) : \A k \in SequenceEnds(i) : j <= k

Visible ==
    LET n == Len(given)
        text[i \in 1 .. n + 2] ==
            IF i > n THEN <<>>
            ELSE IF given[i] # "esc" THEN <<given[i]>> \o text[i + 1]
            ELSE IF Is(i + 1, "[") THEN text[After(i + 2)]
            ELSE text[i + 2]
    IN  text[1]

(* What is printed is the text, in its order and nothing of a sequence:    *)
(* all of it, unless a call of the firmware fails.                         *)
PrintsTheText ==
    LET text == Visible
    IN  /\ Len(printed) <= Len(text)
        /\ printed = SubSeq(text, 1, Len(printed))
        /\ (status # "returned" /\ at > Len(given)) => printed = text

Latest(set) == CHOOSE k \in set : \A j \in set : j <= k

AttributesEnd == Sequence /\ given[at] = "m" /\ status' # "returned"

(* Of all the codes in a sequence the last foreground decides the          *)
(* foreground and the last background the background; neither touches the  *)
(* other, and what is not named stays.                                     *)
LatestColours ==
    AttributesEnd =>
        LET codes == Codes(buffer + 1)
            those(table) == {k \in DOMAIN codes : codes[k] \in DOMAIN table}
            fore == those(Foreground)
            back == those(Background)
        IN  /\ attribute' % 16 = IF fore = {} THEN attribute % 16
                                 ELSE Foreground[codes[Latest(fore)]]
            /\ attribute' \div 16 = IF back = {} THEN attribute \div 16
                                    ELSE Background[codes[Latest(back)]]

LastColoursWin == [][LatestColours]_outputVars

(* Refuted: "Set Low Intensity Foreground Colors" says the comment on the  *)
(* codes 30 to 39, but 33 and 37 set colours with the bright bit.          *)
LowIntensityIsNotBright ==
    [][(AttributesEnd /\ \A k \in DOMAIN Codes(buffer + 1) :
                            Codes(buffer + 1)[k] \in 30 .. 39) =>
          attribute' % 16 < 8]_outputVars

(* A tab never leaves its line, if a line is a number of tabs: it stops    *)
(* one column before the stop.                                             *)
TabStays ==
    (Columns % TabSize = 0 /\ Looping /\ ~escaped /\ given[at] = "tab") =>
        cursor'[2] = cursor[2] /\ cursor'[1] >= cursor[1]

TabsStayOnTheLine == [][TabStays]_outputVars

(* What colours and tabs do to the text output of the firmware is what     *)
(* output() was asked for, no more.  The sequences that move the cursor    *)
(* are left out: output.c:124 and 153 pass the row where the firmware      *)
(* takes the column.                                                       *)
SequencesTakeEffect == LastColoursWin /\ TabsStayOnTheLine

(* Whatever calls fail, output() of output.c keeps to its string.          *)
OutputIsTheText == OutputTypeOK /\ PrintsTheText

(* output() ends. *)
Ends == <>(status = "returned" \/ at > Len(given))
===========================================================================
