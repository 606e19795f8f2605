------------------------------ MODULE Strings ------------------------------
(***************************************************************************)
(* src/string.c: itoa(), parseInt() and strcmp(), one call per behaviour.  *)
(* itoa() is called with arrays of a few units, as num[4] in the command   *)
(* "cat"; its second parameter, the base, is unsigned and twice as wide as *)
(* the number, and every division is done in that type.                    *)
(*                                                                         *)
(* A string is the sequence of its units up to and with Nul.  The units    *)
(* are the digits 0 to 35, Minus, Nul and, for any other, Other.           *)
(***************************************************************************)
EXTENDS Integers, Sequences, Functions

CONSTANTS IntWord,  \* an int counts modulo this, 2^32
          LongWord, \* an efi_uint_t counts modulo this, 2^64
          Bases,    \* bases, the caller's constants 10 and 16 among them
          Units,    \* units of the strings that are parsed and compared
          MaxLength, \* bound on the length of one that is parsed
          MaxShort, \* and of those that are compared
          Room,     \* units of the array that itoa() gets, 4 in cat
          MaxUnits  \* a store this far behind its start does no harm

Minus == 36
Nul   == 37
Other == 38

(* Units are uint16_t. *)
CharWord == 65536

StringsAssumption ==
    /\ IntWord \in Nat /\ IntWord % 2 = 0 /\ IntWord > 70
    /\ LongWord \in Nat /\ LongWord % IntWord = 0
    /\ 64 * IntWord <= LongWord /\ CharWord <= LongWord
    /\ Bases \subseteq Nat
    /\ Units \subseteq 0 .. 35 \cup {Minus, Other}
    /\ MaxLength \in Nat /\ MaxShort \in Nat /\ MaxUnits \in Nat
    /\ Room \in 2 .. MaxUnits

VARIABLES pc,     \* the loop that runs, "call", or the call that returned;
                  \* "fault" after a store that does harm
          given,  \* the argument value of itoa()
          base,
          value, tmp_value,
          str,    \* what itoa() has stored, or the string to parse or compare
          str2,   \* the string to compare with
          ptr, ptr1, \* units of str, from 1
          val     \* the result of parseInt() and of strcmp()

vars == <<pc, given, base, value, tmp_value, str, str2, ptr, ptr1, val>>

Int32 == -(IntWord \div 2) .. IntWord \div 2 - 1

String(max) == {Append(s, Nul) : s \in UNION {[1 .. n -> Units] : n \in 0 .. max}}

Signed(n) == LET m == n % IntWord IN IF 2 * m < IntWord THEN m ELSE m - IntWord

Init ==
    /\ pc = "call"
    /\ given = 0 /\ base = 0 /\ value = 0 /\ tmp_value = 0
    /\ str = <<>> /\ str2 = <<>>
    /\ ptr = 1 /\ ptr1 = 1
    /\ val = 0

itoa(n, b) ==
    /\ pc = "call"
    /\ given' = n /\ base' = b /\ value' = n
    /\ IF b \in 2 .. 36 THEN pc' = "digits" /\ str' = <<>>
                        ELSE pc' = "formatted" /\ str' = <<Nul>>
    /\ UNCHANGED <<tmp_value, str2, ptr, ptr1, val>>

(* An int divided by a wider unsigned number, and cut off to an int.       *)
Quotient == Signed((value % LongWord) \div base)

(* The table has the digits on either side of its middle, 35; what lies    *)
(* behind it could be anything.                                            *)
Digit(d) ==
    LET n == (35 + d) % LongWord
    IN  IF n <= 70 THEN IF n < 35 THEN 35 - n ELSE n - 35 ELSE Other

StoreDigit ==
    /\ pc = "digits"
    /\ Len(str) < MaxUnits
    /\ tmp_value' = value
    /\ value' = Quotient
    /\ str' = Append(str, Digit(value - value' * base))
    /\ pc' = IF value' = 0 THEN "sign" ELSE "digits"
    /\ UNCHANGED <<given, base, str2, ptr, ptr1, val>>

StoreTooFar ==
    /\ pc = "digits"
    /\ Len(str) >= MaxUnits
    /\ pc' = "fault"
    /\ UNCHANGED <<given, base, value, tmp_value, str, str2, ptr, ptr1, val>>

(* Mutant of StoreSign: the pointer stays behind the terminator. *)
StoreSignStays ==
    /\ pc = "sign"
    /\ str' = IF tmp_value < 0 THEN str \o <<Minus, Nul>> ELSE Append(str, Nul)
    /\ ptr' = Len(str')
    /\ ptr1' = 1
    /\ pc' = "reverse"
    /\ UNCHANGED <<given, base, value, tmp_value, str2, val>>

StoreSign ==
    /\ pc = "sign"
    /\ str' = IF tmp_value < 0 THEN str \o <<Minus, Nul>> ELSE Append(str, Nul)
    /\ ptr' = Len(str') - 1
    /\ ptr1' = 1
    /\ pc' = "reverse"
    /\ UNCHANGED <<given, base, value, tmp_value, str2, val>>

Swap ==
    /\ pc = "reverse"
    /\ IF ptr1 < ptr
       THEN /\ str' = [str EXCEPT ![ptr] = str[ptr1], ![ptr1] = str[ptr]]
            /\ ptr' = ptr - 1 /\ ptr1' = ptr1 + 1
            /\ UNCHANGED pc
       ELSE pc' = "formatted" /\ UNCHANGED <<str, ptr, ptr1>>
    /\ UNCHANGED <<given, base, value, tmp_value, str2, val>>

parseInt(s) ==
    /\ pc = "call"
    /\ pc' = "parse"
    /\ str' = s
    /\ ptr' = 1 /\ val' = 0
    /\ UNCHANGED <<given, base, value, tmp_value, str2, ptr1>>

ParseDigit ==
    /\ pc = "parse" /\ str[ptr] \in 0 .. 9
    /\ val' = (val * 10 + str[ptr]) % LongWord
    /\ ptr' = ptr + 1
    /\ UNCHANGED <<pc, given, base, value, tmp_value, str, str2, ptr1>>

ParseEnds ==
    /\ pc = "parse" /\ str[ptr] \notin 0 .. 9
    /\ pc' = "parsed"
    /\ UNCHANGED <<given, base, value, tmp_value, str, str2, ptr, ptr1, val>>

strcmp(s, t) ==
    /\ pc = "call"
    /\ pc' = "compare"
    /\ str' = s /\ str2' = t
    /\ ptr' = 1
    /\ UNCHANGED <<given, base, value, tmp_value, ptr1, val>>

(* The loop goes on. *)
Same == str[ptr] # Nul /\ str[ptr] = str2[ptr]

CompareUnit ==
    /\ pc = "compare" /\ Same
    /\ ptr' = ptr + 1
    /\ UNCHANGED <<pc, given, base, value, tmp_value, str, str2, ptr1, val>>

(* The difference is cut off to a unit, which streq() compares with 0. *)
CompareEnds ==
    /\ pc = "compare" /\ ~Same
    /\ val' = (str[ptr] - str2[ptr]) % CharWord
    /\ pc' = "compared"
    /\ UNCHANGED <<given, base, value, tmp_value, str, str2, ptr, ptr1>>

Call ==
    \/ \E n \in Int32, b \in Bases : itoa(n, b)
    \/ \E s \in String(MaxLength) : parseInt(s)
    \/ \E s, t \in String(MaxShort) : strcmp(s, t)

Format == StoreDigit \/ StoreTooFar \/ StoreSign \/ Swap

Next ==
    \/ Call \/ Format
    \/ ParseDigit \/ ParseEnds
    \/ CompareUnit \/ CompareEnds

Spec == Init /\ [][Next]_vars

---------------------------------------------------------------------------
TypeOK ==
    /\ pc \in {"call", "digits", "sign", "reverse", "formatted", "fault",
               "parse", "parsed", "compare", "compared"}
    /\ given \in Int32 /\ base \in Bases \cup {0}
    /\ {value, tmp_value} \subseteq Int32
    /\ Range(str) \cup Range(str2) \subseteq 0 .. Other
    /\ ptr \in 0 .. Len(str) + 1 /\ ptr1 \in 1 .. Len(str) + 1
    /\ val \in 0 .. LongWord - 1

(* What the first n units of a string stand for. *)
Number(s, n, b) ==
    LET number[k \in 0 .. Len(s)] == IF k = 0 THEN 0 ELSE (number[k - 1] * b) + s[k]
    IN  number[n]

Power(b, n) ==
    LET power[k \in 0 .. n] == IF k = 0 THEN 1 ELSE power[k - 1] * b
    IN  power[n]

Formatted == pc = "formatted" /\ base \in 2 .. 36

(* itoa() writes a number that is not negative in the base, with the most  *)
(* significant digit first and none too many.                              *)
WritesTheNumber ==
    (Formatted /\ given >= 0) =>
        LET n == Len(str) - 1
        IN  /\ str[n + 1] = Nul
            /\ \A i \in 1 .. n : str[i] \in 0 .. base - 1
            /\ Number(str, n, base) = given
            /\ str[1] = 0 => n = 1

(* "Apply negative sign" (string.c:52): what itoa() makes of a negative    *)
(* number is the minus sign and its digits, no more units than those.      *)
WritesTheSign ==
    given < 0 =>
        /\ pc # "fault"
        /\ Formatted =>
               LET n == Len(str) - 2
               IN  /\ str[1] = Minus
                   /\ \A i \in 2 .. n + 1 : str[i] \in 0 .. base - 1
                   /\ Number(Tail(str), n, base) = -given

(* The array is left as soon as the number has a digit for each of its     *)
(* units, the last of which the terminator needs.                          *)
FitsBelowPower ==
    (Formatted /\ given >= 0) => (Len(str) <= Room <=> given < Power(base, Room - 1))

(* How many digits a string starts with. *)
Digits(s) ==
    CHOOSE n \in 0 .. Len(s) - 1 : s[n + 1] \notin 0 .. 9 /\ \A i \in 1 .. n : s[i] \in 0 .. 9

(* parseInt() stops behind the last leading digit, and returns the number  *)
(* modulo its width, however long it is.                                   *)
ParsesLeadingDigits ==
    pc = "parsed" =>
        /\ ptr = Digits(str) + 1
        /\ val = Number(str, Digits(str), 10) % LongWord

(* streq() is equality, and reads neither string behind its terminator.    *)
EqualsAreEqual ==
    /\ pc \in {"compare", "compared"} => ptr <= Len(str) /\ ptr <= Len(str2)
    /\ pc = "compared" => (val = 0 <=> str = str2)
===========================================================================
