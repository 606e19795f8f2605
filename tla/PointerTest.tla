---------------------------- MODULE PointerTest ----------------------------
(***************************************************************************)
(* The command "testpointer" of src/term.c, with what it calls on its way: *)
(* roxus_pointer_get_state() of src/roxus.c and the end of bsod().  It     *)
(* follows a cursor by the movements that the firmware reports, divided by *)
(* the resolution of the device.                                           *)
(***************************************************************************)
EXTENDS Integers, Sequences

CONSTANTS Movements,   \* what a movement may be, an int32_t, in Word
          Resolutions, \* of an axis; 0 when the device does not have it
          Start,       \* where the cursor is at first, 100
          Word,        \* a uint32_t counts modulo this
          LongWord,    \* a uint64_t counts modulo this
          MaxReads     \* bound on the movements that are read in the loop

PointerAssumption ==
    /\ Word \in Nat \ {0} /\ LongWord \in Nat /\ Word <= LongWord
    /\ Movements \subseteq 0 .. Word - 1
    /\ Resolutions \subseteq 0 .. LongWord - 1
    /\ Start \in 0 .. Word - 1
    /\ MaxReads \in Nat

VARIABLES pc,         \* "call", "reset", "bsod", "loop", "ended"; "fault" after
                      \* a null pointer or a division by 0, "overrun" after
                      \* what a store behind a block did
          exists,     \* pointer.exists
          resolution, \* of either axis
          position,   \* roxus_pointer_state, x and y
          status,     \* did the last call of the firmware succeed
          ready,      \* the first movement has been skipped
          cursor,     \* the variables x and y
          read        \* the movements read in the loop

vars == <<pc, exists, resolution, position, status, ready, cursor, read>>

Axis == {"x", "y"}

Movement == [Axis -> Movements]

Signed(n, word) == IF 2 * n < word THEN n ELSE n - word

Init ==
    /\ pc = "call"
    /\ exists \in BOOLEAN
    /\ resolution \in [Axis -> Resolutions]
    /\ position = [a \in Axis |-> 0]
    /\ status = TRUE
    /\ ready = FALSE
    /\ cursor = [a \in Axis |-> Start]
    /\ read = <<>>

(* roxus_pointer_get_state() takes a movement from the firmware, if there  *)
(* is one; without a device pointer.getState is null and is called.        *)
GetState ==
    /\ pc = "call"
    /\ IF exists
       THEN /\ pc' = "reset"
            /\ \/ UNCHANGED position
               \/ \E m \in Movement :
                      position' = [a \in Axis |-> position[a] + Signed(m[a], Word)]
       ELSE pc' = "fault" /\ UNCHANGED position
    /\ UNCHANGED <<exists, resolution, status, ready, cursor, read>>

(* The two pictures of 32 * 32 pixels have room for one each, or are null. *)
Reset ==
    /\ pc = "reset"
    /\ \/ pc' = "bsod" /\ status' \in BOOLEAN
       \/ pc' \in {"fault", "overrun"} /\ UNCHANGED status
    /\ UNCHANGED <<exists, resolution, position, ready, cursor, read>>

(* bsod() shows the status, whatever it is, and returns after a key. *)
PressAnyKey ==
    /\ pc = "bsod"
    /\ pc' = IF status THEN "loop" ELSE "ended"
    /\ UNCHANGED <<exists, resolution, position, status, ready, cursor, read>>

(* getState() has nothing new, and the picture is displayed where it was.  *)
NotReady ==
    /\ pc = "loop"
    /\ status' = FALSE
    /\ UNCHANGED <<pc, exists, resolution, position, ready, cursor, read>>

ReadFails ==
    /\ pc = "loop"
    /\ pc' = "ended"
    /\ status' = FALSE
    /\ UNCHANGED <<exists, resolution, position, ready, cursor, read>>

SkipFirst ==
    /\ pc = "loop" /\ ~ready
    /\ ready' = TRUE
    /\ status' = TRUE
    /\ UNCHANGED <<pc, exists, resolution, position, cursor, read>>

(* An int32_t becomes as wide as the resolution, and unsigned. *)
Extended(m) == Signed(m, Word) % LongWord

(* dx or dy, cut off to 32 bits. *)
Step(m, a) == (Extended(m) \div resolution[a]) % Word

(* Mutant of Move: the step is added, as the names say. *)
MoveBySteps(m) ==
    /\ pc = "loop" /\ ready /\ Len(read) < MaxReads
    /\ status' = TRUE
    /\ IF \E a \in Axis : resolution[a] = 0
       THEN pc' = "fault" /\ UNCHANGED <<cursor, read>>
       ELSE /\ cursor' = [a \in Axis |-> (cursor[a] + Step(m[a], a)) % Word]
            /\ read' = Append(read, m)
            /\ UNCHANGED pc
    /\ UNCHANGED <<exists, resolution, position, ready>>

(* A step is squared before it is added. *)
Move(m) ==
    /\ pc = "loop" /\ ready /\ Len(read) < MaxReads
    /\ status' = TRUE
    /\ IF \E a \in Axis : resolution[a] = 0
       THEN pc' = "fault" /\ UNCHANGED <<cursor, read>>
       ELSE /\ cursor' = [a \in Axis |-> (cursor[a] + Step(m[a], a) * Step(m[a], a)) % Word]
            /\ read' = Append(read, m)
            /\ UNCHANGED pc
    /\ UNCHANGED <<exists, resolution, position, ready>>

Next ==
    \/ GetState \/ Reset \/ PressAnyKey
    \/ NotReady \/ ReadFails \/ SkipFirst
    \/ \E m \in Movement : Move(m)

Spec == Init /\ [][Next]_vars

---------------------------------------------------------------------------
TypeOK ==
    /\ pc \in {"call", "reset", "bsod", "loop", "ended", "fault", "overrun"}
    /\ exists \in BOOLEAN /\ status \in BOOLEAN /\ ready \in BOOLEAN
    /\ resolution \in [Axis -> Resolutions]
    /\ position \in [Axis -> Int]
    /\ cursor \in [Axis -> 0 .. Word - 1]
    /\ read \in UNION {[1 .. n -> Movement] : n \in 0 .. MaxReads}

(* How many units of a resolution a movement is, rounded up when it goes   *)
(* back.                                                                   *)
Distance(m, r) ==
    LET n == Signed(m, Word)
    IN  IF n >= 0 THEN n \div r ELSE (r - n - 1) \div r

(* Where the squares of the distances take the cursor. *)
PlaceAfter(movements, a, r) ==
    LET place[n \in 0 .. Len(movements)] ==
            IF n = 0 THEN Start
            ELSE (place[n - 1] + Distance(movements[n][a], r) * Distance(movements[n][a], r)) % Word
    IN  place[Len(movements)]

(* The cursor has gone the squares of the distances, and never back: both  *)
(* directions of an axis take it the same way.  A movement back over a     *)
(* resolution that is no power of 2 takes it anywhere.                     *)
CursorAddsSquares ==
    \A a \in Axis :
        (resolution[a] > 0 /\ (\/ LongWord % (resolution[a] * Word) = 0
                               \/ \A i \in DOMAIN read : Signed(read[i][a], Word) >= 0)) =>
            cursor[a] = PlaceAfter(read, a, resolution[a])
===========================================================================
