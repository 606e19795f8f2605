----------------------------- MODULE BlueScreen -----------------------------
(***************************************************************************)
(* bsod() of src/bsod.c: it colours the screen, shows the name of a status *)
(* and waits for a key, with a keyboard that may fail and may still hold   *)
(* keys that were typed before.                                            *)
(***************************************************************************)
EXTENDS Naturals

CONSTANTS Names,  \* the codes with a case of their own
          Others, \* codes without one
          Errors, \* the codes with EFI_ERROR_BIT
          MaxKeys \* bound on the keys that wait in the keyboard

BlueScreenAssumption ==
    /\ Names \cap Others = {} /\ Errors \subseteq Names \cup Others
    /\ "error" \notin Names /\ "warning" \notin Names
    /\ MaxKeys \in Nat

VARIABLES pc,        \* the call that is next, or "returned"
          error,     \* the argument, and what is returned
          status,    \* is some bit of the variable set
          failed,    \* the calls of the firmware that failed
          attribute, \* of the firmware
          told,      \* "(Failed To Set Console State)" was printed
          shown,     \* what was printed as the status: a code, "error" for
                     \* "(Unknown Error)", "warning", or "" for nothing yet
          keys       \* keys that the keyboard holds

vars == <<pc, error, status, failed, attribute, told, shown, keys>>

(* status is not initialised. *)
Init ==
    /\ pc = "color"
    /\ error \in Names \cup Others
    /\ status \in BOOLEAN
    /\ failed = {}
    /\ attribute = "white on black"
    /\ told = FALSE
    /\ shown = ""
    /\ keys \in 0 .. MaxKeys

(* A call that sets the colour, or fails and leaves it. *)
SetAttribute(color, call) ==
    \/ attribute' = color /\ UNCHANGED failed
    \/ failed' = failed \cup {call} /\ UNCHANGED attribute

(* Mutant of Accumulated: "status =", which forgets the first call. *)
Overwritten(call) == call \in failed'

(* status |= ... *)
Accumulated(call) == status \/ call \in failed'

SetColor ==
    /\ pc = "color"
    /\ pc' = "clear"
    /\ SetAttribute("white on blue", "color")
    /\ status' = Accumulated("color")
    /\ UNCHANGED <<error, told, shown, keys>>

Clear ==
    /\ pc = "clear"
    /\ pc' = "show"
    /\ failed' \in {failed, failed \cup {"clear"}}
    /\ status' = Accumulated("clear")
    /\ UNCHANGED <<error, attribute, told, shown, keys>>

(* The cases of the switch. *)
Name(code) ==
    IF code \in Names THEN code ELSE IF code \in Errors THEN "error" ELSE "warning"

Show ==
    /\ pc = "show"
    /\ pc' = "key"
    /\ told' = status
    /\ shown' = Name(error)
    /\ UNCHANGED <<error, status, failed, attribute, keys>>

(* readKey() has a key, whenever it was typed. *)
ReadKey ==
    /\ pc = "key" /\ keys > 0
    /\ keys' = keys - 1
    /\ status' = FALSE
    /\ pc' = "restore"
    /\ UNCHANGED <<error, failed, attribute, told, shown>>

(* It has none, or fails: it is called again. *)
NoKey ==
    /\ pc = "key"
    /\ status' = TRUE
    /\ UNCHANGED <<pc, error, failed, attribute, told, shown, keys>>

(* The status of the last two calls is nobody's. *)
Restore ==
    /\ pc = "restore"
    /\ pc' = "returned"
    /\ SetAttribute("white on black", "restore")
    /\ UNCHANGED <<error, status, told, shown, keys>>

(* The user, at any time. *)
Type ==
    /\ pc # "returned"
    /\ keys < MaxKeys
    /\ keys' = keys + 1
    /\ UNCHANGED <<pc, error, status, failed, attribute, told, shown>>

Proceed == SetColor \/ Clear \/ Show \/ Restore

Next == Proceed \/ ReadKey \/ NoKey \/ Type

(* A keyboard that holds a key does not fail for ever. *)
Spec == Init /\ [][Next]_vars /\ WF_vars(Proceed) /\ WF_vars(ReadKey)

---------------------------------------------------------------------------
TypeOK ==
    /\ pc \in {"color", "clear", "show", "key", "restore", "returned"}
    /\ error \in Names \cup Others
    /\ status \in BOOLEAN /\ told \in BOOLEAN
    /\ failed \subseteq {"color", "clear", "restore"}
    /\ attribute \in {"white on black", "white on blue"}
    /\ shown \in Names \cup {"error", "warning", ""}
    /\ keys \in 0 .. MaxKeys

(* A screen that could not be coloured or cleared is announced, although   *)
(* both statuses go into one variable that was never initialised: that may *)
(* announce a failure that was none.                                       *)
FailuresAreTold ==
    pc \in {"key", "restore", "returned"} =>
        (failed \cap {"color", "clear"} # {} => told)

(* The screen is left blue only when it was made blue and the last call    *)
(* failed; whatever happened to the first ones.                            *)
LeavesBlack ==
    (pc = "returned" /\ attribute = "white on blue") =>
        "restore" \in failed /\ "color" \notin failed
===========================================================================
