---------------------------- MODULE LineEditor ----------------------------
(***************************************************************************)
(* What the prompt of src/term.c promises: a line is edited, and what is   *)
(* run is that line.  When a device fails the line is cut short, and what  *)
(* is run only begins with it.  LineInput implements this.                 *)
(***************************************************************************)
EXTENDS Naturals, Sequences, SequencesExt

CONSTANTS Length,   \* regular keys are refused from this length on
          Char,     \* what regular keys type
          Special   \* what keys without a character type

VARIABLES state,    \* "idle", "editing", "entered" or "failed"
          line,     \* the line as edited so far
          command   \* the last string handed to command()

Init ==
    /\ state = "idle"
    /\ line = <<>>
    /\ command = <<>>

Prompt ==
    /\ state = "idle"
    /\ state' = "editing"
    /\ UNCHANGED <<line, command>>

Type(c) ==
    /\ state = "editing"
    /\ c \in Char => Len(line) < Length
    /\ line' = Append(line, c)
    /\ UNCHANGED <<state, command>>

Erase ==
    /\ state = "editing"
    /\ line # <<>>
    /\ line' = SubSeq(line, 1, Len(line) - 1)
    /\ UNCHANGED <<state, command>>

Leave ==
    /\ state = "editing"
    /\ state' \in {"entered", "failed"}
    /\ UNCHANGED <<line, command>>

RunLine ==
    /\ \/ state = "entered" /\ command' = line
       \/ state = "failed"  /\ IsPrefix(line, command')
    /\ state' = "idle"
    /\ line' = <<>>

Next ==
    \/ Prompt
    \/ \E c \in Char \cup Special : Type(c)
    \/ Erase
    \/ Leave
    \/ RunLine

Spec == Init /\ [][Next]_<<state, line, command>>
===========================================================================
