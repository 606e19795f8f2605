--------------------------- MODULE MCInputOutput ---------------------------
(***************************************************************************)
(* The text console in one run: the prompt of LineInput, one call of       *)
(* output(), or the command ring.  They share no state, and there is one   *)
(* thread: an initial state chooses a part, and only that takes steps.     *)
(***************************************************************************)
EXTENDS LineInput, MCAnsiOutput, RingCommand

VARIABLE part  \* the one that runs

parts == <<part, vars, outputVars, commandVars>>

(* Those that do not run are in one of their initial states. *)
PromptRests  == mem = [n \in Cells |-> Nul]
OutputRests  == given = <<>> /\ cursor = <<0, 0>> /\ attribute = 15
CommandRests == stored = [n \in Slots |-> 0] /\ out = 0

ConsoleInit ==
    /\ Init /\ OutputInit /\ CommandInit
    /\ \/ part = "prompt" /\ OutputRests /\ CommandRests
       \/ part = "output" /\ PromptRests /\ CommandRests
       \/ part = "ring" /\ PromptRests /\ OutputRests

PromptStep  == part = "prompt" /\ Next /\ UNCHANGED <<part, outputVars, commandVars>>
OutputStep  == part = "output" /\ OutputNext /\ UNCHANGED <<part, vars, commandVars>>
CommandStep == part = "ring" /\ CommandNext /\ UNCHANGED <<part, vars, outputVars>>

ConsoleNext == PromptStep \/ OutputStep \/ CommandStep

(* output() and the command wait for nobody; the user may stop typing. *)
ConsoleSpec ==
    /\ ConsoleInit
    /\ [][ConsoleNext]_parts
    /\ WF_outputVars(OutputStep) /\ WF_commandVars(CommandStep)
===========================================================================
